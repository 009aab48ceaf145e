----------------------------- MODULE Connection -----------------------------
(***************************************************************************)
(* One TCP connection (server/src/tcp.rs, serve and serve_connection) from *)
(* accept to the end of its task: handshake, AUTH, bursts of frames, the   *)
(* flush and the read that wait for the peer, and the deadlines on them.   *)
(*                                                                         *)
(* A frame arrives in two parts, its header first; the frame reader hands  *)
(* out whole frames and refuses an oversized one by its header.  Answers   *)
(* are units the socket buffer holds SNDBUF of.  Time passes in ticks, and *)
(* only while the task waits: a task that can go on does so at once, and   *)
(* a timer that is due fires.  Clocks saturate once past what is compared. *)
(***************************************************************************)
EXTENDS Naturals, Sequences, SequencesExt

CONSTANTS AUTH_TIMEOUT, IDLE,   \* Options.idle_timeout, when it is Some
          TLS,                  \* whether a handshake comes first
          RCVBUF, SNDBUF        \* bounds: parts and answers the sockets hold

ASSUME ClockAssumption == /\ AUTH_TIMEOUT \in Nat \ {0} /\ IDLE \in Nat \ {0}
                          /\ TLS \in BOOLEAN /\ RCVBUF \in Nat \ {0} /\ SNDBUF \in Nat \ {0}

(* What the peer may send: AUTH with the right token, a request that fits in
   MAX_AUTH_FRAME, one that only fits in MAX_FRAME, one that fits in neither. *)
Kinds == {"auth", "req", "large", "huge"}

VARIABLES phase,   \* where the task is
          authed,
          rcv,     \* parts sent and not read
          part,    \* the frame the peer has sent only the header of, or "none"
          buf,     \* parts in the FrameReader
          out,     \* answers in the FrameWriter
          snd,     \* answers in the socket buffer, not read by the peer
          left,    \* ticks until the deadline of the wait
          age,     \* ticks since accept
          quiet,   \* ticks since the task last got input
          silent,  \* ticks since the peer last sent anything
          still,   \* ticks since the task last read or wrote anything
          stalled  \* whether a flush of this wait has had to wait for the peer

vars == <<phase, authed, rcv, part, buf, out, snd, left, age, quiet, silent, still, stalled>>
clocks == <<left, age, quiet, silent, still, stalled>>

Over == phase \in {"expired", "refused", "left"}

Init == /\ phase = IF TLS THEN "handshake" ELSE "burst"
        /\ authed = FALSE /\ rcv = <<>> /\ part = "none" /\ buf = <<>> /\ out = 0 /\ snd = 0
        /\ left = AUTH_TIMEOUT /\ age = 0 /\ quiet = 0 /\ silent = 0 /\ still = 0
        /\ stalled = FALSE

-----------------------------------------------------------------------------
(* The peer.                                                                *)

SendHeader(k) ==
    /\ ~Over /\ phase # "handshake" /\ part = "none" /\ Len(rcv) < RCVBUF
    /\ part' = k /\ rcv' = Append(rcv, [of |-> k, last |-> FALSE]) /\ silent' = 0
    /\ UNCHANGED <<phase, authed, buf, out, snd, left, age, quiet, still, stalled>>

SendBody ==
    /\ ~Over /\ part # "none" /\ Len(rcv) < RCVBUF
    /\ part' = "none" /\ rcv' = Append(rcv, [of |-> part, last |-> TRUE]) /\ silent' = 0
    /\ UNCHANGED <<phase, authed, buf, out, snd, left, age, quiet, still, stalled>>

PeerReads ==
    /\ ~Over /\ snd > 0
    /\ snd' = snd - 1
    /\ UNCHANGED <<phase, authed, rcv, part, buf, out, clocks>>

(* The peer hangs up: the read sees the end, the write an error. *)
PeerLeaves ==
    /\ phase \in {"handshake", "flush", "fill", "closing"}
    /\ phase' = "left"
    /\ UNCHANGED <<authed, rcv, part, buf, out, snd, clocks>>

-----------------------------------------------------------------------------
(* serve and serve_connection.                                              *)

(* acceptor.accept, under the AUTH deadline. *)
Handshake ==
    /\ phase = "handshake"
    /\ phase' = "burst" /\ still' = 0
    /\ UNCHANGED <<authed, rcv, part, buf, out, snd, left, age, quiet, silent, stalled>>

(* FrameReader::head: the frame at the head of the buffer is too large. *)
TooLarge(k) == k = "huge" \/ (k = "large" /\ ~authed)

(* next_buffered has nothing more to hand out: at most a header that fits. *)
Drained == \/ buf = <<>>
           \/ Len(buf) = 1 /\ ~TooLarge(buf[1].of)

(* A frame in the buffer: refused by its header, answered, or the wrong thing
   to say before AUTH. *)
Frame ==
    /\ phase = "burst" /\ ~Drained
    /\ LET k == Head(buf).of
           refused == TooLarge(k) \/ (~authed /\ k # "auth")
       IN  /\ out' = out + 1
           /\ authed' = (authed \/ (~refused /\ k = "auth"))
           /\ buf' = IF TooLarge(k) THEN Tail(buf) ELSE Tail(Tail(buf))
           /\ phase' = IF refused THEN "closing" ELSE phase
    /\ UNCHANGED <<rcv, part, snd, clocks>>

(* Mutant of Deadline: the AUTH deadline restarts at every wait, too. *)
DeadlineRestarts == IF authed THEN IDLE ELSE AUTH_TIMEOUT

(* Mutant of Deadline: what is left of the last wait is all there is. *)
DeadlineCarried == IF authed THEN left ELSE AUTH_TIMEOUT - age

(* Until AUTH the deadline is fixed; after it each wait starts afresh. *)
Deadline == IF authed THEN IDLE ELSE AUTH_TIMEOUT - age

Wait ==
    /\ phase = "burst" /\ Drained
    /\ phase' = "flush" /\ left' = Deadline /\ stalled' = FALSE
    /\ UNCHANGED <<authed, rcv, part, buf, out, snd, age, quiet, silent, still>>

(* A write takes what the socket has room for; an empty writer is flushed. *)
Flush ==
    /\ phase \in {"flush", "closing"}
    /\ \/ /\ out > 0 /\ snd < SNDBUF
          /\ out' = out - 1 /\ snd' = snd + 1 /\ still' = 0 /\ UNCHANGED phase
       \/ /\ out = 0
          /\ phase' = IF phase = "flush" THEN "fill" ELSE "refused"
          /\ UNCHANGED <<out, snd, still>>
    /\ UNCHANGED <<authed, rcv, part, buf, left, age, quiet, silent, stalled>>

Fill ==
    /\ phase = "fill" /\ rcv # <<>>
    /\ buf' = buf \o rcv /\ rcv' = <<>> /\ phase' = "burst" /\ quiet' = 0 /\ still' = 0
    /\ UNCHANGED <<authed, part, out, snd, left, age, silent, stalled>>

-----------------------------------------------------------------------------
(* Time.                                                                    *)

(* Mutant of Timed: the flush is not under the clock. *)
TimedReads == phase \in {"handshake", "fill"}

(* The waits that run under a deadline: by(deadline, ...). *)
Timed == phase \in {"handshake", "flush", "fill"}

(* The task has nothing it can do. *)
Blocked == \/ phase = "handshake"
           \/ phase \in {"flush", "closing"} /\ out > 0 /\ snd >= SNDBUF
           \/ phase = "fill" /\ rcv = <<>>

Expire ==
    /\ Timed /\ Blocked /\ left = 0
    /\ phase' = "expired"
    /\ UNCHANGED <<authed, rcv, part, buf, out, snd, clocks>>

Saturate(x, max) == IF x < max THEN x + 1 ELSE x

Tick ==
    /\ Blocked /\ ~(Timed /\ left = 0)
    /\ left' = IF left > 0 THEN left - 1 ELSE 0
    /\ age' = Saturate(age, AUTH_TIMEOUT + 1)
    /\ quiet' = Saturate(quiet, IDLE + 1)
    /\ silent' = Saturate(silent, IDLE + 1)
    /\ still' = Saturate(still, IDLE + 1)
    /\ stalled' = (stalled \/ phase \in {"flush", "closing"})
    /\ UNCHANGED <<phase, authed, rcv, part, buf, out, snd>>

Next == \/ \E k \in Kinds : SendHeader(k)
        \/ SendBody \/ PeerReads \/ PeerLeaves
        \/ Handshake \/ Frame \/ Wait \/ Flush \/ Fill \/ Expire \/ Tick

Spec == Init /\ [][Next]_vars

-----------------------------------------------------------------------------
Phases == {"handshake", "burst", "flush", "fill", "closing", "expired", "refused", "left"}
Part == [of : Kinds, last : BOOLEAN]

TypeOK ==
    /\ rcv \in Seq(Part) /\ buf \in Seq(Part) /\ part \in Kinds \cup {"none"}
    /\ phase \in Phases /\ authed \in BOOLEAN /\ stalled \in BOOLEAN
    /\ out \in Nat /\ snd \in Nat /\ left \in Nat
    /\ age \in Nat /\ quiet \in Nat /\ silent \in Nat /\ still \in Nat

(* AUTH_TIMEOUT is a "hard cap from accept to a successful AUTH": partial
   frames, a handshake, answers not read do not move it, so a peer that has
   not authenticated holds its slot no longer than that. *)
AuthCap == ~authed /\ ~Over => age <= AUTH_TIMEOUT

(* After AUTH a connection that sends nothing is over within the idle timeout
   of its last input, whether or not it reads its answers. *)
IdleBound == authed /\ Timed => quiet <= IDLE

(* "Close a connection that sends nothing for this long": the idle deadline
   ends an authenticated connection only if it has sent nothing for the whole
   timeout, or has left answers unread.  A client that pings more often than
   that stays connected. *)
KeepaliveEnough == phase = "expired" /\ authed /\ ~stalled => silent >= IDLE

(* tcp.rs: "The flush is under the same clock: a peer that stops reading
   would otherwise park this task (and its connection slot) forever."  So a
   connection that sends nothing is over within the idle timeout on every
   path. *)
SlotFreed == authed /\ ~Over => quiet <= IDLE

(* tcp.rs: "a peer only has to move something within each idle window, not
   finish a request".  So a connection that read or wrote something within
   the last idle window is not closed. *)
MovingPeerKept == phase = "expired" /\ authed => still >= IDLE
=============================================================================
