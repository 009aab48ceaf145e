----------------------------- MODULE TsTransport -----------------------------
(***************************************************************************)
(* The TypeScript client's TCP transport (client-ts/src/transport/tcp.ts): *)
(* calls pipelined onto one socket, a lost socket reconnected by the next  *)
(* call, the calls it carried re-issued once.                              *)
(*                                                                         *)
(* JavaScript runs one callback at a time, so a synchronous function is an *)
(* operator from the transport's state to the state it leaves.  What a     *)
(* promise does next is a microtask, and the microtasks run before the     *)
(* next event of the event loop; calls may be issued from either.          *)
(***************************************************************************)
EXTENDS Naturals, Sequences, SequencesExt, FiniteSets

CONSTANTS Calls,  \* the calls made, each a `request`
          LINKS,  \* bound: sockets opened after the first
          PINGS   \* bound: heartbeats

VARIABLE s  \* TcpTransport, its Link and socket, and the calls' promises

None == "none"
Auth == "auth"
Ping == "ping"

Init ==
    s = [dead |-> None,                        \* TcpTransport.dead
         link |-> TRUE,                        \* TcpTransport.link is the current Link
         attempt |-> None,                     \* "backoff" or "opening"
         waiting |-> <<>>,                     \* calls that wait on the attempt
         notBefore |-> FALSE,                  \* the backoff has not passed
         sock |-> "up",                        \* the Link's socket: "connecting", "up" or "lost"
         pending |-> <<>>, outbox |-> <<>>,    \* Link.pending, Link.outbox
         scheduled |-> FALSE,                  \* Link.flushScheduled
         micro |-> <<>>,                       \* promise continuations due
         retry |-> [c \in Calls |-> TRUE],     \* Pending.retry
         res |-> [c \in Calls |-> "new"],      \* what the call's promise became
         wire |-> <<>>,                        \* frames written and not answered
         writes |-> [c \in Calls |-> 0],       \* history: times the frame was written
         opened |-> 0, pinged |-> 0]

Then(t, task, of) == [t EXCEPT !.micro = Append(@, [task |-> task, of |-> of])]

(* Settling a Pending: AUTH's outcome continues the open, a heartbeat's is
   nobody's business. *)
reject(t, p, err) ==
    CASE p = Auth -> Then(t, "open_fails", err)
      [] p = Ping -> t
      [] OTHER -> [t EXCEPT !.res[p] = err]

resolve(t, p, reply) ==
    CASE p = Auth -> Then(t, "opened", None)
      [] p = Ping -> t
      [] OTHER -> [t EXCEPT !.res[p] = reply]

send(t, p) ==
    [t EXCEPT !.pending = Append(@, p), !.outbox = Append(@, p), !.scheduled = TRUE]

open(t) ==
    [t EXCEPT !.attempt = "opening", !.sock = "connecting", !.opened = @ + 1,
              !.pending = <<>>, !.outbox = <<>>, !.wire = <<>>]

(* The attempt that every call finding the link down waits on. *)
recover(t) ==
    IF t.attempt # None THEN t
    ELSE IF t.notBefore THEN [t EXCEPT !.attempt = "backoff"]
    ELSE open(t)

enqueue(t, c) ==
    IF t.dead # None THEN reject(t, c, t.dead)
    ELSE IF t.link THEN send(t, c)
    ELSE recover([t EXCEPT !.waiting = Append(@, c)])

(* Bug: a call is re-issued as often as its connection is lost. *)
BackAgain(t, p) ==
    IF p \in Calls THEN enqueue(t, p) ELSE reject(t, p, "closed")

(* A Pending of a lost link: re-issued if it still may be. *)
Back(t, p) ==
    IF p \in Calls /\ t.retry[p] THEN enqueue([t EXCEPT !.retry[p] = FALSE], p)
    ELSE reject(t, p, "closed")

(* Bug: the link that is lost stays the transport's link. *)
LoseKeepsLink(t) ==
    IF t.sock = "lost" THEN t
    ELSE FoldLeft(Back, [t EXCEPT !.sock = "lost", !.outbox = <<>>, !.pending = <<>>],
                  t.pending)

(* lose and onLost: the link is gone and hands back what waited on it. *)
lose(t) ==
    IF t.sock = "lost" THEN t
    ELSE FoldLeft(Back, [t EXCEPT !.sock = "lost", !.outbox = <<>>, !.pending = <<>>,
                                  !.link = FALSE],
                  t.pending)

(* The attempt is over: the calls that waited on it reject with its error, or
   are enqueued, a microtask each. *)
Failed(t, err) ==
    [t EXCEPT !.attempt = None, !.waiting = <<>>,
              !.res = [c \in Calls |-> IF Contains(t.waiting, c) THEN err ELSE @[c]]]

Settled(t) ==
    FoldLeft(LAMBDA u, c : Then(u, "enqueue", c),
             [t EXCEPT !.attempt = None, !.waiting = <<>>], t.waiting)

(* reconnect, once its wait is over. *)
AfterBackoff(t) == IF t.dead # None THEN Then(t, "failed", t.dead) ELSE open(t)

(* Bug: a transport closed while it connects takes the link all the same. *)
AfterOpenAnyway(t) == Then([t EXCEPT !.link = TRUE], "settled", None)

(* reconnect, once the link is open: nobody wants it on a dead transport. *)
AfterOpen(t) ==
    IF t.dead # None THEN Then(lose(t), "failed", t.dead)
    ELSE Then([t EXCEPT !.link = TRUE], "settled", None)

(* The catch of Link.open, then that of reconnect. *)
AfterOpenFails(t, err) ==
    Then(IF err = "unauthorized" THEN [lose(t) EXCEPT !.dead = err]
         ELSE [lose(t) EXCEPT !.notBefore = TRUE],
         "failed", err)

(* The continuation that is due next. *)
Microtask ==
    /\ s.micro # <<>>
    /\ LET m == Head(s.micro)
           t == [s EXCEPT !.micro = Tail(@)]
       IN  s' = CASE m.task = "opened" -> AfterOpen(t)
                  [] m.task = "open_fails" -> AfterOpenFails(t, m.of)
                  [] m.task = "woken" -> AfterBackoff(t)
                  [] m.task = "failed" -> Failed(t, m.of)
                  [] m.task = "settled" -> Settled(t)
                  [] m.task = "enqueue" -> enqueue(t, m.of)

(* The flush that send scheduled: everything queued goes out in one write. *)
Flush ==
    /\ s.scheduled
    /\ s' = [s EXCEPT !.scheduled = FALSE, !.outbox = <<>>, !.wire = @ \o s.outbox,
                      !.writes = [c \in Calls |-> IF Contains(s.outbox, c) THEN @[c] + 1 ELSE @[c]]]

(* request and close, from any user code: it may run between two microtasks. *)
Request(c) ==
    /\ s.res[c] = "new"
    /\ s' = enqueue([s EXCEPT !.res[c] = None], c)

Close ==
    /\ s.dead = None
    /\ LET t == [s EXCEPT !.dead = "closed"]
       IN  s' = CASE s.link -> lose(t)
                  [] s.attempt = "backoff" -> Then(t, "woken", None)
                  [] OTHER -> t

-----------------------------------------------------------------------------
(* Events: each waits for the microtasks of the one before. *)
Quiet == s.micro = <<>> /\ ~s.scheduled

BackoffEnds ==
    /\ Quiet /\ s.attempt = "backoff"
    /\ s' = AfterBackoff([s EXCEPT !.notBefore = FALSE])

BackoffPasses ==
    /\ Quiet /\ s.attempt = None /\ s.notBefore
    /\ s' = [s EXCEPT !.notBefore = FALSE]

Connected ==
    /\ Quiet /\ s.sock = "connecting"
    /\ s' = send([s EXCEPT !.sock = "up"], Auth)

ConnectFails ==
    /\ Quiet /\ s.sock = "connecting" /\ s.opened < LINKS
    /\ s' = Then([s EXCEPT !.sock = "lost"], "open_fails", "io")

(* The timer that armKeepalive keeps. *)
Keepalive ==
    /\ Quiet /\ s.sock = "up" /\ s.pinged < PINGS
    /\ s' = send([s EXCEPT !.pinged = @ + 1], Ping)

(* onData's catch: the oldest caller learns why, the transport is condemned. *)
Desynced(t) ==
    LET told == IF t.pending = <<>> THEN t
                ELSE reject([t EXCEPT !.pending = Tail(@)], Head(t.pending), "decode")
    IN  lose([told EXCEPT !.dead = IF @ = None THEN "desync" ELSE @])

(* Bug: the newest caller is taken for the one that is answered. *)
TakeNewest(t) == [p |-> Last(t.pending), rest |-> Front(t.pending)]

takePending(t) == [p |-> Head(t.pending), rest |-> Tail(t.pending)]

(* One frame of a chunk; nothing is read past the frame that lost the link.
   The server answers in order, and refuses a token or answers garbage. *)
onFrame(t, kind) ==
    LET p == takePending(t).p
        rest == [t EXCEPT !.pending = takePending(t).rest, !.wire = Tail(@)]
    IN  CASE t.sock = "lost" -> t
          [] t.sock # "lost" /\ kind = "garbage" -> Desynced(t)
          [] t.sock # "lost" /\ kind = "refusal" -> reject(rest, p, "unauthorized")
          [] t.sock # "lost" /\ kind = "answer" -> resolve(rest, p, Head(t.wire))

(* The chunks the server may send: answers in order, and perhaps garbage. *)
Chunks ==
    LET answers(n) == [i \in 1..n |-> "answer"]
        most == IF Len(s.wire) > 2 THEN 2 ELSE Len(s.wire)
    IN  {answers(n) : n \in 1..most}
        \cup {Append(answers(n), "garbage") : n \in 0..most}
        \cup (IF s.wire # <<>> /\ Head(s.wire) = Auth THEN {<<"refusal">>} ELSE {})

Data ==
    /\ Quiet /\ s.sock = "up"
    /\ \E chunk \in Chunks : s' = FoldLeft(onFrame, s, chunk)

SocketGone ==
    /\ Quiet /\ s.sock = "up" /\ s.opened < LINKS
    /\ s' = lose(s)

Next == \/ Microtask \/ Flush \/ Close \/ \E c \in Calls : Request(c)
        \/ BackoffEnds \/ BackoffPasses \/ Connected \/ ConnectFails
        \/ Keepalive \/ Data \/ SocketGone

vars == <<s>>
Spec == Init /\ [][Next]_vars

(* Microtasks run, timers fire, an attempt to connect ends one way or another,
   and a connection that owes an answer gets it or breaks. *)
Fairness == /\ WF_vars(Microtask) /\ WF_vars(Flush) /\ WF_vars(BackoffEnds)
            /\ WF_vars(Connected \/ ConnectFails)
            /\ WF_vars(s.wire # <<>> /\ (Data \/ SocketGone))

FairSpec == Spec /\ Fairness

-----------------------------------------------------------------------------
Errors == {"closed", "unauthorized", "io", "decode", "desync"}

TypeOK ==
    /\ s.dead \in {None, "closed", "unauthorized", "desync"}
    /\ s.attempt \in {None, "backoff", "opening"}
    /\ s.sock \in {"connecting", "up", "lost"}
    /\ {s.link, s.notBefore, s.scheduled} \subseteq BOOLEAN
    /\ s.waiting \in Seq(Calls)
    /\ {s.pending, s.outbox, s.wire} \subseteq Seq(Calls \cup {Auth, Ping})
    /\ s.retry \in [Calls -> BOOLEAN]
    /\ s.res \in [Calls -> Calls \cup Errors \cup {"new", None}]
    /\ \A c \in Calls : s.writes[c] \in 0..2

(* Responses are matched to callers in order: a call that resolves does so with
   the reply to its own frame, across losses, re-issues and heartbeats. *)
ReplyMatches == \A c \in Calls : s.res[c] \in Calls \cup {Auth, Ping} => s.res[c] = c

(* "re-issues the calls that were in flight once": a frame is written again only
   if the link it was first written to was lost, and never a third time.
   (TypeOK is part of it.) *)
ReissuedOnce ==
    /\ TypeOK
    /\ \A c \in Calls : s.writes[c] <= (IF s.retry[c] THEN 1 ELSE 2)

(* Every call is settled in the end. *)
CallSettles == \A c \in Calls : s.res[c] = None ~> s.res[c] # None

(* A transport that dies hangs up, also when it dies while it connects. *)
DeadHangsUp == s.dead # None ~> s.sock = "lost"

(* `dead` is "Set once, by `close()` or a fatal error; reported by every later
   call." *)
DeadSetOnce == [][s.dead # None => s'.dead = s.dead]_vars

(* close(): "every in-flight and later call rejects with ClosedError." *)
CloseRejectsClosed ==
    [][s.dead = "closed" =>
        \A c \in Calls : s'.res[c] # s.res[c] => s'.res[c] \in {None, "closed"}]_vars
=============================================================================
