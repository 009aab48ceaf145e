----------------------------- MODULE ClientLink -----------------------------
(***************************************************************************)
(* The Rust client's connection supervisor (client-rs/src/lib.rs): calls   *)
(* from many tasks pipelined onto one connection, each connection's writer *)
(* and reader tasks, the loss of a connection, and the reconnect that      *)
(* re-issues a call once.                                                  *)
(*                                                                         *)
(* A request is named by its caller and the caller's call number; a        *)
(* re-issue has the name of the call it repeats.  The server holds one     *)
(* key.  AUTH is one outcome of an attempt to open a connection: no other  *)
(* caller can reach a connection before its AUTH is answered.  Backoff     *)
(* delays are finite sleeps and take no step of their own.                 *)
(***************************************************************************)
EXTENDS Naturals, Sequences, SequencesExt

CONSTANTS Callers,   \* tasks that share one Client
          Ops,       \* operations they call: a subset of {"get", "set", "del"}
          CALLS,     \* bound: calls each task makes
          CONNS,     \* bound: connections opened in a behaviour
          PINGS,     \* bound: unanswered keepalive pings on a connection, to a
                     \* sound server (a faulty one is sent none)
          Faults     \* how a server may be faulty: "token", it refuses AUTH;
                     \* "invalid" and "large", it answers with a bad status or a
                     \* frame too large; "extra", it answers what nobody asked

VARIABLES link,      \* Inner.link
          conns,     \* every Conn, with its channels, tasks and socket
          slow,      \* the queue on Inner.slow; its head holds the mutex
          attempts,  \* Inner.attempts
          last,      \* whether Backoff.last is Some
          call,      \* what each caller is doing
          store,     \* whether the server holds the key
          server,    \* "sound", or the one of Faults it has
          hist       \* history: what each caller's current call did and was told

vars == <<link, conns, slow, attempts, last, call, store, server, hist>>

Ids == 1..CONNS
NoConn == 0
Request == [by : Callers, n : 1..CALLS, op : Ops]
PING == [by |-> "keepalive", n |-> 0, op |-> "ping"]
Frame == [to : Request \cup {PING}, st : {"ok", "notfound", "invalid", "large"}]
Kinds == {"none", "ok", "notfound", "invalid", "large", "closed", "dead", "setback"}

Up(c) == [kind |-> "up", conn |-> c]
Down == [kind |-> "down", conn |-> NoConn]
Dead == [kind |-> "dead", conn |-> NoConn]

(* A connection no one has opened, and one whose AUTH has just been answered. *)
Unopened == [tx |-> <<>>, out |-> <<>>, pending |-> <<>>, wire |-> <<>>, back |-> <<>>,
             lost |-> "none", w |-> "gone", r |-> "gone", net |-> "none"]
Opened == [Unopened EXCEPT !.w = "run", !.r = "run", !.net = "up"]

Quiet == [pc |-> "idle", op |-> "get", n |-> 0, conn |-> NoConn, retried |-> FALSE,
          seen |-> 0, ret |-> [kind |-> "none", to |-> PING]]

(* Client::lazy leaves the link down; connect_with returns with one up. *)
Init == /\ \/ link = Down /\ conns = [c \in Ids |-> Unopened]
           \/ link = Up(1) /\ conns = [c \in Ids |-> IF c = 1 THEN Opened ELSE Unopened]
        /\ slow = <<>> /\ attempts = 0 /\ last = FALSE
        /\ call = [p \in Callers |-> Quiet]
        /\ store \in BOOLEAN
        /\ server \in Faults \cup {"sound"}
        /\ hist = [p \in Callers |-> [removed |-> FALSE, warned |-> FALSE]]

-----------------------------------------------------------------------------
(* A call, from its start to its return.                                    *)

Mine(p) == [by |-> p, n |-> call[p].n, op |-> call[p].op]

Answer(kind, to) == [kind |-> kind, to |-> to]

Returned(p, ret) == [call EXCEPT ![p].pc = "idle", ![p].conn = NoConn, ![p].ret = ret]

Fails(p, kind) == Returned(p, Answer(kind, PING))

(* Whether any caller has been told that the server speaks another protocol. *)
Condemned == \E p \in Callers : call[p].ret.kind = "invalid" \/ hist[p].warned

(* Client::call up to its first send: Inner::current picks the connection. *)
Start(p, op) ==
    /\ call[p].pc = "idle" /\ call[p].n < CALLS
    /\ LET begun == [Quiet EXCEPT !.op = op, !.n = call[p].n + 1]
       IN  call' = [call EXCEPT ![p] =
             CASE link.kind = "dead" ->
                    [begun EXCEPT !.ret = Answer("dead", PING)]
               [] link.kind = "up" /\ conns[link.conn].lost = "none" ->
                    [begun EXCEPT !.pc = "send", !.conn = link.conn]
               [] OTHER -> [begun EXCEPT !.pc = "recover"]]
    /\ hist' = [hist EXCEPT ![p] = [removed |-> FALSE, warned |-> Condemned]]
    /\ UNCHANGED <<link, conns, slow, attempts, last, store>>

(* send came back Closed: recover once, the second time give the error up. *)
Closed(p) == call' = IF call[p].retried THEN Fails(p, "closed")
                     ELSE [call EXCEPT ![p].pc = "recover"]

(* Conn::send queues the request, unless the writer has dropped its end. *)
Send(p) ==
    /\ call[p].pc = "send"
    /\ LET c == call[p].conn
       IN  IF conns[c].w = "gone"
           THEN Closed(p) /\ UNCHANGED conns
           ELSE /\ conns' = [conns EXCEPT ![c].tx = Append(@, Mine(p))]
                /\ call' = [call EXCEPT ![p].pc = "wait"]
    /\ UNCHANGED <<link, slow, attempts, last, store, hist>>

(* The reply's sender was dropped with the queue it was in: Closed. *)
Woken(p) ==
    /\ call[p].pc = "wait"
    /\ LET c == conns[call[p].conn]
       IN  ~Contains(c.tx, Mine(p)) /\ ~Contains(c.pending, Mine(p))
    /\ Closed(p)
    /\ UNCHANGED <<link, conns, slow, attempts, last, store, hist>>

(* recover reads attempts, then queues on slow. *)
Recover(p) ==
    /\ call[p].pc = "recover"
    /\ call' = [call EXCEPT ![p].pc = "slow", ![p].seen = attempts]
    /\ slow' = Append(slow, p)
    /\ UNCHANGED <<link, conns, attempts, last, store, hist>>

(* The caller goes on with connection c; a call that was on another one
   before is being re-issued. *)
Goes(p, c) == [call EXCEPT ![p].pc = "send", ![p].conn = c,
                           ![p].retried = (call[p].conn # NoConn)]

(* Mutant of Fatal: only a loss is looked at, not a link already dead. *)
FatalLossOnly == link.kind = "up" /\ conns[link.conn].lost = "fatal"

Fatal == \/ link.kind = "dead"
         \/ link.kind = "up" /\ conns[link.conn].lost = "fatal"

(* Mutant of Usable: a caller that found the link down opens its own. *)
UsableToRetry(p) == /\ link.kind = "up" /\ conns[link.conn].lost = "none"
                    /\ call[p].conn \notin {link.conn, NoConn}

(* Another caller's connection, not known to be lost. *)
Usable(p) == /\ link.kind = "up" /\ conns[link.conn].lost = "none"
             /\ link.conn # call[p].conn

(* An attempt failed while this caller was queued: its failure is shared. *)
Shared(p) == attempts # call[p].seen /\ last

(* recover with the mutex held, up to the attempt to connect. *)
Settle(p) ==
    /\ call[p].pc = "slow" /\ Head(slow) = p
    /\ \/ /\ Fatal
          /\ link' = Dead /\ call' = Fails(p, "dead") /\ slow' = Tail(slow)
       \/ /\ ~Fatal /\ Usable(p)
          /\ call' = Goes(p, link.conn) /\ slow' = Tail(slow) /\ UNCHANGED link
       \/ /\ ~Fatal /\ ~Usable(p) /\ Shared(p)
          /\ link' = Down /\ call' = Fails(p, "setback") /\ slow' = Tail(slow)
       \/ /\ ~Fatal /\ ~Usable(p) /\ ~Shared(p)
          /\ link' = Down /\ call' = [call EXCEPT ![p].pc = "open"] /\ UNCHANGED slow
    /\ UNCHANGED <<conns, attempts, last, store, hist>>

(* What Conn::open may come to: a connection with its AUTH answered; an answer
   that no reconnect can fix, a refusal or one that is not this protocol's; or
   anything else, a setback. *)
Attempt == {"up", "setback"} \cup (IF server \in {"token", "invalid", "extra"} THEN {"fatal"} ELSE {})

(* The attempt ends: its outcome is recorded and the mutex freed. *)
OpenEnds(p) ==
    /\ call[p].pc = "open"
    /\ attempts' = attempts + 1
    /\ slow' = Tail(slow)
    /\ \/ /\ "up" \in Attempt
          /\ \E c \in Ids :
               /\ conns[c].net = "none" /\ \A d \in 1..(c - 1) : conns[d].net # "none"
               /\ conns' = [conns EXCEPT ![c] = Opened]
               /\ link' = Up(c) /\ last' = FALSE /\ call' = Goes(p, c)
       \/ /\ "fatal" \in Attempt
          /\ link' = Dead /\ call' = Fails(p, "dead") /\ UNCHANGED <<conns, last>>
       \/ /\ "setback" \in Attempt
          /\ last' = TRUE /\ call' = Fails(p, "setback") /\ UNCHANGED <<conns, link>>
    /\ UNCHANGED <<store, hist>>

(* The caller's future is dropped at one of its awaits. *)
Cancel(p) ==
    /\ call[p].pc \in {"send", "wait", "slow", "open"}
    /\ call' = Fails(p, "none")
    /\ slow' = SelectSeq(slow, LAMBDA q : q # p)
    /\ UNCHANGED <<link, conns, attempts, last, store, hist>>

-----------------------------------------------------------------------------
(* write_loop.                                                              *)

WriterOnly == UNCHANGED <<link, slow, attempts, last, call, store, hist>>

(* The writer returns, dropping the queue of requests and what it buffered. *)
WriterGone(c) == [conns[c] EXCEPT !.w = "gone", !.tx = <<>>, !.out = <<>>]

(* Mutant of WriterTake: the newest reply is answered first. *)
WriterTakeStacks(c) ==
    /\ conns[c].w = "run" /\ conns[c].tx # <<>>
    /\ LET q == Head(conns[c].tx)
       IN  conns' = [conns EXCEPT ![c] =
             IF conns[c].r = "gone" THEN WriterGone(c)
             ELSE [@ EXCEPT !.tx = Tail(@), !.pending = <<q>> \o @, !.out = Append(@, q)]]
    /\ WriterOnly

(* One request moves to the output buffer, after its reply went to pending;
   a reader that has returned makes that send fail and the writer return. *)
WriterTake(c) ==
    /\ conns[c].w = "run" /\ conns[c].tx # <<>>
    /\ LET q == Head(conns[c].tx)
       IN  conns' = [conns EXCEPT ![c] =
             IF conns[c].r = "gone" THEN WriterGone(c)
             ELSE [@ EXCEPT !.tx = Tail(@), !.pending = Append(@, q), !.out = Append(@, q)]]
    /\ WriterOnly

(* The keepalive timer fires. *)
WriterPing(c) ==
    /\ conns[c].w = "run" /\ conns[c].out = <<>>
    /\ Len(SelectSeq(conns[c].pending, LAMBDA q : q = PING)) < PINGS /\ server = "sound"
    /\ conns' = [conns EXCEPT ![c] =
         IF conns[c].r = "gone" THEN WriterGone(c)
         ELSE [@ EXCEPT !.pending = Append(@, PING), !.out = Append(@, PING)]]
    /\ WriterOnly

(* flush: onto the wire; into the void, or an error, once the socket is cut. *)
WriterFlush(c) ==
    /\ conns[c].w = "run" /\ conns[c].out # <<>>
    /\ \/ conns' = [conns EXCEPT ![c].out = <<>>,
                                 ![c].wire = IF conns[c].net = "up" THEN @ \o conns[c].out ELSE @]
       \/ /\ conns[c].net = "cut"
          /\ conns' = [conns EXCEPT ![c] = [WriterGone(c) EXCEPT
                         !.lost = IF @ = "none" THEN "transient" ELSE @]]
    /\ WriterOnly

(* The reader returned and its stop channel ends the writer's select. *)
WriterStop(c) ==
    /\ conns[c].w = "run" /\ conns[c].out = <<>> /\ conns[c].r = "gone"
    /\ conns' = [conns EXCEPT ![c] = WriterGone(c)]
    /\ WriterOnly

-----------------------------------------------------------------------------
(* read_loop.                                                               *)

(* What a frame makes the reader do next: go on, or stop and say why. *)
After(f) == CASE f.st = "invalid" -> "fatal"
              [] f.st = "large" -> "transient"
              [] OTHER -> "run"

(* One frame goes to the oldest pending reply.  Nobody waiting for a frame
   that fits is a desync; for one that does not fit, the end of the stream. *)
ReaderReply(c) ==
    /\ conns[c].r = "run" /\ conns[c].back # <<>>
    /\ LET f == Head(conns[c].back)
           asked == conns[c].pending # <<>>
           q == Head(conns[c].pending)
           next == IF asked \/ f.st = "large" THEN After(f) ELSE "fatal"
       IN  /\ conns' = [conns EXCEPT ![c].back = Tail(@), ![c].r = next,
                                     ![c].pending = IF asked THEN Tail(@) ELSE @]
           /\ call' = IF asked /\ q # PING /\ call[q.by].pc = "wait"
                            /\ call[q.by].conn = c /\ Mine(q.by) = q
                      THEN Returned(q.by, Answer(f.st, f.to)) ELSE call
    /\ UNCHANGED <<link, slow, attempts, last, store, hist>>

ReaderEof(c) ==
    /\ conns[c].r = "run" /\ conns[c].back = <<>> /\ conns[c].net = "cut"
    /\ conns' = [conns EXCEPT ![c].r = "transient"]
    /\ WriterOnly


(* lost.set(why), which does nothing if the writer was first. *)
ReaderRecord(c) ==
    /\ conns[c].r \in {"transient", "fatal"}
    /\ conns' = [conns EXCEPT ![c].r = "recorded",
                              ![c].lost = IF @ = "none" THEN conns[c].r ELSE @]
    /\ WriterOnly

(* Mutant of ReaderReturn: pending outlives the reader. *)
ReaderReturnKeeps(c) ==
    /\ conns[c].r = "recorded"
    /\ conns' = [conns EXCEPT ![c].r = "gone"]
    /\ WriterOnly

(* Returning drops pending, and every reply sender still in it. *)
ReaderReturn(c) ==
    /\ conns[c].r = "recorded"
    /\ conns' = [conns EXCEPT ![c].r = "gone", ![c].pending = <<>>]
    /\ WriterOnly

(* Conn's Drop aborts both tasks once neither the link nor a call holds it. *)
Abort(c) ==
    /\ conns[c].net # "none" /\ link # Up(c) /\ \A p \in Callers : call[p].conn # c
    /\ conns[c].w # "gone" \/ conns[c].r # "gone"
    /\ conns' = [conns EXCEPT ![c] = [WriterGone(c) EXCEPT !.r = "gone", !.pending = <<>>]]
    /\ WriterOnly

-----------------------------------------------------------------------------
(* The server and the network.                                              *)

Effect(op) == CASE op = "set" -> [store |-> TRUE, st |-> "ok"]
                [] op = "del" -> [store |-> FALSE, st |-> IF store THEN "ok" ELSE "notfound"]
                [] op = "ping" -> [store |-> store, st |-> "ok"]
                [] op = "get" -> [store |-> store, st |-> IF store THEN "ok" ELSE "notfound"]

(* The server applies the oldest request of a connection and answers it. *)
Serve(c) ==
    /\ conns[c].net = "up" /\ conns[c].wire # <<>>
    /\ LET q == Head(conns[c].wire)
           e == Effect(q.op)
       IN  /\ \E st \in {e.st} \cup ({server} \cap {"invalid", "large"}) :
                conns' = [conns EXCEPT ![c].wire = Tail(@),
                                       ![c].back = Append(@, [to |-> q, st |-> st])]
           /\ store' = e.store
           /\ hist' = IF q = PING \/ Mine(q.by) # q THEN hist
                      ELSE [hist EXCEPT ![q.by].removed = @ \/ (q.op = "del" /\ store)]
    /\ UNCHANGED <<link, slow, attempts, last, call>>

(* A frame nobody asked for, from a server that may send one. *)
Unsolicited(c) ==
    /\ server = "extra" /\ conns[c].net = "up" /\ conns[c].back = <<>>
    /\ conns' = [conns EXCEPT ![c].back = <<[to |-> PING, st |-> "ok"]>>]
    /\ WriterOnly

(* The connection ends: idle timeout, restart or network.  Requests not yet
   served are gone, and only a prefix of the answers arrives. *)
Cut(c) ==
    /\ conns[c].net = "up"
    /\ \E k \in 0..Len(conns[c].back) :
         conns' = [conns EXCEPT ![c].net = "cut", ![c].wire = <<>>,
                                ![c].back = SubSeq(@, 1, k)]
    /\ WriterOnly

-----------------------------------------------------------------------------
Caller(p) == \/ \E op \in Ops : Start(p, op)
             \/ Send(p) \/ Woken(p) \/ Recover(p) \/ Settle(p) \/ OpenEnds(p) \/ Cancel(p)

Connection(c) == \/ WriterTake(c) \/ WriterPing(c) \/ WriterFlush(c) \/ WriterStop(c)
                 \/ ReaderReply(c) \/ ReaderEof(c) \/ ReaderRecord(c) \/ ReaderReturn(c)
                 \/ Abort(c) \/ Serve(c) \/ Unsolicited(c) \/ Cut(c)

Next == /\ (\E p \in Callers : Caller(p)) \/ (\E c \in Ids : Connection(c))
        /\ UNCHANGED server

Spec == Init /\ [][Next]_vars

-----------------------------------------------------------------------------
TypeOK ==
    /\ link \in {Down, Dead} \cup {Up(c) : c \in Ids}
    /\ conns \in [Ids -> [tx : Seq(Request), out : Seq(Request \cup {PING}),
                          pending : Seq(Request \cup {PING}), wire : Seq(Request \cup {PING}),
                          back : Seq(Frame), lost : {"none", "transient", "fatal"},
                          w : {"run", "gone"}, net : {"none", "up", "cut"},
                          r : {"run", "transient", "fatal", "recorded", "gone"}]]
    /\ slow \in Seq(Callers) /\ IsInjective(slow)
    /\ attempts \in Nat /\ last \in BOOLEAN /\ store \in BOOLEAN
    /\ call \in [Callers -> [pc : {"idle", "send", "wait", "recover", "slow", "open"},
                             op : Ops \cup {"get"}, n : 0..CALLS, conn : Ids \cup {NoConn},
                             retried : BOOLEAN, seen : 0..attempts,
                             ret : [kind : Kinds, to : Request \cup {PING}]]]
    /\ hist \in [Callers -> [removed : BOOLEAN, warned : BOOLEAN]]

(* Calls are "matched to responses in order": whatever calls are cancelled,
   pings interleaved and connections lost, an answer a call returns with is
   the server's answer to that very call, if the server answers no more than
   it is asked; and such a server's connections never count as desynced. *)
ReplyMatches ==
    /\ server # "extra" => \A p \in Callers :
          call[p].ret.kind \in {"ok", "notfound"} => call[p].ret.to = Mine(p)
    /\ server = "sound" => link # Dead /\ \A c \in Ids : conns[c].r # "fatal"

(* A caller that waits is never stranded: its request is queued to a writer
   that still runs, or its reply is with a reader that has not returned, once;
   otherwise Woken fires.  So a request queued, buffered or sent on a
   connection that is then lost cannot leave its caller waiting. *)
NotStranded ==
    /\ TypeOK
    /\ \A c \in Ids : /\ conns[c].tx # <<>> => conns[c].w = "run"
                      /\ conns[c].pending # <<>> => conns[c].r # "gone"
                      /\ IsInjective(SelectSeq(conns[c].tx \o conns[c].pending,
                                               LAMBDA q : q # PING))


(* "One Client owns one connection": however many callers find the link down
   at once, no connection is opened beside one that is not known to be lost. *)
OneConnection ==
    \A c, d \in Ids :
        (\A x \in {c, d} : conns[x].net # "none" /\ conns[x].lost = "none") => c = d

(* "The client is dead": once the link is condemned nothing revives it and no
   connection is opened again, not even by a caller queued before. *)
DeadIsForever ==
    [][link = Dead => /\ link' = Dead
                      /\ \A c \in Ids : conns[c].net = "none" => conns'[c].net = "none"]_vars

(* lib.rs: a fatal error, "once seen, the client is dead and every call fails
   with it".  No call started after a caller was told of an invalid status
   is answered. *)
FatalIsFinal ==
    \A p \in Callers : hist[p].warned => call[p].ret.kind \notin {"ok", "notfound"}

(* lib.rs: del answers "whether there was anything to remove" and re-issuing
   is safe as "every op is idempotent".  A del that removed the key does not
   answer that there was nothing to remove. *)
DelTruthful ==
    \A p \in Callers : call[p].op = "del" /\ call[p].ret.kind = "notfound" => ~hist[p].removed
=============================================================================
