------------------------------ MODULE ConnLimit ------------------------------
(***************************************************************************)
(* The connection budget (server/src/tcp.rs) that the TCP and HTTP accept  *)
(* loops share, and the shutdown of both front ends.                       *)
(*                                                                         *)
(* The semaphore is tokio's: a released permit goes to the waiter at the   *)
(* head of the queue, and to the counter only when nobody waits.  How a    *)
(* connection is served is left out: it may end at any point.              *)
(***************************************************************************)
EXTENDS Naturals, Sequences, FiniteSets, FiniteSetsExt, SequencesExt

CONSTANTS Listeners,  \* front ends bound with one Options
          MAX,        \* ConnLimit.max
          HITS        \* bound: blocked accepts counted

ASSUME LimitAssumption == MAX \in Nat \ {0} /\ IsFiniteSet(Listeners)

VARIABLES permits,  \* permits in the semaphore
          queue,    \* listeners waiting for a permit, oldest first
          open,     \* ConnLimit.open
          hits,     \* ConnLimit.hits
          lst,      \* where each front end's run_until is
          serving,  \* per front end: connection tasks holding a Slot
          closing,  \* per front end: Slots dropped, permit not yet returned
          stop      \* the shutdown signal

vars == <<permits, queue, open, hits, lst, serving, closing, stop>>

(* A listener holds a permit from admit until the accept it was for. *)
Holding == {l \in Listeners : lst[l] \in {"accept", "backoff"}}

Init == /\ permits = MAX /\ queue = <<>> /\ open = 0 /\ hits = 0
        /\ lst = [l \in Listeners |-> "top"]
        /\ serving = [l \in Listeners |-> 0] /\ closing = [l \in Listeners |-> 0]
        /\ stop = FALSE

(* Mutant of Release: the permit is put back and no waiter is woken. *)
ReleaseUnheard(at) == permits' = permits + 1 /\ lst' = at /\ UNCHANGED queue


(* A permit is dropped while the front ends are as in at: the oldest waiter
   has it, and goes on to accept. *)
Release(at) ==
    IF queue = <<>>
    THEN permits' = permits + 1 /\ lst' = at /\ UNCHANGED queue
    ELSE lst' = [at EXCEPT ![Head(queue)] = "accept"] /\ queue' = Tail(queue) /\ UNCHANGED permits

(* acquire: the try. *)
Admit(l) ==
    /\ lst[l] = "top"
    /\ IF permits > 0
       THEN permits' = permits - 1 /\ lst' = [lst EXCEPT ![l] = "accept"]
       ELSE lst' = [lst EXCEPT ![l] = "full"] /\ UNCHANGED permits
    /\ UNCHANGED <<queue, open, hits, serving, closing, stop>>

(* acquire: the count of blocked accepts, which reads open after the try. *)
Count(l) ==
    /\ lst[l] = "full"
    /\ hits' = IF open >= MAX /\ hits < HITS THEN hits + 1 ELSE hits
    /\ lst' = [lst EXCEPT ![l] = "acquire"]
    /\ UNCHANGED <<permits, queue, open, serving, closing, stop>>

(* acquire: the wait. *)
Acquire(l) ==
    /\ lst[l] = "acquire"
    /\ IF permits > 0
       THEN /\ permits' = permits - 1 /\ lst' = [lst EXCEPT ![l] = "accept"]
            /\ UNCHANGED queue
       ELSE /\ queue' = Append(queue, l) /\ lst' = [lst EXCEPT ![l] = "queued"]
            /\ UNCHANGED permits
    /\ UNCHANGED <<open, hits, serving, closing, stop>>

(* A peer is accepted: Slot::open takes the permit over. *)
Accept(l) ==
    /\ lst[l] = "accept"
    /\ open' = open + 1
    /\ serving' = [serving EXCEPT ![l] = @ + 1]
    /\ lst' = [lst EXCEPT ![l] = "top"]
    /\ UNCHANGED <<permits, queue, hits, closing, stop>>

(* accept fails: the loop pauses with the permit in hand ... *)
AcceptFails(l) ==
    /\ lst[l] = "accept"
    /\ lst' = [lst EXCEPT ![l] = "backoff"]
    /\ UNCHANGED <<permits, queue, open, hits, serving, closing, stop>>

(* ... and drops it at the end of the iteration. *)
Pause(l) ==
    /\ lst[l] = "backoff"
    /\ Release([lst EXCEPT ![l] = "top"])
    /\ UNCHANGED <<open, hits, serving, closing, stop>>

(* A connection task ends, or is aborted: Slot's Drop runs, then its fields'. *)
CloseSlot(l) ==
    /\ serving[l] > 0
    /\ open' = open - 1
    /\ serving' = [serving EXCEPT ![l] = @ - 1]
    /\ closing' = [closing EXCEPT ![l] = @ + 1]
    /\ UNCHANGED <<permits, queue, hits, lst, stop>>

ReturnPermit(l) ==
    /\ closing[l] > 0
    /\ closing' = [closing EXCEPT ![l] = @ - 1]
    /\ Release(lst)
    /\ UNCHANGED <<open, hits, serving, stop>>

Signal == /\ ~stop /\ stop' = TRUE
          /\ UNCHANGED <<permits, queue, open, hits, lst, serving, closing>>

(* Mutant of StopAccepting: only a front end with no connection stops. *)
StopWhenIdle(l) ==
    /\ stop /\ serving[l] = 0
    /\ \/ /\ lst[l] = "queued"
          /\ queue' = SelectSeq(queue, LAMBDA m : m # l)
          /\ lst' = [lst EXCEPT ![l] = "drain"] /\ UNCHANGED permits
       \/ /\ lst[l] \in {"accept", "backoff"}
          /\ Release([lst EXCEPT ![l] = "drain"])
    /\ UNCHANGED <<open, hits, serving, closing, stop>>

(* run_until's select drops the accept loop at one of its awaits: a queued
   wait leaves the queue, a permit in hand is returned. *)
StopAccepting(l) ==
    /\ stop
    /\ \/ /\ lst[l] = "queued"
          /\ queue' = SelectSeq(queue, LAMBDA m : m # l)
          /\ lst' = [lst EXCEPT ![l] = "drain"] /\ UNCHANGED permits
       \/ /\ lst[l] \in {"accept", "backoff"}
          /\ Release([lst EXCEPT ![l] = "drain"])
    /\ UNCHANGED <<open, hits, serving, closing, stop>>

(* DRAIN_TIMEOUT is over: conns.shutdown aborts what is left. *)
DrainTimeout(l) ==
    /\ lst[l] = "drain" /\ serving[l] > 0
    /\ lst' = [lst EXCEPT ![l] = "abort"]
    /\ UNCHANGED <<permits, queue, open, hits, serving, closing, stop>>

(* Every task has been joined: run_until returns. *)
Return(l) ==
    /\ lst[l] \in {"drain", "abort"} /\ serving[l] = 0 /\ closing[l] = 0
    /\ lst' = [lst EXCEPT ![l] = "done"]
    /\ UNCHANGED <<permits, queue, open, hits, serving, closing, stop>>

Stopped == (\A l \in Listeners : lst[l] = "done") /\ UNCHANGED vars

Next == \/ Signal \/ Stopped
        \/ \E l \in Listeners :
             \/ Admit(l) \/ Count(l) \/ Acquire(l) \/ Accept(l) \/ AcceptFails(l) \/ Pause(l)
             \/ CloseSlot(l) \/ ReturnPermit(l)
             \/ StopAccepting(l) \/ DrainTimeout(l) \/ Return(l)

Spec == Init /\ [][Next]_vars

(* The runtime polls ready tasks, timers expire, an aborted task is dropped.  No
   peer has to arrive, and none to leave.  The select in run_until polls the
   shutdown branch whenever the accept loop is polled and has to wait, so it
   cannot be passed over forever. *)
FairSpec == /\ Spec
            /\ \A l \in Listeners :
                 /\ WF_vars(Admit(l)) /\ WF_vars(Count(l)) /\ WF_vars(Acquire(l))
                 /\ WF_vars(Pause(l)) /\ WF_vars(ReturnPermit(l))
                 /\ WF_vars(lst[l] = "abort" /\ CloseSlot(l))
                 /\ SF_vars(StopAccepting(l)) /\ WF_vars(DrainTimeout(l)) /\ WF_vars(Return(l))

-----------------------------------------------------------------------------
Total(f) == FoldFunction(LAMBDA x, y : x + y, 0, f)

TypeOK ==
    /\ permits \in 0..MAX /\ open \in 0..MAX /\ hits \in 0..HITS /\ stop \in BOOLEAN
    /\ queue \in Seq(Listeners) /\ IsInjective(queue)
    /\ lst \in [Listeners -> {"top", "full", "acquire", "queued", "accept", "backoff",
                              "drain", "abort", "done"}]
    /\ serving \in [Listeners -> 0..MAX] /\ closing \in [Listeners -> 0..MAX]

(* "A budget of open connections": every permit is in the semaphore, with a
   listener about to accept, or with an accepted connection, on whatever path
   (failed accept, cancelled wait, aborted task) it got there; so the
   connections open and about to be accepted never exceed the maximum.  And no
   permit lies unused while a listener waits for one: a waiter dropped at
   shutdown, or given a permit it no longer wants, passes it on.  (TypeOK is
   part of it.) *)
BudgetKept ==
    /\ TypeOK
    /\ permits + Cardinality(Holding) + open + Total(closing) = MAX
    /\ open = Total(serving)
    /\ permits > 0 => queue = <<>>

(* Peers leave, or the idle deadline closes their connections. *)
ConnectionsEnd == \A l \in Listeners : WF_vars(CloseSlot(l))


(* run_until of both front ends returns after the signal, with every
   connection's slot and permit back in the budget, also when no peer leaves. *)
ShutdownReturns ==
    stop ~> (\A l \in Listeners : lst[l] = "done") /\ open = 0 /\ permits = MAX
=============================================================================
