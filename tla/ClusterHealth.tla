--------------------------- MODULE ClusterHealth ----------------------------
(***************************************************************************)
(* The failure policy of a cluster client                                  *)
(* (crates/client-rs/src/cluster.rs): calls that run concurrently pick a   *)
(* server, and feed what came of it to that server's health word.          *)
(*                                                                         *)
(* A load, store or compare-exchange of a health word is one step.         *)
(* Weak compare-exchanges that fail for no reason only retry, and are left *)
(* out.                                                                    *)
(***************************************************************************)
EXTENDS Naturals, Sequences, FiniteSets

CONSTANTS
    Nodes, Callers,
    Routes,         \* the keys, each as the order its ring walk meets the servers in
    LIMIT,          \* Failover::failures; 0 for a cluster without a policy
    RETRY,          \* Failover::retry
    FAILURES_MAX,   \* where the count saturates (65535)
    MaxNow          \* bound on the clock; DEADLINE_MAX is beyond it

ASSUME PolicyAssumption ==
    /\ LIMIT \in Nat
    /\ RETRY \in Nat \ {0}
    /\ FAILURES_MAX \in Nat \ {0}
    /\ MaxNow \in Nat

ASSUME RoutesAssumption ==
    \A k \in Routes : k \in Seq(Nodes) /\ Len(k) > 0

VARIABLES
    now,      \* milliseconds since the cluster's epoch
    health,   \* node -> its health word
    call,     \* caller -> what it is doing
    row       \* history: failures counted since the word was last cleared

vars == <<now, health, call, row>>

Word == [f : 0..FAILURES_MAX, d : Nat]
HEALTHY == [f |-> 0, d |-> 0]

Saturated(n) == IF n > FAILURES_MAX THEN FAILURES_MAX ELSE n
Health(f, d) == [f |-> Saturated(f), d |-> d]

is_up(n, t) == health[n].d <= t

(***************************************************************************)
(* Where the history stops counting: past the limit and the saturation.    *)
(***************************************************************************)
RowCap == LIMIT + FAILURES_MAX + 1

Results == {"answer", "unreachable", "local"}
Idle == [pc |-> "idle"]
-----------------------------------------------------------------------------
(***************************************************************************)
(* connect_with and open: every server is pinged before the cluster is     *)
(* handed out.  Those that fail start out of the ring, if there is a       *)
(* policy; with none up there is no cluster.                               *)
(***************************************************************************)
Init ==
    /\ now = 0
    /\ \E down \in SUBSET Nodes \ {Nodes} :
          /\ health = [n \in Nodes |-> IF n \in down /\ LIMIT > 0
                                       THEN Health(LIMIT, RETRY) ELSE HEALTHY]
          /\ row = [n \in Nodes |-> IF n \in down /\ LIMIT > 0 THEN LIMIT ELSE 0]
    /\ call = [c \in Callers |-> Idle]

Tick ==
    /\ now < MaxNow
    /\ now' = now + 1
    /\ UNCHANGED <<health, call, row>>

Go(c, to) ==
    /\ call' = [call EXCEPT ![c] = to]
    /\ UNCHANGED now

(***************************************************************************)
(* get, set, del, a batch for one server: read the clock once, then walk   *)
(* the ring, loading one word at a time.  Ring::locate ends at the key's   *)
(* own server when every server is out.                                    *)
(***************************************************************************)
Pick(c, k) ==
    /\ call[c].pc = "idle"
    /\ Go(c, [pc |-> "pick", own |-> k[1], left |-> k, t |-> now])
    /\ UNCHANGED <<health, row>>

Locate(c) ==
    /\ call[c].pc = "pick"
    /\ LET left == call[c].left
       IN  \/ /\ left = <<>>
              /\ Go(c, [pc |-> "call", node |-> call[c].own])
           \/ /\ left # <<>>
              /\ is_up(Head(left), call[c].t)
              /\ Go(c, [pc |-> "call", node |-> Head(left)])
           \/ /\ left # <<>>
              /\ ~is_up(Head(left), call[c].t)
              /\ Go(c, [call[c] EXCEPT !.left = Tail(left)])
    /\ UNCHANGED <<health, row>>

(***************************************************************************)
(* ping asks every server, dropped ones included.                          *)
(***************************************************************************)
Ping(c, n) ==
    /\ call[c].pc = "idle"
    /\ Go(c, [pc |-> "call", node |-> n])
    /\ UNCHANGED <<health, row>>

(***************************************************************************)
(* What comes back, as the server and the network decide: an answer, an    *)
(* error unreachable() accepts, or an error met before anything was sent   *)
(* (Client::set returns Error::Serialize for a value that does not         *)
(* encode).  note() then goes by the error alone.                          *)
(***************************************************************************)
unreachable(res) == res = "unreachable"

Result(c, res) ==
    /\ call[c].pc = "call"
    /\ LET n == call[c].node
       IN  Go(c, IF unreachable(res) THEN [pc |-> "fail", node |-> n, t |-> now]
                 ELSE [pc |-> "answered", node |-> n, res |-> res])
    /\ UNCHANGED <<health, row>>

(***************************************************************************)
(* answered: a load, and a store if there is anything to clear.            *)
(***************************************************************************)
AnsweredLoad(c) ==
    /\ call[c].pc = "answered"
    /\ Go(c, IF health[call[c].node] = HEALTHY THEN Idle ELSE [call[c] EXCEPT !.pc = "clear"])
    /\ UNCHANGED <<health, row>>

\* Mutant of AnsweredStore: the answer clears the count only.
AnsweredKeepsDeadline(c) ==
    /\ call[c].pc = "clear"
    /\ health' = [health EXCEPT ![call[c].node].f = 0]
    /\ row' = [row EXCEPT ![call[c].node] = 0]
    /\ Go(c, Idle)

AnsweredStore(c) ==
    /\ call[c].pc = "clear"
    /\ health' = [health EXCEPT ![call[c].node] = HEALTHY]
    /\ row' = [row EXCEPT ![call[c].node] = 0]
    /\ Go(c, Idle)

(***************************************************************************)
(* failed: a load, then compare-exchanges until one finds the word as it   *)
(* was read.                                                               *)
(***************************************************************************)
FailedLoad(c) ==
    /\ call[c].pc = "fail"
    /\ Go(c, [pc |-> "cas", node |-> call[c].node, t |-> call[c].t,
              seen |-> health[call[c].node]])
    /\ UNCHANGED <<health, row>>

\* Mutants of Counted: a server dropped one failure late, and one that stays
\* out twice as long.
CountedLate(seen, t) ==
    LET f == seen.f + 1
    IN  Health(f, IF LIMIT > 0 /\ f > LIMIT THEN t + RETRY ELSE seen.d)

CountedTwice(seen, t) ==
    LET f == seen.f + 1
    IN  Health(f, IF LIMIT > 0 /\ f >= LIMIT THEN seen.d + t + RETRY ELSE seen.d)

Counted(seen, t) ==
    LET f == seen.f + 1
    IN  Health(f, IF LIMIT > 0 /\ f >= LIMIT THEN t + RETRY ELSE seen.d)

\* Mutant of FailedSwap: a plain store, which ignores what other calls did
\* to the word since it was read.
FailedOverwrites(c) ==
    /\ call[c].pc = "cas"
    /\ LET n == call[c].node
       IN  /\ health' = [health EXCEPT ![n] = Counted(call[c].seen, call[c].t)]
           /\ row' = [row EXCEPT ![n] = IF @ < RowCap THEN @ + 1 ELSE @]
    /\ Go(c, Idle)

FailedSwap(c) ==
    /\ call[c].pc = "cas"
    /\ LET n == call[c].node
       IN  /\ health[n] = call[c].seen
           /\ health' = [health EXCEPT ![n] = Counted(call[c].seen, call[c].t)]
           /\ row' = [row EXCEPT ![n] = IF @ < RowCap THEN @ + 1 ELSE @]
    /\ Go(c, Idle)

FailedAgain(c) ==
    /\ call[c].pc = "cas"
    /\ health[call[c].node] # call[c].seen
    /\ Go(c, [call[c] EXCEPT !.seen = health[call[c].node]])
    /\ UNCHANGED <<health, row>>

Next ==
    \/ Tick
    \/ \E c \in Callers :
          \/ \E k \in Routes : Pick(c, k)
          \/ \E n \in Nodes : Ping(c, n)
          \/ Locate(c)
          \/ \E res \in Results : Result(c, res)
          \/ AnsweredLoad(c) \/ AnsweredStore(c)
          \/ FailedLoad(c) \/ FailedSwap(c) \/ FailedAgain(c)

Spec == Init /\ [][Next]_vars
-----------------------------------------------------------------------------
Calls ==
    [pc : {"idle"}]
    \cup [pc : {"pick"}, own : Nodes, left : Seq(Nodes), t : Nat]
    \cup [pc : {"call"}, node : Nodes]
    \cup [pc : {"answered", "clear"}, node : Nodes, res : Results]
    \cup [pc : {"fail"}, node : Nodes, t : Nat]
    \cup [pc : {"cas"}, node : Nodes, t : Nat, seen : Word]

(***************************************************************************)
(* Every variable has its type: a count fits the 16 bits it is given.      *)
(***************************************************************************)
TypeOK ==
    /\ now \in Nat
    /\ health \in [Nodes -> Word]
    /\ call \in [Callers -> Calls]
    /\ row \in [Nodes -> 0..RowCap]

(***************************************************************************)
(* The count in the word is the failures since it was last cleared, up to  *)
(* where it saturates: no concurrent call's failure or answer is lost.     *)
(***************************************************************************)
CountExact == \A n \in Nodes : health[n].f = Saturated(row[n])

(***************************************************************************)
(* "a call that answers and a call that fails cannot interleave into       *)
(* 'dropped, with a clear count'": a server with a deadline has a count of *)
(* at least the limit, so the next answer clears it, and one failure after *)
(* its retry drops it again.                                               *)
(***************************************************************************)
NoSilentDrop ==
    \A n \in Nodes : health[n].d # 0 => LIMIT > 0 /\ health[n].f >= Saturated(LIMIT)

(***************************************************************************)
(* "retry later it is let back in": no server is out for longer than RETRY *)
(* from now, whatever calls failed and however late they were noted.       *)
(***************************************************************************)
RetryBounded == \A n \in Nodes : health[n].d <= now + RETRY

(***************************************************************************)
(* "after `failures` connection failures in a row the server is dropped    *)
(* from the ring": once LIMIT of them are counted, it has been given a     *)
(* deadline.                                                               *)
(***************************************************************************)
DroppedAtLimit == \A n \in Nodes : LIMIT > 0 /\ row[n] >= LIMIT => health[n].d # 0

(***************************************************************************)
(* "One answer of any kind puts it back at once and clears the count", and *)
(* answered() is for "the server answered, whatever it answered": only an  *)
(* answer clears a health word.                                            *)
(***************************************************************************)
OnlyAnswersClear ==
    [][\A n \in Nodes : health[n] # HEALTHY /\ health'[n] = HEALTHY =>
          \E c \in Callers : call[c].pc = "clear" /\ call[c].node = n /\ call[c].res = "answer"]_vars
=============================================================================
