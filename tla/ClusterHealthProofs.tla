------------------------ MODULE ClusterHealthProofs -------------------------
(***************************************************************************)
(* The failure policy's promises, for any number of servers and callers.   *)
(***************************************************************************)
EXTENDS ClusterHealth, TLAPS

(***************************************************************************)
(* No caller holds a time that has not come: a deadline computed from it   *)
(* is at most RETRY away.                                                  *)
(***************************************************************************)
TimesPast ==
    \A c \in Callers : call[c].pc \in {"fail", "cas"} => call[c].t <= now

IInv == TypeOK /\ CountExact /\ NoSilentDrop /\ RetryBounded /\ TimesPast

(***************************************************************************)
(* The initial words: healthy, or dropped by open() with the limit counted. *)
(***************************************************************************)
LEMMA InitIInv == Init => IInv
<1> SUFFICES ASSUME Init PROVE IInv
    OBVIOUS
<1> USE PolicyAssumption
<1>1. PICK down \in SUBSET Nodes \ {Nodes} :
        /\ health = [n \in Nodes |-> IF n \in down /\ LIMIT > 0
                                     THEN Health(LIMIT, RETRY) ELSE HEALTHY]
        /\ row = [n \in Nodes |-> IF n \in down /\ LIMIT > 0 THEN LIMIT ELSE 0]
    BY DEF Init
<1>2. TypeOK
    BY <1>1 DEF Init, TypeOK, Word, HEALTHY, Health, Saturated, Calls, Idle, RowCap
<1>3. CountExact /\ NoSilentDrop /\ RetryBounded
    BY <1>1 DEF Init, CountExact, NoSilentDrop, RetryBounded, HEALTHY, Health, Saturated
<1>4. TimesPast
    BY DEF Init, TimesPast, Idle
<1> QED BY <1>2, <1>3, <1>4 DEF IInv

(***************************************************************************)
(* A caller moving on, with no word changed, keeps the invariant when what *)
(* it moves to has its type and a time that has come.                      *)
(***************************************************************************)
LEMMA CallerMoves ==
    ASSUME IInv, NEW c \in Callers, NEW to \in Calls,
           to.pc \in {"fail", "cas"} => to.t <= now,
           Go(c, to), UNCHANGED <<health, row>>
    PROVE  IInv'
<1>1. call' = [call EXCEPT ![c] = to] /\ now' = now /\ health' = health /\ row' = row
    BY DEF Go
<1>2. TypeOK'
    BY <1>1 DEF IInv, TypeOK
<1>3. CountExact' /\ NoSilentDrop' /\ RetryBounded'
    BY <1>1 DEF IInv, CountExact, NoSilentDrop, RetryBounded
<1>4. TimesPast'
    BY <1>1 DEF IInv, TypeOK, TimesPast
<1> QED BY <1>2, <1>3, <1>4 DEF IInv

(***************************************************************************)
(* The compare-exchange counts one failure on the word as it is.           *)
(***************************************************************************)
LEMMA SwapIInv ==
    ASSUME IInv, NEW c \in Callers, FailedSwap(c)
    PROVE  IInv'
<1> USE PolicyAssumption
<1> DEFINE n == call[c].node
           t == call[c].t
           w == Counted(health[n], t)
<1>1. call[c].pc = "cas" /\ call[c] \in Calls
    BY DEF FailedSwap, IInv, TypeOK
<1>2. n \in Nodes /\ t \in Nat
    BY <1>1 DEF Calls
<1>3. /\ health' = [health EXCEPT ![n] = w]
      /\ row' = [row EXCEPT ![n] = IF @ < RowCap THEN @ + 1 ELSE @]
      /\ call' = [call EXCEPT ![c] = Idle]
      /\ now' = now
    BY DEF FailedSwap, Go
<1>4. /\ health \in [Nodes -> Word] /\ row \in [Nodes -> 0..RowCap] /\ now \in Nat
      /\ t <= now
    BY <1>1 DEF IInv, TypeOK, TimesPast
<1>5. /\ health[n].f \in 0..FAILURES_MAX /\ health[n].d \in Nat
      /\ health[n].f = Saturated(row[n])
      /\ health[n].d # 0 => LIMIT > 0 /\ health[n].f >= Saturated(LIMIT)
      /\ health[n].d <= now + RETRY
    BY <1>2, <1>4 DEF IInv, CountExact, NoSilentDrop, RetryBounded, Word
<1>6. /\ w \in Word
      /\ w.f = Saturated(health[n].f + 1)
      /\ w.d = IF LIMIT > 0 /\ health[n].f + 1 >= LIMIT THEN t + RETRY ELSE health[n].d
    BY <1>2, <1>5 DEF Counted, Health, Word, Saturated
<1> HIDE DEF w
<1>7. w.d # 0 => LIMIT > 0 /\ w.f >= Saturated(LIMIT)
    BY <1>5, <1>6, <1>2 DEF Saturated
<1>8. w.d <= now + RETRY
    BY <1>2, <1>4, <1>5, <1>6
<1>9. w.f = Saturated(row'[n])
    BY <1>2, <1>3, <1>4, <1>5, <1>6 DEF Saturated, RowCap
<1>10. TypeOK'
  <2>1. health' \in [Nodes -> Word]
      BY <1>3, <1>4, <1>6
  <2>2. row' \in [Nodes -> 0..RowCap]
      BY <1>2, <1>3, <1>4 DEF RowCap
  <2>3. call' \in [Callers -> Calls]
      BY <1>3 DEF IInv, TypeOK, Calls, Idle
  <2> QED BY <1>3, <1>4, <2>1, <2>2, <2>3 DEF TypeOK
<1>11. CountExact'
    BY <1>2, <1>3, <1>4, <1>9 DEF IInv, CountExact
<1>12. NoSilentDrop'
    BY <1>2, <1>3, <1>4, <1>7 DEF IInv, NoSilentDrop
<1>13. RetryBounded'
    BY <1>2, <1>3, <1>4, <1>8 DEF IInv, RetryBounded
<1>14. TimesPast'
    BY <1>3 DEF IInv, TypeOK, TimesPast, Idle
<1> QED BY <1>10, <1>11, <1>12, <1>13, <1>14 DEF IInv

(***************************************************************************)
(* The store of an answer leaves a healthy word and an empty history.      *)
(***************************************************************************)
LEMMA ClearIInv ==
    ASSUME IInv, NEW c \in Callers, AnsweredStore(c)
    PROVE  IInv'
<1> USE PolicyAssumption
<1> DEFINE n == call[c].node
<1>1. n \in Nodes
    BY DEF AnsweredStore, IInv, TypeOK, Calls
<1>2. /\ health' = [health EXCEPT ![n] = HEALTHY]
      /\ row' = [row EXCEPT ![n] = 0]
      /\ call' = [call EXCEPT ![c] = Idle]
      /\ now' = now
    BY DEF AnsweredStore, Go
<1>3. TypeOK'
    BY <1>1, <1>2 DEF IInv, TypeOK, HEALTHY, Word, Calls, Idle, RowCap
<1>4. CountExact' /\ NoSilentDrop'
    BY <1>1, <1>2 DEF IInv, TypeOK, CountExact, NoSilentDrop, HEALTHY, Saturated
<1>5. RetryBounded'
    BY <1>1, <1>2 DEF IInv, TypeOK, RetryBounded, HEALTHY
<1>6. TimesPast'
    BY <1>2 DEF IInv, TypeOK, TimesPast, Idle
<1> QED BY <1>3, <1>4, <1>5, <1>6 DEF IInv

(***************************************************************************)
(* Every step of Next keeps the invariant: a failure and an answer write a *)
(* word, everything else moves a caller or the clock.                      *)
(***************************************************************************)
LEMMA NextIInv == IInv /\ [Next]_vars => IInv'
<1> SUFFICES ASSUME IInv, [Next]_vars PROVE IInv'
    OBVIOUS
<1> USE PolicyAssumption
<1>1. CASE UNCHANGED vars
    BY <1>1 DEF vars, IInv, TypeOK, CountExact, NoSilentDrop, RetryBounded, TimesPast
<1>2. CASE Tick
  <2>1. now' = now + 1 /\ now \in Nat /\ health' = health /\ call' = call /\ row' = row
      BY <1>2 DEF Tick, IInv, TypeOK
  <2>2. TypeOK' /\ CountExact' /\ NoSilentDrop'
      BY <2>1 DEF IInv, TypeOK, CountExact, NoSilentDrop
  <2>3. RetryBounded'
      BY <2>1 DEF IInv, TypeOK, Word, RetryBounded
  <2>4. TimesPast'
    <3> SUFFICES ASSUME NEW c \in Callers, call[c].pc \in {"fail", "cas"}
                 PROVE  call[c].t <= now + 1
        BY <2>1 DEF TimesPast
    <3>1. call[c].t \in Nat
        BY DEF IInv, TypeOK, Calls
    <3>2. call[c].t <= now
        BY DEF IInv, TimesPast
    <3> QED BY <2>1, <3>1, <3>2
  <2> QED BY <2>2, <2>3, <2>4 DEF IInv
<1>3. ASSUME NEW c \in Callers, NEW k \in Routes, Pick(c, k) PROVE IInv'
  <2> DEFINE to == [pc |-> "pick", own |-> k[1], left |-> k, t |-> now]
  <2>1. to \in Calls
      BY RoutesAssumption DEF Calls, IInv, TypeOK
  <2> QED BY <1>3, <2>1, CallerMoves DEF Pick
<1>4. ASSUME NEW c \in Callers, NEW n \in Nodes, Ping(c, n) PROVE IInv'
  <2>1. [pc |-> "call", node |-> n] \in Calls
      BY DEF Calls
  <2> QED BY <1>4, <2>1, CallerMoves DEF Ping
<1>5. ASSUME NEW c \in Callers, Locate(c) PROVE IInv'
  <2>1. call[c].pc = "pick" /\ call[c] \in Calls
      BY <1>5 DEF Locate, IInv, TypeOK
  <2>2. call[c] \in [pc : {"pick"}, own : Nodes, left : Seq(Nodes), t : Nat]
      BY <2>1 DEF Calls
  <2>3. PICK to : Go(c, to) /\ to \in Calls /\ to.pc \in {"pick", "call"}
                  /\ UNCHANGED <<health, row>>
    <3>1. CASE call[c].left = <<>>
        BY <1>5, <2>2, <3>1 DEF Locate, Calls
    <3>2. CASE call[c].left # <<>>
      <4>1. Head(call[c].left) \in Nodes /\ Tail(call[c].left) \in Seq(Nodes)
          BY <2>2, <3>2
      <4>2. [call[c] EXCEPT !.left = Tail(call[c].left)]
              \in [pc : {"pick"}, own : Nodes, left : Seq(Nodes), t : Nat]
          BY <2>2, <4>1
      <4> QED BY <1>5, <3>2, <4>1, <4>2 DEF Locate, Calls
    <3> QED BY <3>1, <3>2
  <2> QED BY <2>3, CallerMoves
<1>6. ASSUME NEW c \in Callers, NEW res \in Results, Result(c, res) PROVE IInv'
  <2> DEFINE n == call[c].node
             to == IF unreachable(res) THEN [pc |-> "fail", node |-> n, t |-> now]
                   ELSE [pc |-> "answered", node |-> n, res |-> res]
  <2>1. n \in Nodes
      BY <1>6 DEF Result, IInv, TypeOK, Calls
  <2>2. to \in Calls /\ (to.pc \in {"fail", "cas"} => to.t <= now)
      BY <2>1 DEF Calls, IInv, TypeOK
  <2> QED BY <1>6, <2>2, CallerMoves DEF Result
<1>7. ASSUME NEW c \in Callers, AnsweredLoad(c) PROVE IInv'
  <2> DEFINE to == IF health[call[c].node] = HEALTHY THEN Idle
                   ELSE [call[c] EXCEPT !.pc = "clear"]
  <2>1. call[c] \in [pc : {"answered", "clear"}, node : Nodes, res : Results]
      BY <1>7 DEF AnsweredLoad, IInv, TypeOK, Calls
  <2>2. to \in Calls /\ to.pc \in {"idle", "clear"}
      BY <2>1 DEF Calls, Idle
  <2> QED BY <1>7, <2>2, CallerMoves DEF AnsweredLoad
<1>8. ASSUME NEW c \in Callers, AnsweredStore(c) PROVE IInv'
    BY <1>8, ClearIInv
<1>9. ASSUME NEW c \in Callers, FailedLoad(c) PROVE IInv'
  <2> DEFINE to == [pc |-> "cas", node |-> call[c].node, t |-> call[c].t,
                    seen |-> health[call[c].node]]
  <2>1. call[c] \in [pc : {"fail"}, node : Nodes, t : Nat] /\ call[c].t <= now
      BY <1>9 DEF FailedLoad, IInv, TypeOK, TimesPast, Calls
  <2>2. to \in Calls /\ to.t <= now
      BY <2>1 DEF Calls, IInv, TypeOK
  <2> QED BY <1>9, <2>2, CallerMoves DEF FailedLoad
<1>10. ASSUME NEW c \in Callers, FailedSwap(c) PROVE IInv'
    BY <1>10, SwapIInv
<1>11. ASSUME NEW c \in Callers, FailedAgain(c) PROVE IInv'
  <2> DEFINE to == [call[c] EXCEPT !.seen = health[call[c].node]]
  <2>1. call[c] \in [pc : {"cas"}, node : Nodes, t : Nat, seen : Word] /\ call[c].t <= now
      BY <1>11 DEF FailedAgain, IInv, TypeOK, TimesPast, Calls
  <2>2. to \in Calls /\ to.t <= now
      BY <2>1 DEF Calls, IInv, TypeOK
  <2> QED BY <1>11, <2>2, CallerMoves DEF FailedAgain
<1> QED
    BY <1>1, <1>2, <1>3, <1>4, <1>5, <1>6, <1>7, <1>8, <1>9, <1>10, <1>11 DEF Next

(***************************************************************************)
(* The failure policy's invariant holds in every reachable state, for any  *)
(* servers, callers, limit and retry window.                               *)
(***************************************************************************)
THEOREM PolicyInvariance == Spec => []IInv
<1> QED BY InitIInv, NextIInv, PTL DEF Spec

(***************************************************************************)
(* No failure or answer of a concurrent call is lost from the count.       *)
(***************************************************************************)
THEOREM CountIsExact == Spec => []CountExact
<1>1. IInv => CountExact
    BY DEF IInv
<1> QED BY <1>1, PolicyInvariance, PTL

(***************************************************************************)
(* A dropped server never has a clear count.                               *)
(***************************************************************************)
THEOREM NeverSilentlyDropped == Spec => []NoSilentDrop
<1>1. IInv => NoSilentDrop
    BY DEF IInv
<1> QED BY <1>1, PolicyInvariance, PTL

(***************************************************************************)
(* A dropped server is let back in after RETRY at the latest.              *)
(***************************************************************************)
THEOREM RetryIsBounded == Spec => []RetryBounded
<1>1. IInv => RetryBounded
    BY DEF IInv
<1> QED BY <1>1, PolicyInvariance, PTL

(***************************************************************************)
(* With a limit the count can reach, LIMIT failures in a row have dropped  *)
(* the server.  For a larger limit the run of MCClusterLimit.cfg shows the *)
(* opposite.                                                               *)
(***************************************************************************)
THEOREM DroppedWhenDue ==
    ASSUME LIMIT <= FAILURES_MAX + 1
    PROVE  Spec => []DroppedAtLimit
<1> USE PolicyAssumption
<1>1. Init => DroppedAtLimit
    BY DEF Init, DroppedAtLimit, Health, HEALTHY
<1>2. IInv /\ DroppedAtLimit /\ [Next]_vars => DroppedAtLimit'
  <2> SUFFICES ASSUME IInv, DroppedAtLimit, [Next]_vars PROVE DroppedAtLimit'
      OBVIOUS
  <2>1. CASE UNCHANGED <<health, row>>
      BY <2>1 DEF DroppedAtLimit
  <2>2. ASSUME NEW c \in Callers, AnsweredStore(c) PROVE DroppedAtLimit'
    <3>1. call[c].node \in Nodes
        BY <2>2 DEF AnsweredStore, IInv, TypeOK, Calls
    <3> QED BY <2>2, <3>1 DEF AnsweredStore, DroppedAtLimit, IInv, TypeOK
  <2>3. ASSUME NEW c \in Callers, FailedSwap(c) PROVE DroppedAtLimit'
    <3> DEFINE n == call[c].node
               t == call[c].t
               w == Counted(health[n], t)
    <3>1. n \in Nodes /\ t \in Nat
        BY <2>3 DEF FailedSwap, IInv, TypeOK, Calls
    <3>2. /\ health' = [health EXCEPT ![n] = w]
          /\ row' = [row EXCEPT ![n] = IF @ < RowCap THEN @ + 1 ELSE @]
        BY <2>3 DEF FailedSwap
    <3>3. /\ health \in [Nodes -> Word] /\ row \in [Nodes -> 0..RowCap]
          /\ health[n].f = Saturated(row[n]) /\ row[n] \in Nat
        BY <3>1 DEF IInv, TypeOK, CountExact
    <3>4. row'[n] <= row[n] + 1
        BY <3>1, <3>2, <3>3
    <3>5. LIMIT > 0 /\ row'[n] >= LIMIT => health[n].f + 1 >= LIMIT
        BY <3>1, <3>2, <3>3, <3>4 DEF Saturated, RowCap
    <3>6. LIMIT > 0 /\ row'[n] >= LIMIT => w.d = t + RETRY
        BY <3>5 DEF Counted, Health
    <3> HIDE DEF w
    <3>7. LIMIT > 0 /\ row'[n] >= LIMIT => w.d # 0
        BY <3>1, <3>6
    <3> QED BY <3>1, <3>2, <3>3, <3>7 DEF DroppedAtLimit
  <2>4. UNCHANGED <<health, row>>
        \/ \E c \in Callers : AnsweredStore(c) \/ FailedSwap(c)
      BY DEF Next, vars, Tick, Pick, Ping, Locate, Result, AnsweredLoad, FailedLoad,
             FailedAgain
  <2> QED BY <2>1, <2>2, <2>3, <2>4
<1> QED BY <1>1, <1>2, PolicyInvariance, PTL DEF Spec
=============================================================================
