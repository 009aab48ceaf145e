----------------------------- MODULE RingProofs -----------------------------
(***************************************************************************)
(* Dropping a server, or letting it back in, moves only that server's own  *)
(* keys: for any servers, points, hashes and order of listing.             *)
(***************************************************************************)
EXTENDS Ring, FiniteSetTheorems, WellFoundedInduction, TLAPS

(***************************************************************************)
(* A set of naturals that has an element has a least one.                  *)
(***************************************************************************)
LEMMA LeastElement ==
    ASSUME NEW T, T \subseteq Nat, T # {}
    PROVE  \E m \in T : \A k \in T : m <= k
<1> DEFINE R == OpToRel(<, Nat)
<1>1. IsWellFoundedOn(R, Nat)
    BY NatLessThanWellFounded
<1>2. \A x, y \in Nat : x < y => <<x, y>> \in R
    BY DEF OpToRel
<1> HIDE DEF R
<1>3. PICK x \in T : \A y \in T : ~(<<y, x>> \in R)
    BY <1>1, WFMin
<1>4. ASSUME NEW k \in T PROVE x <= k
  <2>1. x \in Nat /\ k \in Nat
      OBVIOUS
  <2>2. ~(k < x)
      BY <1>2, <1>3, <2>1
  <2> QED BY <2>1, <2>2
<1> QED BY <1>3, <1>4

(***************************************************************************)
(* The places of the walk whose server is in, and the first of them.       *)
(***************************************************************************)
In(pts, h, S) == {n \in 0..(Len(pts) - 1) : Owner(pts, Start(pts, h), n) \in S}
First(T) == CHOOSE n \in T : \A m \in T : n <= m

(***************************************************************************)
(* The first of them is one of them, and no later than any other.          *)
(***************************************************************************)
LEMMA FirstIsLeast ==
    ASSUME NEW pts, NEW h, NEW S, Len(pts) \in Nat, In(pts, h, S) # {}
    PROVE  LET T == In(pts, h, S) IN First(T) \in T /\ \A m \in T : First(T) <= m
<1> DEFINE T == In(pts, h, S)
<1>1. T \subseteq Nat
    BY DEF In
<1>2. \E m \in T : \A k \in T : m <= k
    BY <1>1, LeastElement
<1> QED BY <1>2 DEF First

(***************************************************************************)
(* locate, in terms of them.                                               *)
(***************************************************************************)
LEMMA LocateByFirst ==
    ASSUME NEW pts, NEW h, NEW S
    PROVE  locate(pts, h, S) =
             IF In(pts, h, S) = {} THEN Owner(pts, Start(pts, h), 0)
             ELSE Owner(pts, Start(pts, h), First(In(pts, h, S)))
BY DEF locate, In, First

(***************************************************************************)
(* With fewer servers in, a key stays where it was unless its server is    *)
(* one of those that left; or else it goes to its own server, all being    *)
(* out.                                                                    *)
(***************************************************************************)
LEMMA FewerServers ==
    ASSUME NEW pts, NEW h, NEW S, NEW T \in SUBSET S, Len(pts) \in Nat
    PROVE  locate(pts, h, T) = locate(pts, h, S) \/ locate(pts, h, S) \in S \ T
<1> DEFINE o(n) == Owner(pts, Start(pts, h), n)
           InS == In(pts, h, S)
           InT == In(pts, h, T)
<1>1. InT \subseteq InS /\ InS \subseteq Nat
    BY DEF In
<1>2. CASE InS = {}
    BY <1>1, <1>2, LocateByFirst
<1>3. CASE InS # {}
  <2>1. First(InS) \in InS /\ \A m \in InS : First(InS) <= m
      BY <1>3, FirstIsLeast
  <2>2. locate(pts, h, S) = o(First(InS)) /\ o(First(InS)) \in S
      BY <1>3, <2>1, LocateByFirst DEF In
  <2>3. CASE o(First(InS)) \in T
    <3>1. First(InS) \in InT
        BY <2>1, <2>3 DEF In
    <3>2. First(InT) \in InT /\ \A m \in InT : First(InT) <= m
        BY <3>1, FirstIsLeast
    <3>3. First(InT) = First(InS)
      <4>1. First(InT) <= First(InS) /\ First(InS) <= First(InT)
          BY <1>1, <2>1, <3>1, <3>2
      <4>2. First(InT) \in Nat /\ First(InS) \in Nat
          BY <1>1, <2>1, <3>2
      <4> QED BY <4>1, <4>2
    <3> QED BY <2>2, <3>1, <3>3, LocateByFirst
  <2>4. CASE o(First(InS)) \notin T
      BY <2>2, <2>4
  <2> QED BY <2>3, <2>4
<1> QED BY <1>2, <1>3

(***************************************************************************)
(* The ring has a length, and does not change.                             *)
(***************************************************************************)
Sized == Len(points) \in Nat /\ Len(listing) \in Nat

LEMMA InitSized == Init => Sized
<1> SUFFICES ASSUME Init PROVE Sized
    OBVIOUS
<1> DEFINE N == Cardinality(Servers)
           kept == Deduped(listing, All(listing, at))
           Box == Hashes \X (1..N)
           f == [b \in Box |-> [h |-> b[1], i |-> b[2]]]
           Img == {f[b] : b \in Box}
<1>1. N \in Nat
    BY RingAssumption, FS_CardinalityType
<1>2. Len(listing) = N
  <2>1. listing \in [1..N -> Servers]
      BY DEF Init, Listings
  <2> QED BY <1>1, <2>1
<1>3. IsFiniteSet(Box)
  <2>1. IsFiniteSet(Hashes)
      BY RingAssumption, FS_Interval DEF Hashes
  <2>2. IsFiniteSet(1..N)
      BY <1>1, FS_Interval
  <2> QED BY <2>1, <2>2, FS_Product
<1>4. IsFiniteSet(Img)
  <2>1. f \in Surjection(Box, Img)
      BY DEF Surjection
  <2> QED BY <1>3, <2>1, FS_Surjection
<1>5. kept \subseteq Img
  <2> SUFFICES ASSUME NEW p \in kept PROVE p \in Img
      OBVIOUS
  <2>1. PICK i \in 1..Len(listing) : p \in [h : at[listing[i]], i : {i}]
      BY DEF Deduped, All
  <2>2. listing[i] \in Servers /\ i \in 1..N
      BY <1>2 DEF Init, Listings
  <2>3. at[listing[i]] \subseteq Hashes
      BY <2>2 DEF Init
  <2>4. <<p.h, p.i>> \in Box /\ p = [h |-> p.h, i |-> p.i]
      BY <2>1, <2>2, <2>3
  <2>5. f[<<p.h, p.i>>] = p
      BY <2>4
  <2> QED BY <2>4, <2>5
<1>6. Cardinality(kept) \in Nat
    BY <1>4, <1>5, FS_Subset, FS_CardinalityType
<1>7. Len(points) = Cardinality(kept)
    BY <1>6 DEF Init, new
<1> QED BY <1>1, <1>2, <1>6, <1>7 DEF Sized

(***************************************************************************)
(* "adding or losing a server moves only the keys that server owns".       *)
(***************************************************************************)
THEOREM MovesOnlyOwnKeys == Spec => OnlyOwnKeysMove
<1>1. Sized /\ [Next]_vars => Sized'
    BY DEF Sized, Next, Drop, Return, vars
<1>2. Sized /\ [Next]_vars =>
        [\A h \in Hashes : ServerFor(h)' # ServerFor(h) =>
            \/ ServerFor(h) \in live \ live'
            \/ ServerFor(h)' \in live' \ live]_vars
  <2> SUFFICES ASSUME Sized, Next, NEW h \in Hashes, ServerFor(h)' # ServerFor(h)
               PROVE  \/ ServerFor(h) \in live \ live'
                      \/ ServerFor(h)' \in live' \ live
      BY DEF vars
  <2>1. points' = points /\ listing' = listing
      BY DEF Next, Drop, Return
  <2> DEFINE old == locate(points, h, up)
             new_ == locate(points, h, up')
  <2>2. ServerFor(h) = listing[old] /\ ServerFor(h)' = listing[new_] /\ old # new_
      BY <2>1 DEF ServerFor
  <2>3. ASSUME NEW s \in Servers, Drop(s) PROVE ServerFor(h) \in live \ live'
    <3>1. up' \in SUBSET up
        BY <2>1, <2>3 DEF up, Drop
    <3>2. old \in up \ up'
        BY <2>2, <3>1, FewerServers DEF Sized
    <3> QED BY <2>1, <2>2, <3>2 DEF up
  <2>4. ASSUME NEW s \in Servers, Return(s) PROVE ServerFor(h)' \in live' \ live
    <3>1. up \in SUBSET up'
        BY <2>1, <2>4 DEF up, Return
    <3>2. new_ \in up' \ up
        BY <2>2, <3>1, FewerServers DEF Sized
    <3> QED BY <2>1, <2>2, <3>2 DEF up
  <2> QED BY <2>3, <2>4 DEF Next
<1> QED BY InitSized, <1>1, <1>2, PTL DEF Spec, OnlyOwnKeysMove
=============================================================================
