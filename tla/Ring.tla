-------------------------------- MODULE Ring --------------------------------
(***************************************************************************)
(* The consistent-hash ring of a cluster client                            *)
(* (crates/client-rs/src/ring.rs): how it is built from the servers'       *)
(* points, and which server a key goes to while some servers are out.      *)
(*                                                                         *)
(* Servers are numbered by the byte order of their names, and the hash is  *)
(* any function: where a server's points and a key land is chosen freely   *)
(* in a space of Space values.                                             *)
(***************************************************************************)
EXTENDS Naturals, Sequences, FiniteSets

CONSTANTS Servers, Space, POINTS

ASSUME RingAssumption ==
    /\ Servers \subseteq Nat
    /\ IsFiniteSet(Servers)
    /\ Space \in Nat \ {0}
    /\ POINTS \in Nat \ {0}

VARIABLES
    at,        \* server -> the hashes of its points
    listing,   \* the servers in the order they were given
    points,    \* Ring::points: [h, i], i an index of the listing
    live       \* the servers the failure policy has in the ring

vars == <<at, listing, points, live>>

Hashes == 0..(Space - 1)

(***************************************************************************)
(* Ring::new: all points sorted by hash, then by name; of points with one  *)
(* hash dedup_by_key keeps the first.                                      *)
(***************************************************************************)
All(names, hashes) == UNION {[h : hashes[names[i]], i : {i}] : i \in 1..Len(names)}

Before(names, p, q) == p.h < q.h \/ (p.h = q.h /\ names[p.i] < names[q.i])

\* Mutant of Deduped: of points with one hash, the one listed first is kept.
DedupedByListing(names, S) == {p \in S : \A q \in S : q.h = p.h => p.i <= q.i}

Deduped(names, S) == {p \in S : ~\E q \in S : q.h = p.h /\ Before(names, q, p)}

new(names, hashes) ==
    LET kept == Deduped(names, All(names, hashes))
    IN  [n \in 1..Cardinality(kept) |->
            CHOOSE p \in kept : Cardinality({q \in kept : Before(names, q, p)}) = n - 1]

(***************************************************************************)
(* Ring::locate: from the first point at or after the key's hash, wrapping *)
(* round, the first whose server is live; the key's own server when none   *)
(* is.                                                                     *)
(***************************************************************************)
Start(pts, h) == Cardinality({n \in 1..Len(pts) : pts[n].h < h}) % Len(pts)

Owner(pts, start, n) == pts[((start + n) % Len(pts)) + 1].i

\* Mutant of locate: the keys of a server that is out, or that has come
\* back, are spread anew over the points that are in.
LocateRehashed(pts, h, in_ring) ==
    LET o == Owner(pts, Start(pts, h), 0)
        in == {n \in 1..Len(pts) : pts[n].i \in in_ring}
    IN  IF in = {} THEN o
        ELSE pts[CHOOSE n \in in : Cardinality({m \in in : m < n}) = h % Cardinality(in)].i

locate(pts, h, in_ring) ==
    LET o(n) == Owner(pts, Start(pts, h), n)
        in == {n \in 0..(Len(pts) - 1) : o(n) \in in_ring}
    IN  IF in = {} THEN o(0)
        ELSE o(CHOOSE n \in in : \A m \in in : n <= m)
-----------------------------------------------------------------------------
up == {i \in 1..Len(listing) : listing[i] \in live}
ServerFor(h) == listing[locate(points, h, up)]

Listings == {l \in [1..Cardinality(Servers) -> Servers] :
                \A i, j \in DOMAIN l : l[i] = l[j] => i = j}

Init ==
    /\ at \in [Servers -> {S \in SUBSET Hashes : S # {} /\ Cardinality(S) <= POINTS}]
    /\ listing \in Listings
    /\ points = new(listing, at)
    /\ live = Servers

(***************************************************************************)
(* The failure policy takes a server out, or lets it back in.              *)
(***************************************************************************)
Drop(s) == s \in live /\ live' = live \ {s} /\ UNCHANGED <<at, listing, points>>
Return(s) == s \notin live /\ live' = live \cup {s} /\ UNCHANGED <<at, listing, points>>

Next == \E s \in Servers : Drop(s) \/ Return(s)

Spec == Init /\ [][Next]_vars
-----------------------------------------------------------------------------
(***************************************************************************)
(* The points that survive: "of two points with the same hash only the one *)
(* whose server name sorts first", whatever order the servers were listed  *)
(* in.                                                                     *)
(***************************************************************************)
Canonical == {x \in Hashes \X Servers :
                 x[1] \in at[x[2]] /\ \A other \in Servers : x[1] \in at[other] => x[2] <= other}
Distance(h, x) == (x[1] + Space - h) % Space
Nearest(h, S) == CHOOSE x \in S : \A y \in S : Distance(h, x) <= Distance(h, y)

(***************************************************************************)
(* "a key belongs to the first point at or after its own hash, wrapping    *)
(* round the end", among the servers that are in; with all of them out, to *)
(* its own server.  So any two clients agree on it, however they list the  *)
(* servers.                                                                *)
(***************************************************************************)
LocateIsNearest ==
    \A h \in Hashes :
        LET in == {x \in Canonical : x[2] \in live}
        IN  ServerFor(h) = Nearest(h, IF in = {} THEN Canonical ELSE in)[2]

(***************************************************************************)
(* "adding or losing a server moves only the keys that server owns": a key *)
(* that goes elsewhere after a server was dropped was on it, and one that  *)
(* goes elsewhere after a server came back is on it.                       *)
(***************************************************************************)
OnlyOwnKeysMove ==
    [][\A h \in Hashes : ServerFor(h)' # ServerFor(h) =>
          \/ ServerFor(h) \in live \ live'
          \/ ServerFor(h)' \in live' \ live]_vars
=============================================================================
