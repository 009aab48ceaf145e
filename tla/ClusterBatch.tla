---------------------------- MODULE ClusterBatch -----------------------------
(***************************************************************************)
(* A batch over several servers (client-rs/src/cluster.rs, Cluster::batch  *)
(* and merge; client-rs/src/lib.rs, batch_body and Outcome): the items are *)
(* split by the server that owns their key, the servers answer in any      *)
(* order, and the replies are copied into one body that slots index.       *)
(*                                                                         *)
(* Routing is Ring's and ClusterHealth's business: here a key may belong   *)
(* to any server.  A reply is a status and a body of cells that name the   *)
(* item they answer.                                                       *)
(***************************************************************************)
EXTENDS Naturals, Sequences, SequencesExt, FiniteSetsExt

CONSTANTS Servers,
          ITEMS,      \* bound: the longest batch built
          MAX_ITEMS,  \* the longest batch sent
          LENGTHS,    \* bound: the reply lengths
          U32         \* the largest offset an index holds

ASSUME BatchAssumption ==
    /\ Servers # {} /\ {ITEMS, MAX_ITEMS, U32} \subseteq Nat /\ LENGTHS \subseteq Nat

VARIABLES route,    \* the server of each item, in the order the batch was built
          length,   \* the length of the body each item is answered with
          phase,    \* "new", "whole", "split" or "done"
          tasks,    \* the servers whose task has not been joined
          merged,   \* the merged body
          index,    \* Outcome.index: where each item's reply lies in it
          failure,  \* the first error to come back, or "none"
          noted,    \* what inner.note was told of each server, in order
          result    \* "none", "ok" or the error the call returns

vars == <<route, length, phase, tasks, merged, index, failure, noted, result>>

Items == DOMAIN route
Unset == [status |-> "Ok", off |-> 0, len |-> 0]

(* What a server answers item i, and the reply frame that carries it. *)
StatusOf(i) == IF length[i] = 0 THEN "NotFound" ELSE "Ok"
BodyOf(i) == [k \in 1..length[i] |-> <<i, k>>]
Bodies(is) == FlattenSeq([p \in DOMAIN is |-> BodyOf(is[p])])

(* A batch response: a cell for the count, and one for each header. *)
Frame == <<0, 0>>
FramesLen(is) == 1 + FoldLeft(LAMBDA n, i : n + 1 + length[i], 0, is)

Init ==
    /\ route \in SeqOf(Servers, ITEMS)
    /\ length \in [Items -> LENGTHS]
    /\ phase = "new" /\ tasks = {} /\ merged = <<>>
    /\ index = [i \in Items |-> Unset]
    /\ failure = "none" /\ noted = [s \in Servers |-> <<>>] /\ result = "none"

(* Nothing is sent for a batch that is too long, or empty. *)
TooManyItems ==
    /\ phase = "new" /\ Len(route) > MAX_ITEMS
    /\ result' = "TooManyItems" /\ phase' = "done"
    /\ UNCHANGED <<route, length, tasks, merged, index, failure, noted>>

NoItems ==
    /\ phase = "new" /\ route = <<>>
    /\ result' = "ok" /\ phase' = "done"
    /\ UNCHANGED <<route, length, tasks, merged, index, failure, noted>>

split == \E i \in Items : route[i] # route[1]

(* One task per server that has items; or the body as it was built. *)
Sent ==
    /\ phase = "new" /\ route # <<>> /\ Len(route) <= MAX_ITEMS
    /\ phase' = IF split THEN "split" ELSE "whole"
    /\ tasks' = Range(route)
    /\ UNCHANGED <<route, length, merged, index, failure, noted, result>>

(* The batch positions of the items server s gets, in order. *)
Group(s) == SelectSeq([i \in Items |-> i], LAMBDA i : route[i] = s)

note(s, res) == noted' = [noted EXCEPT ![s] = Append(@, res)]

(* batch_body: the replies of the one server, indexed where they lie.  A
   reply of another count is an error, and so is a refused or lost call. *)
Whole(res) ==
    /\ phase = "whole"
    /\ note(route[1], res)
    /\ IF res = "ok"
       THEN /\ merged' = <<Frame>> \o FlattenSeq([i \in Items |-> <<Frame>> \o BodyOf(i)])
            /\ index' = [i \in Items |->
                            [status |-> StatusOf(i), len |-> length[i],
                             off |-> FramesLen([j \in 1..i - 1 |-> j]) + 1]]
       ELSE UNCHANGED <<merged, index>>
    /\ result' = res /\ phase' = "done" /\ tasks' = {}
    /\ UNCHANGED <<route, length, failure>>

(* Bug: the offsets are taken in the server's own replies. *)
LandedApart(is) ==
    [i \in Items |->
        IF Contains(is, i)
        THEN [status |-> StatusOf(i), len |-> length[i],
              off |-> Len(Bodies(SelectSeq(is, LAMBDA j : j < i)))]
        ELSE index[i]]

(* Where the items' replies land in the merged body, one after the other. *)
Landed(is) ==
    [i \in Items |->
        IF Contains(is, i)
        THEN [status |-> StatusOf(i), len |-> length[i],
              off |-> Len(merged) + Len(Bodies(SelectSeq(is, LAMBDA j : j < i)))]
        ELSE index[i]]

(* Checked on the reply as it came, headers included. *)
Fits(is) == Len(merged) + FramesLen(is) <= U32

(* failure.get_or_insert(e) *)
get_or_insert(e) == failure' = IF failure = "none" THEN e ELSE failure

merge(is) ==
    \/ /\ Fits(is)
       /\ merged' = merged \o Bodies(is)
       /\ index' = Landed(is)
       /\ UNCHANGED failure
    \/ ~Fits(is) /\ get_or_insert("ResponseTooLarge") /\ UNCHANGED <<merged, index>>

(* Bug: the tasks still out are dropped at the first failure. *)
LeftAfterFailure(s, res) == IF res = "ok" THEN tasks \ {s} ELSE {}

(* The tasks still to be joined: every one of them is, failures or not. *)
Left(s, res) == tasks \ {s}

(* A task is joined, in whatever order they end, and its server noted with
   what the call came to, before its replies are looked at. *)
Joined(s, res) ==
    /\ phase = "split" /\ s \in tasks
    /\ tasks' = Left(s, res)
    /\ note(s, IF res = "Count" THEN "ok" ELSE res)
    /\ \/ res = "ok" /\ merge(Group(s))
       \/ res # "ok" /\ get_or_insert(res) /\ UNCHANGED <<merged, index>>
    /\ UNCHANGED <<route, length, phase, result>>

Finish ==
    /\ phase = "split" /\ tasks = {}
    /\ result' = IF failure = "none" THEN "ok" ELSE failure
    /\ phase' = "done"
    /\ UNCHANGED <<route, length, tasks, merged, index, failure, noted>>

(* What a call comes to: replies, replies of another count, a refusal, a
   connection that failed. *)
Results == {"ok", "Count", "Status", "Io"}

Next == \/ TooManyItems \/ NoItems \/ Sent \/ Finish
        \/ \E res \in Results : Whole(res) \/ \E s \in Servers : Joined(s, res)

Spec == Init /\ [][Next]_vars

-----------------------------------------------------------------------------
Errors == {"Count", "Status", "Io", "TooManyItems", "ResponseTooLarge"}

(* The types; in a split batch no offset is past what a u32 holds. *)
TypeOK ==
    /\ route \in Seq(Servers) /\ length \in [Items -> LENGTHS]
    /\ phase \in {"new", "whole", "split", "done"} /\ tasks \subseteq Servers
    /\ index \in [Items -> [status : {"Ok", "NotFound"}, off : Nat, len : Nat]]
    /\ split => \A i \in Items : index[i].off + index[i].len <= U32
    /\ failure \in Errors \cup {"none"} /\ result \in Errors \cup {"none", "ok"}

(* "answer each slot in the order the batch was built, exactly as
   Client::batch does": whatever the split and the order the servers answer in,
   the slot of item i reads the status and the body item i was answered with.
   (TypeOK is part of it.) *)
SlotsRead ==
    /\ TypeOK
    /\ result = "ok" =>
         \A i \in Items :
             /\ index[i].status = StatusOf(i)
             /\ SubSeq(merged, index[i].off + 1, index[i].off + index[i].len) = BodyOf(i)

(* "Every server is waited for": a server that was sent its share is noted once,
   and one that was not is never noted, whichever of them failed first.  And
   "the whole call fails if any of those requests does": an outcome means that
   every one of them was answered in full. *)
EveryServerNoted ==
    phase = "done" =>
        LET asked == IF result = "TooManyItems" THEN {} ELSE Range(route)
        IN  /\ \A s \in Servers : Len(noted[s]) = IF s \in asked THEN 1 ELSE 0
            /\ result = "ok" => \A s \in asked : noted[s] = <<"ok">>
=============================================================================
