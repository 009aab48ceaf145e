----------------------------- MODULE BatchServe ------------------------------
(***************************************************************************)
(* How the server answers a request (server/src/tcp.rs, dispatch and       *)
(* batch, over cache/mod.rs): an op on its own, or a batch of ops served   *)
(* in runs of the same op, each run one call of get_many, set_many or      *)
(* del_many.                                                               *)
(*                                                                         *)
(* A value is its length.  The cache is a map from keys to values: what it *)
(* evicts is S3Fifo's business, and what other connections do between two  *)
(* runs is left out.                                                       *)
(***************************************************************************)
EXTENDS Naturals, Sequences, SequencesExt, FiniteSetsExt

CONSTANTS Keys,
          Values,        \* the lengths of the values in the cache
          Items,         \* the requests sent, alone or in a batch
          LIMIT,         \* Shard::check_fits: the longest value that fits
          MAX_RESPONSE,  \* the longest response body
          ITEMS          \* bound: items in a batch

(* Replies that refuse carry a message, here of one cell; the item count of
   a batch is one cell, and so is a header. *)
Get(k) == [op |-> "get", key |-> k]
SetTo(k, v) == [op |-> "set", key |-> k, value |-> v]
SetUnparsable == [op |-> "set"]
DelOf(k) == [op |-> "del", key |-> k]
Ping == [op |-> "ping"]

Absent == 0

(* A value that is stored came in a frame, so it fits one. *)
ASSUME ItemsAssumption ==
    /\ Values \subseteq 1..LIMIT /\ LIMIT \in Nat /\ MAX_RESPONSE \in Nat /\ ITEMS \in Nat
    /\ LIMIT < MAX_RESPONSE
    /\ \A it \in Items : it.op \in {"get", "set", "del", "ping"}

VARIABLES phase,    \* "idle", "batch" or "done"
          items,    \* the batch being served
          next,     \* the items answered so far
          cache,    \* Cache: Keys -> Values, or Absent
          stats,    \* the counters of Stats and Metrics that requests move
          replies,  \* what is written of the open batch response
          out,      \* the response frames queued on this connection
          first     \* history: cache and stats when the batch came in

vars == <<phase, items, next, cache, stats, replies, out, first>>

Counters == {"get_hits", "get_misses", "del_hits", "del_misses", "set_too_large"}

Ok == [status |-> "Ok", len |-> 0]
NotFound == [status |-> "NotFound", len |-> 0]
Refused(status) == [status |-> status, len |-> 1]
value(v) == [status |-> "Ok", len |-> v]

Init == /\ phase = "idle" /\ items = <<>> /\ next = 0
        /\ cache \in [Keys -> Values \cup {Absent}]
        /\ stats = [c \in Counters |-> 0]
        /\ replies = <<>>
        /\ out \in {<<>>, <<Ok>>}
        /\ first = [cache |-> cache, stats |-> stats]

parses(it) == it # SetUnparsable
check_fits(it) == it.value <= LIMIT
Store(c, it) == [c EXCEPT ![it.key] = it.value]
Count(s, counter, n) == [s EXCEPT ![counter] = @ + n]

(* One op on its own: the cache and the counters it leaves, and its reply. *)
Served(c, s, r) == [cache |-> c, stats |-> s, reply |-> r]

Alone(it, c, s) ==
    CASE it.op = "get" ->
            IF c[it.key] = Absent THEN Served(c, Count(s, "get_misses", 1), NotFound)
            ELSE Served(c, Count(s, "get_hits", 1),
                        IF c[it.key] > MAX_RESPONSE THEN Refused("TooLarge") ELSE value(c[it.key]))
      [] it.op = "set" ->
            IF ~parses(it) THEN Served(c, s, Refused("BadRequest"))
            ELSE IF check_fits(it) THEN Served(Store(c, it), s, Ok)
            ELSE Served(c, Count(s, "set_too_large", 1), Refused("TooLarge"))
      [] it.op = "del" ->
            IF c[it.key] = Absent THEN Served(c, Count(s, "del_misses", 1), NotFound)
            ELSE Served([c EXCEPT ![it.key] = Absent], Count(s, "del_hits", 1), Ok)
      [] it.op = "ping" -> Served(c, s, Ok)

Single(it) ==
    /\ phase = "idle"
    /\ LET a == Alone(it, cache, stats)
       IN  cache' = a.cache /\ stats' = a.stats /\ out' = Append(out, a.reply)
    /\ phase' = "done"
    /\ UNCHANGED <<items, next, replies, first>>

(* An envelope that does not validate is refused before anything runs. *)
Malformed ==
    /\ phase = "idle"
    /\ out' = Append(out, Refused("BadRequest"))
    /\ phase' = "done"
    /\ UNCHANGED <<items, next, cache, stats, replies, first>>

Begin(its) ==
    /\ phase = "idle"
    /\ items' = its /\ phase' = "batch"
    /\ UNCHANGED <<next, cache, stats, replies, out, first>>

(* Bug: an item that does not parse does not end its run of sets. *)
RunEndAtOp ==
    Min({j \in next + 1..Len(items) : j = Len(items) \/ items[j + 1].op # items[next + 1].op})

(* The last item of the run that starts now: the items of the same op that
   follow, up to the first set that does not parse. *)
RunEnd ==
    Min({j \in next + 1..Len(items) :
            \/ j = Len(items)
            \/ items[j + 1].op # items[next + 1].op
            \/ ~parses(items[j])})

Run == SubSeq(items, next + 1, RunEnd)
Due(op) == phase = "batch" /\ next < Len(items) /\ items[next + 1].op = op

GetRun ==
    LET found == [i \in DOMAIN Run |-> cache[Run[i].key]]
        hits == Len(SelectSeq(found, LAMBDA v : v # Absent))
    IN  /\ Due("get")
        /\ replies' = replies \o [i \in DOMAIN Run |->
                                     IF found[i] = Absent THEN NotFound ELSE value(found[i])]
        /\ stats' = Count(Count(stats, "get_hits", hits), "get_misses", Len(Run) - hits)
        /\ next' = RunEnd
        /\ UNCHANGED <<phase, items, cache, out, first>>

(* Every entry is checked before any is stored. *)
set_many(entries) ==
    IF \A i \in DOMAIN entries : check_fits(entries[i])
    THEN [ok |-> TRUE, cache |-> FoldLeft(Store, cache, entries)]
    ELSE [ok |-> FALSE, cache |-> cache]

(* Bug: what set_many refused is taken for stored where it fits. *)
OneByOneUnstored(entries) ==
    [cache |-> cache,
     replies |-> [i \in DOMAIN entries |->
                     IF check_fits(entries[i]) THEN Ok ELSE Refused("TooLarge")],
     refused |-> Len(SelectSeq(entries, LAMBDA e : ~check_fits(e)))]

(* Something does not fit: the rest are stored one by one. *)
OneByOne(entries) ==
    [cache |-> FoldLeft(Store, cache, SelectSeq(entries, check_fits)),
     replies |-> [i \in DOMAIN entries |->
                     IF check_fits(entries[i]) THEN Ok ELSE Refused("TooLarge")],
     refused |-> Len(SelectSeq(entries, LAMBDA e : ~check_fits(e)))]

SetRun ==
    LET entries == SelectSeq(Run, parses)
        many == set_many(entries)
        each == OneByOne(entries)
        bad == IF parses(Last(Run)) THEN <<>> ELSE <<Refused("BadRequest")>>
    IN  /\ Due("set")
        /\ \/ /\ many.ok
              /\ cache' = many.cache
              /\ replies' = replies \o [i \in DOMAIN entries |-> Ok] \o bad
              /\ UNCHANGED stats
           \/ /\ ~many.ok
              /\ cache' = each.cache
              /\ replies' = replies \o each.replies \o bad
              /\ stats' = Count(stats, "set_too_large", each.refused)
        /\ next' = RunEnd
        /\ UNCHANGED <<phase, items, out, first>>

DelRun ==
    LET gone(i) == cache[Run[i].key] = Absent \/ \E j \in 1..i - 1 : Run[j].key = Run[i].key
        hits == Cardinality({i \in DOMAIN Run : ~gone(i)})
    IN  /\ Due("del")
        /\ cache' = [k \in Keys |-> IF \E i \in DOMAIN Run : Run[i].key = k THEN Absent ELSE cache[k]]
        /\ replies' = replies \o [i \in DOMAIN Run |-> IF gone(i) THEN NotFound ELSE Ok]
        /\ stats' = Count(Count(stats, "del_hits", hits), "del_misses", Len(Run) - hits)
        /\ next' = RunEnd
        /\ UNCHANGED <<phase, items, out, first>>

(* Any other op is refused, one item at a time. *)
OtherItem ==
    /\ Due("ping")
    /\ replies' = Append(replies, Refused("UnknownOp"))
    /\ next' = next + 1
    /\ UNCHANGED <<phase, items, cache, stats, out, first>>

(* The body's length: the item count, and a header and a body per reply. *)
since == FoldLeft(LAMBDA n, r : n + 1 + r.len, 1, replies)

(* The frame is closed, or dropped for a refusal if it is too long. *)
End ==
    /\ phase = "batch" /\ next = Len(items)
    /\ out' = Append(out, IF since > MAX_RESPONSE THEN Refused("TooLarge")
                          ELSE [status |-> "Ok", len |-> since])
    /\ phase' = "done"
    /\ UNCHANGED <<items, next, cache, stats, replies, first>>

Next == \/ \E it \in Items : Single(it)
        \/ Malformed
        \/ \E its \in SeqOf(Items, ITEMS) : Begin(its)
        \/ GetRun \/ SetRun \/ DelRun \/ OtherItem \/ End

Spec == Init /\ [][Next]_vars

-----------------------------------------------------------------------------
Reply == [status : {"Ok", "NotFound", "TooLarge", "BadRequest", "UnknownOp"}, len : Nat]

TypeOK ==
    /\ phase \in {"idle", "batch", "done"}
    /\ items \in Seq(Items) /\ next \in 0..Len(items)
    /\ cache \in [Keys -> 0..LIMIT]
    /\ stats \in [Counters -> Nat]
    /\ replies \in Seq(Reply) /\ out \in Seq(Reply)

(* The first n items, each served on its own by dispatch in their order; an op
   that may not be in a batch is refused. *)
OnTheirOwn(n) ==
    FoldLeft(LAMBDA acc, it :
                 LET a == Alone(it, acc.cache, acc.stats)
                 IN  [cache |-> a.cache, stats |-> a.stats,
                      replies |-> Append(acc.replies, IF it.op = "ping" THEN Refused("UnknownOp")
                                                      ELSE a.reply)],
             [cache |-> first.cache, stats |-> first.stats, replies |-> <<>>], SubSeq(items, 1, n))

(* "every item answered as its op would be on its own, in order" (batch): the
   runs reply what dispatch would, item for item, refused neighbours included. *)
AnsweredAsAlone == phase = "batch" => replies = OnTheirOwn(next).replies

(* "Items apply in order" (docs/protocol.md): the runs leave the cache and the
   counters that the ops would leave one at a time, and do so even when the
   response is then dropped for its length; a set that set_many refused and
   set then stored is not counted as too large.  (TypeOK is part of it.) *)
AppliedAsAlone ==
    /\ TypeOK
    /\ items # <<>> => LET a == OnTheirOwn(next) IN cache = a.cache /\ stats = a.stats
=============================================================================
