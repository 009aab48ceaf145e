----------------------------- MODULE FrameWriter -----------------------------
(***************************************************************************)
(* The frame writer of the wire crate (wire/src/io.rs): small bodies are   *)
(* copied into a coalescing buffer that spills into a list of pieces,      *)
(* large ones are queued by reference, a batch's frame is begun before its *)
(* length is known and patched or dropped later, and flush writes as much  *)
(* of the pieces at a time as the socket takes.                            *)
(*                                                                         *)
(* A header is two cells, its tag and its length.  Tag and body cells are  *)
(* named by their place in the output, so no cell can pass for another.    *)
(***************************************************************************)
EXTENDS Naturals, Sequences, SequencesExt

CONSTANTS BUF,           \* the coalescing buffer's bound
          inline_limit,  \* bodies shorter than this are copied
          MAX_IOV,       \* pieces in one vectored write
          BODIES,        \* bound: the body lengths written
          MAXLEN         \* bound: cells queued between two flushes

HEADER_LEN == 2

ASSUME WriterAssumption ==
    /\ BUF \in Nat /\ BUF >= HEADER_LEN /\ inline_limit \in 1..BUF
    /\ MAX_IOV \in Nat \ {0} /\ BODIES \subseteq Nat /\ MAXLEN \in Nat

VARIABLES out,      \* FrameWriter: its chunk, pieces and len
          mark,     \* the Mark of the open frame, or NoMark
          flushing, \* flush holds the writer
          idx, off, \* flush: pieces written, and cells of the next one
          sent,     \* what the socket took of this flush
          want      \* history: every cell put and not dropped, in order

vars == <<out, mark, flushing, idx, off, sent, want>>
flush_vars == <<flushing, idx, off, sent>>

Own(b) == [own |-> TRUE, b |-> b]
Shared(b) == [own |-> FALSE, b |-> b]
Joined(ps) == FlattenSeq([i \in DOMAIN ps |-> ps[i].b])
Empty == [chunk |-> <<>>, pieces |-> <<>>, len |-> 0]
NoMark == [piece |-> 0, offset |-> 0, len |-> 0, open |-> FALSE]

(* The cells of a header, and of n body cells, put after `at` others. *)
Header(at, n) == <<[tag |-> at + 1], [length |-> n]>>
Body(at, n) == [i \in 1..n |-> [body |-> at + i]]

Init == /\ out = Empty /\ mark = NoMark /\ want = <<>>
        /\ flushing = FALSE /\ idx = 0 /\ off = 0 /\ sent = <<>>

(* The chunk becomes a piece, unless there is nothing in it. *)
Split(w) ==
    IF w.chunk = <<>> THEN w
    ELSE [w EXCEPT !.chunk = <<>>, !.pieces = Append(@, Own(w.chunk))]

MakeRoom(w, n) == IF Len(w.chunk) + n > BUF THEN Split(w) ELSE w

put_slice(w, b) ==
    [MakeRoom(w, Len(b)) EXCEPT !.chunk = @ \o b, !.len = @ + Len(b)]

(* Bug: a body by reference is queued ahead of the chunk it follows. *)
PutBytesAhead(w, b) ==
    IF Len(b) < inline_limit THEN put_slice(w, b)
    ELSE [w EXCEPT !.pieces = Append(@, Shared(b)), !.len = @ + Len(b)]

put_bytes(w, b) ==
    IF Len(b) < inline_limit THEN put_slice(w, b)
    ELSE [Split(w) EXCEPT !.pieces = Append(@, Shared(b)), !.len = @ + Len(b)]

(* A response frame, on its own or as an item of the open batch. *)
frame(n) ==
    LET h == Header(Len(want), n)
        b == Body(Len(want) + HEADER_LEN, n)
    IN  /\ ~flushing /\ Len(want) + HEADER_LEN + n <= MAXLEN
        /\ out' = put_bytes(put_slice(out, h), b)
        /\ want' = want \o h \o b
        /\ UNCHANGED <<mark, flush_vars>>

(* The writer with room for a header in its chunk. *)
Roomed == MakeRoom(out, HEADER_LEN)

(* A batch response begins: its header where end will find it, then the item
   count. *)
begin ==
    LET h == Header(Len(want), 0)
        count == Body(Len(want) + HEADER_LEN, 1)
    IN  /\ ~flushing /\ ~mark.open /\ Len(want) + HEADER_LEN + 1 <= MAXLEN
        /\ mark' = [piece |-> Len(Roomed.pieces), offset |-> Len(Roomed.chunk),
                    len |-> Roomed.len, open |-> TRUE]
        /\ out' = put_slice(put_slice(Roomed, h), count)
        /\ want' = want \o h \o count
        /\ UNCHANGED flush_vars

since == out.len - mark.len - HEADER_LEN

(* The open frame gets its length, in the chunk or in the piece its header
   was spilled to. *)
end ==
    LET patched == [length |-> since]
        at == mark.offset + HEADER_LEN
    IN  /\ mark.open
        /\ out' = IF mark.piece = Len(out.pieces)
                  THEN [out EXCEPT !.chunk[at] = patched]
                  ELSE [out EXCEPT !.pieces[mark.piece + 1].b[at] = patched]
        /\ want' = [want EXCEPT ![mark.len + HEADER_LEN] =
                        [length |-> Len(want) - mark.len - HEADER_LEN]]
        /\ mark' = NoMark
        /\ UNCHANGED flush_vars

(* Everything since the mark is dropped; a spilled chunk is the chunk again. *)
abort ==
    LET home == IF mark.piece < Len(out.pieces) THEN out.pieces[mark.piece + 1].b ELSE out.chunk
    IN  /\ mark.open
        /\ out' = [chunk |-> SubSeq(home, 1, mark.offset),
                   pieces |-> SubSeq(out.pieces, 1, mark.piece), len |-> mark.len]
        /\ want' = SubSeq(want, 1, mark.len)
        /\ mark' = NoMark
        /\ UNCHANGED flush_vars

(* flush: the chunk joins the pieces, which then go out a write at a time. *)
flush ==
    /\ ~flushing /\ ~mark.open /\ out.len > 0
    /\ out' = Split(out) /\ flushing' = TRUE
    /\ UNCHANGED <<mark, idx, off, sent, want>>

(* The slices of one vectored write: the rest of a piece and those after it. *)
iov ==
    LET last == IF idx + MAX_IOV < Len(out.pieces) THEN idx + MAX_IOV ELSE Len(out.pieces)
        all == Joined(SubSeq(out.pieces, idx + 1, last))
    IN  SubSeq(all, off + 1, Len(all))

(* Cells before the k-th cell of piece i + 1. *)
Position(i, k) == Len(Joined(SubSeq(out.pieces, 1, i))) + k


(* The pieces done, and the cells of the next one, once n more are written. *)
Advanced(n) ==
    CHOOSE p \in (idx..Len(out.pieces)) \X (0..n + off) :
        /\ Position(p[1], p[2]) = Position(idx, off) + n
        /\ p[1] < Len(out.pieces) => p[2] < Len(out.pieces[p[1] + 1].b)

Write(n) ==
    /\ flushing /\ idx < Len(out.pieces) /\ n <= Len(iov)
    /\ sent' = sent \o SubSeq(iov, 1, n)
    /\ idx' = Advanced(n)[1] /\ off' = Advanced(n)[2]
    /\ UNCHANGED <<out, mark, flushing, want>>

Flushed ==
    /\ flushing /\ idx = Len(out.pieces)
    /\ out' = Empty /\ want' = <<>>
    /\ flushing' = FALSE /\ idx' = 0 /\ off' = 0 /\ sent' = <<>>
    /\ UNCHANGED mark

(* take and take_bytes hand out the pieces and the chunk in one buffer. *)
take ==
    /\ ~flushing /\ ~mark.open /\ out.len > 0
    /\ out' = Empty /\ want' = <<>>
    /\ UNCHANGED <<mark, flush_vars>>

Next == \/ \E n \in BODIES : frame(n)
        \/ begin \/ end \/ abort \/ take \/ flush \/ Flushed
        \/ \E n \in 1..MAXLEN : Write(n)

Spec == Init /\ [][Next]_vars

-----------------------------------------------------------------------------
Cell == [body : 1..MAXLEN] \cup [tag : 1..MAXLEN] \cup [length : 0..MAXLEN]

(* The types; a queued piece is never empty, as a vectored write that offers
   nothing is taken for an error by flush. *)
TypeOK ==
    /\ out \in [chunk : Seq(Cell), pieces : Seq([own : BOOLEAN, b : Seq(Cell) \ {<<>>}]),
                len : 0..MAXLEN]
    /\ mark \in [piece : Nat, offset : Nat, len : Nat, open : BOOLEAN]
    /\ flushing \in BOOLEAN /\ idx \in 0..Len(out.pieces) /\ off \in Nat
    /\ want \in Seq(Cell) /\ sent \in Seq(Cell)

(* The open frame's header is where end and abort look for it, whatever was put
   since. *)
MarkInPlace ==
    mark.open =>
        LET home == IF mark.piece = Len(out.pieces) THEN Own(out.chunk)
                    ELSE out.pieces[mark.piece + 1]
        IN  /\ mark.piece <= Len(out.pieces) /\ home.own
            /\ Len(home.b) >= mark.offset + HEADER_LEN
            /\ home.b[mark.offset + 1] = [tag |-> mark.len + 1]

(* What is queued is what was put, in order, with the length of every closed
   batch right and every aborted one gone, wherever the chunk was spilled; and
   len counts it.  It is what take hands out.  Meanwhile "the buffer is bounded
   at BUF", also when abort has brought a spilled one back, and "a mark is
   always in an owned piece" (end and abort): MarkInPlace. *)
QueueIsExact ==
    /\ TypeOK
    /\ Joined(out.pieces) \o out.chunk = want
    /\ out.len = Len(want)
    /\ Len(out.chunk) <= BUF
    /\ MarkInPlace


=============================================================================
