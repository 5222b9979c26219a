----------------------------- MODULE Reassembly -----------------------------
(***************************************************************************)
(* One direction of a TCP conversation put back together from a capture    *)
(* (wire/pcap.py, _reassemble and Stream).                                 *)
(*                                                                         *)
(* The sender writes StreamLen bytes; the capture holds segments of them,  *)
(* in the order they were caught: out of order, retransmitted, cut again   *)
(* at other boundaries, or missing.  A byte of the stream is represented   *)
(* by its position in it, so that "the right byte" can be stated; a        *)
(* segment's capture time is its place in the capture file.  The code      *)
(* sees a segment's sequence number and payload, never its position.       *)
(***************************************************************************)
EXTENDS Integers, FiniteSets, Sequences, SequencesExt

CONSTANTS
  StreamLen,     \* bytes the sender writes
  SeqModulus,    \* sequence numbers are modulo this (2^32)
  InitialSeqs,   \* the initial sequence numbers tried
  MaxSegments    \* bound: segments in the capture

(* Sequence numbers are read as signed distances from the first segment's, *)
(* so a conversation must stay below half the sequence space (2 GiB).      *)
ASSUME StreamAssumption ==
  /\ StreamLen \in Nat \ {0}
  /\ SeqModulus \in Nat
  /\ SeqModulus % 2 = 0
  /\ 2 * StreamLen <= SeqModulus
  /\ InitialSeqs \subseteq 0 .. (SeqModulus - 1)
  /\ MaxSegments \in Nat

VARIABLES
  phase,        \* "capturing", "reassembling", "done"
  isn,          \* the sender's initial sequence number
  capture,      \* segments in capture order
  pending,      \* indices of the sorted segments the loop has not reached
  start, end,   \* offsets: the stream holds [start, end)
  buf,          \* the bytearray: a function on 0 .. len - 1
  latest,       \* latest capture time used so far
  breakpoints,  \* <<buffer offset, capture time>> pairs
  kept,         \* Stream.segments: the chunks key recovery reads
  gaps          \* Stream.gaps: <<from, to>> ranges of buf filled with zeros

vars == <<phase, isn, capture, pending, start, end, buf, latest,
          breakpoints, kept, gaps>>

Zero == -1                         \* the filler of a gap: no position's byte
Positions == 0 .. (StreamLen - 1)

\* A segment carries len bytes of the stream from position first on.
Segments == {s \in [seq : 0 .. (SeqModulus - 1), first : Positions, len : 1 .. StreamLen] :
               s.first + s.len <= StreamLen}

SegmentEnd(s) == s.first + s.len
Carries(s, p) == s.first <= p /\ p < SegmentEnd(s)

\* Mutant: distances that are never negative.
OffsetUnsigned(seq) == (seq - capture[1].seq) % SeqModulus

\* Signed distance of a sequence number from the first captured segment's.
Offset(seq) ==
  ((seq - capture[1].seq + SeqModulus \div 2) % SeqModulus) - SeqModulus \div 2

OffsetOf(i) == Offset(capture[i].seq)

\* The order of the sort: by offset, the longer first, then as captured.
SortsBefore(i, j) ==
  \/ OffsetOf(i) < OffsetOf(j)
  \/ OffsetOf(i) = OffsetOf(j) /\ capture[i].len > capture[j].len
  \/ OffsetOf(i) = OffsetOf(j) /\ capture[i].len = capture[j].len /\ i <= j

IsNext(i) == i \in pending /\ \A j \in pending : SortsBefore(i, j)

BufLen == end - start

-----------------------------------------------------------------------------
Init ==
  /\ phase = "capturing"
  /\ isn \in InitialSeqs
  /\ capture = <<>>
  /\ pending = {}
  /\ start = 0 /\ end = 0
  /\ buf = [k \in {} |-> Zero]
  /\ latest = 0
  /\ breakpoints = <<>>
  /\ kept = <<>>
  /\ gaps = {}

\* The capture catches a segment: any cut of the stream, again or for the
\* first time, whatever was caught before.
Capture(first, len) ==
  /\ phase = "capturing"
  /\ Len(capture) < MaxSegments
  /\ first + len <= StreamLen
  /\ capture' = Append(capture, [seq   |-> (isn + first) % SeqModulus,
                                 first |-> first,
                                 len   |-> len])
  /\ UNCHANGED <<phase, isn, pending, start, end, buf, latest, breakpoints, kept, gaps>>

\* _reassemble is called with no segment: an empty stream.
NothingCaptured ==
  /\ phase = "capturing"
  /\ capture = <<>>
  /\ phase' = "done"
  /\ UNCHANGED <<isn, capture, pending, start, end, buf, latest, breakpoints, kept, gaps>>

\* _reassemble sorts the segments; the stream starts at the first of them.
Begin ==
  /\ phase = "capturing"
  /\ capture # <<>>
  /\ phase' = "reassembling"
  /\ pending' = DOMAIN capture
  /\ start' \in {OffsetOf(i) : i \in DOMAIN capture}
  /\ \A i \in DOMAIN capture : start' <= OffsetOf(i)
  /\ end' = start'
  /\ UNCHANGED <<isn, capture, buf, latest, breakpoints, kept, gaps>>

\* Mutant: the whole payload, overlap and all.
FreshWhole(i, reached) == [k \in 1 .. capture[i].len |-> capture[i].first + k - 1]

\* The bytes of segment i past `reached`, the end of the stream so far.
Fresh(i, reached) ==
  LET skip == reached - OffsetOf(i)
  IN  [k \in 1 .. (IF skip < capture[i].len THEN capture[i].len - skip ELSE 0) |->
         capture[i].first + skip + k - 1]

\* Mutant: an extension that begins one byte early.
ExtendedOver(reached, fresh) ==
  [k \in 0 .. (reached - start + Len(fresh) - 1) |->
     IF k < BufLen - 1 THEN buf[k]
     ELSE IF k < reached - start THEN Zero
     ELSE IF k - (reached - start) + 1 \in DOMAIN fresh THEN fresh[k - (reached - start) + 1]
     ELSE Zero]

\* buf extended with zeros up to `reached`, then with `fresh`.
Extended(reached, fresh) ==
  [k \in 0 .. (reached - start + Len(fresh) - 1) |->
     IF k < BufLen THEN buf[k]
     ELSE IF k < reached - start THEN Zero
     ELSE fresh[k - (reached - start) + 1]]

\* Mutant: each segment's own time.
LaterOwn(i) == i

\* The latest capture time so far, with segment i's.
Later(i) == IF i > latest THEN i ELSE latest

\* Mutant: one chunk for everything.
ChunksJoined(continues, fresh) ==
  IF kept # <<>> THEN [kept EXCEPT ![Len(kept)] = @ \o fresh] ELSE <<fresh>>

\* The tail of an overlap continues the chunk before it.
Chunks(continues, fresh) ==
  IF continues THEN [kept EXCEPT ![Len(kept)] = @ \o fresh] ELSE Append(kept, fresh)

\* One turn of the loop over the sorted segments.
Absorb(i) ==
  LET offset  == OffsetOf(i)
      reached == IF offset > end THEN offset ELSE end
      fresh   == Fresh(i, reached)
  IN
  /\ phase = "reassembling"
  /\ IsNext(i)
  /\ pending' = pending \ {i}
  /\ gaps' = IF offset > end THEN gaps \union {<<BufLen, offset - start>>} ELSE gaps
  /\ buf' = Extended(reached, fresh)
  /\ end' = reached + Len(fresh)
  /\ IF fresh = <<>>
     THEN UNCHANGED <<latest, breakpoints, kept>>
     ELSE /\ latest' = Later(i)
          /\ breakpoints' = Append(breakpoints, <<reached - start, Later(i)>>)
          /\ kept' = Chunks(offset < reached, fresh)
  /\ UNCHANGED <<phase, isn, capture, start>>

Return ==
  /\ phase = "reassembling"
  /\ pending = {}
  /\ phase' = "done"
  /\ UNCHANGED <<isn, capture, pending, start, end, buf, latest, breakpoints, kept, gaps>>

Next ==
  \/ \E first \in Positions, len \in 1 .. StreamLen : Capture(first, len)
  \/ NothingCaptured
  \/ Begin
  \/ \E i \in pending : Absorb(i)
  \/ Return

Spec == Init /\ [][Next]_vars

-----------------------------------------------------------------------------
\* Stream.time_at, on the capture's own clock; breakpoints is not empty.
TimeAt(pos) ==
  LET before == {b \in DOMAIN breakpoints : breakpoints[b][1] <= pos}
  IN  breakpoints[IF before = {} THEN 1 ELSE Max(before)][2]

\* Mutant: a gap beyond the range counts against it.
UnseenUnclamped(from, to) ==
  MapThenSumSet(LAMBDA g : Min({to, g[2]}) - Max({from, g[1]}), gaps)

\* Stream.unseen: how many bytes of [from, to) the capture never saw.
Unseen(from, to) ==
  MapThenSumSet(LAMBDA g : Max({0, Min({to, g[2]}) - Max({from, g[1]})}), gaps)

-----------------------------------------------------------------------------
\* What the rest of the program is promised of the stream.
Reader == INSTANCE ByteStream WITH
  Hole   <- Zero,
  origin <- IF capture = <<>> THEN 0 ELSE capture[1].first + start,
  length <- BufLen,
  out    <- buf,
  clock  <- latest

\* The reassembly is a stream that only grows in order and in time: what was
\* handed on is never rewritten by a retransmit that sorts later.
IsAByteStream == Reader!Spec

-----------------------------------------------------------------------------
\* The position in the sender's stream of the buffer's first byte.
Origin == capture[1].first + start

CapturedBy(p, n) == \E i \in 1 .. n : Carries(capture[i], p)
Captured(p) == CapturedBy(p, Len(capture))

Reassembled == phase = "done" /\ capture # <<>>

TypeOK ==
  /\ phase \in {"capturing", "reassembling", "done"}
  /\ isn \in InitialSeqs
  /\ capture \in Seq(Segments)
  /\ Len(capture) <= MaxSegments
  /\ pending \subseteq DOMAIN capture
  /\ start \in (1 - StreamLen) .. 0
  /\ end \in start .. StreamLen
  /\ buf \in [0 .. (BufLen - 1) -> Positions \union {Zero}]
  /\ latest \in 0 .. Len(capture)
  /\ breakpoints \in Seq((0 .. (StreamLen - 1)) \X (1 .. Len(capture)))
  /\ kept \in Seq(Seq(Positions))
  /\ gaps \subseteq (0 .. StreamLen) \X (0 .. StreamLen)

\* The finished stream depends only on which bytes were captured, never on the
\* order, the cuts or the copies they came in: from the first captured byte to
\* the last, each byte once and in its place, zero where nothing carried it
\* (_reassemble: "keeps each byte once").
StreamIsWhatWasCaptured ==
  Reassembled =>
    /\ \A k \in 0 .. (BufLen - 1) :
         buf[k] = IF Captured(Origin + k) THEN Origin + k ELSE Zero
    /\ \A p \in Positions : Captured(p) => p \in Origin .. (Origin + BufLen - 1)
    /\ Captured(Origin) /\ Captured(Origin + BufLen - 1)

\* Offsets rise strictly and times never fall along the breakpoints, whatever
\* the order of capture: the merge of the two directions relies on it.
TimesOnlyGoForward ==
  \A a, b \in DOMAIN breakpoints :
    a < b => /\ breakpoints[a][1] < breakpoints[b][1]
             /\ breakpoints[a][2] <= breakpoints[b][2]

\* The first moment at which every captured byte up to position p was there.
ReadableAt(p) ==
  Min({n \in 1 .. Len(capture) :
         \A q \in Origin .. p : Captured(q) => CapturedBy(q, n)})

\* time_at gives no captured byte a time before it and every byte before it were
\* there, whichever copies the stream was put together from: a packet has the time at
\* which the client could have read it.
NoByteIsTimedEarly ==
  Reassembled =>
    \A k \in 0 .. (BufLen - 1) :
      Captured(Origin + k) => TimeAt(k) >= ReadableAt(Origin + k)

\* The clock of the stream at every moment, and what a reader of it is told at the end:
\* the times a packet gets keep the order of the bytes and are late enough for them.
TimesAreTrue == TimesOnlyGoForward /\ NoByteIsTimedEarly

\* Every byte is in a chunk or is counted as unseen, and none is both.  End to end the
\* chunks handed to key recovery are the captured bytes in order; unseen counts, for any
\* range, exactly those no segment carried: framing.walk refuses a message on it, so a
\* byte counted twice or a gap recorded off by one would drop or invent messages.
EveryByteIsAccountedFor ==
  Reassembled =>
    /\ FlattenSeq(kept) = SelectSeq([k \in 1 .. BufLen |-> buf[k - 1]],
                                    LAMBDA byte : byte # Zero)
    /\ \A from, to \in 0 .. BufLen :
         Unseen(from, to) = Cardinality({k \in from .. (to - 1) : ~Captured(Origin + k)})

IntervalOf(chunk) == <<chunk[1], chunk[Len(chunk)] + 1>>

\* Each chunk starts where some segment did and runs across no gap.  When every copy of
\* a byte was cut alike the chunks are the distinct segments: a retransmit or a
\* reordering adds none and splits none, so recovery can count client messages by them.
ChunksAreTheSegments ==
  LET intervals == {<<capture[i].first, SegmentEnd(capture[i])>> : i \in DOMAIN capture}
      clean     == \A a, b \in intervals : a = b \/ a[2] <= b[1] \/ b[2] <= a[1]
  IN  Reassembled =>
        /\ \A c \in DOMAIN kept :
             /\ \E i \in DOMAIN capture : capture[i].first = kept[c][1]
             /\ kept[c][Len(kept[c])] - kept[c][1] = Len(kept[c]) - 1
        /\ clean => /\ Len(kept) = Cardinality(intervals)
                    /\ {IntervalOf(kept[c]) : c \in DOMAIN kept} = intervals
=============================================================================
