-------------------------- MODULE ReassemblyProofs --------------------------
(***************************************************************************)
(* Proofs about Reassembly, for every stream length, sequence modulus and  *)
(* capture.  The argument: because the segments are absorbed in order of   *)
(* offset, a zero written into a gap lies before every segment still to    *)
(* come, so it can stay zero; and because offsets are true distances (the  *)
(* modular arithmetic of OffsetIsDistance), a fresh byte lands at its own  *)
(* position.                                                               *)
(***************************************************************************)
EXTENDS Reassembly, FiniteSetTheorems, FunctionTheorems, WellFoundedInduction, TLAPS

-----------------------------------------------------------------------------
(* Modular arithmetic. *)

LEMMA DivisionTheorem ==
  ASSUME NEW a \in Int, NEW m \in Nat, m > 0
  PROVE  /\ a \div m \in Int
         /\ a % m \in 0 .. (m - 1)
         /\ a = (m * (a \div m)) + (a % m)
OBVIOUS

LEMMA RemainderIsUnique ==
  ASSUME NEW m \in Nat, m > 0, NEW r \in 0 .. (m - 1), NEW q \in Int
  PROVE  ((m * q) + r) % m = r
OBVIOUS

LEMMA ModulusFacts ==
  /\ SeqModulus \in Nat /\ SeqModulus > 0
  /\ SeqModulus \div 2 \in Nat
  /\ SeqModulus = 2 * (SeqModulus \div 2)
  /\ StreamLen <= SeqModulus \div 2
BY StreamAssumption

\* The signed distance, as the code computes it, between the sequence numbers
\* of positions a and b of a stream whose initial number is x.
SeqDistance(x, a, b) ==
  ((((x + a) % SeqModulus) - ((x + b) % SeqModulus) + SeqModulus \div 2) % SeqModulus)
    - SeqModulus \div 2

\* It is the distance of the positions, when that is below half the modulus.
LEMMA SignedDistance ==
  ASSUME NEW x \in Int, NEW a \in Int, NEW b \in Int,
         a - b < SeqModulus \div 2, b - a < SeqModulus \div 2
  PROVE  SeqDistance(x, a, b) = a - b
<1> DEFINE m == SeqModulus
           h == SeqModulus \div 2
           qa == (x + a) \div m
           qb == (x + b) \div m
<1>1. m \in Nat /\ m > 0 /\ h \in Nat /\ m = 2 * h /\ a - b < h /\ b - a < h
  BY ModulusFacts
<1>2. /\ qa \in Int /\ qb \in Int
      /\ (x + a) % m = x + a - (m * qa)
      /\ (x + b) % m = x + b - (m * qb)
  <2>1. x + a \in Int /\ x + b \in Int
    OBVIOUS
  <2>2. QED
    BY <1>1, <2>1, DivisionTheorem
<1>3. SeqDistance(x, a, b) = ((((x + a) % m) - ((x + b) % m) + h) % m) - h
  BY DEF SeqDistance
<1> HIDE DEF m, h, qa, qb
<1>4. ((x + a) % m) - ((x + b) % m) + h = (m * (qb - qa)) + (a - b + h)
  BY <1>1, <1>2
<1>5. a - b + h \in 0 .. (m - 1) /\ qb - qa \in Int
  BY <1>1, <1>2
<1>6. ((m * (qb - qa)) + (a - b + h)) % m = a - b + h
  BY <1>1, <1>5, RemainderIsUnique
<1>7. QED
  BY <1>1, <1>3, <1>4, <1>6

-----------------------------------------------------------------------------
(* The inductive invariant. *)

SequenceNumbersAreTrue ==
  \A i \in DOMAIN capture : capture[i].seq = (isn + capture[i].first) % SeqModulus

Absorbed == DOMAIN capture \ pending

Idle ==
  /\ pending = {}
  /\ start = 0 /\ end = 0
  /\ buf = [k \in {} |-> Zero]
  /\ latest = 0 /\ breakpoints = <<>> /\ kept = <<>> /\ gaps = {}

\* The span of the stream: it starts at the least offset, holds every absorbed
\* segment, ends where one of them does, and stays within what was sent.
Span ==
  /\ \A i \in DOMAIN capture : start <= OffsetOf(i)
  /\ \E i \in DOMAIN capture : start = OffsetOf(i)
  /\ \A i \in Absorbed : OffsetOf(i) + capture[i].len <= end
  /\ end = start \/ \E i \in Absorbed : OffsetOf(i) + capture[i].len = end

AbsorbedInOrder ==
  \A i \in Absorbed, j \in pending : OffsetOf(i) <= OffsetOf(j)

\* A byte of the buffer is the one sent there and some absorbed segment carries
\* it; or it is a zero that no segment carries, absorbed or still to come.
Hollow(k) ==
  /\ buf[k] = Zero
  /\ \A i \in Absorbed : ~Carries(capture[i], Origin + k)
  /\ \A j \in pending : start + k < OffsetOf(j)

Filled(k) ==
  /\ buf[k] = Origin + k
  /\ \E i \in Absorbed : Carries(capture[i], Origin + k)

Contents == \A k \in 0 .. (BufLen - 1) : Hollow(k) \/ Filled(k)

Clock ==
  \A b \in DOMAIN breakpoints :
    /\ breakpoints[b][1] < BufLen
    /\ breakpoints[b][2] <= latest

IInv ==
  /\ TypeOK
  /\ SequenceNumbersAreTrue
  /\ phase = "capturing" \/ capture = <<>> => Idle
  /\ phase = "reassembling" => capture # <<>>
  /\ phase = "done" => pending = {}
  /\ phase # "capturing" /\ capture # <<>> => Span /\ AbsorbedInOrder /\ Contents
  /\ Clock
  /\ TimesOnlyGoForward

-----------------------------------------------------------------------------
(* Facts about the state. *)

\* The offset the code computes is the distance between the positions.
LEMMA OffsetIsDistance ==
  ASSUME capture \in Seq(Segments), isn \in InitialSeqs, SequenceNumbersAreTrue,
         NEW i \in DOMAIN capture
  PROVE  /\ OffsetOf(i) = capture[i].first - capture[1].first
         /\ OffsetOf(i) \in Int
<1> DEFINE a == capture[i].first
           b == capture[1].first
<1>1. /\ a \in Positions /\ b \in Positions /\ isn \in Int
      /\ capture[i].seq = (isn + a) % SeqModulus
      /\ capture[1].seq = (isn + b) % SeqModulus
  BY StreamAssumption DEF SequenceNumbersAreTrue, Segments
<1>2. OffsetOf(i) = SeqDistance(isn, a, b)
  BY <1>1 DEF OffsetOf, Offset, SeqDistance
<1>3. /\ a \in Int /\ b \in Int
      /\ a - b < SeqModulus \div 2 /\ b - a < SeqModulus \div 2
  <2>1. a \in 0 .. (StreamLen - 1) /\ b \in 0 .. (StreamLen - 1) /\ StreamLen \in Nat
    BY <1>1, StreamAssumption DEF Positions
  <2>2. a \in Int /\ b \in Int /\ a - b < StreamLen /\ b - a < StreamLen
    BY <2>1
  <2>3. SeqModulus \div 2 \in Int /\ StreamLen <= SeqModulus \div 2
    BY ModulusFacts, StreamAssumption
  <2> HIDE DEF a, b
  <2>4. QED
    BY <2>1, <2>2, <2>3
<1> HIDE DEF a, b
<1>4. SeqDistance(isn, a, b) = a - b
  BY <1>1, <1>3, SignedDistance
<1>5. QED
  BY <1>2, <1>3, <1>4 DEF a, b

LEMMA InitInvariant == Init => IInv
BY StreamAssumption
   DEF Init, IInv, TypeOK, SequenceNumbersAreTrue, Idle, Clock, TimesOnlyGoForward,
       BufLen, Positions, Segments

LEMMA CaptureInvariant ==
  ASSUME IInv, NEW first \in Positions, NEW len \in 1 .. StreamLen, Capture(first, len)
  PROVE  IInv'
<1> DEFINE s == [seq |-> (isn + first) % SeqModulus, first |-> first, len |-> len]
<1>1. s \in Segments
  <2>1. (isn + first) \in Int
    BY StreamAssumption DEF IInv, TypeOK, Positions
  <2>2. (isn + first) % SeqModulus \in 0 .. (SeqModulus - 1)
    BY <2>1, ModulusFacts, DivisionTheorem
  <2>3. QED
    BY <2>2 DEF Capture, Segments
<1>2. /\ capture' \in Seq(Segments)
      /\ Len(capture') = Len(capture) + 1
      /\ DOMAIN capture \subseteq DOMAIN capture'
      /\ \A i \in DOMAIN capture' :
           IF i \in DOMAIN capture THEN capture'[i] = capture[i] ELSE capture'[i] = s
  BY <1>1 DEF Capture, IInv, TypeOK
<1>3. Idle
  BY DEF IInv, Capture
<1>4. TypeOK'
  BY <1>2, <1>3, StreamAssumption DEF IInv, TypeOK, Capture, Idle, BufLen
<1>5. SequenceNumbersAreTrue'
  BY <1>2 DEF SequenceNumbersAreTrue, IInv, Capture
<1>6. QED
  BY <1>3, <1>4, <1>5 DEF IInv, Capture, Idle, Clock, TimesOnlyGoForward

LEMMA BeginInvariant ==
  ASSUME IInv, Begin
  PROVE  IInv'
<1>1. Idle /\ capture # <<>> /\ capture \in Seq(Segments) /\ isn \in InitialSeqs
  BY DEF IInv, TypeOK, Begin
<1>2. \A i \in DOMAIN capture :
        /\ OffsetOf(i) = capture[i].first - capture[1].first
        /\ OffsetOf(i) \in (1 - StreamLen) .. (StreamLen - 1)
        /\ OffsetOf(i)' = OffsetOf(i)
  <2> TAKE i \in DOMAIN capture
  <2>1. OffsetOf(i) = capture[i].first - capture[1].first
    BY <1>1, OffsetIsDistance DEF IInv
  <2>2. capture[i] \in Segments /\ capture[1] \in Segments
    BY <1>1
  <2>3. OffsetOf(i)' = OffsetOf(i)
    BY DEF Begin, OffsetOf, Offset
  <2>4. QED
    BY <2>1, <2>2, <2>3, StreamAssumption DEF Segments, Positions
<1>3. PICK i \in DOMAIN capture : start' = OffsetOf(i)
  BY DEF Begin
<1>4. start' \in (1 - StreamLen) .. 0 /\ end' = start'
  <2>1. 1 \in DOMAIN capture /\ OffsetOf(1) = 0
    BY <1>1, <1>2 DEF Segments, Positions
  <2>2. start' <= OffsetOf(1)
    BY <2>1 DEF Begin
  <2>3. QED
    BY <1>2, <1>3, <2>1, <2>2, StreamAssumption DEF Begin
<1>11. OffsetOf(i) \in Int /\ end' = OffsetOf(i) /\ start' = OffsetOf(i)
  BY <1>2, <1>3, <1>4, StreamAssumption
<1>12. BufLen' = 0
  BY <1>11 DEF BufLen
<1>13. 0 .. (BufLen' - 1) = {}
  BY <1>12
<1>5. TypeOK'
  BY <1>1, <1>4, <1>13, StreamAssumption DEF Begin, IInv, TypeOK, Idle
<1>6. Absorbed' = {}
  BY DEF Begin, Absorbed
<1>7. Span' /\ AbsorbedInOrder'
  BY <1>2, <1>3, <1>6 DEF Span, AbsorbedInOrder, Begin
<1>8. Contents'
  BY <1>13 DEF Contents
<1>9. Clock' /\ TimesOnlyGoForward'
  BY <1>1 DEF Begin, Idle, Clock, TimesOnlyGoForward
<1>10. QED
  BY <1>1, <1>5, <1>7, <1>8, <1>9 DEF IInv, Begin, SequenceNumbersAreTrue

LEMMA NothingCapturedInvariant ==
  ASSUME IInv, NothingCaptured
  PROVE  IInv'
BY DEF IInv, NothingCaptured, TypeOK, SequenceNumbersAreTrue, Idle, Clock, TimesOnlyGoForward,
       BufLen

LEMMA ReturnInvariant ==
  ASSUME IInv, Return
  PROVE  IInv'
<1>1. /\ Span /\ AbsorbedInOrder /\ Contents /\ Clock /\ TimesOnlyGoForward
      /\ capture # <<>> /\ SequenceNumbersAreTrue /\ TypeOK
  BY DEF IInv, Return
<1>2. TypeOK' /\ SequenceNumbersAreTrue'
  BY <1>1 DEF Return, TypeOK, SequenceNumbersAreTrue, BufLen
<1>3. Span' /\ AbsorbedInOrder'
  BY <1>1 DEF Return, Span, AbsorbedInOrder, Absorbed, OffsetOf, Offset
<1>4. Contents'
  BY <1>1 DEF Return, Contents, Hollow, Filled, Absorbed, OffsetOf, Offset, BufLen, Origin,
              Carries, SegmentEnd
<1>5. Clock' /\ TimesOnlyGoForward'
  BY <1>1 DEF Return, Clock, TimesOnlyGoForward, BufLen
<1>6. QED
  BY <1>1, <1>2, <1>3, <1>4, <1>5 DEF IInv, Return

\* What one turn of the loop computes.
LEMMA AbsorbFacts ==
  ASSUME IInv, NEW i \in pending, Absorb(i),
         NEW offset, offset = OffsetOf(i),
         NEW reached, reached = IF offset > end THEN offset ELSE end,
         NEW fresh, fresh = Fresh(i, reached)
  PROVE  /\ i \in DOMAIN capture
         /\ capture[i].first \in Positions /\ capture[i].len \in 1 .. StreamLen
         /\ capture[i].first + capture[i].len <= StreamLen
         /\ start \in Int /\ end \in Int /\ start <= end
         /\ offset \in Int /\ offset = capture[i].first - capture[1].first
         /\ capture[1].first \in Nat /\ Origin \in Nat /\ Origin = capture[1].first + start
         /\ start <= offset
         /\ reached \in Int /\ reached >= end /\ reached >= offset
         /\ offset > end \/ reached = end
         /\ fresh \in Seq(Int)
         /\ Len(fresh) = IF reached < offset + capture[i].len
                         THEN offset + capture[i].len - reached ELSE 0
         /\ \A k \in 1 .. Len(fresh) : fresh[k] = Origin + (reached - start) + k - 1
         /\ Len(fresh) = 0 => reached = end
<1>1. /\ i \in DOMAIN capture /\ capture # <<>> /\ capture \in Seq(Segments)
      /\ isn \in InitialSeqs /\ SequenceNumbersAreTrue /\ Span
      /\ start \in (1 - StreamLen) .. 0 /\ end \in start .. StreamLen
  BY DEF IInv, TypeOK, Absorb
<1>2. \A j \in DOMAIN capture :
        /\ OffsetOf(j) = capture[j].first - capture[1].first
        /\ capture[j].first \in Positions /\ capture[j].len \in 1 .. StreamLen
        /\ capture[j].first + capture[j].len <= StreamLen
  BY <1>1, OffsetIsDistance DEF Segments
<1>3. 1 \in DOMAIN capture
  BY <1>1
<1>4. PICK j \in DOMAIN capture : start = OffsetOf(j)
  BY <1>1 DEF Span
<1>5. /\ capture[1].first \in Nat /\ capture[j].first \in Nat
      /\ start = capture[j].first - capture[1].first
      /\ start \in Int /\ end \in Int /\ start <= end
  BY <1>1, <1>2, <1>3, <1>4, StreamAssumption DEF Positions
<1>6. Origin = capture[1].first + start /\ Origin \in Nat
  BY <1>5 DEF Origin
<1>7. /\ offset = capture[i].first - capture[1].first /\ offset \in Int
      /\ capture[i].first \in Int /\ capture[i].len \in Nat /\ capture[i].len > 0
  <2>1. offset = capture[i].first - capture[1].first
    BY <1>1, <1>2
  <2>2. capture[i].first \in Positions /\ capture[i].len \in 1 .. StreamLen
    BY <1>1, <1>2
  <2>3. capture[i].first \in Int /\ capture[i].len \in Nat /\ capture[i].len > 0
    BY <2>2, StreamAssumption DEF Positions
  <2>4. QED
    BY <1>5, <2>1, <2>3
<1>8. start <= offset
  BY <1>1 DEF Span
<1>9. reached \in Int /\ reached >= end /\ reached >= offset /\ (offset > end \/ reached = end)
  BY <1>5, <1>7
<1> DEFINE n == IF reached < offset + capture[i].len
                THEN offset + capture[i].len - reached ELSE 0
           at(k) == capture[i].first + (reached - offset) + k - 1
<1>10. n \in Nat /\ (n = 0 => reached = end)
  BY <1>7, <1>9
<1>11. fresh = [k \in 1 .. n |-> at(k)]
  <2>1. n = IF reached - offset < capture[i].len
            THEN capture[i].len - (reached - offset) ELSE 0
    BY <1>7, <1>9
  <2>2. fresh = [k \in 1 .. (IF reached - offset < capture[i].len
                             THEN capture[i].len - (reached - offset) ELSE 0) |-> at(k)]
    BY DEF Fresh
  <2> HIDE DEF n, at
  <2>3. QED
    BY <2>1, <2>2
<1>12. \A k \in 1 .. n : at(k) \in Int /\ at(k) = Origin + (reached - start) + k - 1
  <2> TAKE k \in 1 .. n
  <2>1. k \in Int
    BY <1>10
  <2>2. QED
    BY <2>1, <1>5, <1>6, <1>7, <1>9
<1> HIDE DEF n, at
<1>13. fresh \in Seq(Int) /\ Len(fresh) = n /\ \A k \in 1 .. n : fresh[k] = at(k)
  BY <1>10, <1>11, <1>12
<1>14. QED
  BY <1>1, <1>2, <1>5, <1>6, <1>7, <1>8, <1>9, <1>10, <1>12, <1>13 DEF n

LEMMA AbsorbInvariant ==
  ASSUME IInv, NEW i \in pending, Absorb(i)
  PROVE  IInv'
<1> DEFINE offset  == OffsetOf(i)
           reached == IF offset > end THEN offset ELSE end
           fresh   == Fresh(i, reached)
           later   == IF i > latest THEN i ELSE latest
           grown   == reached + Len(fresh)
<1>1. /\ TypeOK /\ SequenceNumbersAreTrue /\ Span /\ AbsorbedInOrder /\ Contents /\ Clock
      /\ TimesOnlyGoForward /\ phase = "reassembling" /\ capture # <<>>
  BY DEF IInv, Absorb
<1>2. /\ phase' = phase /\ isn' = isn /\ capture' = capture /\ start' = start
      /\ IsNext(i)
      /\ pending' = pending \ {i}
      /\ end' = grown
      /\ buf' = Extended(reached, fresh)
      /\ gaps' = IF offset > end THEN gaps \union {<<BufLen, offset - start>>} ELSE gaps
      /\ IF fresh = <<>>
         THEN latest' = latest /\ breakpoints' = breakpoints /\ kept' = kept
         ELSE /\ latest' = later
              /\ breakpoints' = Append(breakpoints, <<reached - start, later>>)
              /\ kept' = IF offset < reached
                         THEN [kept EXCEPT ![Len(kept)] = @ \o fresh]
                         ELSE Append(kept, fresh)
  BY DEF Absorb, Later, Chunks
<1>3. /\ i \in DOMAIN capture
      /\ capture[i].first \in Positions /\ capture[i].len \in 1 .. StreamLen
      /\ capture[i].first + capture[i].len <= StreamLen
      /\ start \in Int /\ end \in Int /\ start <= end
      /\ offset \in Int /\ offset = capture[i].first - capture[1].first
      /\ capture[1].first \in Nat /\ Origin \in Nat /\ Origin = capture[1].first + start
      /\ start <= offset
      /\ reached \in Int /\ reached >= end /\ reached >= offset
      /\ (offset > end \/ reached = end)
      /\ fresh \in Seq(Int)
      /\ Len(fresh) = IF reached < offset + capture[i].len
                      THEN offset + capture[i].len - reached ELSE 0
      /\ \A k \in 1 .. Len(fresh) : fresh[k] = Origin + (reached - start) + k - 1
      /\ (Len(fresh) = 0 => reached = end)
  BY AbsorbFacts
<1>4. /\ Absorbed' = Absorbed \union {i}
      /\ Absorbed \subseteq DOMAIN capture /\ pending \subseteq DOMAIN capture
  BY <1>1, <1>2, <1>3 DEF Absorbed, TypeOK
<1>5. \A j \in DOMAIN capture :
        /\ OffsetOf(j)' = OffsetOf(j)
        /\ OffsetOf(j) \in Int /\ OffsetOf(j) = capture[j].first - capture[1].first
        /\ capture[j].first \in Nat /\ capture[j].len \in Nat
        /\ capture[j].first + capture[j].len <= StreamLen
  <2> TAKE j \in DOMAIN capture
  <2>1. OffsetOf(j)' = OffsetOf(j)
    BY <1>2 DEF OffsetOf, Offset
  <2>2. OffsetOf(j) \in Int /\ OffsetOf(j) = capture[j].first - capture[1].first
    BY <1>1, OffsetIsDistance DEF TypeOK
  <2>3. capture[j] \in Segments
    BY <1>1 DEF TypeOK
  <2>4. QED
    BY <2>1, <2>2, <2>3, StreamAssumption DEF Segments, Positions
<1>6. \A j \in pending : offset <= OffsetOf(j)
  BY <1>2, <1>4, <1>5 DEF IsNext, SortsBefore
<1> HIDE DEF offset, reached, fresh, later, grown
<1>7. /\ grown \in Int /\ grown >= reached /\ grown >= end
      /\ offset + capture[i].len <= grown
      /\ (grown = end \/ grown = offset + capture[i].len)
      /\ Len(fresh) \in Nat
  <2>1. capture[i].len \in Int /\ capture[i].len > 0
    BY <1>3, StreamAssumption
  <2>2. /\ reached \in Int /\ reached >= end /\ reached >= offset /\ end \in Int
        /\ offset \in Int /\ (Len(fresh) = 0 => reached = end) /\ Len(fresh) \in Nat
    BY <1>3
  <2>3. CASE reached < offset + capture[i].len
    <3>1. Len(fresh) = offset + capture[i].len - reached
      BY <1>3, <2>3
    <3>2. grown = offset + capture[i].len
      BY <2>1, <2>2, <3>1 DEF grown
    <3>3. QED
      BY <2>1, <2>2, <2>3, <3>2
  <2>4. CASE ~(reached < offset + capture[i].len)
    <3>1. Len(fresh) = 0
      BY <1>3, <2>4
    <3>2. grown = reached /\ reached = end
      BY <2>2, <3>1 DEF grown
    <3>3. QED
      BY <2>1, <2>2, <2>4, <3>1, <3>2
  <2>5. QED
    BY <2>3, <2>4
<1>8. /\ BufLen = end - start /\ BufLen \in Nat /\ Origin' = Origin
      /\ BufLen' = grown - start /\ grown - start \in Nat
  BY <1>2, <1>3, <1>7 DEF BufLen, Origin
<1>arith. /\ start \in Int /\ end \in Int /\ offset \in Int /\ reached \in Int /\ grown \in Int
           /\ Origin \in Nat /\ BufLen \in Int /\ BufLen = end - start
           /\ capture[i].len \in Int /\ capture[i].first \in Int
           /\ start <= end /\ end <= reached /\ offset <= reached /\ (offset > end \/ reached = end)
           /\ (reached = offset \/ reached = end)
  <2>1. /\ start \in Int /\ end \in Int /\ offset \in Int /\ reached \in Int /\ Origin \in Nat
        /\ start <= end /\ end <= reached /\ offset <= reached /\ (offset > end \/ reached = end)
    BY <1>3
  <2>2. grown \in Int /\ BufLen \in Int /\ BufLen = end - start
    BY <1>7, <1>8
  <2>3. capture[i].len \in Int /\ capture[i].first \in Int
    BY <1>3, <1>5
  <2>4. reached = offset \/ reached = end
    BY DEF reached
  <2>5. QED
    BY <2>1, <2>2, <2>3, <2>4
<1>9. Span'
  <2>1. /\ \A j \in DOMAIN capture : start <= OffsetOf(j)
        /\ \E j \in DOMAIN capture : start = OffsetOf(j)
    BY <1>1 DEF Span
  <2>2. \A j \in Absorbed \union {i} : OffsetOf(j) + capture[j].len <= grown
    <3> TAKE j \in Absorbed \union {i}
    <3>1. CASE j \in Absorbed
      <4>1. OffsetOf(j) + capture[j].len <= end
        BY <1>1, <3>1 DEF Span
      <4>2. QED
        BY <1>3, <1>4, <1>5, <1>7, <3>1, <4>1
    <3>2. CASE j = i
      BY <1>7, <3>2 DEF offset
    <3>3. QED
      BY <3>1, <3>2
  <2>3. grown = start \/ \E j \in Absorbed \union {i} : OffsetOf(j) + capture[j].len = grown
    BY <1>1, <1>7 DEF Span, offset
  <2>4. QED
    BY <1>2, <1>4, <1>5, <2>1, <2>2, <2>3 DEF Span
<1>10. AbsorbedInOrder'
  <2>1. \A j \in Absorbed \union {i}, l \in pending \ {i} : OffsetOf(j) <= OffsetOf(l)
    BY <1>1, <1>6 DEF AbsorbedInOrder, offset
  <2>2. QED
    BY <1>2, <1>4, <1>5, <2>1 DEF AbsorbedInOrder
<1>11. \A k \in 0 .. (grown - start - 1) :
         buf'[k] = IF k < BufLen THEN buf[k]
                   ELSE IF k < reached - start THEN Zero
                   ELSE Origin + k
  <2> TAKE k \in 0 .. (grown - start - 1)
  <2>1. k \in 0 .. (reached - start + Len(fresh) - 1) /\ k \in Int
    <3>1. k \in Int /\ 0 <= k /\ k <= grown - start - 1
      BY <1>8
    <3>2. PICK n \in Nat : n = Len(fresh) /\ grown = reached + n
      BY <1>7 DEF grown
    <3>3. start \in Int /\ reached \in Int
      BY <1>3
    <3>4. reached - start + n - 1 = grown - start - 1
      BY <3>2, <3>3
    <3>5. QED
      BY <3>1, <3>2, <3>3, <3>4
  <2>2. buf'[k] = IF k < BufLen THEN buf[k]
                  ELSE IF k < reached - start THEN Zero
                  ELSE fresh[k - (reached - start) + 1]
    BY <1>2, <2>1 DEF Extended
  <2>3. CASE k < reached - start
    BY <2>2, <2>3
  <2>4. CASE ~(k < reached - start)
    <3>1. k - (reached - start) + 1 \in 1 .. Len(fresh)
      <4>1. /\ start \in Int /\ reached \in Int /\ k \in Int /\ Len(fresh) \in Nat
            /\ k <= reached - start + Len(fresh) - 1
        BY <1>7, <1>arith, <2>1
      <4>2. QED
        BY ONLY <2>4, <4>1
    <3>2. fresh[k - (reached - start) + 1]
            = Origin + (reached - start) + (k - (reached - start) + 1) - 1
      BY <1>3, <3>1
    <3>3. fresh[k - (reached - start) + 1] = Origin + k
      BY <1>3, <2>1, <3>2
    <3>4. QED
      BY <2>2, <2>4, <3>3
  <2>5. QED
    BY <2>3, <2>4
<1>13. \A j \in DOMAIN capture, k \in Nat :
         Carries(capture[j], Origin + k)
           <=> OffsetOf(j) <= start + k /\ start + k < OffsetOf(j) + capture[j].len
  <2> TAKE j \in DOMAIN capture, k \in Nat
  <2>1. /\ OffsetOf(j) = capture[j].first - capture[1].first /\ capture[1].first \in Int
        /\ capture[j].first \in Int /\ capture[j].len \in Int /\ start \in Int
        /\ Origin = capture[1].first + start
    <3>1. /\ OffsetOf(j) = capture[j].first - capture[1].first
          /\ capture[j].first \in Int /\ capture[j].len \in Int
      BY <1>5
    <3>2. QED
      BY <1>3, <3>1
  <2>2. QED
    BY <2>1 DEF Carries, SegmentEnd
<1>14. Contents'
  <2>1. ASSUME NEW k \in 0 .. (grown - start - 1)
        PROVE  \/ /\ buf'[k] = Zero
                  /\ \A j \in Absorbed \union {i} : ~Carries(capture[j], Origin + k)
                  /\ \A l \in pending \ {i} : start + k < OffsetOf(l)
               \/ /\ buf'[k] = Origin + k
                  /\ \E j \in Absorbed \union {i} : Carries(capture[j], Origin + k)
    <3>1. k \in Nat
      BY <1>8
    <3>2. CASE k < BufLen
      <4>1. buf'[k] = buf[k] /\ (Hollow(k) \/ Filled(k))
        BY <1>1, <1>8, <1>11, <3>1, <3>2 DEF Contents
      <4>2. CASE Filled(k)
        BY <4>1, <4>2 DEF Filled
      <4>3. CASE Hollow(k)
        <5>1. start + k < offset
          BY <4>3 DEF Hollow, offset
        <5>2. ~(offset <= start + k)
          BY <1>arith, <3>1, <5>1
        <5>3. ~Carries(capture[i], Origin + k)
          BY <1>3, <1>13, <3>1, <5>2 DEF offset
        <5>4. QED
          BY <4>1, <4>3, <5>3 DEF Hollow
      <4>4. QED
        BY <4>1, <4>2, <4>3
    <3>3. CASE ~(k < BufLen) /\ k < reached - start
      <4>1. buf'[k] = Zero
        BY <1>11, <3>3
      <4>2. start + k < offset
        BY <1>arith, <3>1, <3>3
      <4>3. \A l \in pending : start + k < OffsetOf(l)
        <5> TAKE l \in pending
        <5>1. OffsetOf(l) \in Int /\ offset <= OffsetOf(l)
          BY <1>4, <1>5, <1>6
        <5>2. QED
          BY <1>3, <3>1, <4>2, <5>1
      <4>4. \A j \in Absorbed : ~Carries(capture[j], Origin + k)
        <5> TAKE j \in Absorbed
        <5>1. OffsetOf(j) + capture[j].len <= end
          BY <1>1 DEF Span
        <5>2. /\ j \in DOMAIN capture
              /\ OffsetOf(j) \in Int /\ capture[j].len \in Int
          BY <1>4, <1>5
        <5>3. OffsetOf(j) + capture[j].len <= start + k
          BY <1>arith, <3>1, <3>3, <5>1, <5>2
        <5>4. QED
          BY <1>arith, <1>13, <3>1, <5>2, <5>3
      <4>5. ~Carries(capture[i], Origin + k)
        <5>1. ~(offset <= start + k)
          BY <1>arith, <3>1, <4>2
        <5>2. QED
          BY <1>3, <1>13, <3>1, <5>1 DEF offset
      <4>6. QED
        BY <4>1, <4>3, <4>4, <4>5
    <3>4. CASE ~(k < BufLen) /\ ~(k < reached - start)
      <4>1. buf'[k] = Origin + k
        BY <1>11, <3>4
      <4>2. grown = offset + capture[i].len
        BY <1>7, <1>arith, <3>1, <3>4
      <4>3. offset <= start + k /\ start + k < offset + capture[i].len
        BY <1>arith, <3>1, <3>4, <4>2
      <4>4. Carries(capture[i], Origin + k)
        BY <1>3, <1>13, <3>1, <4>3 DEF offset
      <4>5. QED
        BY <4>1, <4>4
    <3>5. QED
      BY <3>2, <3>3, <3>4
  <2>2. \A k : Carries(capture[k], Origin)' <=> Carries(capture[k], Origin)
    BY <1>2, <1>8 DEF Carries, SegmentEnd
  <2>3. \A k \in 0 .. (grown - start - 1) : Hollow(k)' \/ Filled(k)'
    <3> TAKE k \in 0 .. (grown - start - 1)
    <3>1. \A j \in Absorbed \union {i} :
            Carries(capture[j], Origin + k)' <=> Carries(capture[j], Origin + k)
      BY <1>2, <1>8 DEF Carries, SegmentEnd
    <3>2. \A l \in pending \ {i} : (start + k < OffsetOf(l))' <=> (start + k < OffsetOf(l))
      BY <1>2, <1>4, <1>5
    <3>3. QED
      BY <1>2, <1>4, <1>8, <2>1, <3>1, <3>2 DEF Hollow, Filled
  <2>4. QED
    BY <1>8, <2>3 DEF Contents
<1>15. /\ grown <= StreamLen - capture[1].first
       /\ grown - start \in 0 .. StreamLen
       /\ Origin + (grown - start) <= StreamLen
  <2>1. capture[1].first \in Nat /\ StreamLen \in Nat /\ Origin = capture[1].first + start
    BY <1>3, StreamAssumption
  <2>2. PICK j \in DOMAIN capture : start = OffsetOf(j)
    BY <1>1 DEF Span
  <2>3. grown = start \/ \E l \in DOMAIN capture : OffsetOf(l) + capture[l].len = grown
    BY <1>1, <1>3, <1>4, <1>7 DEF Span, offset
  <2>4. start <= StreamLen - capture[1].first
    BY <1>5, <2>1, <2>2
  <2>5. grown <= StreamLen - capture[1].first
    <3>1. ASSUME NEW l \in DOMAIN capture, OffsetOf(l) + capture[l].len = grown
          PROVE  grown <= StreamLen - capture[1].first
      BY <1>5, <2>1, <3>1
    <3>2. QED
      BY <2>3, <2>4, <3>1
  <2>6. Origin + (grown - start) <= StreamLen
    BY <1>arith, <2>1, <2>5
  <2>7. QED
    BY <1>8, <1>arith, <2>1, <2>5, <2>6
<1>16. fresh # <<>> => reached - start \in 0 .. (StreamLen - 1) /\ reached - start < grown - start
  <2> SUFFICES ASSUME fresh # <<>>
               PROVE  reached - start \in 0 .. (StreamLen - 1) /\ reached - start < grown - start
    OBVIOUS
  <2>1. Len(fresh) > 0
    BY <1>3, <1>7
  <2>2. reached < grown
    BY <1>7, <1>arith, <2>1 DEF grown
  <2>3. QED
    BY <1>arith, <1>15, <2>2, StreamAssumption
<1>17. fresh \in Seq(Positions)
  <2>1. \A k \in 1 .. Len(fresh) : fresh[k] \in Positions
    <3> TAKE k \in 1 .. Len(fresh)
    <3>1. fresh[k] = Origin + (reached - start) + k - 1 /\ k \in Int
      BY <1>3, <1>7
    <3>2. k <= grown - reached
      BY <1>7, <1>arith DEF grown
    <3>3. QED
      BY <1>arith, <1>15, <3>1, <3>2, StreamAssumption DEF Positions
  <2>2. /\ fresh = [k \in 1 .. Len(fresh) |-> fresh[k]] /\ Len(fresh) \in Nat
    BY <1>3
  <2>3. QED
    BY <2>1, <2>2
<1>18. TypeOK'
  <2>1. /\ phase' \in {"capturing", "reassembling", "done"} /\ isn' \in InitialSeqs
        /\ capture' \in Seq(Segments) /\ Len(capture') <= MaxSegments
        /\ pending' \subseteq DOMAIN capture' /\ start' \in (1 - StreamLen) .. 0
    BY <1>1, <1>2 DEF TypeOK
  <2>2. end' \in start' .. StreamLen
    <3>1. capture[1].first \in Nat /\ StreamLen \in Nat
      BY <1>3, StreamAssumption
    <3>2. grown \in start .. StreamLen
      BY <1>7, <1>arith, <1>15, <3>1
    <3>3. QED
      BY <1>2, <3>2
  <2>3. buf' \in [0 .. (BufLen' - 1) -> Positions \union {Zero}]
    <3>1. \A k \in 0 .. (grown - start - 1) : buf'[k] \in Positions \union {Zero}
      <4> TAKE k \in 0 .. (grown - start - 1)
      <4>1. k < BufLen => buf[k] \in Positions \union {Zero}
        <5>1. buf \in [0 .. (BufLen - 1) -> Positions \union {Zero}]
          BY <1>1 DEF TypeOK
        <5>2. k < BufLen => k \in 0 .. (BufLen - 1)
          BY <1>arith
        <5>3. QED
          BY <5>1, <5>2
      <4>2. Origin + k \in Positions
        BY <1>arith, <1>15, StreamAssumption DEF Positions
      <4>3. QED
        BY <1>11, <4>1, <4>2
    <3>2. buf' = [k \in 0 .. (grown - start - 1) |-> buf'[k]]
      <4>1. DOMAIN buf' = 0 .. (reached - start + Len(fresh) - 1)
        BY <1>2 DEF Extended
      <4>2. reached - start + Len(fresh) - 1 = grown - start - 1
        BY <1>7, <1>arith DEF grown
      <4>3. buf' = [k \in DOMAIN buf' |-> buf'[k]]
        BY <1>2 DEF Extended
      <4>4. QED
        BY <4>1, <4>2, <4>3
    <3>3. buf' \in [0 .. (grown - start - 1) -> Positions \union {Zero}]
      BY <3>1, <3>2
    <3>4. QED
      BY <1>8, <3>3
  <2>4. latest' \in 0 .. Len(capture') /\ later \in 1 .. Len(capture)
    <3>1. /\ latest \in 0 .. Len(capture) /\ i \in 1 .. Len(capture) /\ Len(capture) \in Nat
      <4>1. latest \in 0 .. Len(capture) /\ capture \in Seq(Segments)
        BY <1>1 DEF TypeOK
      <4>2. DOMAIN capture = 1 .. Len(capture) /\ Len(capture) \in Nat
        BY <4>1
      <4>3. QED
        BY <1>3, <4>1, <4>2
    <3>2. later \in 1 .. Len(capture)
      BY <3>1 DEF later
    <3>3. latest' = latest \/ latest' = later
      BY <1>2
    <3>4. latest' \in 0 .. Len(capture)
      BY <3>1, <3>2, <3>3
    <3>5. QED
      BY <1>2, <3>2, <3>4
  <2>5. breakpoints' \in Seq((0 .. (StreamLen - 1)) \X (1 .. Len(capture')))
    <3>1. breakpoints \in Seq((0 .. (StreamLen - 1)) \X (1 .. Len(capture)))
      BY <1>1 DEF TypeOK
    <3>2. CASE fresh = <<>>
      BY <1>2, <3>1, <3>2
    <3>3. CASE fresh # <<>>
      <4>1. <<reached - start, later>> \in (0 .. (StreamLen - 1)) \X (1 .. Len(capture))
        BY <1>16, <2>4, <3>3
      <4>2. Append(breakpoints, <<reached - start, later>>)
              \in Seq((0 .. (StreamLen - 1)) \X (1 .. Len(capture)))
        BY <3>1, <4>1
      <4>3. QED
        BY <1>2, <3>3, <4>2
    <3>4. QED
      BY <3>2, <3>3
  <2>6. kept' \in Seq(Seq(Positions))
    <3>1. kept \in Seq(Seq(Positions))
      BY <1>1 DEF TypeOK
    <3>2. Append(kept, fresh) \in Seq(Seq(Positions))
      BY <1>17, <3>1
    <3>3. [kept EXCEPT ![Len(kept)] = @ \o fresh] \in Seq(Seq(Positions))
      <4>1. /\ kept \in [1 .. Len(kept) -> Seq(Positions)] /\ Len(kept) \in Nat
        BY <3>1
      <4>2. \A c \in 1 .. Len(kept) : kept[c] \o fresh \in Seq(Positions)
        BY <1>17, <4>1
      <4>3. [kept EXCEPT ![Len(kept)] = @ \o fresh] \in [1 .. Len(kept) -> Seq(Positions)]
        BY <4>1, <4>2
      <4>4. QED
        BY <4>1, <4>3
    <3>4. QED
      BY <1>2, <3>1, <3>2, <3>3
  <2>7. gaps' \subseteq (0 .. StreamLen) \X (0 .. StreamLen)
    <3>1. gaps \subseteq (0 .. StreamLen) \X (0 .. StreamLen)
      BY <1>1 DEF TypeOK
    <3>2. CASE offset > end
      <4>1. /\ start <= end /\ end <= grown /\ offset <= grown /\ start <= offset
            /\ start \in Int /\ end \in Int /\ offset \in Int /\ grown \in Int
            /\ StreamLen \in Int /\ grown - start <= StreamLen
        BY <1>3, <1>7, <1>arith, <1>15, StreamAssumption
      <4>2. end - start \in 0 .. StreamLen /\ offset - start \in 0 .. StreamLen
        BY ONLY <4>1
      <4>3. BufLen \in 0 .. StreamLen /\ offset - start \in 0 .. StreamLen
        BY <1>8, <4>2
      <4>4. QED
        BY <1>2, <3>1, <3>2, <4>3
    <3>3. CASE ~(offset > end)
      BY <1>2, <3>1, <3>3
    <3>4. QED
      BY <3>2, <3>3
  <2>8. QED
    BY <2>1, <2>2, <2>3, <2>4, <2>5, <2>6, <2>7 DEF TypeOK
<1>19. Clock' /\ TimesOnlyGoForward'
  <2>1. /\ breakpoints \in Seq((0 .. (StreamLen - 1)) \X (1 .. Len(capture)))
        /\ latest \in Nat /\ later \in Nat /\ later >= latest
        /\ \A b \in DOMAIN breakpoints :
             /\ breakpoints[b][1] \in Int /\ breakpoints[b][1] < BufLen
             /\ breakpoints[b][2] \in Int /\ breakpoints[b][2] <= latest
    <3>1. /\ breakpoints \in Seq((0 .. (StreamLen - 1)) \X (1 .. Len(capture)))
          /\ latest \in 0 .. Len(capture) /\ Len(capture) \in Nat /\ StreamLen \in Nat
          /\ i \in 1 .. Len(capture)
      <4>1. /\ breakpoints \in Seq((0 .. (StreamLen - 1)) \X (1 .. Len(capture)))
            /\ latest \in 0 .. Len(capture) /\ capture \in Seq(Segments)
        BY <1>1 DEF TypeOK
      <4>2. i \in DOMAIN capture
        BY <1>3
      <4>3. QED
        BY <4>1, <4>2, StreamAssumption
    <3>2. latest \in Nat /\ later \in Nat /\ later >= latest
      BY <3>1 DEF later
    <3>3. \A b \in DOMAIN breakpoints :
            /\ breakpoints[b] \in (0 .. (StreamLen - 1)) \X (1 .. Len(capture))
            /\ breakpoints[b][1] < BufLen /\ breakpoints[b][2] <= latest
      BY <1>1, <3>1 DEF Clock
    <3>4. QED
      BY <3>1, <3>2, <3>3
  <2>2. CASE fresh = <<>>
    <3>1. breakpoints' = breakpoints /\ latest' = latest
      BY <1>2, <2>2
    <3>2. \A b \in DOMAIN breakpoints : breakpoints[b][1] < grown - start
      BY <1>7, <1>arith, <2>1
    <3>3. QED
      BY <1>1, <1>8, <2>1, <3>1, <3>2 DEF Clock, TimesOnlyGoForward
  <2>3. CASE fresh # <<>>
    <3>1. breakpoints' = Append(breakpoints, <<reached - start, later>>) /\ latest' = later
      BY <1>2, <2>3
    <3>2. /\ reached - start \in Int /\ BufLen <= reached - start
          /\ reached - start < grown - start /\ grown - start \in Int
      BY <1>arith, <1>16, <2>3
    <3>3. \A b \in DOMAIN breakpoints' :
            /\ breakpoints'[b][1] < grown - start
            /\ breakpoints'[b][2] <= later
      <4> TAKE b \in DOMAIN breakpoints'
      <4>1. CASE b \in DOMAIN breakpoints
        <5>1. breakpoints'[b] = breakpoints[b]
          BY <2>1, <3>1, <4>1
        <5>2. /\ breakpoints[b][1] \in Int /\ breakpoints[b][1] < BufLen
              /\ breakpoints[b][2] \in Int /\ breakpoints[b][2] <= latest
          BY <2>1, <4>1
        <5>3. QED
          BY <1>8, <2>1, <3>2, <5>1, <5>2
      <4>2. CASE b = Len(breakpoints) + 1
        <5>1. breakpoints'[b] = <<reached - start, later>>
          BY <2>1, <3>1, <4>2
        <5>2. QED
          BY <2>1, <3>2, <5>1
      <4>3. b \in DOMAIN breakpoints \/ b = Len(breakpoints) + 1
        BY <2>1, <3>1
      <4>4. QED
        BY <4>1, <4>2, <4>3
    <3>4. \A a, b \in DOMAIN breakpoints' :
            a < b => /\ breakpoints'[a][1] < breakpoints'[b][1]
                     /\ breakpoints'[a][2] <= breakpoints'[b][2]
      <4> TAKE a, b \in DOMAIN breakpoints'
      <4> DEFINE n == Len(breakpoints)
      <4>5. /\ n \in Nat /\ a \in 1 .. (n + 1) /\ b \in 1 .. (n + 1)
            /\ DOMAIN breakpoints = 1 .. n
        BY <2>1, <3>1
      <4>7. /\ \A c \in 1 .. n : breakpoints'[c] = breakpoints[c]
            /\ breakpoints'[n + 1] = <<reached - start, later>>
        BY <2>1, <3>1
      <4> HIDE DEF n
      <4>1. CASE a \in DOMAIN breakpoints /\ b \in DOMAIN breakpoints
        <5>1. breakpoints'[a] = breakpoints[a] /\ breakpoints'[b] = breakpoints[b]
          BY <4>1, <4>5, <4>7
        <5>2. QED
          BY <1>1, <4>1, <5>1 DEF TimesOnlyGoForward
      <4>2. CASE a \in DOMAIN breakpoints /\ b = n + 1
        <5>1. breakpoints'[a] = breakpoints[a] /\ breakpoints'[b] = <<reached - start, later>>
          BY <4>2, <4>5, <4>7
        <5>2. /\ breakpoints[a][1] \in Int /\ breakpoints[a][1] < BufLen
              /\ breakpoints[a][2] \in Int /\ breakpoints[a][2] <= latest
          BY <2>1, <4>2
        <5>3. breakpoints[a][1] < reached - start
          BY <1>8, <3>2, <5>2
        <5>4. breakpoints[a][2] <= later
          BY <2>1, <5>2
        <5>5. QED
          BY <5>1, <5>3, <5>4
      <4>3. CASE a = n + 1
        BY <4>3, <4>5
      <4>4. \/ (a \in DOMAIN breakpoints /\ b \in DOMAIN breakpoints)
            \/ (a \in DOMAIN breakpoints /\ b = n + 1)
            \/ (a = n + 1)
        BY <4>5
      <4>6. QED
        BY <4>1, <4>2, <4>3, <4>4
    <3>5. QED
      BY <1>8, <3>1, <3>3, <3>4 DEF Clock, TimesOnlyGoForward
  <2>4. QED
    BY <2>2, <2>3
<1>20. SequenceNumbersAreTrue'
  BY <1>1, <1>2 DEF SequenceNumbersAreTrue
<1>21. QED
  BY <1>1, <1>2, <1>9, <1>10, <1>14, <1>18, <1>19, <1>20 DEF IInv

-----------------------------------------------------------------------------
(* The theorems. *)

LEMMA NextInvariant == IInv /\ [Next]_vars => IInv'
<1> SUFFICES ASSUME IInv, [Next]_vars
             PROVE  IInv'
  OBVIOUS
<1>1. CASE \E first \in Positions, len \in 1 .. StreamLen : Capture(first, len)
  BY <1>1, CaptureInvariant
<1>2. CASE NothingCaptured
  BY <1>2, NothingCapturedInvariant
<1>3. CASE Begin
  BY <1>3, BeginInvariant
<1>4. CASE \E i \in pending : Absorb(i)
  BY <1>4, AbsorbInvariant
<1>5. CASE Return
  BY <1>5, ReturnInvariant
<1>6. CASE UNCHANGED vars
  BY <1>6 DEF vars, IInv, TypeOK, SequenceNumbersAreTrue, Idle, Span, AbsorbedInOrder, Contents,
              Hollow, Filled, Clock, TimesOnlyGoForward, Absorbed, OffsetOf, Offset, BufLen,
              Origin, Carries, SegmentEnd
<1>7. QED
  BY <1>1, <1>2, <1>3, <1>4, <1>5, <1>6 DEF Next

\* The inductive invariant: besides the types, where the stream starts and ends,
\* that segments are absorbed in order of offset, and what each byte of the buffer is.
THEOREM InvariantHolds == Spec => []IInv
BY InitInvariant, NextInvariant, PTL DEF Spec

\* Every variable keeps its type: in particular the stream never grows past what
\* was sent, for any capture.
THEOREM TypeCorrect == Spec => []TypeOK
<1>1. IInv => TypeOK
  BY DEF IInv
<1>2. QED
  BY <1>1, InvariantHolds, PTL

LEMMA InvariantIsFaithful == IInv => StreamIsWhatWasCaptured
<1> SUFFICES ASSUME IInv, Reassembled
             PROVE  /\ \A k \in 0 .. (BufLen - 1) :
                         buf[k] = IF Captured(Origin + k) THEN Origin + k ELSE Zero
                    /\ \A p \in Positions : Captured(p) => p \in Origin .. (Origin + BufLen - 1)
                    /\ Captured(Origin) /\ Captured(Origin + BufLen - 1)
  BY DEF StreamIsWhatWasCaptured
<1>1. /\ Span /\ Contents /\ capture # <<>> /\ capture \in Seq(Segments)
      /\ isn \in InitialSeqs /\ SequenceNumbersAreTrue
      /\ Absorbed = DOMAIN capture /\ pending = {}
      /\ start \in (1 - StreamLen) .. 0 /\ end \in start .. StreamLen
  BY DEF IInv, Reassembled, Absorbed, TypeOK
<1>2. \A i \in DOMAIN capture :
        /\ OffsetOf(i) = capture[i].first - capture[1].first
        /\ OffsetOf(i) \in Int
        /\ capture[i].first \in Nat /\ capture[i].len \in Nat /\ capture[i].len > 0
  <2> TAKE i \in DOMAIN capture
  <2>1. OffsetOf(i) = capture[i].first - capture[1].first /\ OffsetOf(i) \in Int
    BY <1>1, OffsetIsDistance
  <2>2. capture[i] \in Segments
    BY <1>1
  <2>3. QED
    BY <2>1, <2>2, StreamAssumption DEF Segments, Positions
<1>3. /\ capture[1].first \in Nat /\ start \in Int /\ end \in Int
      /\ Origin = capture[1].first + start /\ Origin \in Int
      /\ BufLen = end - start
  BY <1>1, <1>2, StreamAssumption DEF Origin, BufLen
<1>4. DOMAIN capture = 1 .. Len(capture) /\ 1 \in DOMAIN capture
  BY <1>1
<1>5. \A p \in Int : Captured(p) <=> \E i \in DOMAIN capture : Carries(capture[i], p)
  BY <1>4 DEF Captured, CapturedBy
<1>6. \A k \in 0 .. (BufLen - 1) :
        buf[k] = IF Captured(Origin + k) THEN Origin + k ELSE Zero
  <2> TAKE k \in 0 .. (BufLen - 1)
  <2>1. Origin + k \in Int
    BY <1>3
  <2>2. Hollow(k) \/ Filled(k)
    BY <1>1 DEF Contents
  <2>3. CASE Hollow(k)
    BY <1>1, <1>5, <2>1, <2>3 DEF Hollow
  <2>4. CASE Filled(k)
    BY <1>1, <1>5, <2>1, <2>4 DEF Filled
  <2>5. QED
    BY <2>2, <2>3, <2>4
<1>7. ASSUME NEW p \in Positions, Captured(p)
      PROVE  p \in Origin .. (Origin + BufLen - 1)
  <2>1. p \in Int
    BY StreamAssumption DEF Positions
  <2>2. PICK i \in DOMAIN capture : Carries(capture[i], p)
    BY <1>5, <1>7, <2>1
  <2>3. start <= OffsetOf(i) /\ OffsetOf(i) + capture[i].len <= end
    BY <1>1 DEF Span
  <2>4. QED
    BY <1>2, <1>3, <2>1, <2>2, <2>3 DEF Carries, SegmentEnd
<1>8. Captured(Origin)
  <2>1. PICK i \in DOMAIN capture : start = OffsetOf(i)
    BY <1>1 DEF Span
  <2>2. capture[i].first = Origin
    BY <1>2, <1>3, <2>1
  <2>3. Carries(capture[i], Origin)
    BY <1>2, <2>2 DEF Carries, SegmentEnd
  <2>4. QED
    BY <1>3, <1>5, <2>3
<1>9. Captured(Origin + BufLen - 1)
  <2>1. start <= OffsetOf(1) /\ OffsetOf(1) + capture[1].len <= end
    BY <1>1, <1>4 DEF Span
  <2>2. end # start
    BY <1>2, <1>3, <1>4, <2>1
  <2>3. PICK i \in DOMAIN capture : OffsetOf(i) + capture[i].len = end
    BY <1>1, <2>2 DEF Span
  <2>4. Origin + BufLen - 1 = capture[i].first + capture[i].len - 1
    BY <1>2, <1>3, <2>3
  <2>5. Carries(capture[i], Origin + BufLen - 1)
    BY <1>2, <2>4 DEF Carries, SegmentEnd
  <2>6. QED
    BY <1>3, <1>5, <2>5
<1>10. QED
  BY <1>6, <1>7, <1>8, <1>9

\* Whatever segments were captured, in whatever order, cut and number of copies,
\* the finished stream is the captured bytes in their places and zeros elsewhere.
THEOREM StreamIsFaithful == Spec => []StreamIsWhatWasCaptured
BY InvariantIsFaithful, InvariantHolds, PTL

-----------------------------------------------------------------------------
(* The times. *)

LEMMA LeastOf ==
  ASSUME NEW S \in SUBSET Nat, S # {}
  PROVE  Min(S) \in S /\ \A y \in S : Min(S) <= y
<1>1. PICK x \in S : \A y \in S : ~(<<y, x>> \in OpToRel(<, Nat))
  BY WFMin, NatLessThanWellFounded
<1>2. ASSUME NEW y \in S PROVE x <= y
  <2>1. ~(<<y, x>> \in OpToRel(<, Nat))
    BY <1>1
  <2>2. x \in Nat /\ y \in Nat
    OBVIOUS
  <2>3. ~(y < x)
    BY <2>1, <2>2 DEF OpToRel
  <2>4. QED
    BY <2>2, <2>3
<1>3. QED
  BY <1>2 DEF Min

LEMMA GreatestOf ==
  ASSUME NEW n \in Nat, NEW S \in SUBSET (1 .. n), S # {}
  PROVE  Max(S) \in S /\ \A y \in S : Max(S) >= y
<1>1. PICK T : T = {n - y : y \in S}
  OBVIOUS
<1>2. T \in SUBSET Nat /\ T # {}
  <2>1. \A y \in S : n - y \in Nat
    OBVIOUS
  <2>2. QED
    BY <1>1, <2>1
<1>3. PICK t \in T : \A y \in T : t <= y
  BY <1>2, LeastOf
<1>4. PICK x \in S : t = n - x
  BY <1>1
<1>5. ASSUME NEW y \in S PROVE x >= y
  <2>1. n - y \in T
    BY <1>1
  <2>2. n - x <= n - y
    BY <1>3, <1>4, <2>1
  <2>3. QED
    BY <2>2
<1>6. QED
  BY <1>5 DEF Max

LEMMA NothingIsThere ==
  ASSUME IInv, NothingCaptured \/ Begin
  PROVE  BufLen' = 0 /\ 0 .. (BufLen' - 1) = {}
<1>1. end' - start' = 0
  <2>1. CASE NothingCaptured
    <3>1. Idle /\ start' = start /\ end' = end
      BY <2>1 DEF NothingCaptured, IInv
    <3>2. QED
      BY <3>1 DEF Idle
  <2>2. CASE Begin
    <3>1. TypeOK'
      BY <2>2, BeginInvariant DEF IInv
    <3>2. PICK at \in Int : at = start'
      BY <3>1, StreamAssumption DEF TypeOK
    <3>3. end' = at
      BY <2>2, <3>2 DEF Begin
    <3>4. at - at = 0
      OBVIOUS
    <3>5. QED
      BY <3>2, <3>3, <3>4
  <2>3. QED
    BY <2>1, <2>2
<1>2. BufLen' = 0 /\ 0 .. (BufLen' - 1) = {}
  <2>1. BufLen' = 0
    BY <1>1 DEF BufLen
  <2>2. QED
    BY <2>1
<1>3. QED
  BY <1>2

LEMMA OriginIsANumber ==
  ASSUME IInv, Reassembled
  PROVE  Origin \in Nat
<1>1. capture \in Seq(Segments) /\ capture # <<>> /\ isn \in InitialSeqs /\ Span
      /\ SequenceNumbersAreTrue
  BY DEF IInv, TypeOK, Reassembled
<1>2. PICK i \in DOMAIN capture : start = OffsetOf(i)
  BY <1>1 DEF Span
<1>3. capture[i] \in Segments /\ start = capture[i].first - capture[1].first
      /\ 1 \in DOMAIN capture /\ capture[1] \in Segments
  BY <1>1, <1>2, OffsetIsDistance
<1>4. Origin \in Nat
  BY <1>3, StreamAssumption DEF Origin, Segments, Positions
<1>5. QED
  BY <1>4

\* Each byte that is there was captured by the time of a breakpoint at or before it.
TimesAreOfTheBytes ==
  phase # "capturing" =>
    \A k \in 0 .. (BufLen - 1) : buf[k] # Zero =>
      \E b \in DOMAIN breakpoints :
        breakpoints[b][1] <= k /\ CapturedBy(buf[k], breakpoints[b][2])

LEMMA AbsorbKeepsTimes ==
  ASSUME IInv, TimesAreOfTheBytes, NEW i \in pending, Absorb(i)
  PROVE  TimesAreOfTheBytes'
<1> DEFINE offset  == OffsetOf(i)
           reached == IF offset > end THEN offset ELSE end
           fresh   == Fresh(i, reached)
<1>2. /\ i \in DOMAIN capture /\ capture[i].first \in Int /\ capture[i].len \in Int
      /\ start \in Int /\ end \in Int /\ start <= end
      /\ offset \in Int /\ offset = capture[i].first - capture[1].first
      /\ capture[1].first \in Nat /\ Origin \in Nat /\ Origin = capture[1].first + start
      /\ reached \in Int /\ reached >= end /\ reached >= offset
      /\ fresh \in Seq(Int)
      /\ Len(fresh) = IF reached < offset + capture[i].len
                      THEN offset + capture[i].len - reached ELSE 0
      /\ \A k \in 1 .. Len(fresh) : fresh[k] = Origin + (reached - start) + k - 1
      /\ Len(fresh) = 0 => reached = end
  <2>1. /\ i \in DOMAIN capture
        /\ capture[i].first \in Positions /\ capture[i].len \in 1 .. StreamLen
        /\ start \in Int /\ end \in Int /\ start <= end
        /\ offset \in Int /\ offset = capture[i].first - capture[1].first
        /\ capture[1].first \in Nat /\ Origin \in Nat /\ Origin = capture[1].first + start
        /\ reached \in Int /\ reached >= end /\ reached >= offset
        /\ fresh \in Seq(Int)
        /\ Len(fresh) = IF reached < offset + capture[i].len
                        THEN offset + capture[i].len - reached ELSE 0
        /\ \A k \in 1 .. Len(fresh) : fresh[k] = Origin + (reached - start) + k - 1
        /\ Len(fresh) = 0 => reached = end
    BY AbsorbFacts
  <2>2. capture[i].first \in Int /\ capture[i].len \in Int
    BY <2>1, StreamAssumption DEF Positions
  <2>3. QED
    BY <2>1, <2>2
<1>3. /\ capture' = capture /\ start' = start /\ end' = reached + Len(fresh)
      /\ phase = "reassembling" /\ buf' = Extended(reached, fresh)
      /\ IF fresh = <<>> THEN breakpoints' = breakpoints
         ELSE breakpoints' = Append(breakpoints, <<reached - start, Later(i)>>)
  BY DEF Absorb
<1> HIDE DEF offset, reached, fresh
<1>4. /\ breakpoints \in Seq((0 .. (StreamLen - 1)) \X (1 .. Len(capture)))
      /\ latest \in Int /\ Len(fresh) \in Nat
      /\ BufLen = end - start /\ BufLen \in Nat /\ i \in Nat \ {0}
  <2>1. /\ breakpoints \in Seq((0 .. (StreamLen - 1)) \X (1 .. Len(capture)))
        /\ latest \in 0 .. Len(capture) /\ capture \in Seq(Segments)
    BY DEF IInv, TypeOK
  <2>2. latest \in Int /\ i \in Nat \ {0}
    <3>1. DOMAIN capture = 1 .. Len(capture) /\ Len(capture) \in Nat
      BY <2>1
    <3>2. i \in DOMAIN capture
      BY <1>2
    <3>3. QED
      BY ONLY <2>1, <3>1, <3>2
  <2>3. Len(fresh) \in Nat
    BY <1>2
  <2>4. BufLen = end - start /\ BufLen \in Nat
    BY <1>2 DEF BufLen
  <2>5. QED
    BY <2>1, <2>2, <2>3, <2>4
<1>5. Later(i) \in Int /\ i <= Later(i)
  BY <1>4 DEF Later
<1>6. /\ \A b \in DOMAIN breakpoints : b \in DOMAIN breakpoints' /\ breakpoints'[b] = breakpoints[b]
      /\ fresh # <<>> => /\ Len(breakpoints) + 1 \in DOMAIN breakpoints'
                         /\ breakpoints'[Len(breakpoints) + 1] = <<reached - start, Later(i)>>
  <2>1. PICK b : b = <<reached - start, Later(i)>>
    OBVIOUS
  <2>2. CASE fresh = <<>>
    BY <1>3, <2>2
  <2>3. CASE fresh # <<>>
    <3>1. breakpoints' = Append(breakpoints, b)
      BY <1>3, <2>1, <2>3
    <3>2. QED
      BY <1>4, <2>1, <3>1
  <2>4. QED
    BY <2>2, <2>3
<1>7. ASSUME NEW k \in 0 .. (BufLen' - 1), buf'[k] # Zero
      PROVE  \E b \in DOMAIN breakpoints' :
               breakpoints'[b][1] <= k /\ CapturedBy(buf'[k], breakpoints'[b][2])
  <2>1. k \in 0 .. (reached - start + Len(fresh) - 1) /\ k \in Nat
    <3>1. /\ reached \in Int /\ start \in Int /\ Len(fresh) \in Int
          /\ end' = reached + Len(fresh) /\ start' = start
      BY <1>2, <1>3, <1>4
    <3>2. BufLen' = end' - start'
      BY DEF BufLen
    <3>3. BufLen' = reached - start + Len(fresh) /\ BufLen' \in Int
      BY ONLY <3>1, <3>2
    <3>4. QED
      BY ONLY <3>1, <3>3, <1>7
  <2>2. buf'[k] = IF k < BufLen THEN buf[k]
                  ELSE IF k < reached - start THEN Zero
                  ELSE fresh[k - (reached - start) + 1]
    BY <1>3, <2>1 DEF Extended
  <2>3. CASE k < BufLen
    <3>1. k \in 0 .. (BufLen - 1) /\ buf[k] # Zero /\ buf'[k] = buf[k]
      BY <1>4, <1>7, <2>1, <2>2, <2>3
    <3>2. PICK b \in DOMAIN breakpoints :
            breakpoints[b][1] <= k /\ CapturedBy(buf[k], breakpoints[b][2])
      BY <1>3, <3>1 DEF TimesAreOfTheBytes
    <3>3. QED
      BY <1>6, <3>1, <3>2
  <2>4. CASE ~(k < BufLen)
    <3>1. ~(k < reached - start) /\ buf'[k] = fresh[k - (reached - start) + 1]
      BY <1>7, <2>2, <2>4
    <3>2. PICK m \in 1 .. Len(fresh) : m = k - (reached - start) + 1
      BY <1>2, <1>4, <2>1, <3>1
    <3>3. fresh # <<>>
      BY <3>2
    <3>4. buf'[k] = Origin + (reached - start) + m - 1
      BY <1>2, <3>1, <3>2
    <3>5. Carries(capture[i], buf'[k])
      <4>1. Len(fresh) = offset + capture[i].len - reached
        BY <1>2, <3>2
      <4>2. /\ offset \in Int /\ offset = capture[i].first - capture[1].first
            /\ capture[1].first \in Nat /\ Origin = capture[1].first + start
            /\ capture[i].first \in Int /\ capture[i].len \in Int /\ start \in Int
            /\ reached \in Int /\ reached >= offset /\ Len(fresh) \in Int
            /\ m \in Int /\ 1 <= m /\ m <= Len(fresh)
        BY <1>2, <1>4, <3>2
      <4>3. capture[i].first <= buf'[k] /\ buf'[k] < capture[i].first + capture[i].len
        <5>1. PICK byte : byte = buf'[k]
          OBVIOUS
        <5>2. PICK first \in Int, len \in Int, zero \in Int, o \in Int :
                /\ first = capture[i].first /\ len = capture[i].len /\ zero = capture[1].first
                /\ o = Origin
          <6>1. /\ capture[i].first \in Int /\ capture[i].len \in Int
                /\ capture[1].first \in Int /\ Origin \in Int
            BY <1>2
          <6>2. QED
            BY <6>1, Zenon
        <5>3. PICK at \in Int, from \in Int, b \in Int : at = reached /\ from = offset /\ b = start
          BY <4>2
        <5>4. /\ byte = o + (at - b) + m - 1 /\ o = zero + b /\ from = first - zero
              /\ at >= from /\ 1 <= m /\ m <= from + len - at /\ m \in Int
          BY <3>4, <4>1, <4>2, <5>1, <5>2, <5>3
        <5>5. first <= byte /\ byte < first + len
          BY ONLY <5>4
        <5>6. QED
          BY <5>1, <5>2, <5>5
      <4>4. QED
        BY <4>3 DEF Carries, SegmentEnd
    <3>6. CapturedBy(buf'[k], Later(i))
      <4>1. i \in 1 .. Later(i)
        BY <1>4, <1>5
      <4>2. QED
        BY <3>5, <4>1 DEF CapturedBy
    <3>7. reached - start <= k
      BY <1>2, <2>1, <3>1
    <3>8. PICK b \in DOMAIN breakpoints' : breakpoints'[b] = <<reached - start, Later(i)>>
      BY <1>6, <3>3
    <3>9. QED
      BY <3>6, <3>7, <3>8
  <2>5. QED
    BY <2>3, <2>4
<1>8. QED
  BY <1>3, <1>7 DEF TimesAreOfTheBytes, CapturedBy

LEMMA TimesAreKept == IInv /\ TimesAreOfTheBytes /\ [Next]_vars => TimesAreOfTheBytes'
<1> SUFFICES ASSUME IInv, TimesAreOfTheBytes, [Next]_vars
             PROVE  TimesAreOfTheBytes'
  OBVIOUS
<1>1. CASE \E first \in Positions, len \in 1 .. StreamLen : Capture(first, len)
  BY <1>1 DEF Capture, TimesAreOfTheBytes
<1>2. CASE NothingCaptured \/ Begin
  BY <1>2, NothingIsThere DEF TimesAreOfTheBytes
<1>3. CASE \E i \in pending : Absorb(i)
  BY <1>3, AbsorbKeepsTimes
<1>4. CASE Return
  BY <1>4 DEF Return, IInv, TimesAreOfTheBytes, BufLen, CapturedBy
<1>5. CASE UNCHANGED vars
  BY <1>5 DEF vars, TimesAreOfTheBytes, BufLen, CapturedBy
<1>6. QED
  BY <1>1, <1>2, <1>3, <1>4, <1>5 DEF Next

LEMMA TimesAreEnough == IInv /\ TimesAreOfTheBytes => NoByteIsTimedEarly
<1> SUFFICES ASSUME IInv, TimesAreOfTheBytes, Reassembled,
                    NEW k \in 0 .. (BufLen - 1), Captured(Origin + k)
             PROVE  TimeAt(k) >= ReadableAt(Origin + k)
  BY DEF NoByteIsTimedEarly
<1>1. /\ breakpoints \in Seq((0 .. (StreamLen - 1)) \X (1 .. Len(capture)))
      /\ Len(breakpoints) \in Nat /\ DOMAIN breakpoints = 1 .. Len(breakpoints)
      /\ Len(capture) \in Nat /\ TimesOnlyGoForward /\ Origin \in Nat /\ k \in Nat
  BY OriginIsANumber DEF IInv, TypeOK
<1>2. ASSUME NEW q \in Origin .. (Origin + k), Captured(q)
      PROVE  \E b \in DOMAIN breakpoints :
               breakpoints[b][1] <= k /\ CapturedBy(q, breakpoints[b][2])
  <2>1. PICK l \in 0 .. (BufLen - 1) : q = Origin + l /\ l <= k
    <3>1. BufLen \in Int
      BY DEF IInv, TypeOK, BufLen
    <3>2. q - Origin \in 0 .. (BufLen - 1) /\ q = Origin + (q - Origin) /\ q - Origin <= k
      BY <1>1, <3>1
    <3>3. QED
      BY <3>2
  <2>2. buf[l] = q /\ q # Zero
    BY <1>1, <1>2, <2>1, InvariantIsFaithful DEF StreamIsWhatWasCaptured, Zero
  <2>3. PICK b \in DOMAIN breakpoints :
          breakpoints[b][1] <= l /\ CapturedBy(q, breakpoints[b][2])
    BY <2>2 DEF TimesAreOfTheBytes, Reassembled
  <2>4. breakpoints[b][1] \in Int
    BY <1>1
  <2>5. QED
    BY <1>1, <2>1, <2>3, <2>4
<1>3. PICK before : before = {b \in DOMAIN breakpoints : breakpoints[b][1] <= k}
  OBVIOUS
<1>4. before # {} /\ before \in SUBSET (1 .. Len(breakpoints))
  <2>1. Origin + k \in Origin .. (Origin + k)
    BY <1>1
  <2>2. QED
    BY <1>1, <1>2, <1>3, <2>1
<1>5. PICK last \in before : last = Max(before) /\ \A b \in before : b <= last
  BY <1>1, <1>4, GreatestOf
<1>6. TimeAt(k) = breakpoints[last][2]
  BY <1>3, <1>4, <1>5 DEF TimeAt
<1>7. PICK time \in 1 .. Len(capture) : time = breakpoints[last][2]
  BY <1>1, <1>3
<1>8. ASSUME NEW q \in Origin .. (Origin + k), Captured(q)
      PROVE  CapturedBy(q, time)
  <2>1. PICK b \in before : CapturedBy(q, breakpoints[b][2])
    BY <1>2, <1>3, <1>8
  <2>2. breakpoints[b][2] <= time /\ breakpoints[b][2] \in Int
    <3>1. b \in DOMAIN breakpoints /\ last \in DOMAIN breakpoints /\ b <= last
      BY <1>3, <1>5
    <3>2. breakpoints[b][2] \in Int
      BY <1>1, <3>1
    <3>3. CASE b = last
      <4>1. breakpoints[b][2] = time
        BY <1>7, <3>3
      <4>2. QED
        BY <3>2, <4>1
    <3>4. CASE b # last
      <4>1. b < last
        BY <1>1, <3>1, <3>4
      <4>2. breakpoints[b][2] <= breakpoints[last][2]
        BY <1>1, <3>1, <4>1 DEF TimesOnlyGoForward
      <4>3. QED
        BY <1>7, <3>2, <4>2
    <3>5. QED
      BY <3>3, <3>4
  <2>3. \A i \in 1 .. breakpoints[b][2] : i \in 1 .. time
    BY <2>2
  <2>4. QED
    BY <2>1, <2>3 DEF CapturedBy
<1>9. PICK moments : moments = {n \in 1 .. Len(capture) :
        \A q \in Origin .. (Origin + k) : Captured(q) => CapturedBy(q, n)}
  OBVIOUS
<1>10. time \in moments /\ moments \in SUBSET Nat
  BY <1>8, <1>9
<1>11. Min(moments) \in Nat /\ Min(moments) <= time
  BY <1>10, LeastOf
<1>12. ReadableAt(Origin + k) = Min(moments)
  BY <1>9 DEF ReadableAt
<1>13. QED
  BY <1>6, <1>7, <1>11, <1>12

\* Times along the stream never go back, and no byte is given a time at which it, or any
\* byte before it, was still missing, whatever order, cuts and copies the capture holds
\* (pcap.py, _reassemble, time_at).
THEOREM TheTimesAreTrue == Spec => []TimesAreTrue
<1>1. Init => TimesAreOfTheBytes
  BY DEF Init, TimesAreOfTheBytes
<1>2. IInv /\ TimesAreOfTheBytes => TimesAreTrue
  BY TimesAreEnough DEF TimesAreTrue, IInv
<1>3. QED
  BY <1>1, <1>2, InvariantHolds, TimesAreKept, PTL DEF Spec

-----------------------------------------------------------------------------
(* The gaps. *)

InGap(g, k) == g[1] <= k /\ k < g[2]

\* Each recorded gap lies in the buffer, no two overlap, and they are its zeros.
GapsAreTheZeros ==
  phase # "capturing" =>
    /\ \A g \in gaps : 0 <= g[1] /\ g[1] < g[2] /\ g[2] <= BufLen
    /\ \A g, h \in gaps : g = h \/ g[2] <= h[1] \/ h[2] <= g[1]
    /\ \A k \in 0 .. (BufLen - 1) : buf[k] = Zero <=> \E g \in gaps : InGap(g, k)

LEMMA AbsorbKeepsGaps ==
  ASSUME IInv, GapsAreTheZeros, NEW i \in pending, Absorb(i)
  PROVE  GapsAreTheZeros'
<1> DEFINE offset  == OffsetOf(i)
           reached == IF offset > end THEN offset ELSE end
           fresh   == Fresh(i, reached)
<1>1. /\ start \in Int /\ end \in Int /\ start <= end
      /\ offset \in Int /\ Origin \in Nat
      /\ reached \in Int /\ reached >= end /\ reached >= offset
      /\ offset > end \/ reached = end
      /\ fresh \in Seq(Int)
      /\ \A k \in 1 .. Len(fresh) : fresh[k] = Origin + (reached - start) + k - 1
      /\ Len(fresh) = 0 => reached = end
  BY AbsorbFacts
<1>2. offset > end => reached = offset
  OBVIOUS
<1>3. /\ start' = start /\ end' = reached + Len(fresh) /\ phase = "reassembling"
      /\ buf' = Extended(reached, fresh)
      /\ gaps' = IF offset > end THEN gaps \union {<<BufLen, offset - start>>} ELSE gaps
  BY DEF Absorb
<1> HIDE DEF offset, reached, fresh
<1>4. PICK len \in Nat, to \in Nat, n \in Nat :
        len = BufLen /\ to = reached - start /\ n = Len(fresh) /\ len <= to /\ BufLen' = to + n
  <2>1. end - start \in Nat /\ reached - start \in Nat /\ Len(fresh) \in Nat
    BY <1>1
  <2>2. end - start <= reached - start /\ end' - start' = (reached - start) + Len(fresh)
    BY <1>1, <1>3, <2>1
  <2>3. QED
    BY <2>1, <2>2 DEF BufLen
<1>5. /\ to = len => gaps' = gaps
      /\ to # len => gaps' = gaps \union {<<len, to>>} /\ n > 0
  <2>1. CASE offset > end
    <3>1. to = offset - start /\ to # len /\ reached # end
      BY <1>1, <1>2, <1>4, <2>1 DEF BufLen
    <3>2. QED
      BY <1>1, <1>3, <1>4, <2>1, <3>1
  <2>2. CASE ~(offset > end)
    <3>1. to = len
      BY <1>1, <1>4, <2>2 DEF BufLen
    <3>2. QED
      BY <1>3, <2>2, <3>1
  <2>3. QED
    BY <2>1, <2>2
<1>6. /\ \A g \in gaps : 0 <= g[1] /\ g[1] < g[2] /\ g[2] <= len /\ g[1] \in Int /\ g[2] \in Int
      /\ \A g, h \in gaps : g = h \/ g[2] <= h[1] \/ h[2] <= g[1]
      /\ \A k \in 0 .. (len - 1) : buf[k] = Zero <=> \E g \in gaps : InGap(g, k)
  BY <1>3, <1>4 DEF GapsAreTheZeros, IInv, TypeOK
<1>7. \A g \in gaps' : g \in gaps \/ (g = <<len, to>> /\ len < to /\ n > 0)
  BY <1>4, <1>5
<1>8. ASSUME NEW g \in gaps' PROVE 0 <= g[1] /\ g[1] < g[2] /\ g[2] <= BufLen'
  <2>1. CASE g \in gaps
    BY <1>4, <1>6, <2>1
  <2>2. CASE g = <<len, to>> /\ len < to
    BY <1>4, <2>2
  <2>3. QED
    BY <1>7, <2>1, <2>2
<1>9. ASSUME NEW g \in gaps', NEW h \in gaps' PROVE g = h \/ g[2] <= h[1] \/ h[2] <= g[1]
  <2>1. CASE g \in gaps /\ h \in gaps
    BY <1>6, <2>1
  <2>2. CASE g \in gaps /\ h = <<len, to>>
    BY <1>6, <2>2
  <2>3. CASE g = <<len, to>> /\ h \in gaps
    BY <1>6, <2>3
  <2>4. QED
    BY <1>7, <2>1, <2>2, <2>3
<1>10. ASSUME NEW k \in 0 .. (BufLen' - 1)
       PROVE  buf'[k] = Zero <=> \E g \in gaps' : InGap(g, k)
  <2>1. /\ k \in Nat /\ k < to + n
        /\ buf'[k] = IF k < len THEN buf[k] ELSE IF k < to THEN Zero ELSE fresh[k - to + 1]
    <3>1. k \in Nat /\ k < to + n
      BY <1>4
    <3>2. k \in 0 .. (reached - start + Len(fresh) - 1)
      BY <1>4, <3>1
    <3>3. buf'[k] = IF k < BufLen THEN buf[k]
                    ELSE IF k < reached - start THEN Zero
                    ELSE fresh[k - (reached - start) + 1]
      BY <1>3, <3>2 DEF Extended
    <3>4. QED
      BY <1>4, <3>1, <3>3
  <2>2. \A g \in gaps : g \in gaps'
    BY <1>5
  <2>3. CASE k < len
    <3>1. k \in 0 .. (len - 1) /\ buf'[k] = buf[k]
      BY <2>1, <2>3
    <3>2. \A g \in gaps' : InGap(g, k) => g \in gaps
      BY <1>4, <1>7, <2>3 DEF InGap
    <3>3. QED
      BY <1>6, <2>2, <3>1, <3>2
  <2>4. CASE ~(k < len) /\ k < to
    <3>1. buf'[k] = Zero /\ to # len
      BY <1>4, <2>1, <2>4
    <3>2. PICK g \in gaps' : g = <<len, to>>
      BY <1>5, <3>1
    <3>3. InGap(g, k)
      BY <1>4, <2>1, <2>4, <3>2 DEF InGap
    <3>4. QED
      BY <3>1, <3>3
  <2>5. CASE ~(k < to)
    <3>1. PICK m \in 1 .. n : m = k - to + 1
      BY <1>4, <2>1, <2>5
    <3>2. fresh[m] = Origin + to + m - 1
      BY <1>1, <1>4
    <3>3. buf'[k] = fresh[m]
      BY <1>4, <2>1, <2>5, <3>1
    <3>4. buf'[k] # Zero
      BY <1>1, <1>4, <3>2, <3>3 DEF Zero
    <3>5. ASSUME NEW g \in gaps' PROVE ~InGap(g, k)
      <4>1. CASE g \in gaps
        BY <1>4, <1>6, <2>1, <2>5, <4>1 DEF InGap
      <4>2. CASE g = <<len, to>>
        BY <2>5, <4>2 DEF InGap
      <4>3. QED
        BY <1>7, <4>1, <4>2
    <3>6. QED
      BY <3>4, <3>5
  <2>6. QED
    BY <2>3, <2>4, <2>5
<1>11. QED
  BY <1>8, <1>9, <1>10 DEF GapsAreTheZeros, InGap

LEMMA GapsAreKept == IInv /\ GapsAreTheZeros /\ [Next]_vars => GapsAreTheZeros'
<1> SUFFICES ASSUME IInv, GapsAreTheZeros, [Next]_vars
             PROVE  GapsAreTheZeros'
  OBVIOUS
<1>1. CASE \E first \in Positions, len \in 1 .. StreamLen : Capture(first, len)
  BY <1>1 DEF Capture, GapsAreTheZeros
<1>2. CASE NothingCaptured \/ Begin
  <2>1. gaps' = {}
    BY <1>2 DEF NothingCaptured, Begin, IInv, Idle
  <2>2. QED
    BY <1>2, <2>1, NothingIsThere DEF GapsAreTheZeros
<1>3. CASE \E i \in pending : Absorb(i)
  BY <1>3, AbsorbKeepsGaps
<1>4. CASE Return
  BY <1>4 DEF Return, IInv, GapsAreTheZeros, BufLen, InGap
<1>5. CASE UNCHANGED vars
  BY <1>5 DEF vars, GapsAreTheZeros, BufLen, InGap
<1>6. QED
  BY <1>1, <1>2, <1>3, <1>4, <1>5 DEF Next

\* The recorded gaps are apart, and are exactly the bytes no segment carried: what
\* Stream.unseen adds up (pcap.py, _reassemble).
TheGapsAreTheUnseen ==
  Reassembled =>
    /\ \A g, h \in gaps : g = h \/ g[2] <= h[1] \/ h[2] <= g[1]
    /\ \A k \in 0 .. (BufLen - 1) : ~Captured(Origin + k) <=> \E g \in gaps : InGap(g, k)

\* A reader who asks of a byte whether it was ever seen is answered truly, whatever
\* the capture: every gap is recorded once, and nothing else is (pcap.py, _reassemble).
THEOREM GapsAreTrue == Spec => []TheGapsAreTheUnseen
<1>1. Init => GapsAreTheZeros
  BY DEF Init, GapsAreTheZeros
<1>2. IInv /\ GapsAreTheZeros => TheGapsAreTheUnseen
  <2> SUFFICES ASSUME IInv, GapsAreTheZeros, Reassembled, NEW k \in 0 .. (BufLen - 1)
               PROVE  ~Captured(Origin + k) <=> \E g \in gaps : InGap(g, k)
    BY DEF TheGapsAreTheUnseen, GapsAreTheZeros, Reassembled
  <2>1. buf[k] = IF Captured(Origin + k) THEN Origin + k ELSE Zero
    BY InvariantIsFaithful DEF StreamIsWhatWasCaptured
  <2>2. Origin + k # Zero
    BY OriginIsANumber DEF Zero
  <2>3. buf[k] = Zero <=> \E g \in gaps : InGap(g, k)
    BY DEF GapsAreTheZeros, Reassembled
  <2>4. QED
    BY <2>1, <2>2, <2>3
<1>3. QED
  BY <1>1, <1>2, InvariantHolds, GapsAreKept, PTL DEF Spec

-----------------------------------------------------------------------------
(* The chunks. *)

Interval(i) == <<capture[i].first, SegmentEnd(capture[i])>>

CutAlike ==
  \A i, j \in DOMAIN capture :
    \/ Interval(i) = Interval(j)
    \/ Interval(i)[2] <= Interval(j)[1] \/ Interval(j)[2] <= Interval(i)[1]

Final(c) == c[Len(c)]

IsARun(c) == c # <<>> /\ \A j \in 1 .. Len(c) : c[j] = c[1] + j - 1

InOrder(chunks) ==
  /\ \A c \in DOMAIN chunks : IsARun(chunks[c])
  /\ \A c, d \in DOMAIN chunks : c < d => Final(chunks[c]) < chunks[d][1]

\* Each chunk is a run of positions from where some segment starts, the chunks are in
\* order and the last ends where the buffer does; and when all is cut alike, they are
\* the segments absorbed.
ChunksAreRuns ==
  phase # "capturing" =>
    /\ InOrder(kept)
    /\ \A c \in DOMAIN kept : \E i \in DOMAIN capture : capture[i].first = kept[c][1]
    /\ kept = <<>> <=> BufLen = 0
    /\ kept # <<>> => Final(kept[Len(kept)]) = Origin + BufLen - 1
    /\ CutAlike => /\ \A c \in DOMAIN kept : \E i \in Absorbed : Interval(i) = IntervalOf(kept[c])
                   /\ \A i \in Absorbed : \E c \in DOMAIN kept : Interval(i) = IntervalOf(kept[c])

LEMMA RunFacts ==
  ASSUME NEW c \in Seq(Int), IsARun(c)
  PROVE  /\ Len(c) \in Nat \ {0} /\ c[1] \in Int /\ Final(c) = c[1] + Len(c) - 1
         /\ c[1] <= Final(c) /\ Final(c) \in Int
<1>1. Len(c) \in Nat \ {0} /\ \A j \in 1 .. Len(c) : c[j] \in Int
  BY DEF IsARun
<1>2. c[Len(c)] = c[1] + Len(c) - 1
  BY <1>1 DEF IsARun
<1>3. QED
  BY <1>1, <1>2 DEF Final

LEMMA RunsJoined ==
  ASSUME NEW c \in Seq(Int), IsARun(c), NEW f \in Seq(Int), f # <<>>,
         \A k \in 1 .. Len(f) : f[k] = Final(c) + k
  PROVE  /\ IsARun(c \o f) /\ (c \o f)[1] = c[1] /\ Final(c \o f) = Final(f)
         /\ c \o f \in Seq(Int)
<1>1. PICK a \in Nat \ {0}, b \in Nat \ {0} : a = Len(c) /\ b = Len(f)
  BY RunFacts
<1> DEFINE joined == c \o f
<1>2. joined \in Seq(Int)
  OBVIOUS
<1>3. /\ Len(joined) = a + b
      /\ \A k \in 1 .. a : joined[k] = c[k]
      /\ \A k \in 1 .. b : joined[a + k] = f[k]
  BY <1>1
<1> HIDE DEF joined
<1>4. joined[1] = c[1] /\ Final(joined) = Final(f) /\ joined # <<>>
  <2>1. 1 \in 1 .. a /\ b \in 1 .. b /\ Len(joined) # 0
    BY <1>1, <1>3
  <2>2. joined[1] = c[1] /\ joined[a + b] = f[b]
    BY <1>3, <2>1
  <2>3. QED
    BY <1>1, <1>3, <2>1, <2>2 DEF Final
<1>5. ASSUME NEW j \in 1 .. Len(joined) PROVE joined[j] = joined[1] + j - 1
  <2>1. j \in Nat /\ 1 <= j /\ j <= a + b
    BY <1>1, <1>3
  <2>2. CASE j <= a
    <3>1. joined[j] = c[j] /\ c[j] = c[1] + j - 1
      BY <1>1, <1>3, <2>1, <2>2 DEF IsARun
    <3>2. QED
      BY <1>4, <3>1
  <2>3. CASE ~(j <= a)
    <3>1. j - a \in 1 .. b /\ a + (j - a) = j
      BY <1>1, <2>1, <2>3
    <3>2. joined[j] = f[j - a] /\ f[j - a] = Final(c) + (j - a)
      BY <1>1, <1>3, <3>1
    <3>3. Final(c) = c[1] + a - 1 /\ c[1] \in Int
      BY <1>1, RunFacts
    <3>4. QED
      BY <1>1, <1>4, <2>1, <3>2, <3>3
  <2>4. QED
    BY <2>2, <2>3
<1>6. QED
  BY <1>2, <1>4, <1>5 DEF IsARun, joined

LEMMA ChunkAdded ==
  ASSUME NEW chunks \in Seq(Seq(Int)), InOrder(chunks),
         NEW f \in Seq(Int), IsARun(f),
         chunks = <<>> \/ Final(chunks[Len(chunks)]) < f[1]
  PROVE  InOrder(Append(chunks, f))
<1> DEFINE longer == Append(chunks, f)
<1>1. PICK l \in Nat : l = Len(chunks)
  OBVIOUS
<1>2. /\ DOMAIN longer = 1 .. (l + 1) /\ DOMAIN chunks = 1 .. l
      /\ \A c \in 1 .. l : longer[c] = chunks[c]
      /\ longer[l + 1] = f
  BY <1>1
<1> HIDE DEF longer
<1>3. \A c \in 1 .. (l + 1) : c \in 1 .. l \/ c = l + 1
  OBVIOUS
<1>4. ASSUME NEW c \in 1 .. l PROVE chunks[c] \in Seq(Int) /\ IsARun(chunks[c])
  <2>1. c \in DOMAIN chunks
    BY <1>2
  <2>2. chunks[c] \in Seq(Int)
    BY <1>1
  <2>3. QED
    BY <2>1, <2>2 DEF InOrder
<1>5. ASSUME NEW c \in 1 .. (l + 1) PROVE IsARun(longer[c])
  BY <1>2, <1>3, <1>4
<1>6. ASSUME NEW c \in 1 .. (l + 1), NEW d \in 1 .. (l + 1), c < d
      PROVE  Final(longer[c]) < longer[d][1]
  <2>1. c \in 1 .. l
    BY <1>6
  <2>2. CASE d \in 1 .. l
    BY <1>2, <1>6, <2>1, <2>2 DEF InOrder
  <2>3. CASE d = l + 1
    <3>1. l \in 1 .. l /\ chunks # <<>>
      BY <1>1, <2>1
    <3>2. Final(chunks[l]) < f[1] /\ Final(chunks[l]) \in Int /\ f[1] \in Int
          /\ chunks[l][1] \in Int /\ chunks[l][1] <= Final(chunks[l])
      BY <1>1, <1>4, <3>1, RunFacts
    <3>3. Final(chunks[c]) \in Int
      BY <1>4, <2>1, RunFacts
    <3>4. c = l \/ Final(chunks[c]) < chunks[l][1]
      <4>1. c = l \/ c < l
        BY <2>1
      <4>2. QED
        BY <1>2, <2>1, <3>1, <4>1 DEF InOrder
    <3>5. Final(chunks[c]) < f[1]
      <4>1. CASE c = l
        BY <3>2, <4>1
      <4>2. CASE Final(chunks[c]) < chunks[l][1]
        <5>1. PICK u \in Int, v \in Int, w \in Int, x \in Int :
                u = Final(chunks[c]) /\ v = chunks[l][1] /\ w = Final(chunks[l]) /\ x = f[1]
          BY <3>2, <3>3
        <5>2. u < v /\ v <= w /\ w < x
          BY <3>2, <4>2, <5>1
        <5>3. u < x
          BY <5>2
        <5>4. QED
          BY <5>1, <5>3
      <4>3. QED
        BY <3>4, <4>1, <4>2
    <3>6. QED
      BY <1>2, <2>1, <2>3, <3>5
  <2>4. QED
    BY <1>3, <2>2, <2>3
<1>7. QED
  BY <1>2, <1>5, <1>6 DEF InOrder, longer

LEMMA ChunkGrown ==
  ASSUME NEW chunks \in Seq(Seq(Int)), InOrder(chunks), chunks # <<>>,
         NEW f \in Seq(Int), IsARun(f), f[1] = chunks[Len(chunks)][1]
  PROVE  InOrder([chunks EXCEPT ![Len(chunks)] = f])
<1> DEFINE grown == [chunks EXCEPT ![Len(chunks)] = f]
<1>1. PICK l \in Nat \ {0} : l = Len(chunks)
  OBVIOUS
<1>2. /\ DOMAIN grown = 1 .. l /\ DOMAIN chunks = 1 .. l
      /\ \A c \in 1 .. l : c # l => grown[c] = chunks[c]
      /\ grown[l] = f /\ l \in 1 .. l
  BY <1>1
<1> HIDE DEF grown
<1>3. ASSUME NEW c \in 1 .. l PROVE IsARun(grown[c]) /\ grown[c][1] = chunks[c][1]
  <2>1. CASE c = l
    BY <1>1, <1>2, <2>1
  <2>2. CASE c # l
    BY <1>2, <2>2 DEF InOrder
  <2>3. QED
    BY <2>1, <2>2
<1>4. ASSUME NEW c \in 1 .. l, NEW d \in 1 .. l, c < d
      PROVE  Final(grown[c]) < grown[d][1]
  <2>1. c # l
    BY <1>4
  <2>2. Final(chunks[c]) < chunks[d][1]
    BY <1>2, <1>4 DEF InOrder
  <2>3. QED
    BY <1>2, <1>3, <2>1, <2>2
<1>5. QED
  BY <1>2, <1>3, <1>4 DEF InOrder, grown

LEMMA SegmentFacts ==
  ASSUME IInv, NEW j \in DOMAIN capture
  PROVE  /\ OffsetOf(j) = capture[j].first - capture[1].first /\ OffsetOf(j) \in Int
         /\ capture[j].first \in Int /\ capture[j].len \in Nat \ {0} /\ capture[1].first \in Int
         /\ SegmentEnd(capture[j]) = capture[j].first + capture[j].len
<1>1. capture \in Seq(Segments) /\ isn \in InitialSeqs /\ SequenceNumbersAreTrue
  BY DEF IInv, TypeOK
<1>2. OffsetOf(j) = capture[j].first - capture[1].first /\ OffsetOf(j) \in Int
  BY <1>1, OffsetIsDistance
<1>3. capture[j] \in Segments /\ capture[1] \in Segments
  BY <1>1
<1>4. QED
  BY <1>2, <1>3, StreamAssumption DEF Segments, Positions, SegmentEnd

\* Cut alike, a segment that starts before the end is one absorbed before.
LEMMA OverlapsAreCopies ==
  ASSUME IInv, CutAlike, NEW i \in pending, Absorb(i), OffsetOf(i) < end
  PROVE  /\ \E j \in Absorbed : Interval(j) = Interval(i)
         /\ OffsetOf(i) + capture[i].len = end
<1>1. /\ i \in DOMAIN capture /\ Span /\ AbsorbedInOrder /\ Absorbed \subseteq DOMAIN capture
      /\ start \in Int /\ end \in Int /\ start <= OffsetOf(i)
  <2>1. i \in DOMAIN capture /\ start \in Int /\ end \in Int /\ start <= OffsetOf(i)
    BY AbsorbFacts
  <2>2. QED
    BY <2>1 DEF IInv, Absorb, Absorbed
<1>2. OffsetOf(i) \in Int /\ end # start
  BY <1>1, SegmentFacts
<1>3. PICK j \in Absorbed : OffsetOf(j) + capture[j].len = end
  BY <1>1, <1>2 DEF Span
<1>4. OffsetOf(j) <= OffsetOf(i) /\ j \in DOMAIN capture
  BY <1>1, <1>3 DEF AbsorbedInOrder
<1>5. PICK a \in Int, b \in Int, zero \in Int :
        a = capture[i].first /\ b = capture[j].first /\ zero = capture[1].first
  BY <1>1, <1>4, SegmentFacts
<1>6. PICK la \in Nat \ {0}, lb \in Nat \ {0} : la = capture[i].len /\ lb = capture[j].len
  BY <1>1, <1>4, SegmentFacts
<1>7. OffsetOf(i) = a - zero /\ OffsetOf(j) = b - zero
  BY <1>1, <1>4, <1>5, SegmentFacts
<1>8. /\ Interval(i) = <<a, a + la>> /\ Interval(j) = <<b, b + lb>>
  BY <1>5, <1>6 DEF Interval, SegmentEnd
<1>9. b <= a /\ a < b + lb /\ b - zero + lb = end
  BY <1>1, <1>3, <1>4, <1>6, <1>7
<1>10. Interval(i) = Interval(j)
  <2>1. ~(a + la <= b) /\ ~(b + lb <= a)
    BY <1>9
  <2>2. QED
    BY <1>1, <1>4, <1>8, <2>1 DEF CutAlike
<1>11. a - zero + la = end
  BY <1>8, <1>9, <1>10
<1>12. QED
  BY <1>6, <1>7, <1>10, <1>11

LEMMA ChunksAreNumbers ==
  ASSUME IInv
  PROVE  kept \in Seq(Seq(Int))
<1>1. kept \in Seq(Seq(Positions)) /\ Positions \subseteq Int
  BY DEF IInv, TypeOK, Positions
<1>2. ASSUME NEW chunk \in Seq(Positions) PROVE chunk \in Seq(Int)
  <2>1. Len(chunk) \in Nat /\ chunk \in [1 .. Len(chunk) -> Positions]
    OBVIOUS
  <2>2. chunk \in [1 .. Len(chunk) -> Int]
    BY <1>1, <2>1
  <2>3. QED
    BY <2>1, <2>2
<1>3. \A c \in DOMAIN kept : kept[c] \in Seq(Int)
  BY <1>1, <1>2
<1>4. QED
  BY <1>1, <1>3

LEMMA AbsorbKeepsChunks ==
  ASSUME IInv, ChunksAreRuns, NEW i \in pending, Absorb(i)
  PROVE  ChunksAreRuns'
<1> DEFINE offset  == OffsetOf(i)
           reached == IF offset > end THEN offset ELSE end
           fresh   == Fresh(i, reached)
<1>1. /\ i \in DOMAIN capture /\ capture[i].len \in 1 .. StreamLen
      /\ start \in Int /\ end \in Int /\ start <= end
      /\ offset \in Int /\ offset = capture[i].first - capture[1].first
      /\ capture[1].first \in Nat /\ Origin \in Nat /\ Origin = capture[1].first + start
      /\ start <= offset
      /\ reached \in Int /\ reached >= end /\ reached >= offset
      /\ offset > end \/ reached = end
      /\ fresh \in Seq(Int)
      /\ Len(fresh) = IF reached < offset + capture[i].len
                      THEN offset + capture[i].len - reached ELSE 0
      /\ \A k \in 1 .. Len(fresh) : fresh[k] = Origin + (reached - start) + k - 1
      /\ Len(fresh) = 0 => reached = end
  BY AbsorbFacts
<1>2. /\ phase = "reassembling" /\ i \in pending
      /\ capture' = capture /\ start' = start /\ end' = reached + Len(fresh)
      /\ pending' = pending \ {i}
      /\ kept' = IF fresh = <<>> THEN kept ELSE Chunks(offset < reached, fresh)
  BY DEF Absorb
<1>3. offset < end => /\ CutAlike => offset + capture[i].len = end
                      /\ CutAlike => \E j \in Absorbed : Interval(j) = Interval(i)
  BY OverlapsAreCopies
<1>4. offset > end => reached = offset
  OBVIOUS
<1> HIDE DEF offset, reached, fresh
<1>5. /\ Origin' = Origin /\ CutAlike' = CutAlike /\ Absorbed' = Absorbed \union {i}
      /\ \A j \in DOMAIN capture : Interval(j)' = Interval(j)
  <2>1. Origin' = Origin /\ CutAlike' = CutAlike
    BY <1>2 DEF Origin, CutAlike, Interval, SegmentEnd
  <2>2. Absorbed' = Absorbed \union {i}
    BY <1>1, <1>2 DEF Absorbed
  <2>3. \A j \in DOMAIN capture : Interval(j)' = Interval(j)
    BY <1>2 DEF Interval, SegmentEnd
  <2>4. QED
    BY <2>1, <2>2, <2>3
<1>6. /\ InOrder(kept)
      /\ \A c \in DOMAIN kept : \E j \in DOMAIN capture : capture[j].first = kept[c][1]
      /\ kept = <<>> <=> BufLen = 0
      /\ kept # <<>> => Final(kept[Len(kept)]) = Origin + BufLen - 1
      /\ CutAlike => /\ \A c \in DOMAIN kept : \E j \in Absorbed :
                           Interval(j) = IntervalOf(kept[c])
                     /\ \A j \in Absorbed : \E c \in DOMAIN kept :
                           Interval(j) = IntervalOf(kept[c])
  BY <1>2 DEF ChunksAreRuns
<1>7. kept \in Seq(Seq(Int)) /\ BufLen = end - start /\ BufLen \in Nat
  <2>1. kept \in Seq(Seq(Int))
    BY ChunksAreNumbers
  <2>2. QED
    BY <1>1, <2>1 DEF BufLen
<1>8. PICK n \in Nat, len \in Nat \ {0} : n = Len(fresh) /\ len = capture[i].len
  BY <1>1, StreamAssumption
<1>9. PICK at \in Int : at = Origin + (reached - start)
  BY <1>1
<1>10. /\ start \in Int /\ end \in Int /\ start <= end /\ start <= offset
       /\ offset \in Int /\ reached \in Int /\ Origin \in Nat
       /\ reached >= end /\ reached >= offset /\ (offset > end \/ reached = end)
       /\ offset > end => reached = offset
  BY <1>4, <1>1
<1>11. /\ \A k \in 1 .. n : fresh[k] = at + k - 1
       /\ n = IF reached < offset + len THEN offset + len - reached ELSE 0
       /\ BufLen' = reached + n - start
  <2>1. \A k \in 1 .. n : fresh[k] = at + k - 1
    BY <1>1, <1>8, <1>9
  <2>2. n = IF reached < offset + len THEN offset + len - reached ELSE 0
    BY <1>1, <1>8
  <2>3. BufLen' = reached + n - start
    <3>1. start' = start /\ end' = reached + n
      BY <1>2, <1>8
    <3>2. QED
      BY <1>10, <3>1 DEF BufLen
  <2>4. QED
    BY <2>1, <2>2, <2>3
<1>12. \A j \in Absorbed' : Interval(j)' = Interval(j)
  BY <1>1, <1>5 DEF Absorbed
<1>13. CASE n = 0
  <2>1. kept' = kept /\ BufLen' = BufLen
    BY <1>1, <1>2, <1>8, <1>13 DEF BufLen
  <2>2. offset < end
    BY <1>1, <1>8, <1>13
  <2>3. CutAlike => \E c \in DOMAIN kept : Interval(i) = IntervalOf(kept[c])
    BY <1>3, <1>6, <2>2
  <2>4. CutAlike => /\ \A c \in DOMAIN kept' : \E j \in Absorbed' :
                         Interval(j) = IntervalOf(kept'[c])
                    /\ \A j \in Absorbed' : \E c \in DOMAIN kept' :
                         Interval(j) = IntervalOf(kept'[c])
    BY <1>5, <1>6, <2>1, <2>3
  <2>5. /\ InOrder(kept')
        /\ \A c \in DOMAIN kept' : \E j \in DOMAIN capture' : capture'[j].first = kept'[c][1]
        /\ kept' = <<>> <=> BufLen' = 0
        /\ kept' # <<>> => Final(kept'[Len(kept')]) = Origin' + BufLen' - 1
    BY <1>2, <1>5, <1>6, <2>1
  <2>6. QED
    BY <1>5, <1>12, <2>4, <2>5 DEF ChunksAreRuns
<1>14. CASE n # 0
  <2>1. /\ fresh # <<>> /\ IsARun(fresh) /\ fresh[1] = at
        /\ Final(fresh) = Origin + BufLen' - 1 /\ BufLen' # 0
        /\ n = offset + len - reached
    <3>1. fresh # <<>> /\ 1 \in 1 .. n /\ n \in 1 .. n
      BY <1>8, <1>14
    <3>2. fresh[1] = at /\ fresh[n] = at + n - 1
      BY <1>11, <3>1
    <3>3. IsARun(fresh)
      <4>1. \A k \in 1 .. n : fresh[k] = fresh[1] + k - 1
        BY <1>11, <3>2
      <4>2. QED
        BY <1>8, <3>1, <4>1 DEF IsARun
    <3>4. n = offset + len - reached
      BY <1>14, <1>11
    <3>5. at + n - 1 = Origin + BufLen' - 1 /\ BufLen' # 0
      <4>1. BufLen' = reached + n - start /\ n > 0
        BY <1>14, <1>11
      <4>2. QED
        BY <1>9, <1>10, <4>1
    <3>6. QED
      BY <1>8, <3>1, <3>2, <3>3, <3>4, <3>5 DEF Final
  <2>2. CASE offset < reached
    <3>1. reached = end /\ kept # <<>> /\ ~CutAlike
      <4>1. reached = end /\ offset < end
        BY <1>10, <2>2
      <4>2. BufLen # 0
        BY <1>1, <1>7, <4>1
      <4>3. offset + len # end
        BY <1>1, <1>14, <2>1, <4>1
      <4>4. QED
        BY <1>3, <1>6, <1>8, <4>1, <4>2, <4>3
    <3>2. PICK l \in Nat \ {0} : l = Len(kept) /\ l \in DOMAIN kept
      BY <1>7, <3>1
    <3>3. PICK c : c = kept[l] /\ c \in Seq(Int) /\ IsARun(c)
      BY <1>6, <1>7, <3>2 DEF InOrder
    <3>4. Final(c) = Origin + BufLen - 1
      BY <1>6, <3>1, <3>2, <3>3
    <3>5. \A k \in 1 .. Len(fresh) : fresh[k] = Final(c) + k
      <4>1. at = Origin + BufLen
        BY <1>7, <1>9, <3>1
      <4>2. \A k \in 1 .. n : fresh[k] = Final(c) + k
        <5>1. Final(c) = at - 1
          BY <1>7, <1>10, <3>4, <4>1
        <5>2. QED
          BY <1>11, <5>1
      <4>3. QED
        BY <1>8, <4>2
    <3>6. /\ IsARun(c \o fresh) /\ (c \o fresh)[1] = c[1] /\ c \o fresh \in Seq(Int)
          /\ Final(c \o fresh) = Final(fresh)
      BY <1>1, <2>1, <3>3, <3>5, RunsJoined
    <3>7. kept' = [kept EXCEPT ![l] = c \o fresh]
      BY <1>2, <2>1, <2>2, <3>2, <3>3 DEF Chunks
    <3>8. InOrder(kept')
      BY <1>6, <1>7, <3>1, <3>2, <3>3, <3>6, <3>7, ChunkGrown
    <3>9. /\ DOMAIN kept' = DOMAIN kept /\ Len(kept') = l /\ kept' # <<>>
          /\ kept'[l] = c \o fresh /\ \A d \in DOMAIN kept : d # l => kept'[d] = kept[d]
      BY <1>7, <3>2, <3>7
    <3>10. \A d \in DOMAIN kept' : kept'[d][1] = kept[d][1]
      BY <3>3, <3>6, <3>9
    <3>11. Final(kept'[Len(kept')]) = Origin' + BufLen' - 1
      BY <1>5, <2>1, <3>6, <3>9
    <3>12. QED
      BY <1>2, <1>5, <1>6, <2>1, <3>1, <3>8, <3>9, <3>10, <3>11 DEF ChunksAreRuns
  <2>3. CASE ~(offset < reached)
    <3>1. reached = offset /\ fresh[1] = capture[i].first /\ n = len
      <4>1. reached = offset
        BY <1>1, <2>3
      <4>2. PICK first \in Int, zero \in Int : first = capture[i].first /\ zero = capture[1].first
        BY <1>1, SegmentFacts
      <4>3. offset = first - zero /\ Origin = zero + start
        BY <1>1, <4>2
      <4>4. at = first
        BY <1>9, <1>10, <4>1, <4>2, <4>3
      <4>5. n = len
        BY <1>1, <1>8, <2>1, <4>1
      <4>6. QED
        BY <2>1, <4>1, <4>2, <4>4, <4>5
    <3>2. kept' = Append(kept, fresh)
      BY <1>2, <2>1, <2>3 DEF Chunks
    <3>3. kept = <<>> \/ Final(kept[Len(kept)]) < fresh[1]
      <4>1. Origin + BufLen - 1 < at
        BY <1>1, <1>7, <1>9
      <4>2. QED
        BY <1>6, <2>1, <4>1
    <3>4. InOrder(kept')
      BY <1>1, <1>6, <1>7, <2>1, <3>2, <3>3, ChunkAdded
    <3>5. PICK l \in Nat : l = Len(kept) /\ DOMAIN kept = 1 .. l
      BY <1>7
    <3>6. /\ DOMAIN kept' = 1 .. (l + 1) /\ Len(kept') = l + 1 /\ kept' # <<>>
          /\ kept'[l + 1] = fresh /\ \A d \in 1 .. l : kept'[d] = kept[d]
          /\ \A d \in 1 .. (l + 1) : d \in 1 .. l \/ d = l + 1
          /\ \A d \in 1 .. l : d \in 1 .. (l + 1) /\ l + 1 \in 1 .. (l + 1)
      BY <1>7, <3>2, <3>5
    <3>7. IntervalOf(fresh) = Interval(i)
      <4>1. IntervalOf(fresh) = <<fresh[1], Final(fresh) + 1>>
        BY DEF IntervalOf, Final
      <4>2. Final(fresh) = fresh[1] + len - 1 /\ fresh[1] \in Int
        <5>1. Final(fresh) = fresh[1] + Len(fresh) - 1 /\ fresh[1] \in Int
          BY <1>1, <2>1, RunFacts
        <5>2. QED
          BY <1>8, <3>1, <5>1
      <4>3. Final(fresh) + 1 = fresh[1] + len
        BY <4>2
      <4>4. QED
        BY <1>8, <3>1, <4>1, <4>3 DEF Interval, SegmentEnd
    <3>8. ASSUME NEW d \in DOMAIN kept'
          PROVE  \E j \in DOMAIN capture : capture[j].first = kept'[d][1]
      <4>1. CASE d \in 1 .. l
        <5>1. d \in DOMAIN kept /\ kept'[d] = kept[d]
          BY <3>5, <3>6, <4>1
        <5>2. QED
          BY <1>6, <5>1
      <4>2. CASE d = l + 1
        BY <1>1, <3>1, <3>6, <4>2
      <4>3. QED
        BY <3>6, <4>1, <4>2
    <3>9. CutAlike => /\ \A d \in DOMAIN kept' : \E j \in Absorbed' :
                           Interval(j) = IntervalOf(kept'[d])
                      /\ \A j \in Absorbed' : \E d \in DOMAIN kept' :
                           Interval(j) = IntervalOf(kept'[d])
      <4>1. SUFFICES ASSUME CutAlike
                     PROVE  /\ \A d \in DOMAIN kept' : \E j \in Absorbed' :
                                 Interval(j) = IntervalOf(kept'[d])
                            /\ \A j \in Absorbed' : \E d \in DOMAIN kept' :
                                 Interval(j) = IntervalOf(kept'[d])
        OBVIOUS
      <4>2. ASSUME NEW d \in DOMAIN kept'
            PROVE  \E j \in Absorbed' : Interval(j) = IntervalOf(kept'[d])
        <5>1. CASE d \in 1 .. l
          BY <1>5, <1>6, <3>5, <3>6, <4>1, <5>1
        <5>2. CASE d = l + 1
          BY <1>5, <3>6, <3>7, <5>2
        <5>3. QED
          BY <3>6, <5>1, <5>2
      <4>3. ASSUME NEW j \in Absorbed'
            PROVE  \E d \in DOMAIN kept' : Interval(j) = IntervalOf(kept'[d])
        <5>1. CASE j \in Absorbed
          <6>1. PICK d \in 1 .. l : Interval(j) = IntervalOf(kept[d])
            BY <1>6, <3>5, <4>1, <5>1
          <6>2. QED
            BY <3>6, <6>1
        <5>2. CASE j = i
          <6>1. l + 1 \in DOMAIN kept' /\ kept'[l + 1] = fresh
            BY <3>5, <3>6
          <6>2. QED
            BY <3>7, <5>2, <6>1
        <5>3. QED
          BY <1>5, <5>1, <5>2
      <4>4. QED
        BY <4>2, <4>3
    <3>10. Final(kept'[Len(kept')]) = Origin' + BufLen' - 1
      BY <1>5, <2>1, <3>6
    <3>11. QED
      BY <1>2, <1>5, <1>12, <2>1, <3>4, <3>6, <3>8, <3>9, <3>10 DEF ChunksAreRuns
  <2>4. QED
    BY <2>2, <2>3
<1>15. QED
  BY <1>13, <1>14

LEMMA ChunksAreKept == IInv /\ ChunksAreRuns /\ [Next]_vars => ChunksAreRuns'
<1> SUFFICES ASSUME IInv, ChunksAreRuns, [Next]_vars
             PROVE  ChunksAreRuns'
  OBVIOUS
<1>1. CASE \E first \in Positions, len \in 1 .. StreamLen : Capture(first, len)
  BY <1>1 DEF Capture, ChunksAreRuns
<1>2. CASE NothingCaptured \/ Begin
  <2>1. kept' = <<>> /\ Absorbed' = {} /\ BufLen' = 0
    <3>1. kept' = <<>>
      BY <1>2 DEF NothingCaptured, Begin, IInv, Idle
    <3>2. Absorbed' = {}
      BY <1>2 DEF NothingCaptured, Begin, IInv, Idle, Absorbed
    <3>3. BufLen' = 0
      BY <1>2, NothingIsThere
    <3>4. QED
      BY <3>1, <3>2, <3>3
  <2>2. DOMAIN kept' = {} /\ InOrder(kept')
    BY <2>1 DEF InOrder
  <2>3. QED
    BY <2>1, <2>2 DEF ChunksAreRuns
<1>3. CASE \E i \in pending : Absorb(i)
  BY <1>3, AbsorbKeepsChunks
<1>4. CASE Return \/ UNCHANGED vars
  <2>1. /\ UNCHANGED <<capture, pending, start, end, kept>>
        /\ phase' # "capturing" => phase # "capturing"
    BY <1>4 DEF Return, vars
  <2>2. UNCHANGED <<Origin, BufLen, CutAlike, Absorbed>>
    BY <2>1 DEF Origin, BufLen, CutAlike, Interval, SegmentEnd, Absorbed
  <2>3. QED
    BY <2>1, <2>2 DEF ChunksAreRuns, Interval, SegmentEnd
<1>5. QED
  BY <1>1, <1>2, <1>3, <1>4 DEF Next

\* Chunks in order have different intervals.
LEMMA ChunksAreApart ==
  ASSUME NEW chunks \in Seq(Seq(Int)), InOrder(chunks),
         NEW c \in DOMAIN chunks, NEW d \in DOMAIN chunks,
         IntervalOf(chunks[c]) = IntervalOf(chunks[d])
  PROVE  c = d
<1>1. chunks[c][1] = chunks[d][1]
  BY DEF IntervalOf
<1>2. /\ c < d => Final(chunks[c]) < chunks[d][1]
      /\ d < c => Final(chunks[d]) < chunks[c][1]
  BY DEF InOrder
<1>3. /\ chunks[c] \in Seq(Int) /\ IsARun(chunks[c])
      /\ chunks[d] \in Seq(Int) /\ IsARun(chunks[d])
  BY DEF InOrder
<1>4. /\ chunks[c][1] \in Int /\ Final(chunks[c]) \in Int /\ chunks[c][1] <= Final(chunks[c])
      /\ chunks[d][1] \in Int /\ Final(chunks[d]) \in Int /\ chunks[d][1] <= Final(chunks[d])
  BY <1>3, RunFacts
<1>5. ~(c < d) /\ ~(d < c)
  BY <1>1, <1>2, <1>4
<1>6. QED
  BY <1>5

LEMMA ChunksAreEnough == IInv /\ ChunksAreRuns => ChunksAreTheSegments
<1> SUFFICES ASSUME IInv, ChunksAreRuns, Reassembled
             PROVE  ChunksAreTheSegments
  BY DEF ChunksAreTheSegments
<1> DEFINE intervals == {<<capture[i].first, SegmentEnd(capture[i])>> : i \in DOMAIN capture}
           clean     == \A a, b \in intervals : a = b \/ a[2] <= b[1] \/ b[2] <= a[1]
<1>1. /\ InOrder(kept) /\ Absorbed = DOMAIN capture
      /\ \A c \in DOMAIN kept : \E i \in DOMAIN capture : capture[i].first = kept[c][1]
      /\ CutAlike => /\ \A c \in DOMAIN kept : \E i \in Absorbed :
                           Interval(i) = IntervalOf(kept[c])
                     /\ \A i \in Absorbed : \E c \in DOMAIN kept :
                           Interval(i) = IntervalOf(kept[c])
  BY DEF ChunksAreRuns, Reassembled, IInv, Absorbed
<1>2. kept \in Seq(Seq(Int))
  BY ChunksAreNumbers
<1>3. ASSUME NEW c \in DOMAIN kept
      PROVE  /\ \E i \in DOMAIN capture : capture[i].first = kept[c][1]
             /\ kept[c][Len(kept[c])] - kept[c][1] = Len(kept[c]) - 1
  <2>1. kept[c] \in Seq(Int) /\ IsARun(kept[c])
    BY <1>1, <1>2 DEF InOrder
  <2>2. PICK first \in Int, last \in Int, n \in Nat :
          first = kept[c][1] /\ last = Final(kept[c]) /\ n = Len(kept[c]) /\ last = first + n - 1
    BY <2>1, RunFacts
  <2>3. last - first = n - 1
    BY <2>2
  <2>4. QED
    BY <1>1, <2>2, <2>3 DEF Final
<1>4. ASSUME clean
      PROVE  /\ Len(kept) = Cardinality(intervals)
             /\ {IntervalOf(kept[c]) : c \in DOMAIN kept} = intervals
  <2>1. CutAlike
    BY <1>4 DEF CutAlike, Interval
  <2>2. {IntervalOf(kept[c]) : c \in DOMAIN kept} = intervals
    <3>1. intervals = {Interval(i) : i \in DOMAIN capture}
      BY DEF Interval
    <3> HIDE DEF intervals
    <3>2. /\ \A c \in DOMAIN kept : \E i \in DOMAIN capture : Interval(i) = IntervalOf(kept[c])
          /\ \A i \in DOMAIN capture : \E c \in DOMAIN kept : Interval(i) = IntervalOf(kept[c])
      BY <1>1, <2>1
    <3>3. QED
      BY ONLY <3>1, <3>2
  <2> DEFINE of == [c \in 1 .. Len(kept) |-> IntervalOf(kept[c])]
  <2>3. DOMAIN kept = 1 .. Len(kept) /\ Len(kept) \in Nat
    BY <1>2
  <2>4. of \in [1 .. Len(kept) -> intervals]
    BY <2>2, <2>3
  <2>5. ASSUME NEW c \in 1 .. Len(kept), NEW d \in 1 .. Len(kept), of[c] = of[d]
        PROVE  c = d
    <3>1. IntervalOf(kept[c]) = IntervalOf(kept[d])
      BY <2>5
    <3>2. c \in DOMAIN kept /\ d \in DOMAIN kept
      BY <2>3
    <3>3. QED
      BY <1>1, <1>2, <3>1, <3>2, ChunksAreApart
  <2>6. \A a \in intervals : \E c \in 1 .. Len(kept) : of[c] = a
    BY <2>2, <2>3
  <2> HIDE DEF of, intervals
  <2>7. of \in Bijection(1 .. Len(kept), intervals)
    BY <2>4, <2>5, <2>6, Fun_IsBij
  <2>8. ExistsBijection(1 .. Len(kept), intervals)
    BY <2>7, Fun_ExistsBij
  <2>9. IsFiniteSet(1 .. Len(kept)) /\ Cardinality(1 .. Len(kept)) = Len(kept)
    <3>1. PICK n \in Nat : n = Len(kept)
      BY <2>3
    <3>2. IsFiniteSet(1 .. n) /\ Cardinality(1 .. n) = IF 1 > n THEN 0 ELSE n - 1 + 1
      BY FS_Interval
    <3>3. (IF 1 > n THEN 0 ELSE n - 1 + 1) = n
      OBVIOUS
    <3>4. QED
      BY <3>1, <3>2, <3>3
  <2>10. Len(kept) = Cardinality(intervals)
    BY <2>8, <2>9, FS_Bijection
  <2>11. QED
    BY <2>2, <2>10
<1>5. QED
  BY <1>3, <1>4 DEF ChunksAreTheSegments

\* What key recovery reads, for every capture: each chunk starts where a segment did and
\* runs across no gap, and when all was cut alike the chunks are the distinct segments,
\* as many as there are of them (pcap.py, _reassemble).
THEOREM ChunksAreSegments == Spec => []ChunksAreTheSegments
<1>1. Init => ChunksAreRuns
  BY DEF Init, ChunksAreRuns
<1>2. QED
  BY <1>1, InvariantHolds, ChunksAreKept, ChunksAreEnough, PTL DEF Spec

-----------------------------------------------------------------------------
(* Refinement of ByteStream. *)

LEMMA InitRefines == Init => Reader!Init
BY DEF Init, Reader!Init, BufLen

LEMMA AbsorbRefines ==
  ASSUME IInv, NEW i \in pending, Absorb(i)
  PROVE  [Reader!Next]_(Reader!vars)
<1> DEFINE offset  == OffsetOf(i)
           reached == IF offset > end THEN offset ELSE end
           fresh   == Fresh(i, reached)
           later   == IF i > latest THEN i ELSE latest
           origin  == IF capture = <<>> THEN 0 ELSE capture[1].first + start
           h       == reached - end
           n       == Len(fresh)
<1>1. /\ capture[1].first \in Nat /\ Origin \in Nat /\ Origin = capture[1].first + start
      /\ start \in Int /\ end \in Int /\ start <= end
      /\ reached \in Int /\ reached >= end
      /\ fresh \in Seq(Int)
      /\ \A k \in 1 .. n : fresh[k] = Origin + (reached - start) + k - 1
      /\ (n = 0 => reached = end)
  BY AbsorbFacts
<1>2. /\ capture' = capture /\ start' = start /\ capture # <<>>
      /\ end' = reached + n
      /\ buf' = Extended(reached, fresh)
      /\ IF fresh = <<>> THEN latest' = latest ELSE latest' = later
  BY DEF Absorb, Later, IInv
<1>3. /\ later >= latest /\ latest \in Int
      /\ buf \in [0 .. (BufLen - 1) -> Positions \union {Zero}]
  <2>1. latest \in Int /\ i \in Int
    BY DEF IInv, TypeOK
  <2>2. QED
    BY <2>1 DEF IInv, TypeOK
<1>4. origin = Origin /\ origin' = origin
  BY <1>1, <1>2 DEF Origin
<1> HIDE DEF offset, reached, fresh, later, origin, h, n
<1>5. n \in Nat /\ h \in Nat /\ BufLen \in Nat
  BY <1>1 DEF n, h, BufLen
<1>6. BufLen' = BufLen + h + n /\ reached - start = BufLen + h
  BY <1>1, <1>2, <1>5 DEF h, BufLen
<1>7. buf' = [k \in 0 .. (BufLen + h + n - 1) |->
                IF k < BufLen THEN buf[k]
                ELSE IF k < BufLen + h THEN Zero
                ELSE fresh[k - (BufLen + h) + 1]]
  BY <1>2, <1>6 DEF Extended, n
<1>8. CASE fresh = <<>>
  <2>1. n = 0 /\ h = 0
    BY <1>1, <1>8 DEF n, h
  <2>2. BufLen' = BufLen /\ latest' = latest
    BY <1>2, <1>5, <1>6, <1>8, <2>1
  <2>3. buf' = [k \in 0 .. (BufLen - 1) |-> buf[k]]
    BY ONLY <1>5, <1>7, <2>1
  <2>4. buf' = buf
    BY <1>3, <2>3
  <2>5. QED
    BY <1>4, <2>2, <2>4 DEF Reader!vars, origin
<1>9. CASE fresh # <<>>
  <2>1. n > 0
    BY <1>1, <1>9 DEF n
  <2>2. buf' = [k \in 0 .. (BufLen + h + n - 1) |->
                  IF k < BufLen THEN buf[k]
                  ELSE IF k < BufLen + h THEN Zero ELSE origin + k]
    <3>1. \A k \in 0 .. (BufLen + h + n - 1) :
            ~(k < BufLen + h) => fresh[k - (BufLen + h) + 1] = origin + k
      <4> TAKE k \in 0 .. (BufLen + h + n - 1)
      <4> HAVE ~(k < BufLen + h)
      <4>1. k - (BufLen + h) + 1 \in 1 .. n
        BY <1>5
      <4>2. fresh[k - (BufLen + h) + 1]
              = Origin + (BufLen + h) + (k - (BufLen + h) + 1) - 1
        BY <1>1, <1>6, <4>1
      <4>3. QED
        BY <1>1, <1>4, <1>5, <4>2
    <3>2. \A k \in 0 .. (BufLen + h + n - 1) : k < BufLen => k < BufLen + h
      BY <1>5
    <3>3. QED
      BY <1>7, <3>1, <3>2
  <2>3. latest' >= latest /\ latest' = later
    BY <1>2, <1>3, <1>9
  <2>4. h \in 0 .. (BufLen' - BufLen) /\ n \in 1 .. (BufLen' - BufLen)
    BY <1>5, <1>6, <2>1
  <2>5. Reader!Deliver(h, n, latest')
    BY <1>4, <1>6, <2>1, <2>2, <2>3 DEF Reader!Deliver, origin
  <2>6. QED
    BY <2>4, <2>5 DEF Reader!Next
<1>10. QED
  BY <1>8, <1>9

LEMMA NextRefines == IInv /\ [Next]_vars => [Reader!Next]_(Reader!vars)
<1> SUFFICES ASSUME IInv, [Next]_vars
             PROVE  [Reader!Next]_(Reader!vars)
  OBVIOUS
<1>1. CASE \E first \in Positions, len \in 1 .. StreamLen : Capture(first, len)
  BY <1>1 DEF Capture, IInv, Idle, BufLen, Reader!Next, Reader!Locate
<1>2. CASE NothingCaptured
  BY <1>2 DEF NothingCaptured, BufLen, Reader!vars
<1>3. CASE Begin
  <2>1. start' \in Int /\ end' = start'
    BY <1>3, BeginInvariant DEF IInv, TypeOK, Begin
  <2>2. BufLen = 0 /\ buf' = buf /\ latest' = latest
    BY <1>3 DEF Begin, IInv, Idle, BufLen
  <2>3. PICK i \in DOMAIN capture : start' = OffsetOf(i) /\ end' = OffsetOf(i)
    BY <1>3 DEF Begin
  <2>4. OffsetOf(i) \in Int
    BY OffsetIsDistance DEF IInv, TypeOK
  <2>5. BufLen' = 0
    BY <2>3, <2>4 DEF BufLen
  <2>6. QED
    BY <2>2, <2>5 DEF Reader!Next, Reader!Locate
<1>4. CASE \E i \in pending : Absorb(i)
  BY <1>4, AbsorbRefines
<1>5. CASE Return
  BY <1>5 DEF Return, BufLen, Reader!vars
<1>6. CASE UNCHANGED vars
  BY <1>6 DEF vars, BufLen, Reader!vars
<1>7. QED
  BY <1>1, <1>2, <1>3, <1>4, <1>5, <1>6 DEF Next

\* _reassemble implements the abstract byte stream: what was delivered is never
\* rewritten, by any retransmit, and the clock never goes back.
THEOREM StreamIsAByteStream == Spec => IsAByteStream
BY InitRefines, InvariantHolds, NextRefines, PTL DEF Spec, IsAByteStream, Reader!Spec
=============================================================================
