--------------------------- MODULE FramingProofs ---------------------------
(***************************************************************************)
(* Proofs about Framing, for every key, session, stretch and loss.  The    *)
(* argument: a header the capture has is read with the cipher its peer     *)
(* wrote it with as long as every header before it was read, for the       *)
(* chaining takes nothing from a body; so the walk stays on the session's  *)
(* own messages while it is silent, and while it only steps over gaps in   *)
(* bodies.  However misled it is, it moves forward, over captured bytes.   *)
(***************************************************************************)
EXTENDS Framing, FiniteSetTheorems, TLAPS

-----------------------------------------------------------------------------
(* The inductive invariant. *)

\* The cipher a header is written, and to be read, with: of message 2, a fresh one.
CipherAt(k) ==
  [i |-> HeaderLen * (k - 2), j |-> IF k = 2 THEN 0 ELSE bytes[sent[k - 1].at + HeaderLen]]

HeaderOf(k) ==
  LET plain == <<Len(sent[k].body) + 1, sent[k].opcode>>
  IN  IF k = 1 THEN plain ELSE Encrypted(plain, CipherAt(k))

MessageIsWritten(k) ==
  /\ MessageEnd(k) <= Len(bytes)
  /\ k > 1 => sent[k].at = MessageEnd(k - 1)
  /\ \A n \in 1 .. HeaderLen : bytes[sent[k].at + n] = HeaderOf(k)[n]
  /\ \A n \in DOMAIN sent[k].body : bytes[sent[k].at + HeaderLen + n] = sent[k].body[n]

\* What the peer wrote is its messages, one after the other.
SessionIsWritten ==
  /\ sent = <<>> => bytes = <<>> /\ peer = Fresh
  /\ sent # <<>> => peer = CipherAt(Len(sent) + 1) /\ sent[1].at = 0
                    /\ MessageEnd(Len(sent)) = Len(bytes)
  /\ \A k \in DOMAIN sent : MessageIsWritten(k)
  /\ \A k, m \in DOMAIN sent : k < m => MessageEnd(k) <= sent[m].at

OpcodesAreTheirs == \A k \in DOMAIN sent : sent[k].opcode \in Opcodes \union {Bootstrap}

\* The walk has not begun, and what has it found.
NothingYet ==
  phase \in {"sending", "opening"} => yielded = <<>> /\ log = <<>> /\ seq = 0

\* What was yielded is numbered below the next packet, and lies before it.
MovesForward ==
  \A n \in DOMAIN yielded :
    yielded[n].seq < seq /\ (n > 1 => PacketEnd(yielded[n]) <= pos)

\* The walk is on the session's messages: it has stepped over the first seq.
Follows == FromTheStart /\ (log = <<>> \/ HeadersSeen)

OnMessages ==
  /\ seq \in DOMAIN sent /\ pos = MessageEnd(seq) /\ pos <= length
  /\ phase = "walking" => cipher = CipherAt(seq + 1)
  /\ phase = "done" =>
       \A k \in DOMAIN sent : k > seq =>
         /\ MessageEnd(k) > length
         /\ log = <<>> => sent[k].at + HeaderLen > length

WholeSession ==
  log = <<>> => Len(yielded) = seq /\ \A k \in DOMAIN yielded : yielded[k] = Genuine(k)

Seen(k) == Unseen(sent[k].at, MessageEnd(k)) = 0

GapsCounted ==
  /\ Range(yielded) = {Genuine(k) : k \in {m \in 1 .. seq : Seen(m)}}
  /\ Cardinality({n \in DOMAIN log : log[n] = "unseen"}) = Cardinality({m \in 1 .. seq : ~Seen(m)})

StaysTrue ==
  /\ Follows => OnMessages /\ WholeSession
  /\ FromTheStart /\ HeadersSeen => GapsCounted

IInv ==
  /\ TypeOK /\ SessionIsWritten /\ OpcodesAreTheirs
  /\ NothingYet /\ NoGapIsDecoded /\ MovesForward /\ StaysTrue

-----------------------------------------------------------------------------
(* The cipher, and sets of lost bytes. *)

LEMMA ModIsByte ==
  ASSUME FramingAssumption, NEW x \in Int
  PROVE  x % ByteModulus \in Byte
BY DEF FramingAssumption, Byte

\* Subtracting what was added, each time modulo the byte.
LEMMA SubtractsBack ==
  ASSUME NEW m \in Nat \ {0}, NEW a \in 0 .. (m - 1), NEW j \in 0 .. (m - 1)
  PROVE  (((a + j) % m) - j) % m = a
<1>1. CASE a + j < m
  <2>1. (a + j) % m = a + j
    BY <1>1
  <2>2. QED
    BY <2>1
<1>2. CASE a + j >= m
  <2>1. (a + j) % m = a + j - m
    BY <1>2
  <2>2. (a - m) % m = a
    OBVIOUS
  <2>3. QED
    BY <2>1, <2>2
<1>3. QED
  BY <1>1, <1>2

\* What a peer encrypts, a cipher in the same state decrypts.
LEMMA DecryptsWhatWasEncrypted ==
  ASSUME FramingAssumption, key \in Keys,
         NEW a \in Byte, NEW b \in Byte, NEW c \in [i : Nat, j : Byte]
  PROVE  LET e == Encrypted(<<a, b>>, c)
         IN  /\ e \in Seq(Byte) /\ Len(e) = HeaderLen /\ e[1] \in Byte /\ e[2] \in Byte
             /\ Xor((e[1] - c.j) % ByteModulus, key[c.i % KeyLen]) = a
             /\ Xor((e[2] - e[1]) % ByteModulus, key[(c.i + 1) % KeyLen]) = b
<1> DEFINE k1 == key[c.i % KeyLen]
           k2 == key[(c.i + 1) % KeyLen]
           c1 == (Xor(a, k1) + c.j) % ByteModulus
           c2 == (Xor(b, k2) + c1) % ByteModulus
<1>1. c.i % KeyLen \in 0 .. (KeyLen - 1) /\ (c.i + 1) % KeyLen \in 0 .. (KeyLen - 1)
  BY DEF FramingAssumption
<1>2. k1 \in Byte /\ k2 \in Byte
  BY <1>1 DEF FramingAssumption
<1>3. /\ Xor(a, k1) \in Byte /\ Xor(b, k2) \in Byte
      /\ Xor(Xor(a, k1), k1) = a /\ Xor(Xor(b, k2), k2) = b
  BY <1>2 DEF FramingAssumption
<1>4. c1 \in Byte /\ c2 \in Byte /\ c.j \in Byte
  BY <1>3, ModIsByte DEF Byte
<1>5. (c1 - c.j) % ByteModulus = Xor(a, k1) /\ (c2 - c1) % ByteModulus = Xor(b, k2)
  <2>1. ByteModulus \in Nat \ {0} /\ Byte = 0 .. (ByteModulus - 1)
    BY DEF FramingAssumption, Byte
  <2>2. (c1 - c.j) % ByteModulus = Xor(a, k1)
    BY <1>3, <1>4, <2>1, SubtractsBack
  <2>3. (c2 - c1) % ByteModulus = Xor(b, k2)
    BY <1>3, <1>4, <2>1, SubtractsBack
  <2>4. QED
    BY <2>2, <2>3
<1>6. Encrypted(<<a, b>>, c) = <<c1, c2>>
  BY DEF Encrypted
<1> HIDE DEF k1, k2, c1, c2
<1>7. /\ <<c1, c2>> \in Seq(Byte) /\ Len(<<c1, c2>>) = HeaderLen
      /\ <<c1, c2>>[1] = c1 /\ <<c1, c2>>[2] = c2
  BY <1>4 DEF HeaderLen
<1>8. QED
  BY <1>3, <1>4, <1>5, <1>6, <1>7 DEF k1, k2

LEMMA NoneUnseen ==
  ASSUME TypeOK, NEW from \in Int, NEW to \in Int
  PROVE  /\ Unseen(from, to) \in Nat
         /\ Unseen(from, to) = 0 <=> unseen \intersect from .. (to - 1) = {}
<1>1. IsFiniteSet(unseen \intersect from .. (to - 1))
  <2>1. IsFiniteSet(from .. (to - 1))
    BY FS_Interval
  <2>2. QED
    BY <2>1, FS_Subset
<1>2. QED
  BY <1>1, FS_CardinalityType, FS_EmptySet DEF Unseen

\* A byte of the stream is one the peer wrote, or a zero.
LEMMA DataIsByte ==
  ASSUME FramingAssumption, TypeOK, NEW k \in Nat, k < length
  PROVE  /\ Data(k) \in Byte
         /\ k \notin unseen => Data(k) = bytes[origin + k + 1]
<1>1. 0 \in Byte
  BY DEF FramingAssumption, Byte
<1>2. bytes \in Seq(Byte) /\ origin + k + 1 \in 1 .. Len(bytes)
  BY DEF TypeOK
<1>3. bytes[origin + k + 1] \in Byte
  BY <1>2
<1>4. QED
  BY <1>1, <1>3 DEF Data

\* A slice inside the stream.
LEMMA SliceInside ==
  ASSUME FramingAssumption, TypeOK, NEW from \in Nat, NEW to \in Nat, from <= to, to <= length
  PROVE  /\ Slice(from, to) \in Seq(Byte) /\ Len(Slice(from, to)) = to - from
         /\ DOMAIN Slice(from, to) = 1 .. (to - from)
         /\ \A n \in 1 .. (to - from) : Slice(from, to)[n] = Data(from + n - 1)
<1>1. length \in Nat
  BY DEF TypeOK
<1>2. Slice(from, to) = [k \in 1 .. (to - from) |-> Data(from + k - 1)]
  BY <1>1 DEF Slice
<1>3. ASSUME NEW n \in 1 .. (to - from) PROVE Data(from + n - 1) \in Byte
  <2>1. from + n - 1 \in Nat /\ from + n - 1 < length
    BY <1>1
  <2>2. QED
    BY <2>1, DataIsByte
<1> DEFINE n == to - from
<1>4. n \in Nat
  OBVIOUS
<1>5. \A k \in 1 .. n : Data(from + k - 1) \in Byte
  BY <1>3
<1> HIDE DEF n
<1>6. [k \in 1 .. n |-> Data(from + k - 1)] \in Seq(Byte)
  BY <1>4, <1>5
<1>7. QED
  BY <1>2, <1>4, <1>6 DEF n

\* Any slice.
LEMMA SliceIsBytes ==
  ASSUME FramingAssumption, TypeOK, NEW from \in Nat, NEW to \in Int
  PROVE  Slice(from, to) \in Seq(Byte)
<1> DEFINE stop == IF to > length THEN length ELSE to
           n == IF stop > from THEN stop - from ELSE 0
<1>1. length \in Nat /\ n \in Nat
  BY DEF TypeOK
<1>2. \A k \in 1 .. n : Data(from + k - 1) \in Byte
  BY <1>1, DataIsByte
<1>3. Slice(from, to) = [k \in 1 .. n |-> Data(from + k - 1)]
  BY DEF Slice
<1> HIDE DEF n
<1>4. QED
  BY <1>1, <1>2, <1>3

\* A header as the walk reads it.
LEMMA HeaderIsTyped ==
  ASSUME FramingAssumption, TypeOK, HeaderLeft
  PROVE  /\ Size \in Byte /\ Opcode \in Byte /\ BodyLen \in Int /\ EndOfMessage \in Int
         /\ Decrypted \in [i : Nat, j : Byte]
<1>1. pos \in Nat /\ pos + 1 < length /\ cipher \in [i : Nat, j : Byte] /\ key \in Keys
  BY DEF TypeOK, HeaderLeft, HeaderLen
<1>2. Data(pos) \in Byte /\ Data(pos + 1) \in Byte
  <2>1. length \in Nat
    BY DEF TypeOK
  <2>2. pos < length /\ pos + 1 \in Nat
    BY <1>1, <2>1
  <2>3. QED
    BY <1>1, <2>2, DataIsByte
<1>3. /\ (Data(pos) - cipher.j) % ByteModulus \in Byte
      /\ (Data(pos + 1) - Data(pos)) % ByteModulus \in Byte
  BY <1>1, <1>2, ModIsByte DEF Byte
<1>4. /\ cipher.i % KeyLen \in 0 .. (KeyLen - 1) /\ (cipher.i + 1) % KeyLen \in 0 .. (KeyLen - 1)
  BY <1>1 DEF FramingAssumption
<1>5. key[cipher.i % KeyLen] \in Byte /\ key[(cipher.i + 1) % KeyLen] \in Byte
  BY <1>1, <1>4 DEF FramingAssumption
<1>6. Size \in Byte /\ Opcode \in Byte
  BY <1>3, <1>5 DEF Size, Opcode, FramingAssumption
<1>7. QED
  BY <1>1, <1>2, <1>6 DEF BodyLen, EndOfMessage, Decrypted, HeaderLen, Byte

\* Sequences.
LEMMA AppendFacts ==
  ASSUME NEW S, NEW s \in Seq(S), NEW x \in S
  PROVE  /\ Append(s, x) \in Seq(S) /\ Len(s) \in Nat /\ Len(Append(s, x)) = Len(s) + 1
         /\ DOMAIN s = 1 .. Len(s) /\ DOMAIN Append(s, x) = 1 .. (Len(s) + 1)
         /\ \A k \in DOMAIN s : Append(s, x)[k] = s[k]
         /\ Append(s, x)[Len(s) + 1] = x /\ Append(s, x) # <<>>
OBVIOUS

LEMMA ThreeParts ==
  ASSUME NEW S, NEW a \in Seq(S), NEW b \in Seq(S), NEW c \in Seq(S), NEW d, d = a \o b \o c
  PROVE  /\ d \in Seq(S) /\ Len(d) = Len(a) + Len(b) + Len(c)
         /\ \A n \in 1 .. Len(a) : d[n] = a[n]
         /\ \A n \in 1 .. Len(b) : d[Len(a) + n] = b[n]
         /\ \A n \in 1 .. Len(c) : d[Len(a) + Len(b) + n] = c[n]
<1> PICK e : e = a \o b
  OBVIOUS
<1>1. /\ e \in Seq(S) /\ Len(e) = Len(a) + Len(b)
      /\ \A n \in 1 .. Len(a) : e[n] = a[n]
      /\ \A n \in 1 .. Len(b) : e[Len(a) + n] = b[n]
      /\ Len(a) \in Nat /\ Len(b) \in Nat /\ Len(c) \in Nat
  OBVIOUS
<1>2. d = e \o c
  OBVIOUS
<1>3. /\ d \in Seq(S) /\ Len(d) = Len(e) + Len(c)
      /\ \A n \in 1 .. Len(e) : d[n] = e[n]
      /\ \A n \in 1 .. Len(c) : d[Len(e) + n] = c[n]
  BY <1>1, <1>2
<1>4. \A n \in 1 .. Len(a) : d[n] = a[n]
  BY <1>1, <1>3
<1>5. ASSUME NEW n \in 1 .. Len(b) PROVE d[Len(a) + n] = b[n]
  <2>1. Len(a) + n \in 1 .. Len(e) /\ e[Len(a) + n] = b[n]
    BY <1>1
  <2>2. QED
    BY <1>3, <2>1
<1>6. QED
  BY <1>1, <1>3, <1>4, <1>5

LEMMA MessageFacts ==
  ASSUME FramingAssumption, TypeOK, NEW k \in DOMAIN sent
  PROVE  /\ sent[k].at \in Nat /\ sent[k].opcode \in Byte /\ sent[k].opcode \in Byte
         /\ sent[k].body \in Seq(Byte) /\ Len(sent[k].body) + 1 \in Byte
         /\ MessageEnd(k) = sent[k].at + HeaderLen + Len(sent[k].body)
         /\ MessageEnd(k) \in Nat /\ sent[k].at + HeaderLen <= MessageEnd(k)
<1>1. sent[k] \in [at : Nat, opcode : Byte, body : Bodies]
  <2> DEFINE Messages == [at : Nat, opcode : Byte, body : Bodies]
  <2>1. sent \in Seq(Messages)
    BY DEF TypeOK
  <2> HIDE DEF Messages
  <2>2. sent[k] \in Messages
    BY <2>1
  <2>3. QED
    BY <2>2 DEF Messages
<1>2. sent[k].body \in Seq(Byte) /\ Len(sent[k].body) + 1 < ByteModulus
  BY <1>1 DEF FramingAssumption
<1>3. Len(sent[k].body) \in Nat
  BY <1>2
<1>4. QED
  <2>1. ByteModulus \in Nat \ {0}
    BY DEF FramingAssumption
  <2>2. QED
    BY <1>1, <1>2, <1>3, <2>1 DEF MessageEnd, HeaderLen, Byte

-----------------------------------------------------------------------------
(* Every step keeps the invariant. *)

\* While nothing was captured yet, there is only the session to speak of.
LEMMA BeforeTheWalk ==
  ASSUME TypeOK', SessionIsWritten', OpcodesAreTheirs', phase' \in {"sending", "opening"},
         yielded' = <<>>, log' = <<>>, seq' = 0
  PROVE  IInv'
<1>1. NothingYet' /\ NoGapIsDecoded' /\ MovesForward'
  BY DEF NothingYet, NoGapIsDecoded, MovesForward
<1>2. StaysTrue'
  BY DEF StaysTrue, Follows, FromTheStart
<1>3. QED
  BY <1>1, <1>2 DEF IInv

LEMMA SendKeeps ==
  ASSUME FramingAssumption, IInv,
         NEW opcode \in Opcodes \union {Bootstrap}, NEW body \in Bodies, Send(opcode, body)
  PROVE  IInv'
<1> DEFINE plain  == <<Len(body) + 1, opcode>>
           header == IF sent = <<>> THEN plain ELSE Encrypted(plain, peer)
           new    == [at |-> Len(bytes), opcode |-> opcode, body |-> body]
<1> PICK K : K = Len(sent) + 1
  OBVIOUS
<1>1. /\ phase = "sending" /\ bytes' = bytes \o header \o body /\ sent' = Append(sent, new)
      /\ peer' = (IF sent = <<>> THEN peer ELSE [i |-> peer.i + HeaderLen, j |-> header[2]])
      /\ UNCHANGED <<phase, key, origin, length, unseen, pos, seq, cipher, yielded, log>>
  BY DEF Send, stream
<1>2. TypeOK /\ SessionIsWritten
  BY DEF IInv
<1>3. /\ body \in Seq(Byte) /\ Len(body) + 1 \in Byte /\ opcode \in Byte
      /\ Len(body) \in Nat /\ DOMAIN body = 1 .. Len(body)
  <2>1. body \in Seq(Byte) /\ Len(body) + 1 < ByteModulus
    BY DEF FramingAssumption
  <2>2. opcode \in Byte /\ ByteModulus \in Nat
    BY DEF FramingAssumption
  <2>3. Len(body) \in Nat /\ DOMAIN body = 1 .. Len(body)
    BY <2>1
  <2>4. Len(body) + 1 \in Byte
    BY <2>1, <2>2, <2>3 DEF Byte
  <2>5. QED
    BY <2>1, <2>2, <2>3, <2>4
<1>4. /\ header \in Seq(Byte) /\ Len(header) = 2 /\ header[1] \in Byte /\ header[2] \in Byte
  <2>1. CASE sent = <<>>
    BY <1>3, <2>1
  <2>2. CASE sent # <<>>
    <3>1. peer \in [i : Nat, j : Byte] /\ key \in Keys
      BY <1>2 DEF TypeOK
    <3>2. QED
      BY <1>3, <2>2, <3>1, DecryptsWhatWasEncrypted DEF HeaderLen
  <2>3. QED
    BY <2>1, <2>2
<1>5. bytes \in Seq(Byte) /\ sent \in Seq([at : Nat, opcode : Byte, body : Bodies])
  BY <1>2 DEF TypeOK
<1> HIDE DEF header
<1>6. /\ bytes' \in Seq(Byte) /\ Len(bytes') = Len(bytes) + 2 + Len(body)
      /\ \A n \in 1 .. Len(bytes) : bytes'[n] = bytes[n]
      /\ \A n \in 1 .. 2 : bytes'[Len(bytes) + n] = header[n]
      /\ \A n \in DOMAIN body : bytes'[Len(bytes) + 2 + n] = body[n]
  <2>1. /\ bytes' \in Seq(Byte) /\ Len(bytes') = Len(bytes) + Len(header) + Len(body)
        /\ \A n \in 1 .. Len(bytes) : bytes'[n] = bytes[n]
        /\ \A n \in 1 .. Len(header) : bytes'[Len(bytes) + n] = header[n]
        /\ \A n \in 1 .. Len(body) : bytes'[Len(bytes) + Len(header) + n] = body[n]
    <3>1. bytes \in Seq(Byte) /\ header \in Seq(Byte) /\ body \in Seq(Byte)
      BY <1>3, <1>4, <1>5
    <3>2. bytes' = bytes \o header \o body
      BY <1>1
    <3>3. QED
      BY <3>1, <3>2, ThreeParts
  <2>2. QED
    BY <1>3, <1>4, <2>1
<1>7. /\ new \in [at : Nat, opcode : Byte, body : Bodies]
      /\ sent' \in Seq([at : Nat, opcode : Byte, body : Bodies])
      /\ K \in Nat \ {0} /\ DOMAIN sent' = 1 .. K /\ DOMAIN sent = 1 .. (K - 1) /\ Len(sent') = K
      /\ \A k \in DOMAIN sent : sent'[k] = sent[k]
      /\ sent'[K].at = Len(bytes) /\ sent'[K].opcode = opcode /\ sent'[K].body = body
  <2>1. Len(bytes) \in Nat
    BY <1>5
  <2>2. new \in [at : Nat, opcode : Byte, body : Bodies]
    BY <1>3, <2>1
  <2>3. new.at = Len(bytes) /\ new.opcode = opcode /\ new.body = body
    OBVIOUS
  <2> HIDE DEF new
  <2>4. QED
    BY <1>1, <1>5, <2>2, <2>3, AppendFacts
<1>8. TypeOK'
  <2>1. peer' \in [i : Nat, j : Byte]
    BY <1>1, <1>2, <1>4 DEF TypeOK, HeaderLen
  <2>2. origin' + length' <= Len(bytes')
    BY <1>1, <1>2, <1>3, <1>5, <1>6 DEF TypeOK
  <2>3. QED
    BY <1>1, <1>2, <1>6, <1>7, <2>1, <2>2 DEF TypeOK
<1>9. /\ \A k \in DOMAIN sent : MessageEnd(k)' = MessageEnd(k)
      /\ MessageEnd(K)' = Len(bytes')
  <2>1. \A k \in DOMAIN sent : MessageEnd(k)' = MessageEnd(k)
    BY <1>7 DEF MessageEnd
  <2>2. MessageEnd(K)' = Len(bytes')
    <3>1. MessageEnd(K)' = Len(bytes) + 2 + Len(body)
      BY <1>7 DEF MessageEnd, HeaderLen
    <3>2. QED
      BY <1>6, <3>1
  <2>3. QED
    BY <2>1, <2>2
<1>10. ASSUME NEW k \in 2 .. K PROVE CipherAt(k)' = CipherAt(k)
  <2>1. k - 1 \in DOMAIN sent
    BY <1>7
  <2>2. sent[k - 1].at + HeaderLen \in 1 .. Len(bytes)
    <3>1. MessageIsWritten(k - 1) /\ Len(bytes) \in Nat
      BY <1>2, <1>5, <2>1 DEF SessionIsWritten
    <3>2. QED
      BY <1>2, <2>1, <3>1, MessageFacts DEF MessageIsWritten, HeaderLen
  <2>3. QED
    BY <1>6, <1>7, <2>1, <2>2 DEF CipherAt
<1>11. sent # <<>> => peer = CipherAt(K) /\ MessageEnd(K - 1) = Len(bytes)
  BY <1>2 DEF SessionIsWritten
<1>12. peer' = CipherAt(K + 1)'
  <2>1. CASE sent = <<>>
    <3>1. peer = Fresh /\ K + 1 = 2
      BY <1>2, <2>1 DEF SessionIsWritten
    <3>2. CipherAt(K + 1)' = [i |-> 0, j |-> 0]
      BY <3>1 DEF CipherAt, HeaderLen
    <3>3. QED
      BY <1>1, <2>1, <3>1, <3>2 DEF Fresh
  <2>2. CASE sent # <<>>
    <3>1. K + 1 # 2 /\ K \in Nat
      BY <1>5, <2>2
    <3>2. peer.i = HeaderLen * (K - 2)
      BY <1>11, <2>2 DEF CipherAt
    <3>3. bytes'[sent'[K].at + HeaderLen] = header[2]
      BY <1>6, <1>7 DEF HeaderLen
    <3>4. CipherAt(K + 1)' = [i |-> HeaderLen * (K - 1), j |-> header[2]]
      BY <3>1, <3>3 DEF CipherAt
    <3>5. peer.i + HeaderLen = HeaderLen * (K - 1)
      BY <3>1, <3>2 DEF HeaderLen
    <3>6. QED
      BY <1>1, <2>2, <3>4, <3>5
  <2>3. QED
    BY <2>1, <2>2
<1>13. header = HeaderOf(K)'
  <2>1. CASE sent = <<>>
    <3>1. K = 1
      BY <2>1
    <3>2. HeaderOf(K)' = plain
      BY <1>7, <3>1 DEF HeaderOf
    <3>3. QED
      BY <2>1, <3>2 DEF header
  <2>2. CASE sent # <<>>
    <3>1. K \in 2 .. K /\ K # 1
      BY <1>5, <2>2
    <3>2. CipherAt(K)' = peer
      BY <1>10, <1>11, <2>2, <3>1
    <3>3. HeaderOf(K)' = Encrypted(plain, peer)
      BY <1>1, <1>7, <3>1, <3>2 DEF HeaderOf, Encrypted
    <3>4. QED
      BY <2>2, <3>3 DEF header
  <2>3. QED
    BY <2>1, <2>2
<1>14. SessionIsWritten'
  <2>1. sent'[1].at = 0
    BY <1>2, <1>5, <1>7 DEF SessionIsWritten
  <2>2. ASSUME NEW k \in DOMAIN sent
        PROVE  MessageIsWritten(k)'
    <3>1. /\ MessageEnd(k) <= Len(bytes)
          /\ k > 1 => sent[k].at = MessageEnd(k - 1)
          /\ \A n \in 1 .. HeaderLen : bytes[sent[k].at + n] = HeaderOf(k)[n]
          /\ \A n \in DOMAIN sent[k].body : bytes[sent[k].at + HeaderLen + n] = sent[k].body[n]
      BY <1>2 DEF SessionIsWritten, MessageIsWritten
    <3>2. /\ sent[k].at \in Nat /\ sent[k].body \in Seq(Byte) /\ Len(bytes) \in Nat
          /\ Len(body) \in Nat /\ MessageEnd(k) \in Nat
          /\ MessageEnd(k) = sent[k].at + HeaderLen + Len(sent[k].body)
      BY <1>2, <1>3, <1>5, MessageFacts
    <3> k \in DOMAIN sent /\ sent'[k] = sent[k]
      BY <1>7
    <3>3. HeaderOf(k)' = HeaderOf(k)
      <4>1. k = 1 \/ CipherAt(k)' = CipherAt(k)
        BY <1>7, <1>10
      <4>2. QED
        BY <1>1, <1>7, <4>1 DEF HeaderOf, Encrypted
    <3>4. MessageEnd(k)' <= Len(bytes')
      BY <1>6, <1>9, <3>1, <3>2
    <3>5. k > 1 => sent'[k].at = MessageEnd(k - 1)'
      <4>1. k > 1 => k - 1 \in DOMAIN sent
        BY <1>7
      <4>2. QED
        BY <1>9, <3>1, <4>1
    <3>6. \A n \in 1 .. HeaderLen : bytes'[sent'[k].at + n] = HeaderOf(k)'[n]
      <4>1. \A n \in 1 .. HeaderLen : sent[k].at + n \in 1 .. Len(bytes)
        BY <3>1, <3>2 DEF HeaderLen
      <4>2. \A n \in 1 .. HeaderLen : bytes'[sent[k].at + n] = bytes[sent[k].at + n]
        BY <1>6, <4>1
      <4>3. QED
        BY <3>1, <3>3, <4>2, Zenon
    <3>7. \A n \in DOMAIN sent'[k].body : bytes'[sent'[k].at + HeaderLen + n] = sent'[k].body[n]
      <4>1. ASSUME NEW n \in DOMAIN sent[k].body
            PROVE  sent[k].at + HeaderLen + n \in 1 .. Len(bytes)
        <5>1. n \in 1 .. Len(sent[k].body) /\ Len(sent[k].body) \in Nat
          BY <3>2
        <5>2. /\ sent[k].at \in Nat /\ Len(bytes) \in Nat
              /\ sent[k].at + HeaderLen + Len(sent[k].body) <= Len(bytes)
          BY <3>1, <3>2
        <5>3. QED
          BY <5>1, <5>2 DEF HeaderLen
      <4>2. QED
        BY <1>6, <3>1, <4>1
    <3>8. QED
      BY <3>4, <3>5, <3>6, <3>7 DEF MessageIsWritten
  <2>3. MessageIsWritten(K)'
    <3>1. K > 1 => sent # <<>> /\ K - 1 \in DOMAIN sent
      BY <1>5, <1>7
    <3>2. MessageEnd(K)' <= Len(bytes')
      BY <1>3, <1>5, <1>6, <1>9
    <3>3. K > 1 => sent'[K].at = MessageEnd(K - 1)'
      BY <1>7, <1>9, <1>11, <3>1
    <3>4. \A n \in 1 .. HeaderLen : bytes'[sent'[K].at + n] = HeaderOf(K)'[n]
      BY <1>6, <1>7, <1>13 DEF HeaderLen
    <3>5. \A n \in DOMAIN sent'[K].body : bytes'[sent'[K].at + HeaderLen + n] = sent'[K].body[n]
      BY <1>6, <1>7 DEF HeaderLen
    <3>6. QED
      BY <3>2, <3>3, <3>4, <3>5 DEF MessageIsWritten
  <2>4. ASSUME NEW k \in DOMAIN sent', NEW m \in DOMAIN sent', k < m
        PROVE  MessageEnd(k)' <= sent'[m].at
    <3>1. k \in DOMAIN sent
      BY <1>7, <2>4
    <3>2. CASE m \in DOMAIN sent
      BY <1>2, <1>7, <1>9, <2>4, <3>1, <3>2 DEF SessionIsWritten
    <3>3. CASE m = K
      BY <1>2, <1>7, <1>9, <3>1, <3>3 DEF SessionIsWritten, MessageIsWritten
    <3>4. QED
      BY <1>7, <3>2, <3>3
  <2>5. sent' # <<>>
    BY <1>7
  <2>6. \A k \in DOMAIN sent' : MessageIsWritten(k)'
    BY <1>7, <2>2, <2>3
  <2>7. peer' = CipherAt(Len(sent) + 1)' /\ MessageEnd(Len(sent))' = Len(bytes')
    BY <1>7, <1>9, <1>12
  <2>8. QED
    BY <2>1, <2>4, <2>5, <2>6, <2>7 DEF SessionIsWritten
<1>15. /\ yielded' = <<>> /\ log' = <<>> /\ seq' = 0 /\ OpcodesAreTheirs'
  BY <1>1, <1>7 DEF IInv, NothingYet, OpcodesAreTheirs
<1>16. QED
  BY <1>1, <1>8, <1>14, <1>15, BeforeTheWalk

LEMMA SessionStaysWritten ==
  ASSUME SessionIsWritten, OpcodesAreTheirs, UNCHANGED session
  PROVE  SessionIsWritten' /\ OpcodesAreTheirs'
<1>1. UNCHANGED <<key, bytes, sent, peer>>
  BY DEF session
<1>2. \A k : CipherAt(k)' = CipherAt(k) /\ MessageEnd(k)' = MessageEnd(k)
  BY <1>1 DEF CipherAt, MessageEnd
<1>3. \A k : HeaderOf(k)' = HeaderOf(k)
  BY <1>1, <1>2 DEF HeaderOf, Encrypted
<1>4. \A k : MessageIsWritten(k)' <=> MessageIsWritten(k)
  BY <1>1, <1>2, <1>3 DEF MessageIsWritten
<1>5. CipherAt(Len(sent) + 1)' = CipherAt(Len(sent) + 1)
  BY <1>1 DEF CipherAt
<1>6. MessageEnd(Len(sent))' = MessageEnd(Len(sent))
  BY <1>1 DEF MessageEnd
<1>7. QED
  BY <1>1, <1>2, <1>4, <1>5, <1>6 DEF SessionIsWritten, OpcodesAreTheirs, Fresh

LEMMA CapturedKeeps ==
  ASSUME FramingAssumption, IInv, Captured
  PROVE  IInv'
<1>1. SessionIsWritten' /\ OpcodesAreTheirs'
  BY SessionStaysWritten DEF IInv, Captured
<1>2. TypeOK'
  BY DEF IInv, TypeOK, Captured, session
<1>3. yielded' = <<>> /\ log' = <<>> /\ seq' = 0
  BY DEF IInv, NothingYet, Captured
<1>4. QED
  BY <1>1, <1>2, <1>3, BeforeTheWalk DEF Captured

\* An error more in the log.
LEMMA LogGrows ==
  ASSUME TypeOK, NEW why \in Complaints, log' = Append(log, why)
  PROVE  /\ log' \in Seq(Complaints) /\ log' # <<>>
         /\ {n \in DOMAIN log' : log'[n] = "unseen"} =
              {n \in DOMAIN log : log[n] = "unseen"}
                \union (IF why = "unseen" THEN {Len(log) + 1} ELSE {})
         /\ Len(log) + 1 \notin DOMAIN log /\ IsFiniteSet(DOMAIN log)
<1>1. /\ log \in Seq(Complaints) /\ Len(log) \in Nat /\ DOMAIN log = 1 .. Len(log)
      /\ why \in Complaints
  BY DEF TypeOK
<1>2. /\ log' \in Seq(Complaints) /\ log' # <<>>
      /\ Len(log') = Len(log) + 1 /\ log'[Len(log) + 1] = why
      /\ DOMAIN log' = 1 .. (Len(log) + 1) /\ \A k \in DOMAIN log : log'[k] = log[k]
  BY <1>1, AppendFacts
<1>3. IsFiniteSet(1 .. Len(log))
  BY <1>1, FS_Interval
<1>4. QED
  BY <1>1, <1>2, <1>3

LEMMA TooShortKeeps ==
  ASSUME FramingAssumption, IInv, TooShort
  PROVE  IInv'
<1>1. /\ phase = "opening" /\ length < HeaderLen /\ phase' = "done" /\ log' # <<>>
      /\ log' \in Seq(Complaints) /\ UNCHANGED <<session, stream, pos, seq, cipher, yielded>>
  <2>1. PICK why \in Complaints : log' = Append(log, why)
    <3>1. "empty" \in Complaints /\ "no header" \in Complaints
      BY DEF Complaints
    <3>2. log' = Append(log, "empty") \/ log' = Append(log, "no header")
      BY DEF TooShort
    <3>3. QED
      BY <3>1, <3>2
  <2>2. QED
    BY <2>1, LogGrows DEF TooShort, IInv
<1>2. TypeOK' /\ SessionIsWritten' /\ OpcodesAreTheirs'
  BY <1>1, SessionStaysWritten DEF IInv, TypeOK, session, stream
<1>3. yielded' = <<>>
  BY <1>1 DEF IInv, NothingYet
<1>4. NothingYet' /\ NoGapIsDecoded' /\ MovesForward'
  BY <1>1, <1>3 DEF NothingYet, NoGapIsDecoded, MovesForward
<1>5. ~FromTheStart'
  <2> SUFFICES ASSUME FromTheStart' PROVE FALSE
    OBVIOUS
  <2>1. 1 \in DOMAIN sent' /\ MessageEnd(1)' <= length' /\ length' < HeaderLen
    BY <1>1, <1>2 DEF FromTheStart, TypeOK, stream, HeaderLen
  <2>2. 1 \in DOMAIN sent /\ MessageEnd(1) <= length /\ length \in Nat /\ TypeOK
    BY <1>1, <2>1 DEF IInv, TypeOK, session, stream, MessageEnd
  <2>3. QED
    BY <1>1, <2>2, MessageFacts DEF HeaderLen
<1>6. QED
  BY <1>2, <1>4, <1>5 DEF IInv, StaysTrue, Follows

\* A slice that is a whole packet's body ends where the packet does.
LEMMA PacketIsWhole ==
  ASSUME FramingAssumption, TypeOK, NEW n \in Nat, NEW at \in Nat, NEW op \in Byte,
         NEW to \in Nat, at + HeaderLen <= to, to <= length
  PROVE  LET p == Packet(n, at, op, Slice(at + HeaderLen, to))
         IN  /\ p \in [seq : Nat, at : Nat, opcode : Byte, body : Seq(Byte)]
             /\ p.seq = n /\ p.at = at /\ PacketEnd(p) = to
<1>1. at + HeaderLen \in Nat
  BY DEF HeaderLen
<1>2. /\ Slice(at + HeaderLen, to) \in Seq(Byte)
      /\ Len(Slice(at + HeaderLen, to)) = to - (at + HeaderLen)
  BY <1>1, SliceInside
<1>3. QED
  BY <1>1, <1>2 DEF Packet, PacketEnd, HeaderLen

\* A stretch of the stream is a message's body when it holds all of that body.
LEMMA SliceIsBody ==
  ASSUME FramingAssumption, TypeOK, SessionIsWritten, origin = 0, NEW k \in DOMAIN sent,
         MessageEnd(k) <= length, Unseen(sent[k].at, MessageEnd(k)) = 0
  PROVE  Slice(sent[k].at + HeaderLen, MessageEnd(k)) = sent[k].body
<1>1. /\ sent[k].at \in Nat /\ sent[k].body \in Seq(Byte) /\ Len(sent[k].body) \in Nat
      /\ MessageEnd(k) = sent[k].at + HeaderLen + Len(sent[k].body) /\ MessageEnd(k) \in Nat
  BY MessageFacts
<1>2. /\ sent[k].at + HeaderLen \in Nat /\ sent[k].at + HeaderLen <= MessageEnd(k)
      /\ MessageEnd(k) - (sent[k].at + HeaderLen) = Len(sent[k].body)
  BY <1>1 DEF HeaderLen
<1> DEFINE slice == Slice(sent[k].at + HeaderLen, MessageEnd(k))
<1>3. /\ slice \in Seq(Byte) /\ Len(slice) = Len(sent[k].body)
      /\ \A n \in 1 .. Len(sent[k].body) : slice[n] = Data(sent[k].at + HeaderLen + n - 1)
  <2>1. /\ slice \in Seq(Byte) /\ Len(slice) = MessageEnd(k) - (sent[k].at + HeaderLen)
        /\ \A n \in 1 .. (MessageEnd(k) - (sent[k].at + HeaderLen)) :
             slice[n] = Data((sent[k].at + HeaderLen) + n - 1)
    BY <1>1, <1>2, SliceInside
  <2>2. QED
    BY <1>2, <2>1
<1>4. ASSUME NEW n \in 1 .. Len(sent[k].body)
      PROVE  slice[n] = sent[k].body[n]
  <2>1. /\ sent[k].at + HeaderLen + n - 1 \in Nat /\ sent[k].at + HeaderLen + n - 1 < length
        /\ sent[k].at + HeaderLen + n - 1 \in sent[k].at .. (MessageEnd(k) - 1)
    <3>1. length \in Nat
      BY DEF TypeOK
    <3>2. QED
      BY <1>1, <3>1 DEF HeaderLen
  <2>2. sent[k].at + HeaderLen + n - 1 \notin unseen
    BY <1>1, <2>1, NoneUnseen
  <2>3. Data(sent[k].at + HeaderLen + n - 1) = bytes[0 + (sent[k].at + HeaderLen + n - 1) + 1]
    BY <2>1, <2>2, DataIsByte
  <2>4. 0 + (sent[k].at + HeaderLen + n - 1) + 1 = sent[k].at + HeaderLen + n
    BY <1>1 DEF HeaderLen
  <2>5. n \in DOMAIN sent[k].body
    BY <1>1
  <2>6. bytes[sent[k].at + HeaderLen + n] = sent[k].body[n]
    BY <2>5 DEF SessionIsWritten, MessageIsWritten
  <2>7. QED
    BY <1>3, <2>3, <2>4, <2>6
<1> HIDE DEF slice
<1>5. slice = sent[k].body
  BY <1>1, <1>3, <1>4
<1>6. QED
  BY <1>5 DEF slice

\* What was lost and what was sent do not change while the walk is on.
LEMMA SameSession ==
  ASSUME UNCHANGED <<session, stream>>
  PROVE  /\ HeadersSeen' = HeadersSeen
         /\ \A k : /\ MessageEnd(k)' = MessageEnd(k) /\ Genuine(k)' = Genuine(k)
                   /\ Seen(k)' = Seen(k) /\ CipherAt(k)' = CipherAt(k)
<1>1. UNCHANGED <<key, bytes, sent, peer, origin, length, unseen>>
  BY DEF session, stream
<1>2. \A k : /\ MessageEnd(k)' = MessageEnd(k) /\ CipherAt(k)' = CipherAt(k)
            /\ Genuine(k)' = Genuine(k)
  BY <1>1 DEF MessageEnd, CipherAt, Genuine
<1>3. \A k : Seen(k)' = Seen(k)
  BY <1>1, <1>2 DEF Seen, Unseen
<1>4. HeadersSeen' = HeadersSeen
  BY <1>1 DEF HeadersSeen, Unseen
<1>5. QED
  BY <1>2, <1>3, <1>4

LEMMA OpenKeeps ==
  ASSUME FramingAssumption, IInv, Open
  PROVE  IInv'
<1> DEFINE to == HeaderLen + (Data(0) - 1)
           first == Packet(0, 0, Data(1), Slice(HeaderLen, to))
<1>1. /\ phase = "opening" /\ length >= HeaderLen /\ phase' = "walking" /\ pos' = to /\ seq' = 1
      /\ cipher' = Fresh /\ yielded' = <<first>> /\ UNCHANGED <<session, stream, log>>
  BY DEF Open
<1>2. TypeOK /\ SessionIsWritten /\ OpcodesAreTheirs /\ log = <<>> /\ length \in Nat
  BY <1>1 DEF IInv, TypeOK, NothingYet
<1>3. Data(0) \in Byte /\ Data(1) \in Byte /\ to \in Nat
  BY <1>1, <1>2, DataIsByte DEF HeaderLen, Byte
<1>4. Slice(HeaderLen, to) \in Seq(Byte)
  BY <1>2, <1>3, SliceIsBytes DEF HeaderLen
<1>5. first \in [seq : Nat, at : Nat, opcode : Byte, body : Seq(Byte)] /\ first.seq = 0
  BY <1>3, <1>4 DEF Packet
<1>6. /\ yielded' \in Seq([seq : Nat, at : Nat, opcode : Byte, body : Seq(Byte)])
      /\ DOMAIN yielded' = {1} /\ Len(yielded') = 1 /\ yielded'[1] = first
  <2> HIDE DEF first
  <2>1. QED
    BY <1>1, <1>5
<1>7. TypeOK'
  <2>1. Fresh \in [i : Nat, j : Byte]
    BY DEF Fresh, FramingAssumption, Byte
  <2>2. UNCHANGED <<key, bytes, sent, peer, origin, length, unseen, log>>
    BY <1>1 DEF session, stream
  <2>3. QED
    BY <1>1, <1>2, <1>3, <1>6, <2>1, <2>2 DEF TypeOK
<1>8. SessionIsWritten' /\ OpcodesAreTheirs' /\ NothingYet'
  BY <1>1, <1>2, SessionStaysWritten DEF NothingYet
<1>9. NoGapIsDecoded' /\ MovesForward'
  BY <1>1, <1>5, <1>6 DEF NoGapIsDecoded, MovesForward
<1>10. ASSUME FromTheStart'
       PROVE  OnMessages' /\ WholeSession' /\ GapsCounted'
  <2>1. /\ origin = 0 /\ 1 \in DOMAIN sent /\ MessageEnd(1) <= length /\ Seen(1)
        /\ MessageIsWritten(1) /\ sent[1].at = 0
    <3>1. UNCHANGED <<sent, origin, length, unseen>>
      BY <1>1 DEF session, stream
    <3>2. origin = 0 /\ sent # <<>> /\ MessageEnd(1) <= length /\ Unseen(0, MessageEnd(1)) = 0
      BY <1>10, <3>1 DEF FromTheStart, MessageEnd, Unseen
    <3>3. 1 \in DOMAIN sent /\ sent[1].at = 0
      BY <1>2, <3>2 DEF TypeOK, SessionIsWritten
    <3>4. QED
      BY <1>2, <3>2, <3>3 DEF SessionIsWritten, Seen
  <2>2. /\ sent[1].body \in Seq(Byte) /\ Len(sent[1].body) \in Nat
        /\ MessageEnd(1) = HeaderLen + Len(sent[1].body) /\ MessageEnd(1) \in Nat
    BY <1>2, <2>1, MessageFacts DEF HeaderLen
  <2>3. 0 \notin unseen /\ 1 \notin unseen
    <3>1. unseen \intersect 0 .. (MessageEnd(1) - 1) = {}
      <4>1. Unseen(0, MessageEnd(1)) = 0 /\ MessageEnd(1) \in Int
        BY <2>1, <2>2 DEF Seen
      <4>2. TypeOK /\ 0 \in Int
        BY <1>2
      <4>3. QED
        BY <4>1, <4>2, NoneUnseen, Zenon
    <3>2. QED
      BY <2>2, <3>1 DEF HeaderLen
  <2>4. Data(0) = bytes[1] /\ Data(1) = bytes[2]
    BY <1>1, <1>2, <2>1, <2>3, DataIsByte DEF HeaderLen
  <2>5. bytes[1] = Len(sent[1].body) + 1 /\ bytes[2] = sent[1].opcode
    <3>1. HeaderOf(1)[1] = Len(sent[1].body) + 1 /\ HeaderOf(1)[2] = sent[1].opcode
      BY DEF HeaderOf
    <3>2. bytes[0 + 1] = HeaderOf(1)[1] /\ bytes[0 + 2] = HeaderOf(1)[2]
      <4>1. \A n \in 1 .. 2 : bytes[sent[1].at + n] = HeaderOf(1)[n]
        BY <2>1 DEF MessageIsWritten, HeaderLen
      <4>2. \A n \in 1 .. 2 : bytes[0 + n] = HeaderOf(1)[n]
        BY <2>1, <4>1
      <4>3. QED
        BY <4>2
    <3>3. QED
      BY <3>1, <3>2
  <2>6. to = MessageEnd(1)
    BY <2>2, <2>4, <2>5 DEF HeaderLen
  <2>7. Slice(HeaderLen, to) = sent[1].body
    BY <1>2, <2>1, <2>6, SliceIsBody DEF Seen, HeaderLen
  <2>8. first = Genuine(1)
    BY <2>1, <2>4, <2>5, <2>7 DEF Genuine, Packet
  <2>9. /\ \A k : MessageEnd(k)' = MessageEnd(k) /\ Genuine(k)' = Genuine(k)
        /\ \A k : Seen(k)' = Seen(k) /\ CipherAt(k)' = CipherAt(k)
        /\ DOMAIN sent' = DOMAIN sent /\ length' = length
    BY <1>1, SameSession DEF session, stream
  <2>10. Fresh = CipherAt(2)
    BY DEF Fresh, CipherAt, HeaderLen
  <2>11. OnMessages'
    BY <1>1, <2>1, <2>6, <2>9, <2>10 DEF OnMessages
  <2>12. WholeSession'
    BY <1>1, <1>6, <2>8, <2>9 DEF WholeSession
  <2>13. GapsCounted'
    <3>1. {m \in 1 .. 1 : Seen(m)} = {1} /\ {m \in 1 .. 1 : ~Seen(m)} = {}
      BY <2>1
    <3>2. Range(yielded') = {Genuine(1)}
      BY <1>6, <2>8 DEF Range
    <3>3. {n \in DOMAIN log : log[n] = "unseen"} = {}
      BY <1>2
    <3>4. {Genuine(k) : k \in {m \in 1 .. 1 : Seen(m)}} = {Genuine(1)}
      BY <3>1
    <3>5. QED
      BY <1>1, <2>9, <3>1, <3>2, <3>3, <3>4 DEF GapsCounted
  <2>14. QED
    BY <2>11, <2>12, <2>13
<1>11. QED
  BY <1>7, <1>8, <1>9, <1>10 DEF IInv, StaysTrue, Follows

\* The header the walk is at is the next message's.
LEMMA NextMessage ==
  ASSUME FramingAssumption, IInv, FromTheStart, OnMessages, HeaderLeft
  PROVE  /\ seq + 1 \in DOMAIN sent /\ seq \in Nat /\ sent[seq + 1].at = pos
         /\ MessageIsWritten(seq + 1)
<1>1. /\ TypeOK /\ SessionIsWritten /\ seq \in DOMAIN sent /\ pos = MessageEnd(seq)
      /\ origin = 0 /\ pos + HeaderLen <= length
  BY DEF IInv, OnMessages, FromTheStart, HeaderLeft
<1>2. /\ Len(sent) \in Nat /\ DOMAIN sent = 1 .. Len(sent) /\ length \in Nat /\ Len(bytes) \in Nat
      /\ length <= Len(bytes) /\ pos \in Nat
  BY <1>1 DEF TypeOK
<1>3. seq # Len(sent)
  BY <1>1, <1>2 DEF SessionIsWritten, HeaderLen
<1>4. seq + 1 \in DOMAIN sent /\ seq \in Nat /\ seq + 1 > 1 /\ seq + 1 - 1 = seq
  BY <1>1, <1>2, <1>3
<1>5. MessageIsWritten(seq + 1)
  BY <1>1, <1>4 DEF SessionIsWritten
<1>6. sent[seq + 1].at = MessageEnd(seq + 1 - 1)
  BY <1>4, <1>5 DEF MessageIsWritten
<1>7. QED
  BY <1>1, <1>4, <1>5, <1>6

\* A header that was captured is read as it was written.
LEMMA HeaderIsRead ==
  ASSUME FramingAssumption, IInv, FromTheStart, OnMessages, HeaderLeft,
         NEW k, k = seq + 1, pos \notin unseen, pos + 1 \notin unseen
  PROVE  /\ Size = Len(sent[k].body) + 1 /\ Opcode = sent[k].opcode
         /\ BodyLen = Len(sent[k].body) /\ EndOfMessage = MessageEnd(k)
         /\ Decrypted = CipherAt(k + 1)
<1>1. /\ k \in DOMAIN sent /\ k \in Nat /\ k > 1 /\ sent[k].at = pos /\ MessageIsWritten(k)
  <2>1. seq \in Nat \ {0}
    BY DEF IInv, TypeOK, OnMessages
  <2>2. QED
    BY <2>1, NextMessage
<1>2. /\ TypeOK /\ cipher = CipherAt(k) /\ origin = 0 /\ pos \in Nat /\ length \in Nat
      /\ pos + 2 <= length /\ cipher \in [i : Nat, j : Byte] /\ key \in Keys
  BY DEF IInv, TypeOK, OnMessages, FromTheStart, HeaderLeft, HeaderLen
<1>3. /\ Len(sent[k].body) + 1 \in Byte /\ sent[k].opcode \in Byte /\ Len(sent[k].body) \in Nat
      /\ MessageEnd(k) = sent[k].at + HeaderLen + Len(sent[k].body)
  BY <1>1, <1>2, MessageFacts
<1> DEFINE e == Encrypted(<<Len(sent[k].body) + 1, sent[k].opcode>>, cipher)
<1>4. /\ e[1] \in Byte /\ e[2] \in Byte
      /\ Xor((e[1] - cipher.j) % ByteModulus, key[cipher.i % KeyLen]) = Len(sent[k].body) + 1
      /\ Xor((e[2] - e[1]) % ByteModulus, key[(cipher.i + 1) % KeyLen]) = sent[k].opcode
  <2>1. PICK a \in Byte, b \in Byte : a = Len(sent[k].body) + 1 /\ b = sent[k].opcode
    BY <1>3
  <2>2. PICK h : h = Encrypted(<<a, b>>, cipher)
    OBVIOUS
  <2>3. /\ h[1] \in Byte /\ h[2] \in Byte
        /\ Xor((h[1] - cipher.j) % ByteModulus, key[cipher.i % KeyLen]) = a
        /\ Xor((h[2] - h[1]) % ByteModulus, key[(cipher.i + 1) % KeyLen]) = b
    BY <1>2, <2>2, DecryptsWhatWasEncrypted
  <2>4. e = h
    BY <2>1, <2>2
  <2>5. QED
    BY <2>1, <2>3, <2>4, Zenon
<1> HIDE DEF e
<1>5. HeaderOf(k) = e
  BY <1>1, <1>2 DEF HeaderOf, e
<1>6. bytes[pos + 1] = e[1] /\ bytes[pos + 2] = e[2]
  <2>1. \A n \in 1 .. 2 : bytes[sent[k].at + n] = HeaderOf(k)[n]
    BY <1>1 DEF MessageIsWritten, HeaderLen
  <2>2. \A n \in 1 .. 2 : bytes[pos + n] = e[n]
    BY <1>1, <1>5, <2>1
  <2>3. QED
    BY <2>2
<1>7. Data(pos) = e[1] /\ Data(pos + 1) = e[2]
  <2>1. Data(pos) = bytes[0 + pos + 1]
    BY <1>2, DataIsByte
  <2>2. Data(pos + 1) = bytes[0 + (pos + 1) + 1]
    BY <1>2, DataIsByte
  <2>3. 0 + pos + 1 = pos + 1 /\ 0 + (pos + 1) + 1 = pos + 2
    BY <1>2
  <2>4. QED
    BY <1>6, <2>1, <2>2, <2>3
<1>8. Size = Len(sent[k].body) + 1 /\ Opcode = sent[k].opcode
  BY <1>4, <1>7 DEF Size, Opcode
<1>9. BodyLen = Len(sent[k].body) /\ EndOfMessage = MessageEnd(k)
  BY <1>1, <1>3, <1>8 DEF BodyLen, EndOfMessage, HeaderLen
<1>10. Decrypted = CipherAt(k + 1)
  <2>1. cipher.i = HeaderLen * (k - 2)
    BY <1>2 DEF CipherAt
  <2>2. cipher.i + HeaderLen = HeaderLen * (k + 1 - 2)
    BY <1>1, <2>1 DEF HeaderLen
  <2>3. k + 1 # 2 /\ k + 1 - 1 = k
    BY <1>1
  <2>4. CipherAt(k + 1) = [i |-> HeaderLen * (k + 1 - 2), j |-> bytes[pos + 2]]
    BY <1>1, <2>3 DEF CipherAt, HeaderLen
  <2>5. QED
    BY <1>6, <1>7, <2>2, <2>4 DEF Decrypted
<1>11. QED
  BY <1>8, <1>9, <1>10

\* When all headers were captured, so was the next.
LEMMA NextHeaderSeen ==
  ASSUME FramingAssumption, IInv, FromTheStart, OnMessages, HeaderLeft, HeadersSeen
  PROVE  pos \notin unseen /\ pos + 1 \notin unseen
<1>1. seq + 1 \in DOMAIN sent /\ sent[seq + 1].at = pos
  BY NextMessage
<1>2. TypeOK /\ pos \in Nat
  BY DEF IInv, TypeOK
<1>3. Unseen(pos, pos + HeaderLen) = 0
  BY <1>1 DEF HeadersSeen
<1>4. unseen \intersect pos .. (pos + HeaderLen - 1) = {}
  BY <1>2, <1>3, NoneUnseen DEF HeaderLen
<1>5. QED
  BY <1>2, <1>4 DEF HeaderLen

\* A walk that stops does so at a message that was cut off, or was misled.
LEMMA StopKeeps ==
  ASSUME FramingAssumption, IInv, HeaderLeft, NEW why \in {"opcode", "length"}, Stop(why),
         why = "opcode" => AboveCeiling, why = "length" => RunsPastEnd
  PROVE  IInv'
<1>1. /\ log' = Append(log, why) /\ cipher' = Decrypted /\ phase' = "done"
      /\ UNCHANGED <<session, stream, pos, seq, yielded>> /\ phase = "walking"
  BY DEF Stop, HeaderLeft
<1>2. TypeOK /\ why \in Complaints /\ why # "unseen"
  BY DEF IInv, Complaints
<1>3. /\ log' \in Seq(Complaints) /\ log' # <<>>
      /\ {n \in DOMAIN log' : log'[n] = "unseen"} = {n \in DOMAIN log : log[n] = "unseen"}
  BY <1>1, <1>2, LogGrows
<1>4. TypeOK'
  <2>1. UNCHANGED <<key, bytes, sent, peer, origin, length, unseen>>
    BY <1>1 DEF session, stream
  <2>2. QED
    BY <1>1, <1>2, <1>3, <2>1, HeaderIsTyped DEF TypeOK
<1>5. SessionIsWritten' /\ OpcodesAreTheirs' /\ NothingYet'
  BY <1>1, SessionStaysWritten DEF IInv, NothingYet
<1>6. NoGapIsDecoded' /\ MovesForward'
  BY <1>1 DEF IInv, NoGapIsDecoded, MovesForward, stream, PacketEnd
<1>7. ASSUME FromTheStart', HeadersSeen'
      PROVE  OnMessages' /\ WholeSession' /\ GapsCounted'
  <2>1. /\ UNCHANGED <<sent, length>> /\ HeadersSeen
        /\ \A k : MessageEnd(k)' = MessageEnd(k) /\ Genuine(k)' = Genuine(k) /\ Seen(k)' = Seen(k)
    BY <1>1, <1>7, SameSession DEF session, stream
  <2>2. FromTheStart
    BY <1>1, <1>7 DEF FromTheStart, session, stream, MessageEnd, Unseen
  <2>3. OnMessages /\ GapsCounted
    BY <2>1, <2>2 DEF IInv, StaysTrue, Follows
  <2> PICK k : k = seq + 1
    OBVIOUS
  <2>4. /\ k \in DOMAIN sent /\ seq \in Nat
        /\ Opcode = sent[k].opcode /\ BodyLen = Len(sent[k].body) /\ EndOfMessage = MessageEnd(k)
    BY <2>1, <2>2, <2>3, NextMessage, NextHeaderSeen, HeaderIsRead
  <2>5. sent[k].opcode \in Opcodes \union {Bootstrap}
    BY <2>4 DEF IInv, OpcodesAreTheirs
  <2>6. ~AboveCeiling
    <3>1. Ceiling # NoCeiling => sent[k].opcode <= Ceiling
      BY <2>5 DEF FramingAssumption
    <3>2. Ceiling \in Int /\ Opcode \in Int
      <4>1. Opcode \in Byte
        BY <1>2, HeaderIsTyped
      <4>2. QED
        BY <4>1 DEF FramingAssumption, Byte
    <3>3. QED
      BY <2>4, <3>1, <3>2 DEF AboveCeiling
  <2>7. RunsPastEnd
    BY <2>6
  <2>8. BodyLen \in Nat
    BY <1>2, <2>4, MessageFacts
  <2>9. MessageEnd(k) > length
    BY <2>4, <2>7, <2>8 DEF RunsPastEnd
  <2>10. ASSUME NEW m \in DOMAIN sent, m > seq PROVE MessageEnd(m) > length
    <3>1. m = k \/ k < m
      BY <1>2, <2>4, <2>10 DEF TypeOK
    <3>2. k < m => MessageEnd(k) <= sent[m].at
      BY <2>4 DEF IInv, SessionIsWritten
    <3>3. /\ sent[m].at \in Nat /\ sent[m].at + HeaderLen <= MessageEnd(m)
          /\ MessageEnd(m) \in Nat /\ MessageEnd(k) \in Nat /\ length \in Nat
      BY <1>2, <2>4, MessageFacts DEF TypeOK
    <3>4. QED
      BY <2>9, <3>1, <3>2, <3>3 DEF HeaderLen
  <2>11. OnMessages'
    BY <1>1, <1>3, <2>1, <2>3, <2>10 DEF OnMessages
  <2>12. WholeSession'
    BY <1>3 DEF WholeSession
  <2>13. GapsCounted'
    BY <1>1, <1>3, <2>1, <2>3 DEF GapsCounted
  <2>14. QED
    BY <2>11, <2>12, <2>13
<1>8. StaysTrue'
  BY <1>3, <1>7 DEF StaysTrue, Follows
<1>9. QED
  BY <1>4, <1>5, <1>6, <1>8 DEF IInv

LEMMA FinishKeeps ==
  ASSUME FramingAssumption, IInv, Finish
  PROVE  IInv'
<1>1. /\ phase = "walking" /\ ~(pos + HeaderLen <= length) /\ phase' = "done"
      /\ UNCHANGED <<session, stream, pos, seq, cipher, yielded, log>>
  BY DEF Finish, HeaderLeft
<1>2. TypeOK' /\ SessionIsWritten' /\ OpcodesAreTheirs' /\ NothingYet'
  BY <1>1, SessionStaysWritten DEF IInv, TypeOK, NothingYet, session, stream
<1>3. NoGapIsDecoded' /\ MovesForward'
  BY <1>1 DEF IInv, NoGapIsDecoded, MovesForward, stream, PacketEnd
<1>4. /\ UNCHANGED <<sent, length>> /\ HeadersSeen' = HeadersSeen
      /\ \A k : MessageEnd(k)' = MessageEnd(k) /\ Genuine(k)' = Genuine(k) /\ Seen(k)' = Seen(k)
  BY <1>1, SameSession DEF session, stream
<1>5. FromTheStart' => FromTheStart
  BY <1>1 DEF FromTheStart, session, stream, MessageEnd, Unseen
<1>6. ASSUME Follows' PROVE OnMessages' /\ WholeSession'
  <2>1. OnMessages /\ WholeSession
    BY <1>1, <1>4, <1>5, <1>6 DEF IInv, StaysTrue, Follows
  <2>2. ASSUME NEW k \in DOMAIN sent, k > seq
        PROVE  MessageEnd(k) > length /\ sent[k].at + HeaderLen > length
    <3>1. pos <= sent[k].at
      BY <2>1, <2>2 DEF IInv, SessionIsWritten, OnMessages
    <3>2. /\ sent[k].at \in Nat /\ sent[k].at + HeaderLen <= MessageEnd(k)
          /\ MessageEnd(k) \in Nat /\ pos \in Nat /\ length \in Nat
      BY MessageFacts DEF IInv, TypeOK
    <3>3. QED
      BY <1>1, <3>1, <3>2 DEF HeaderLen
  <2>3. OnMessages'
    BY <1>1, <1>4, <2>1, <2>2 DEF OnMessages
  <2>4. WholeSession'
    BY <1>1, <1>4, <2>1 DEF WholeSession
  <2>5. QED
    BY <2>3, <2>4
<1>7. FromTheStart' /\ HeadersSeen' => GapsCounted'
  BY <1>1, <1>4, <1>5 DEF IInv, StaysTrue, GapsCounted
<1>8. QED
  BY <1>2, <1>3, <1>6, <1>7 DEF IInv, StaysTrue

\* However the walk was misled, a step of it moves forward, over captured bytes.
LEMMA StepMovesForward ==
  ASSUME FramingAssumption, IInv, Step
  PROVE  TypeOK' /\ NoGapIsDecoded' /\ MovesForward'
<1> PICK p : p = Packet(seq, pos, Opcode, Slice(pos + HeaderLen, EndOfMessage))
  OBVIOUS
<1> PICK k : k = seq + 1
  OBVIOUS
<1>1. /\ HeaderLeft /\ ~RunsPastEnd /\ phase = "walking"
      /\ cipher' = Decrypted /\ seq' = k /\ pos' = EndOfMessage
      /\ UNCHANGED <<phase, session, stream>>
      /\ \/ Unseen(pos, EndOfMessage) > 0 /\ log' = Append(log, "unseen") /\ yielded' = yielded
         \/ ~(Unseen(pos, EndOfMessage) > 0) /\ log' = log /\ yielded' = Append(yielded, p)
  BY DEF Step, HeaderLeft
<1>2. TypeOK /\ pos \in Nat /\ seq \in Nat /\ k \in Nat /\ length \in Nat
  BY DEF IInv, TypeOK
<1>3. /\ Opcode \in Byte /\ BodyLen \in Int /\ EndOfMessage = pos + HeaderLen + BodyLen
      /\ Decrypted \in [i : Nat, j : Byte]
  BY <1>1, <1>2, HeaderIsTyped DEF EndOfMessage
<1>4. pos + HeaderLen <= EndOfMessage /\ EndOfMessage <= length /\ EndOfMessage \in Nat
  BY <1>1, <1>2, <1>3 DEF RunsPastEnd, HeaderLen
<1>5. /\ p \in [seq : Nat, at : Nat, opcode : Byte, body : Seq(Byte)]
      /\ p.seq = seq /\ p.at = pos /\ PacketEnd(p) = EndOfMessage
  <2>1. /\ TypeOK /\ pos \in Nat /\ seq \in Nat /\ Opcode \in Byte /\ EndOfMessage \in Nat
        /\ pos + HeaderLen <= EndOfMessage /\ EndOfMessage <= length
    BY <1>2, <1>3, <1>4
  <2>2. QED
    BY <2>1, PacketIsWhole
<1>6. /\ Unseen(pos, EndOfMessage) \in Nat
      /\ Unseen(pos, EndOfMessage) = 0 <=> unseen \intersect pos .. (EndOfMessage - 1) = {}
  <2>1. TypeOK /\ pos \in Int /\ EndOfMessage \in Int
    BY <1>2, <1>4
  <2>2. QED
    BY <2>1, NoneUnseen, Zenon
<1>7. /\ yielded \in Seq([seq : Nat, at : Nat, opcode : Byte, body : Seq(Byte)])
      /\ Len(yielded) \in Nat /\ DOMAIN yielded = 1 .. Len(yielded)
  BY <1>2 DEF TypeOK
<1>8. ASSUME NEW n \in DOMAIN yielded
      PROVE  yielded[n].seq \in Nat /\ yielded[n].at \in Nat /\ PacketEnd(yielded[n]) \in Nat
  <2> DEFINE Packets == [seq : Nat, at : Nat, opcode : Byte, body : Seq(Byte)]
  <2>1. yielded \in Seq(Packets)
    BY <1>7
  <2> HIDE DEF Packets
  <2>2. yielded[n] \in Packets
    BY <2>1
  <2>3. yielded[n].at \in Nat /\ yielded[n].seq \in Nat /\ Len(yielded[n].body) \in Nat
    BY <2>2 DEF Packets
  <2>4. QED
    BY <2>3 DEF PacketEnd, HeaderLen
<1>9. seq < seq' /\ pos <= pos' /\ pos' \in Nat /\ pos' = EndOfMessage
  BY <1>1, <1>2, <1>4 DEF HeaderLen
<1>10. UNCHANGED <<phase, key, bytes, sent, peer, origin, length, unseen>>
  BY <1>1 DEF session, stream
<1>11. ASSUME NEW n \in DOMAIN yielded
       PROVE  /\ yielded[n].seq < seq' /\ (n > 1 => PacketEnd(yielded[n]) <= pos')
              /\ n > 1 =>
                   /\ yielded[n - 1].seq < yielded[n].seq
                   /\ n > 2 => PacketEnd(yielded[n - 1]) <= yielded[n].at
                   /\ PacketEnd(yielded[n]) <= length
                   /\ unseen \intersect yielded[n].at .. (PacketEnd(yielded[n]) - 1) = {}
  <2>1. yielded[n].seq < seq /\ (n > 1 => PacketEnd(yielded[n]) <= pos)
    BY DEF IInv, MovesForward
  <2>2. yielded[n].seq < seq' /\ (n > 1 => PacketEnd(yielded[n]) <= pos')
    BY <1>1, <1>2, <1>8, <1>9, <2>1
  <2>3. QED
    BY <2>2 DEF IInv, NoGapIsDecoded
<1>12. CASE Unseen(pos, EndOfMessage) > 0
  <2>1. log' = Append(log, "unseen") /\ yielded' = yielded /\ "unseen" \in Complaints
    BY <1>1, <1>12 DEF Complaints
  <2>2. log' \in Seq(Complaints)
    BY <1>2, <2>1, LogGrows
  <2>3. TypeOK'
    BY <1>1, <1>2, <1>3, <1>4, <1>10, <2>1, <2>2 DEF TypeOK
  <2>4. NoGapIsDecoded' /\ MovesForward'
    BY <1>10, <1>11, <2>1 DEF NoGapIsDecoded, MovesForward, PacketEnd
  <2>5. QED
    BY <2>3, <2>4
<1>13. CASE ~(Unseen(pos, EndOfMessage) > 0)
  <2>1. log' = log /\ yielded' = Append(yielded, p)
    BY <1>1, <1>13
  <2> DEFINE Packets == [seq : Nat, at : Nat, opcode : Byte, body : Seq(Byte)]
             K == Len(yielded) + 1
  <2> HIDE DEF Packets
  <2>2. yielded \in Seq(Packets) /\ p \in Packets
    BY <1>5, <1>7 DEF Packets
  <2>3. /\ yielded' \in Seq(Packets) /\ DOMAIN yielded' = 1 .. K /\ K \in Nat \ {0}
        /\ \A n \in DOMAIN yielded : yielded'[n] = yielded[n]
        /\ yielded'[K] = p
    BY <1>7, <2>1, <2>2, AppendFacts
  <2>4. TypeOK'
    BY <1>1, <1>2, <1>3, <1>4, <1>10, <2>1, <2>3 DEF TypeOK, Packets
  <2>5. unseen \intersect p.at .. (PacketEnd(p) - 1) = {}
    BY <1>5, <1>6, <1>13
  <2>6. K > 1 => /\ K - 1 \in DOMAIN yielded /\ yielded[K - 1].seq < seq
                 /\ K > 2 => PacketEnd(yielded[K - 1]) <= pos
    BY <1>7 DEF IInv, MovesForward
  <2>7. ASSUME NEW n \in DOMAIN yielded'
        PROVE  n \in DOMAIN yielded \/ n = K
    BY <1>7, <2>3
  <2>8. \A q : PacketEnd(q)' = PacketEnd(q)
    BY DEF PacketEnd
  <2>9. NoGapIsDecoded'
    <3> SUFFICES ASSUME NEW n \in DOMAIN yielded', n > 1
                 PROVE  /\ yielded'[n - 1].seq < yielded'[n].seq
                        /\ n > 2 => PacketEnd(yielded'[n - 1]) <= yielded'[n].at
                        /\ PacketEnd(yielded'[n]) <= length
                        /\ unseen \intersect yielded'[n].at .. (PacketEnd(yielded'[n]) - 1) = {}
      BY <1>10 DEF NoGapIsDecoded, PacketEnd
    <3>1. CASE n \in DOMAIN yielded
      <4>1. n - 1 \in DOMAIN yielded
        BY <1>7, <3>1
      <4>2. QED
        BY <1>11, <2>3, <3>1, <4>1
    <3>2. CASE n = K
      <4>1. K - 1 \in DOMAIN yielded /\ yielded'[K - 1] = yielded[K - 1] /\ yielded'[K] = p
        BY <2>3, <2>6, <3>2
      <4>2. QED
        BY <1>4, <1>5, <2>5, <2>6, <3>2, <4>1
    <3>3. QED
      BY <2>7, <3>1, <3>2
  <2>10. MovesForward'
    <3> SUFFICES ASSUME NEW n \in DOMAIN yielded'
                 PROVE  yielded'[n].seq < seq' /\ (n > 1 => PacketEnd(yielded'[n]) <= pos')
      BY DEF MovesForward, PacketEnd
    <3>1. CASE n \in DOMAIN yielded
      BY <1>11, <2>3, <3>1
    <3>2. CASE n = K
      BY <1>4, <1>5, <1>9, <2>3, <3>2
    <3>3. QED
      BY <2>7, <3>1, <3>2
  <2>11. QED
    BY <2>4, <2>9, <2>10
<1>14. QED
  BY <1>12, <1>13

\* While the walk is on the session's messages, a step takes it over one more:
\* yielded, or counted as lost in part.
LEMMA StepStaysTrue ==
  ASSUME FramingAssumption, IInv, Step
  PROVE  StaysTrue'
<1> PICK k : k = seq + 1
  OBVIOUS
<1>1. /\ HeaderLeft /\ ~RunsPastEnd /\ phase = "walking" /\ phase' = "walking"
      /\ cipher' = Decrypted /\ seq' = k /\ pos' = EndOfMessage
      /\ UNCHANGED <<session, stream>>
      /\ \/ Unseen(pos, EndOfMessage) > 0 /\ log' = Append(log, "unseen") /\ yielded' = yielded
         \/ /\ ~(Unseen(pos, EndOfMessage) > 0) /\ log' = log
            /\ yielded' = Append(yielded, Packet(seq, pos, Opcode,
                                                 Slice(pos + HeaderLen, EndOfMessage)))
  BY DEF Step, HeaderLeft
<1>2. /\ TypeOK /\ SessionIsWritten /\ pos \in Nat /\ seq \in Nat /\ length \in Nat
      /\ BodyLen \in Int /\ EndOfMessage = pos + HeaderLen + BodyLen
  BY <1>1, HeaderIsTyped DEF IInv, TypeOK, EndOfMessage
<1>3. pos + HeaderLen <= EndOfMessage /\ EndOfMessage <= length /\ EndOfMessage \in Nat
  BY <1>1, <1>2 DEF RunsPastEnd, HeaderLen
<1>4. /\ UNCHANGED <<sent, length>> /\ HeadersSeen' = HeadersSeen
      /\ \A m : /\ MessageEnd(m)' = MessageEnd(m) /\ Genuine(m)' = Genuine(m)
                /\ Seen(m)' = Seen(m) /\ CipherAt(m)' = CipherAt(m)
  BY <1>1, SameSession DEF session, stream
<1>5. FromTheStart' => FromTheStart
  BY <1>1 DEF FromTheStart, session, stream, MessageEnd, Unseen
<1>6. Unseen(pos, EndOfMessage) > 0 => log' # <<>>
  BY <1>1, <1>2, LogGrows DEF Complaints
<1>7. ASSUME Follows'
      PROVE  /\ FromTheStart /\ OnMessages /\ WholeSession
             /\ pos \notin unseen /\ pos + 1 \notin unseen
  <2>1. FromTheStart /\ (HeadersSeen \/ log' = <<>>)
    BY <1>4, <1>5, <1>7 DEF Follows
  <2>2. log' = <<>> => log = <<>> /\ ~(Unseen(pos, EndOfMessage) > 0)
    BY <1>1, <1>6
  <2>3. OnMessages /\ WholeSession
    BY <2>1, <2>2 DEF IInv, StaysTrue, Follows
  <2>4. CASE HeadersSeen
    BY <1>1, <2>1, <2>3, <2>4, NextHeaderSeen
  <2>5. CASE log' = <<>>
    <3>1. Unseen(pos, EndOfMessage) \in Nat /\ ~(Unseen(pos, EndOfMessage) > 0)
      BY <1>2, <1>3, <2>2, <2>5, NoneUnseen
    <3>2. unseen \intersect pos .. (EndOfMessage - 1) = {}
      <4>1. TypeOK /\ pos \in Int /\ EndOfMessage \in Int /\ Unseen(pos, EndOfMessage) = 0
        BY <1>2, <1>3, <3>1
      <4>2. QED
        BY <4>1, NoneUnseen, Zenon
    <3>3. pos \in pos .. (EndOfMessage - 1) /\ pos + 1 \in pos .. (EndOfMessage - 1)
      BY <1>2, <1>3 DEF HeaderLen
    <3>4. QED
      BY <2>1, <2>3, <3>2, <3>3
  <2>6. QED
    BY <2>1, <2>4, <2>5
<1>8. ASSUME Follows'
      PROVE  /\ k \in DOMAIN sent /\ k \in Nat /\ sent[k].at = pos /\ Opcode = sent[k].opcode
             /\ EndOfMessage = MessageEnd(k) /\ Decrypted = CipherAt(k + 1)
             /\ Seen(k) =>
                  Packet(seq, pos, Opcode, Slice(pos + HeaderLen, EndOfMessage)) = Genuine(k)
  <2>1. /\ k \in DOMAIN sent /\ k \in Nat /\ sent[k].at = pos
    BY <1>1, <1>2, <1>7, <1>8, NextMessage
  <2>2. /\ Opcode = sent[k].opcode /\ EndOfMessage = MessageEnd(k) /\ Decrypted = CipherAt(k + 1)
    BY <1>1, <1>7, <1>8, HeaderIsRead
  <2>3. origin = 0 /\ k - 1 = seq /\ sent[k].at - origin = pos
    BY <1>2, <1>7, <1>8, <2>1 DEF FromTheStart
  <2>4. Seen(k) => Slice(pos + HeaderLen, EndOfMessage) = sent[k].body
    BY <1>2, <1>3, <2>1, <2>2, <2>3, SliceIsBody DEF Seen
  <2>5. QED
    BY <2>1, <2>2, <2>3, <2>4 DEF Genuine
<1>9. ASSUME Follows' PROVE OnMessages'
  BY <1>1, <1>3, <1>4, <1>8, <1>9 DEF OnMessages
<1>10. ASSUME Follows' PROVE Seen(k) <=> ~(Unseen(pos, EndOfMessage) > 0)
  <2>1. Unseen(pos, EndOfMessage) \in Nat
    BY <1>2, <1>3, NoneUnseen
  <2>2. QED
    BY <1>8, <1>10, <2>1 DEF Seen
<1>11. ASSUME Follows' PROVE WholeSession'
  <2> SUFFICES ASSUME log' = <<>>
               PROVE  Len(yielded') = k /\ \A n \in DOMAIN yielded' : yielded'[n] = Genuine(n)
    BY <1>1, <1>4 DEF WholeSession
  <2>1. Seen(k) /\ log = <<>> /\ yielded' = Append(yielded, Genuine(k))
    BY <1>1, <1>6, <1>8, <1>10, <1>11
  <2>2. Len(yielded) = seq /\ \A n \in DOMAIN yielded : yielded[n] = Genuine(n)
    BY <1>7, <1>11, <2>1 DEF WholeSession
  <2>3. yielded \in Seq([seq : Nat, at : Nat, opcode : Byte, body : Seq(Byte)])
    BY <1>2 DEF TypeOK
  <2>4. /\ Len(yielded') = k /\ DOMAIN yielded' = 1 .. k /\ DOMAIN yielded = 1 .. seq
        /\ yielded'[k] = Genuine(k) /\ \A n \in 1 .. seq : yielded'[n] = yielded[n]
    BY <1>2, <2>1, <2>2, <2>3
  <2>5. 1 .. k = (1 .. seq) \union {k}
    BY <1>2
  <2>6. QED
    BY <2>2, <2>4, <2>5
<1>12. ASSUME FromTheStart', HeadersSeen' PROVE GapsCounted'
  <2> DEFINE seen == {m \in 1 .. seq : Seen(m)}
             missed == {m \in 1 .. seq : ~Seen(m)}
             told == {n \in DOMAIN log : log[n] = "unseen"}
  <2>1. Follows' /\ FromTheStart /\ HeadersSeen
    BY <1>4, <1>5, <1>12 DEF Follows
  <2>2. Range(yielded) = {Genuine(m) : m \in seen} /\ Cardinality(told) = Cardinality(missed)
    BY <2>1 DEF IInv, StaysTrue, GapsCounted
  <2>3. 1 .. k = (1 .. seq) \union {k} /\ k \notin 1 .. seq
    BY <1>2
  <2>4. CASE Seen(k)
    <3>1. log' = log /\ yielded' = Append(yielded, Genuine(k))
      BY <1>1, <1>8, <1>10, <2>1, <2>4
    <3>2. Range(yielded') = Range(yielded) \union {Genuine(k)}
      <4>1. yielded \in Seq([seq : Nat, at : Nat, opcode : Byte, body : Seq(Byte)])
        BY <1>2 DEF TypeOK
      <4>2. /\ DOMAIN yielded' = (DOMAIN yielded) \union {Len(yielded) + 1}
            /\ \A n \in DOMAIN yielded : yielded'[n] = yielded[n]
            /\ yielded'[Len(yielded) + 1] = Genuine(k)
        <5> DEFINE Packets == [seq : Nat, at : Nat, opcode : Byte, body : Seq(Byte)]
        <5>1. yielded \in Seq(Packets) /\ Genuine(k) \in Packets
          <6>1. k \in DOMAIN sent /\ k - 1 = seq /\ sent[k].at - origin = pos
            BY <1>2, <1>8, <2>1 DEF FromTheStart
          <6>2. sent[k].opcode \in Byte /\ sent[k].body \in Seq(Byte)
            BY <1>2, <6>1, MessageFacts
          <6>3. QED
            BY <1>2, <4>1, <6>1, <6>2 DEF Genuine, Packet
        <5> HIDE DEF Packets
        <5>2. QED
          BY <3>1, <5>1, AppendFacts
      <4>3. QED
        BY <4>2 DEF Range
    <3>3. {m \in 1 .. k : Seen(m)} = seen \union {k} /\ {m \in 1 .. k : ~Seen(m)} = missed
      BY <2>3, <2>4
    <3>4. QED
      BY <1>1, <1>4, <2>2, <3>1, <3>2, <3>3 DEF GapsCounted
  <2>5. CASE ~Seen(k)
    <3>1. log' = Append(log, "unseen") /\ yielded' = yielded
      BY <1>1, <1>10, <2>1, <2>5
    <3>2. /\ {n \in DOMAIN log' : log'[n] = "unseen"} = told \union {Len(log) + 1}
          /\ Len(log) + 1 \notin told /\ IsFiniteSet(told)
      <4>1. /\ {n \in DOMAIN log' : log'[n] = "unseen"} = told \union {Len(log) + 1}
            /\ Len(log) + 1 \notin DOMAIN log /\ IsFiniteSet(DOMAIN log)
        BY <1>2, <3>1, LogGrows DEF Complaints
      <4>2. QED
        BY <4>1, FS_Subset
    <3>3. /\ {m \in 1 .. k : Seen(m)} = seen /\ {m \in 1 .. k : ~Seen(m)} = missed \union {k}
          /\ k \notin missed
      BY <2>3, <2>5
    <3>4. IsFiniteSet(missed)
      <4>1. IsFiniteSet(1 .. seq)
        BY <1>2, FS_Interval
      <4>2. QED
        BY <4>1, FS_Subset
    <3>5. Cardinality(told \union {Len(log) + 1}) = Cardinality(missed \union {k})
      <4> HIDE DEF told, missed
      <4>1. Cardinality(told \union {Len(log) + 1}) = Cardinality(told) + 1
        BY <3>2, FS_AddElement
      <4>2. Cardinality(missed \union {k}) = Cardinality(missed) + 1
        BY <3>3, <3>4, FS_AddElement
      <4>3. QED
        BY <2>2, <4>1, <4>2
    <3>6. QED
      <4>1. /\ Range(yielded') = {Genuine(m) : m \in {j \in 1 .. k : Seen(j)}}
            /\ Cardinality({n \in DOMAIN log' : log'[n] = "unseen"})
                 = Cardinality({m \in 1 .. k : ~Seen(m)})
        BY <2>2, <3>1, <3>2, <3>3, <3>5
      <4>2. QED
        BY <1>1, <1>4, <4>1 DEF GapsCounted
  <2>6. QED
    BY <2>4, <2>5
<1>13. QED
  BY <1>9, <1>11, <1>12 DEF StaysTrue

LEMMA StepKeeps ==
  ASSUME FramingAssumption, IInv, Step
  PROVE  IInv'
<1>1. SessionIsWritten' /\ OpcodesAreTheirs' /\ NothingYet'
  BY SessionStaysWritten DEF IInv, NothingYet, Step, HeaderLeft
<1>2. QED
  BY <1>1, StepMovesForward, StepStaysTrue DEF IInv

-----------------------------------------------------------------------------
(* The properties. *)

LEMMA InitIsTrue ==
  ASSUME FramingAssumption, Init
  PROVE  IInv
<1>1. TypeOK
  BY DEF FramingAssumption, Init, TypeOK, Fresh, Byte
<1>2. SessionIsWritten /\ OpcodesAreTheirs
  BY DEF Init, SessionIsWritten, OpcodesAreTheirs
<1>3. NothingYet /\ NoGapIsDecoded /\ MovesForward /\ StaysTrue
  BY DEF Init, NothingYet, NoGapIsDecoded, MovesForward, StaysTrue, Follows, FromTheStart
<1>4. QED
  BY <1>1, <1>2, <1>3 DEF IInv

LEMMA NextKeepsIInv ==
  ASSUME FramingAssumption, IInv, [Next]_vars
  PROVE  IInv'
<1>1. CASE \E opcode \in Opcodes \union {Bootstrap}, body \in Bodies : Send(opcode, body)
  BY <1>1, SendKeeps
<1>2. CASE Captured \/ TooShort \/ Open \/ Step \/ Finish
  BY <1>2, CapturedKeeps, TooShortKeeps, OpenKeeps, StepKeeps, FinishKeeps
<1>3. CASE DesyncOpcode
  BY <1>3, StopKeeps DEF DesyncOpcode
<1>4. CASE DesyncLength
  BY <1>4, StopKeeps DEF DesyncLength
<1>5. CASE UNCHANGED vars
  <2>1. /\ UNCHANGED <<session, stream>>
        /\ UNCHANGED <<phase, key, bytes, sent, peer, origin, length, unseen, pos, seq, cipher,
                       yielded, log>>
    BY <1>5 DEF vars, session, stream
  <2>2. SessionIsWritten' /\ OpcodesAreTheirs' /\ TypeOK'
    BY <2>1, SessionStaysWritten DEF IInv, TypeOK
  <2>3. NothingYet' /\ NoGapIsDecoded' /\ MovesForward'
    BY <2>1 DEF IInv, NothingYet, NoGapIsDecoded, MovesForward, PacketEnd
  <2>4. /\ HeadersSeen' = HeadersSeen
        /\ \A k : /\ MessageEnd(k)' = MessageEnd(k) /\ Genuine(k)' = Genuine(k)
                  /\ Seen(k)' = Seen(k) /\ CipherAt(k)' = CipherAt(k)
    BY <2>1, SameSession
  <2>5. FromTheStart' = FromTheStart
    BY <2>1 DEF FromTheStart, MessageEnd, Unseen
  <2>6. (CipherAt(seq + 1))' = CipherAt(seq + 1) /\ (MessageEnd(seq))' = MessageEnd(seq)
    BY <2>1 DEF CipherAt, MessageEnd
  <2>7. OnMessages' = OnMessages /\ WholeSession' = WholeSession /\ GapsCounted' = GapsCounted
    BY <2>1, <2>4, <2>6 DEF OnMessages, WholeSession, GapsCounted
  <2>8. QED
    BY <2>1, <2>2, <2>3, <2>4, <2>5, <2>7 DEF IInv, StaysTrue, Follows
<1>6. QED
  BY <1>1, <1>2, <1>3, <1>4, <1>5 DEF Next

LEMMA SilenceIsRight ==
  ASSUME FramingAssumption, IInv
  PROVE  SilentMeansRight
<1> SUFFICES ASSUME FromTheStart, log = <<>>
             PROVE  /\ Len(yielded) <= Len(sent)
                    /\ \A k \in DOMAIN yielded : yielded[k] = Genuine(k)
                    /\ phase = "done" =>
                         \A k \in DOMAIN sent : k > Len(yielded) => sent[k].at + HeaderLen > length
  BY DEF SilentMeansRight
<1>1. OnMessages /\ WholeSession
  BY DEF IInv, StaysTrue, Follows
<1>2. Len(yielded) = seq /\ \A k \in DOMAIN yielded : yielded[k] = Genuine(k)
  BY <1>1 DEF WholeSession
<1>3. seq \in 1 .. Len(sent)
  BY <1>1 DEF OnMessages, IInv, TypeOK
<1>4. QED
  BY <1>1, <1>2, <1>3 DEF OnMessages

LEMMA GapsCostOnlyTheirs ==
  ASSUME FramingAssumption, IInv
  PROVE  GapsCostOnlyTheirMessages
<1> SUFFICES ASSUME FromTheStart, HeadersSeen, phase = "done"
             PROVE  LET whole == {k \in DOMAIN sent : MessageEnd(k) <= length}
                        clean == {k \in whole : Unseen(sent[k].at, MessageEnd(k)) = 0}
                    IN  /\ Range(yielded) = {Genuine(k) : k \in clean}
                        /\ Cardinality({n \in DOMAIN log : log[n] = "unseen"})
                             = Cardinality(whole \ clean)
  BY DEF GapsCostOnlyTheirMessages, IInv
<1>1. OnMessages /\ GapsCounted
  BY DEF IInv, StaysTrue, Follows
<1>2. DOMAIN sent = 1 .. Len(sent) /\ Len(sent) \in Nat /\ seq \in DOMAIN sent /\ length \in Nat
  BY <1>1 DEF IInv, TypeOK, OnMessages
<1>3. ASSUME NEW k \in DOMAIN sent
      PROVE  MessageEnd(k) <= length <=> k \in 1 .. seq
  <2>1. /\ MessageEnd(k) \in Nat /\ MessageEnd(seq) \in Nat
        /\ sent[seq].at \in Nat /\ sent[seq].at + HeaderLen <= MessageEnd(seq)
    BY <1>2, MessageFacts DEF IInv
  <2>2. k > seq => MessageEnd(k) > length
    BY <1>1 DEF OnMessages
  <2>3. k < seq => MessageEnd(k) <= sent[seq].at
    BY <1>2 DEF IInv, SessionIsWritten
  <2>4. MessageEnd(seq) <= length
    BY <1>1 DEF OnMessages
  <2>5. CASE k < seq
    BY <1>2, <2>1, <2>3, <2>4, <2>5 DEF HeaderLen
  <2>6. CASE k = seq
    BY <1>2, <2>4, <2>6
  <2>7. CASE k > seq
    BY <1>2, <2>1, <2>2, <2>7
  <2>8. QED
    BY <1>2, <2>5, <2>6, <2>7
<1>4. {k \in DOMAIN sent : MessageEnd(k) <= length} = 1 .. seq
  BY <1>2, <1>3
<1>5. QED
  BY <1>1, <1>4 DEF GapsCounted, Seen

\* The invariant holds in every state of every behaviour.
THEOREM InvariantHolds ==
  ASSUME FramingAssumption
  PROVE  Spec => []IInv
<1>1. Init => IInv
  BY InitIsTrue
<1>2. IInv /\ [Next]_vars => IInv'
  BY NextKeepsIInv
<1>3. QED
  BY <1>1, <1>2, PTL DEF Spec

\* A walk that has logged no error has yielded the session as it was sent
\* (framing.py, walk), whatever was captured and lost of it.
THEOREM TheSilentWalkIsRight ==
  ASSUME FramingAssumption
  PROVE  Spec => []SilentMeansRight
<1>1. IInv => SilentMeansRight
  BY SilenceIsRight
<1>2. QED
  BY <1>1, InvariantHolds, PTL

\* No byte that was lost is decoded, and with every header captured a loss costs
\* the messages it is in and no other (framing.py, walk).
THEOREM AGapCostsItsMessage ==
  ASSUME FramingAssumption
  PROVE  Spec => []GapsCostOnlyTheirMessages
<1>1. IInv => GapsCostOnlyTheirMessages
  BY GapsCostOnlyTheirs
<1>2. QED
  BY <1>1, InvariantHolds, PTL
=============================================================================
