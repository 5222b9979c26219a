------------------------- MODULE KeyRecoveryProofs -------------------------
(***************************************************************************)
(* Proofs about KeyRecovery, for every key, session and capture.  The      *)
(* argument: a chunk that is one message gives the slot its place in the   *)
(* stream says, and no slot is written twice, so what the chunks before    *)
(* the first odd one gave is right for good; and over the server's stream  *)
(* a right key reads each header with the cipher it was written with, so   *)
(* the check finds every size and opcode as they were sent.                *)
(***************************************************************************)
EXTENDS KeyRecovery, TLAPS

Slots == 0 .. (KeyLen - 1)

\* The cipher's byte i, written after the byte last; and read back.
Written(plain, i, last) == (Xor(plain, key[i % KeyLen]) + last) % ByteModulus
Read(cipher, i, last)   == Xor((cipher - last) % ByteModulus, key[i % KeyLen])

-----------------------------------------------------------------------------
(* The inductive invariant. *)

\* Up to the first odd one, chunk n is the client's message n.
ChunksAreMessages ==
  /\ clean \in Nat /\ clean <= Len(chunks)
  /\ odd = 0 => clean = Len(chunks) /\ client.sent = clean
  /\ \A n \in 2 .. clean :
       /\ Len(chunks[n]) >= 3
       /\ (chunks[n][3] - chunks[n][2]) % ByteModulus = key[SlotOfChunk(n)]

\* The loop knows the slots of the chunks it has read, and while those are all
\* messages it knows nothing wrong.
SlotsAreRead ==
  /\ next >= 2 /\ idx = ((next - 2) * 3) % KeyLen
  /\ phase = "sending" => known = {} /\ next = 2
  /\ phase = "recovering" => known # Slots
  /\ phase \in {"checking", "returned"} => known = Slots
  /\ known # {} => next <= Len(chunks) + 1
  /\ \A n \in 2 .. clean : n < next => SlotOfChunk(n) \in known
  /\ next <= clean + 1 => \A slot \in known : guess[slot] = key[slot]

\* The server's message k begins after starts[k] bytes of its stream; its header,
\* read with the key and the header before it, is its own.
FeedbackOf(starts, k, stream) == IF k = 2 THEN 0 ELSE stream[starts[k - 1] + 2]

BodyLen(m) == Len(m[2])

HeaderReads(starts, k, m, stream) ==
  /\ Read(stream[starts[k] + 1], 2 * (k - 2), FeedbackOf(starts, k, stream)) = BodyLen(m) + 1
  /\ Read(stream[starts[k] + 2], 2 * (k - 2) + 1, stream[starts[k] + 1]) = m[1]

MessageIsHeard(starts, k, m, stream) ==
  /\ starts[k + 1] = starts[k] + 2 + BodyLen(m)
  /\ k = 1 /\ stream # <<>> => stream[1] = BodyLen(m) + 1
  /\ k > 1 /\ starts[k] + 2 <= Len(stream) => HeaderReads(starts, k, m, stream)

SessionIsHeard(starts) ==
  /\ Len(starts) = server.sent + 1 /\ starts[1] = 0
  /\ Len(heard) <= starts[server.sent + 1]
  /\ IF phase = "sending"
     THEN /\ Len(heard) = starts[server.sent + 1]
          /\ \A k \in 1 .. server.sent + 1 : starts[k] <= Len(heard)
          /\ server.sent > 0 => server.j = FeedbackOf(starts, server.sent + 1, heard)
     ELSE heard # <<>>
  /\ \A k \in 1 .. server.sent : \E m \in ServerMessages : MessageIsHeard(starts, k, m, heard)

\* With the right key the check is at the header it has counted to.
CheckIsOnHeaders(starts) ==
  phase = "checking" /\ guess = key =>
    /\ used = 2 * checked
    /\ checked + 1 <= server.sent
    /\ at = starts[checked + 2]
    /\ feedback = FeedbackOf(starts, checked + 2, heard)

ServerIsHeard == \E starts \in Seq(Nat) : SessionIsHeard(starts) /\ CheckIsOnHeaders(starts)

CheckIsToCome ==
  phase \in {"sending", "recovering"} => used = 0 /\ feedback = 0 /\ checked = 0

IInv ==
  /\ TypeOK
  /\ ChunksAreMessages
  /\ SlotsAreRead
  /\ ServerIsHeard
  /\ CheckIsToCome
  /\ CleanChunksReadTheKey
  /\ TheRightKeyIsNeverRefused

-----------------------------------------------------------------------------
(* Arithmetic, and the cipher. *)

LEMMA ModUnique ==
  ASSUME NEW K \in Nat \ {0}, NEW q \in Int, NEW r \in 0 .. (K - 1)
  PROVE  (K * q + r) % K = r
OBVIOUS

LEMMA ModAdd ==
  ASSUME NEW K \in Nat \ {0}, NEW a \in Nat, NEW b \in Nat
  PROVE  ((a % K) + b) % K = (a + b) % K
<1>1. PICK q \in Int, r \in 0 .. (K - 1) : a = K * q + r /\ a % K = r
  <2>1. a = K * (a \div K) + (a % K) /\ a % K \in 0 .. (K - 1) /\ a \div K \in Int
    OBVIOUS
  <2>2. QED
    BY <2>1
<1>2. PICK p \in Int, t \in 0 .. (K - 1) : r + b = K * p + t /\ (r + b) % K = t
  <2>1. r + b \in Int
    BY <1>1
  <2>2. /\ r + b = K * ((r + b) \div K) + ((r + b) % K)
        /\ (r + b) % K \in 0 .. (K - 1) /\ (r + b) \div K \in Int
    BY <2>1
  <2>3. QED
    BY <2>2
<1>3. a + b = K * (q + p) + t
  <2>1. K * (q + p) = K * q + K * p
    OBVIOUS
  <2>2. QED
    BY <1>1, <1>2, <2>1
<1>4. (K * (q + p) + t) % K = t
  <2>1. q + p \in Int
    OBVIOUS
  <2>2. QED
    BY <2>1, ModUnique
<1>5. QED
  BY <1>1, <1>2, <1>3, <1>4

\* A header after the first is encrypted byte by byte, each fed the one before.
IsChained(h, peer, plain) ==
  /\ \A B : (\A n \in 1 .. Len(plain) : h[n] \in B) => h \in [1 .. Len(plain) -> B]
  /\ h[1] = Written(plain[1], (peer.sent - 1) * Len(plain) + 1 - 1, peer.j)
  /\ \A n \in 2 .. Len(plain) :
       h[n] = Written(plain[n], (peer.sent - 1) * Len(plain) + n - 1, h[n - 1])

LEMMA HeaderChains ==
  ASSUME NEW peer, peer.sent # 0, NEW plain, Len(plain) \in {2, 3}
  PROVE  IsChained(Header(peer, plain), peer, plain)
<1> DEFINE slot(n) == key[((peer.sent - 1) * Len(plain) + n - 1) % KeyLen]
           step(n, last) == (Xor(plain[n], slot(n)) + last) % ByteModulus
           IsCipher(c) ==
             c = [n \in 0 .. Len(plain) |-> IF n = 0 THEN peer.j ELSE step(n, c[n - 1])]
           e1 == step(1, peer.j)
           e2 == step(2, e1)
           e3 == step(3, e2)
           written == [n \in 0 .. Len(plain) |->
                         IF n = 0 THEN peer.j ELSE IF n = 1 THEN e1 ELSE IF n = 2 THEN e2 ELSE e3]
           cipher == CHOOSE c : IsCipher(c)
<1> HIDE DEF step
<1>0. /\ 1 \in 0 .. Len(plain) /\ 1 - 1 = 0
      /\ \A n \in 0 .. Len(plain) : n \in {0, 1, 2} \/ (n = 3 /\ Len(plain) = 3)
      /\ \A n \in 2 .. Len(plain) : /\ n \in 0 .. Len(plain) /\ n # 0 /\ n \in 1 .. Len(plain)
                                   /\ n - 1 \in 1 .. Len(plain)
      /\ 1 \in 1 .. Len(plain)
  <2>1. CASE Len(plain) = 2
    BY <2>1
  <2>2. CASE Len(plain) = 3
    BY <2>2
  <2>3. QED
    BY <2>1, <2>2
<1>1. IsCipher(written)
  <2>1. \A n \in 0 .. Len(plain) :
          written[n] = IF n = 0 THEN peer.j ELSE IF n = 1 THEN e1 ELSE IF n = 2 THEN e2 ELSE e3
    OBVIOUS
  <2>2. written = [n \in 0 .. Len(plain) |-> written[n]]
    OBVIOUS
  <2> HIDE DEF written
  <2>3. ASSUME NEW n \in 0 .. Len(plain)
        PROVE  written[n] = IF n = 0 THEN peer.j ELSE step(n, written[n - 1])
    <3>1. n \in {0, 1, 2} \/ (n = 3 /\ Len(plain) = 3)
      BY <1>0
    <3>2. CASE n = 0
      BY <2>1, <3>2
    <3>3. CASE n = 1
      BY <2>1, <3>3
    <3>4. CASE n = 2
      BY <2>1, <3>4
    <3>5. CASE n = 3 /\ Len(plain) = 3
      BY <2>1, <3>5
    <3>6. QED
      BY <3>1, <3>2, <3>3, <3>4, <3>5
  <2>4. QED
    BY <2>2, <2>3
<1>2. IsCipher(cipher)
  BY <1>1
<1>3. Header(peer, plain) = [n \in 1 .. Len(plain) |-> cipher[n]]
  BY DEF Header, step
<1>4. \A n \in 0 .. Len(plain) : cipher[n] = IF n = 0 THEN peer.j ELSE step(n, cipher[n - 1])
  <2> HIDE DEF cipher
  <2>1. QED
    BY <1>2
<1> HIDE DEF cipher, IsCipher
<1>5. /\ cipher[1] = step(1, peer.j)
      /\ \A n \in 2 .. Len(plain) : cipher[n] = step(n, cipher[n - 1])
  BY <1>0, <1>4
<1> PICK h : h = Header(peer, plain)
  OBVIOUS
<1>6. /\ h = [n \in 1 .. Len(plain) |-> h[n]]
      /\ \A n \in 1 .. Len(plain) : h[n] = cipher[n]
  BY <1>3
<1>7. /\ h[1] = step(1, peer.j)
      /\ \A n \in 2 .. Len(plain) : h[n] = step(n, h[n - 1])
  BY <1>0, <1>5, <1>6
<1>8. QED
  BY <1>6, <1>7 DEF IsChained, step, Written

LEMMA FunctionsAreSequences ==
  ASSUME NEW S, NEW n \in Nat, NEW f \in [1 .. n -> S]
  PROVE  f \in Seq(S) /\ Len(f) = n
OBVIOUS

LEMMA Basics ==
  ASSUME KeyAssumption
  PROVE  /\ ByteModulus \in Nat \ {0} /\ Byte = 0 .. (ByteModulus - 1) /\ 0 \in Byte
         /\ KeyLen \in Nat \ {0}
         /\ \A x \in Int : x % ByteModulus \in Byte /\ x % KeyLen \in Slots
         /\ \A k \in Keys : k \in [Slots -> Byte]
         /\ \A a, b \in Byte : Xor(a, b) \in Byte /\ Xor(Xor(a, b), b) = a
         /\ \A b \in Byte : Xor(0, b) = b
<1>1. /\ ByteModulus \in Nat \ {0} /\ KeyLen \in Nat \ {0}
      /\ \A k \in Keys : k \in [0 .. (KeyLen - 1) -> Byte]
      /\ \A a, b \in Byte : Xor(a, b) \in Byte /\ Xor(Xor(a, b), b) = a
      /\ \A b \in Byte : Xor(0, b) = b
  BY DEF KeyAssumption
<1>2. ASSUME NEW x \in Int
      PROVE  x % ByteModulus \in 0 .. (ByteModulus - 1) /\ x % KeyLen \in 0 .. (KeyLen - 1)
  BY <1>1
<1>3. 0 \in 0 .. (ByteModulus - 1)
  BY <1>1
<1>4. QED
  BY <1>1, <1>2, <1>3 DEF Byte, Slots

\* Subtracting what was added, each time modulo the byte.
LEMMA SubtractsBack ==
  ASSUME NEW m \in Nat \ {0}, NEW a \in 0 .. (m - 1), NEW j \in 0 .. (m - 1)
  PROVE  (((a + j) % m) - j) % m = a
<1>1. CASE a + j < m
  <2>1. (a + j) % m = a + j
    BY <1>1
  <2>2. QED
    BY <2>1
<1>2. CASE a + j >= m
  <2>1. (a + j) % m = a + j - m
    BY <1>2
  <2>2. (a - m) % m = a
    OBVIOUS
  <2>3. QED
    BY <2>1, <2>2
<1>3. QED
  BY <1>1, <1>2

\* One byte of a header, written and read.
LEMMA ByteReads ==
  ASSUME KeyAssumption, key \in Keys, NEW plain \in Byte, NEW i \in Nat, NEW last \in Byte
  PROVE  /\ Written(plain, i, last) \in Byte
         /\ Read(Written(plain, i, last), i, last) = plain
         /\ plain = 0 => (Written(plain, i, last) - last) % ByteModulus = key[i % KeyLen]
<1>1. key[i % KeyLen] \in Byte
  <2>1. i % KeyLen \in Slots
    BY Basics
  <2>2. key \in [Slots -> Byte]
    BY Basics
  <2>3. QED
    BY <2>1, <2>2
<1>2. PICK k \in Byte : k = key[i % KeyLen]
  BY <1>1
<1>3. /\ Xor(plain, k) \in Byte /\ Xor(Xor(plain, k), k) = plain
      /\ plain = 0 => Xor(plain, k) = k
  BY Basics
<1>4. PICK x \in Byte : x = Xor(plain, k)
  BY <1>3
<1>5. ByteModulus \in Nat \ {0} /\ Byte = 0 .. (ByteModulus - 1)
  BY Basics
<1>6. (x + last) % ByteModulus \in Byte /\ (((x + last) % ByteModulus) - last) % ByteModulus = x
  <2>1. x \in 0 .. (ByteModulus - 1) /\ last \in 0 .. (ByteModulus - 1)
    BY <1>5
  <2>2. x + last \in Int
    BY <2>1, <1>5
  <2>3. (((x + last) % ByteModulus) - last) % ByteModulus = x
    BY <1>5, <2>1, SubtractsBack, Zenon
  <2>4. QED
    BY <2>2, <2>3, Basics, Zenon
<1>7. Written(plain, i, last) = (x + last) % ByteModulus
  BY <1>2, <1>4 DEF Written
<1>8. QED
  BY <1>2, <1>3, <1>4, <1>6, <1>7 DEF Read

LEMMA ClientHeaderGivesASlot ==
  ASSUME KeyAssumption, key \in Keys, NEW peer, peer.sent \in Nat, peer.j \in Byte,
         NEW m \in ClientMessages,
         NEW h, h = Header(peer, <<Len(m[2]) + 2, m[1], 0>>)
  PROVE  /\ h \in Seq(Byte) /\ Len(h) = 3
         /\ peer.sent > 0 => (h[3] - h[2]) % ByteModulus = key[SlotOfChunk(peer.sent + 1)]
<1> DEFINE plain == <<Len(m[2]) + 2, m[1], 0>>
<1>1. plain \in Seq(Byte) /\ Len(plain) = 3 /\ plain[3] = 0 /\ \A n \in 1 .. 3 : plain[n] \in Byte
  BY Basics DEF KeyAssumption
<1>2. CASE peer.sent = 0
  BY <1>1, <1>2 DEF Header
<1>3. CASE peer.sent # 0
  <2> HIDE DEF plain
  <2>1. PICK s \in Nat : s = (peer.sent - 1) * 3
    BY <1>3
  <2>2. /\ \A B : (\A n \in 1 .. 3 : h[n] \in B) => h \in [1 .. 3 -> B]
        /\ h[1] = Written(plain[1], s, peer.j)
        /\ h[2] = Written(plain[2], s + 1, h[1])
        /\ h[3] = Written(plain[3], s + 2, h[2])
    <3>1. h = Header(peer, plain)
      BY DEF plain
    <3>2. /\ \A B : (\A n \in 1 .. Len(plain) : h[n] \in B) => h \in [1 .. Len(plain) -> B]
          /\ h[1] = Written(plain[1], (peer.sent - 1) * Len(plain) + 1 - 1, peer.j)
          /\ \A n \in 2 .. Len(plain) :
               h[n] = Written(plain[n], (peer.sent - 1) * Len(plain) + n - 1, h[n - 1])
      <4>1. peer.sent # 0 /\ Len(plain) \in {2, 3}
        BY <1>1, <1>3
      <4>2. IsChained(h, peer, plain)
        BY <3>1, <4>1, HeaderChains
      <4>3. QED
        BY <4>2 DEF IsChained
    <3>3. Len(plain) = 3 /\ (peer.sent - 1) * Len(plain) = s
      BY <1>1, <2>1
    <3>4. /\ \A B : (\A n \in 1 .. 3 : h[n] \in B) => h \in [1 .. 3 -> B]
          /\ h[1] = Written(plain[1], s + 1 - 1, peer.j)
          /\ \A n \in 2 .. 3 : h[n] = Written(plain[n], s + n - 1, h[n - 1])
      BY <3>2, <3>3
    <3>5. /\ s + 1 - 1 = s /\ s + 2 - 1 = s + 1 /\ s + 3 - 1 = s + 2 /\ 2 - 1 = 1 /\ 3 - 1 = 2
          /\ 2 \in 2 .. 3 /\ 3 \in 2 .. 3
      OBVIOUS
    <3>6. QED
      BY <3>4, <3>5
  <2>9. /\ s + 1 \in Nat /\ s + 2 \in Nat /\ peer.j \in Byte
        /\ plain[1] \in Byte /\ plain[2] \in Byte /\ plain[3] \in Byte
    BY <1>1
  <2>3. h[1] \in Byte
    BY <2>9, <2>2, ByteReads
  <2>4. h[2] \in Byte
    BY <2>9, <2>2, <2>3, ByteReads
  <2>5. h[3] \in Byte /\ (h[3] - h[2]) % ByteModulus = key[(s + 2) % KeyLen]
    BY <1>1, <2>9, <2>2, <2>4, ByteReads
  <2>6. h \in Seq(Byte) /\ Len(h) = 3
    <3>1. \A n \in 1 .. 3 : h[n] \in Byte
      <4>1. \A n \in 1 .. 3 : n = 1 \/ n = 2 \/ n = 3
        OBVIOUS
      <4>2. QED
        BY <2>3, <2>4, <2>5, <4>1
    <3>2. h \in [1 .. 3 -> Byte]
      BY <2>2, <3>1, Zenon
    <3>3. QED
      BY <3>2, FunctionsAreSequences
  <2>7. SlotOfChunk(peer.sent + 1) = (s + 2) % KeyLen
    BY <2>1 DEF SlotOfChunk, ClientHeaderLen
  <2>8. QED
    BY <2>5, <2>6, <2>7
<1>4. QED
  BY <1>2, <1>3

LEMMA ServerHeaderReads ==
  ASSUME KeyAssumption, key \in Keys, NEW peer, peer.sent \in Nat, peer.j \in Byte,
         NEW m \in ServerMessages,
         NEW h, h = Header(peer, <<Len(m[2]) + 1, m[1]>>)
  PROVE  /\ h \in Seq(Byte) /\ Len(h) = 2
         /\ peer.sent = 0 => h[1] = BodyLen(m) + 1
         /\ peer.sent > 0 =>
              /\ Read(h[1], 2 * (peer.sent - 1), peer.j) = BodyLen(m) + 1
              /\ Read(h[2], 2 * (peer.sent - 1) + 1, h[1]) = m[1]
<1> DEFINE plain == <<Len(m[2]) + 1, m[1]>>
<1>1. /\ plain \in Seq(Byte) /\ Len(plain) = 2 /\ plain[1] = Len(m[2]) + 1 /\ plain[2] = m[1]
      /\ plain[1] \in Byte /\ plain[2] \in Byte
  <2>1. m[1] \in 0 .. Ceiling /\ Ceiling \in Byte /\ Len(m[2]) + 1 \in Byte
    BY DEF KeyAssumption
  <2>2. m[1] \in Byte
    <3>1. ByteModulus \in Nat \ {0} /\ Byte = 0 .. (ByteModulus - 1)
      BY Basics
    <3>2. QED
      BY <2>1, <3>1
  <2>3. QED
    BY <2>1, <2>2
<1>2. CASE peer.sent = 0
  BY <1>1, <1>2 DEF Header, BodyLen
<1>3. CASE peer.sent # 0
  <2> HIDE DEF plain
  <2>1. PICK s \in Nat : s = (peer.sent - 1) * 2
    BY <1>3
  <2>2. /\ \A B : (\A n \in 1 .. 2 : h[n] \in B) => h \in [1 .. 2 -> B]
        /\ h[1] = Written(plain[1], s, peer.j)
        /\ h[2] = Written(plain[2], s + 1, h[1])
    <3>1. h = Header(peer, plain)
      BY DEF plain
    <3>2. /\ \A B : (\A n \in 1 .. Len(plain) : h[n] \in B) => h \in [1 .. Len(plain) -> B]
          /\ h[1] = Written(plain[1], (peer.sent - 1) * Len(plain) + 1 - 1, peer.j)
          /\ \A n \in 2 .. Len(plain) :
               h[n] = Written(plain[n], (peer.sent - 1) * Len(plain) + n - 1, h[n - 1])
      <4>1. peer.sent # 0 /\ Len(plain) \in {2, 3}
        BY <1>1, <1>3
      <4>2. IsChained(h, peer, plain)
        BY <3>1, <4>1, HeaderChains
      <4>3. QED
        BY <4>2 DEF IsChained
    <3>3. Len(plain) = 2 /\ (peer.sent - 1) * Len(plain) = s
      BY <1>1, <2>1
    <3>4. /\ \A B : (\A n \in 1 .. 2 : h[n] \in B) => h \in [1 .. 2 -> B]
          /\ h[1] = Written(plain[1], s + 1 - 1, peer.j)
          /\ \A n \in 2 .. 2 : h[n] = Written(plain[n], s + n - 1, h[n - 1])
      BY <3>2, <3>3
    <3>5. /\ s + 1 - 1 = s /\ s + 2 - 1 = s + 1 /\ s + 3 - 1 = s + 2 /\ 2 - 1 = 1 /\ 3 - 1 = 2
          /\ 2 \in 2 .. 2
      OBVIOUS
    <3>6. QED
      BY <3>4, <3>5
  <2>9. s + 1 \in Nat /\ peer.j \in Byte
    OBVIOUS
  <2>3. h[1] \in Byte /\ Read(h[1], s, peer.j) = plain[1]
    BY <1>1, <2>9, <2>2, ByteReads
  <2>4. h[2] \in Byte /\ Read(h[2], s + 1, h[1]) = plain[2]
    BY <1>1, <2>9, <2>2, <2>3, ByteReads
  <2>5. h \in Seq(Byte) /\ Len(h) = 2
    <3>1. \A n \in 1 .. 2 : h[n] \in Byte
      <4>1. \A n \in 1 .. 2 : n = 1 \/ n = 2
        OBVIOUS
      <4>2. QED
        BY <2>3, <2>4, <4>1
    <3>2. h \in [1 .. 2 -> Byte]
      BY <2>2, <3>1, Zenon
    <3>3. QED
      BY <3>2, FunctionsAreSequences
  <2>6. s = 2 * (peer.sent - 1)
    BY <2>1
  <2>7. QED
    BY <1>1, <1>3, <2>3, <2>4, <2>5, <2>6 DEF BodyLen
<1>4. QED
  BY <1>2, <1>3

-----------------------------------------------------------------------------
(* Sending. *)

LEMMA JoinedBytes ==
  ASSUME NEW S, NEW h \in Seq(S), NEW b \in Seq(S)
  PROVE  /\ h \o b \in Seq(S) /\ Len(h \o b) = Len(h) + Len(b)
         /\ \A n \in 1 .. Len(h) : (h \o b)[n] = h[n]
OBVIOUS

LEMMA JoinedTail ==
  ASSUME NEW S, NEW h \in Seq(S), NEW b \in Seq(S)
  PROVE  \A n \in 1 .. Len(b) : (h \o b)[Len(h) + n] = b[n]
OBVIOUS

LEMMA ElementsAreTyped ==
  ASSUME NEW S, NEW s \in Seq(S)
  PROVE  \A n \in 1 .. Len(s) : s[n] \in S
OBVIOUS

LEMMA InitIsTrue ==
  ASSUME KeyAssumption, Init
  PROVE  IInv
<1>1. /\ ByteModulus \in Nat \ {0} /\ KeyLen \in Nat \ {0} /\ 0 \in Byte
      /\ Checked \in Nat /\ MaxOdd \in Nat
  BY Basics DEF KeyAssumption
<1>2. TypeOK
  <2>1. [k \in 0 .. (KeyLen - 1) |-> 0] \in [0 .. (KeyLen - 1) -> Byte]
    BY <1>1, Zenon
  <2>2. /\ [sent |-> 0, j |-> 0] \in [sent : Nat, j : Byte]
        /\ 0 \in 0 .. MaxOdd /\ 0 \in 0 .. (KeyLen - 1) /\ 0 \in 0 .. Checked
        /\ <<>> \in Seq(Seq(Byte)) /\ <<>> \in Seq(Byte)
    BY <1>1
  <2>3. QED
    BY <2>1, <2>2 DEF Init, TypeOK
<1>3. ChunksAreMessages
  BY DEF Init, ChunksAreMessages
<1>4. SlotsAreRead
  BY <1>1 DEF Init, SlotsAreRead
<1>5. ServerIsHeard
  <2>1. PICK starts : starts = <<0>>
    OBVIOUS
  <2>2. starts \in Seq(Nat) /\ Len(starts) = 1 /\ starts[1] = 0
    BY <2>1
  <2>3. SessionIsHeard(starts)
    BY <2>2 DEF Init, SessionIsHeard
  <2>4. CheckIsOnHeaders(starts)
    BY DEF Init, CheckIsOnHeaders
  <2>5. QED
    BY <2>2, <2>3, <2>4 DEF ServerIsHeard
<1>6. CheckIsToCome /\ CleanChunksReadTheKey /\ TheRightKeyIsNeverRefused
  BY DEF Init, CheckIsToCome, CleanChunksReadTheKey, TheRightKeyIsNeverRefused
<1>7. QED
  BY <1>2, <1>3, <1>4, <1>5, <1>6 DEF IInv

\* What no step of the client's changes.
LEMMA ServerIsKept ==
  ASSUME ServerIsHeard, UNCHANGED <<phase, key, server, heard, guess, check>>
  PROVE  ServerIsHeard'
BY DEF ServerIsHeard, SessionIsHeard, CheckIsOnHeaders, MessageIsHeard, HeaderReads, FeedbackOf,
       Read, check

LEMMA ClientSendsKeepsIInv ==
  ASSUME KeyAssumption, IInv, NEW m \in ClientMessages, ClientSends(m[1], m[2])
  PROVE  IInv'
<1>1. PICK peer : peer = client
  OBVIOUS
<1>2. PICK h : h = Header(peer, <<Len(m[2]) + 2, m[1], 0>>)
  OBVIOUS
<1>3. PICK message : message = h \o m[2]
  OBVIOUS
<1>4. /\ phase = "sending" /\ phase' = "sending"
      /\ client' = After(peer, h)
      /\ UNCHANGED <<key, server, heard, guess, known, next, idx, at, used, feedback, checked>>
  BY <1>1, <1>2 DEF ClientSends, recovery, check
<1>5. \/ /\ chunks' = Append(chunks, message)
         /\ clean' = (IF odd = 0 THEN clean + 1 ELSE clean) /\ odd' = odd
      \/ /\ odd < MaxOdd /\ odd' = odd + 1 /\ clean' = clean
         /\ \/ chunks # <<>> /\ chunks' = [chunks EXCEPT ![Len(chunks)] = @ \o message]
            \/ \E cut \in 1 .. (Len(message) - 1) :
                 chunks' = chunks \o <<SubSeq(message, 1, cut),
                                       SubSeq(message, cut + 1, Len(message))>>
            \/ chunks' = chunks
  BY <1>1, <1>2, <1>3 DEF ClientSends
<1>6. /\ peer.sent \in Nat /\ peer.j \in Byte /\ key \in Keys
      /\ chunks \in Seq(Seq(Byte)) /\ odd \in Nat /\ MaxOdd \in Nat /\ odd <= MaxOdd
      /\ m[2] \in Seq(Byte)
      /\ 0 \in Byte
  <2>1. client \in [sent : Nat, j : Byte]
    BY DEF IInv, TypeOK
  <2>2. QED
    BY <1>1, <2>1, Basics DEF IInv, TypeOK, KeyAssumption
<1>7. /\ h \in Seq(Byte) /\ Len(h) = 3
      /\ peer.sent > 0 => (h[3] - h[2]) % ByteModulus = key[SlotOfChunk(peer.sent + 1)]
  BY <1>2, <1>6, ClientHeaderGivesASlot
<1>8. /\ message \in Seq(Byte) /\ Len(message) >= 3
      /\ message[2] = h[2] /\ message[3] = h[3]
  <2>1. /\ h \o m[2] \in Seq(Byte) /\ Len(h \o m[2]) = 3 + Len(m[2])
        /\ \A n \in 1 .. 3 : (h \o m[2])[n] = h[n]
    <3>1. h \in Seq(Byte) /\ m[2] \in Seq(Byte)
      BY <1>6, <1>7
    <3>2. /\ h \o m[2] \in Seq(Byte) /\ Len(h \o m[2]) = Len(h) + Len(m[2])
          /\ \A n \in 1 .. Len(h) : (h \o m[2])[n] = h[n]
      BY <3>1, JoinedBytes, Zenon
    <3>3. QED
      BY <1>7, <3>2, Zenon
  <2>2. 2 \in 1 .. 3 /\ 3 \in 1 .. 3 /\ Len(m[2]) \in Nat
    BY <1>6
  <2>3. QED
    BY <1>3, <2>1, <2>2
<1>9. ChunksAreMessages
  BY DEF IInv
<1>10. /\ client' \in [sent : Nat, j : Byte]
       /\ client'.sent = client.sent + 1
  <2>1. /\ peer.sent + 1 \in Nat
        /\ (IF peer.sent = 0 THEN 0 ELSE h[Len(h)]) \in Byte
    <3>1. h[3] \in Byte
      <4>1. h \in Seq(Byte) /\ Len(h) = 3
        BY <1>7
      <4>2. QED
        BY <4>1
    <3>2. QED
      BY <1>6, <1>7, <3>1
  <2>2. QED
    BY <1>1, <1>4, <2>1 DEF After
<1>11. /\ chunks' \in Seq(Seq(Byte)) /\ odd' \in 0 .. MaxOdd
       /\ Len(chunks') >= Len(chunks)
       /\ \A n \in 1 .. Len(chunks) :
            Len(chunks[n]) >= 3 =>
              Len(chunks'[n]) >= 3 /\ chunks'[n][2] = chunks[n][2] /\ chunks'[n][3] = chunks[n][3]
  <2>1. \A n \in 1 .. Len(chunks) : chunks[n] \in Seq(Byte)
    BY <1>6
  <2>2. CASE chunks' = Append(chunks, message) /\ odd' = odd
    BY <1>6, <1>8, <2>2
  <2>3. CASE odd < MaxOdd /\ odd' = odd + 1 /\ chunks' = chunks
    BY <1>6, <2>3
  <2>4. CASE /\ odd < MaxOdd /\ odd' = odd + 1
             /\ chunks # <<>> /\ chunks' = [chunks EXCEPT ![Len(chunks)] = @ \o message]
    <3>1. PICK last : last = Len(chunks)
      OBVIOUS
    <3>2. last \in 1 .. Len(chunks)
      BY <1>6, <2>4, <3>1
    <3>3. PICK joined : joined = chunks[last] \o message
      OBVIOUS
    <3>4. /\ joined \in Seq(Byte)
          /\ Len(chunks[last]) >= 3 =>
               Len(joined) >= 3 /\ joined[2] = chunks[last][2] /\ joined[3] = chunks[last][3]
      <4>1. chunks[last] \in Seq(Byte)
        BY <2>1, <3>2
      <4>2. QED
        BY <1>8, <3>3, <4>1
    <3>5. chunks' = [chunks EXCEPT ![last] = joined]
      BY <2>4, <3>1, <3>3
    <3>6. /\ chunks' \in Seq(Seq(Byte)) /\ Len(chunks') = Len(chunks)
          /\ \A n \in 1 .. Len(chunks) : chunks'[n] = IF n = last THEN joined ELSE chunks[n]
      BY <1>6, <3>2, <3>4, <3>5
    <3>7. ASSUME NEW n \in 1 .. Len(chunks), Len(chunks[n]) >= 3
          PROVE  /\ Len(chunks'[n]) >= 3
                 /\ chunks'[n][2] = chunks[n][2] /\ chunks'[n][3] = chunks[n][3]
      <4>1. CASE n = last
        BY <3>4, <3>6, <3>7, <4>1, Zenon
      <4>2. CASE n # last
        BY <3>6, <3>7, <4>2, Zenon
      <4>3. QED
        BY <4>1, <4>2
    <3>8. odd' \in 0 .. MaxOdd /\ Len(chunks') >= Len(chunks)
      <4>1. /\ odd \in Nat /\ MaxOdd \in Nat /\ odd < MaxOdd /\ odd' = odd + 1
            /\ Len(chunks) \in Nat /\ Len(chunks') = Len(chunks)
        <5>1. Len(chunks) \in Nat
          BY <1>6
        <5>2. QED
          BY <1>6, <2>4, <3>6, <5>1, Zenon
      <4>2. QED
        BY <4>1
    <3>9. QED
      BY <3>6, <3>7, <3>8
  <2>5. CASE /\ odd < MaxOdd /\ odd' = odd + 1
             /\ \E cut \in 1 .. (Len(message) - 1) :
                  chunks' = chunks \o <<SubSeq(message, 1, cut),
                                        SubSeq(message, cut + 1, Len(message))>>
    <3>1. PICK cut \in 1 .. (Len(message) - 1) :
            chunks' = chunks \o <<SubSeq(message, 1, cut), SubSeq(message, cut + 1, Len(message))>>
      BY <2>5
    <3>2. PICK one, two :
            one = SubSeq(message, 1, cut) /\ two = SubSeq(message, cut + 1, Len(message))
      OBVIOUS
    <3>3. one \in Seq(Byte) /\ two \in Seq(Byte)
      BY <1>8, <3>2
    <3>4. PICK halves : halves = <<one, two>>
      OBVIOUS
    <3>5. halves \in Seq(Seq(Byte)) /\ Len(halves) = 2
      BY <3>3, <3>4
    <3>6. chunks' = chunks \o halves
      BY <3>1, <3>2, <3>4
    <3>7. /\ chunks' \in Seq(Seq(Byte)) /\ Len(chunks') = Len(chunks) + 2
          /\ \A n \in 1 .. Len(chunks) : chunks'[n] = chunks[n]
      <4>1. chunks \in Seq(Seq(Byte))
        BY <1>6
      <4>2. /\ chunks \o halves \in Seq(Seq(Byte))
            /\ Len(chunks \o halves) = Len(chunks) + Len(halves)
            /\ \A n \in 1 .. Len(chunks) : (chunks \o halves)[n] = chunks[n]
        BY <3>5, <4>1, JoinedBytes, Zenon
      <4>3. QED
        BY <3>5, <3>6, <4>2, Zenon
    <3>8. odd' \in 0 .. MaxOdd /\ Len(chunks') >= Len(chunks)
      BY <1>6, <2>5, <3>7
    <3>9. QED
      BY <3>7, <3>8
  <2>6. QED
    BY <1>5, <2>2, <2>3, <2>4, <2>5
<1>12. ChunksAreMessages'
  <2>1. \A n \in 2 .. clean : n \in 1 .. Len(chunks)
    BY <1>6, <1>9 DEF ChunksAreMessages
  <2>2. ASSUME NEW n \in 2 .. clean
        PROVE  /\ Len(chunks'[n]) >= 3
               /\ (chunks'[n][3] - chunks'[n][2]) % ByteModulus = key'[SlotOfChunk(n)]
    <3>1. Len(chunks[n]) >= 3 /\ (chunks[n][3] - chunks[n][2]) % ByteModulus = key[SlotOfChunk(n)]
      BY <1>9 DEF ChunksAreMessages
    <3>2. Len(chunks'[n]) >= 3 /\ chunks'[n][2] = chunks[n][2] /\ chunks'[n][3] = chunks[n][3]
      BY <1>11, <2>1, <3>1
    <3>3. QED
      BY <1>4, <3>1, <3>2
  <2>3. CASE clean' = clean /\ odd' # 0
    <3>1. clean' \in Nat /\ clean' <= Len(chunks')
      BY <1>6, <1>9, <1>11, <2>3 DEF ChunksAreMessages
    <3>2. QED
      BY <2>2, <2>3, <3>1 DEF ChunksAreMessages, SlotOfChunk
  <2>4. CASE odd = 0 /\ odd' = 0 /\ clean' = clean + 1 /\ chunks' = Append(chunks, message)
    <3>1. /\ clean = Len(chunks) /\ client.sent = clean
          /\ Len(chunks') = Len(chunks) + 1 /\ chunks'[clean + 1] = message
      BY <1>6, <1>9, <2>4 DEF ChunksAreMessages
    <3>2. clean \in Nat
      BY <1>6, <3>1
    <3>3. ASSUME clean + 1 >= 2
          PROVE  /\ Len(chunks'[clean + 1]) >= 3
                 /\ (chunks'[clean + 1][3] - chunks'[clean + 1][2]) % ByteModulus
                      = key'[SlotOfChunk(clean + 1)]
      <4>1. peer.sent > 0 /\ peer.sent = clean
        BY <1>1, <3>1, <3>2, <3>3
      <4>2. QED
        BY <1>4, <1>7, <1>8, <3>1, <4>1
    <3>4. \A n \in 2 .. clean' : n \in 2 .. clean \/ (n = clean + 1 /\ clean + 1 >= 2)
      BY <2>4, <3>2
    <3>5. \A n \in 2 .. clean' :
            /\ Len(chunks'[n]) >= 3
            /\ (chunks'[n][3] - chunks'[n][2]) % ByteModulus = key'[SlotOfChunk(n)]
      BY <2>2, <3>3, <3>4
    <3>6. clean' = Len(chunks') /\ client'.sent = clean'
      BY <1>10, <2>4, <3>1
    <3>7. clean' \in Nat /\ clean' <= Len(chunks')
      BY <2>4, <3>1, <3>2
    <3>8. QED
      BY <3>5, <3>6, <3>7 DEF ChunksAreMessages, SlotOfChunk
  <2>5. QED
    BY <1>5, <1>6, <2>3, <2>4
<1>13. TypeOK'
  <2>1. TypeOK
    BY DEF IInv
  <2>2. server' \in [sent : Nat, j : Byte]
    BY <1>4, <2>1 DEF TypeOK
  <2>3. QED
    BY <1>4, <1>10, <1>11, <2>1, <2>2 DEF TypeOK
<1>14. SlotsAreRead' /\ CleanChunksReadTheKey' /\ CheckIsToCome' /\ TheRightKeyIsNeverRefused'
  <2>1. SlotsAreRead /\ CheckIsToCome
    BY DEF IInv
  <2>2. SlotsAreRead'
    BY <1>4, <2>1 DEF SlotsAreRead
  <2>3. CleanChunksReadTheKey'
    BY <1>4, <2>1 DEF SlotsAreRead, CleanChunksReadTheKey
  <2>4. CheckIsToCome' /\ TheRightKeyIsNeverRefused'
    BY <1>4, <2>1 DEF CheckIsToCome, TheRightKeyIsNeverRefused
  <2>5. QED
    BY <2>2, <2>3, <2>4
<1>15. ServerIsHeard'
  BY <1>4, ServerIsKept DEF IInv, check
<1>16. QED
  BY <1>12, <1>13, <1>14, <1>15 DEF IInv

LEMMA BodyLenIsNat ==
  ASSUME KeyAssumption, NEW m \in ServerMessages
  PROVE  BodyLen(m) \in Nat
BY DEF KeyAssumption, BodyLen

\* The server's messages keep their places when the stream grows, or is cut.
LEMMA MessagesStayHeard ==
  ASSUME KeyAssumption, NEW sent \in Nat, NEW starts \in Seq(Nat), Len(starts) = sent + 1,
         NEW stream \in Seq(Byte), NEW other \in Seq(Byte), NEW starts2 \in Seq(Nat),
         \A k \in 1 .. sent + 1 : starts2[k] = starts[k],
         NEW bound \in Nat,
         \A n \in 1 .. bound :
           n \in 1 .. Len(stream) /\ n \in 1 .. Len(other) /\ other[n] = stream[n],
         other # <<>> => stream # <<>> \/ sent = 0,
         \A k \in 1 .. sent :
           \E m \in ServerMessages : MessageIsHeard(starts, k, m, stream),
         \A k \in 1 .. sent : starts[k] + 2 <= Len(other) => starts[k] + 2 <= bound,
         other # <<>> /\ sent > 0 => bound >= 1
  PROVE  \A k \in 1 .. sent :
           \E m \in ServerMessages : MessageIsHeard(starts2, k, m, other)
<1> SUFFICES ASSUME NEW k \in 1 .. sent
             PROVE  \E m \in ServerMessages : MessageIsHeard(starts2, k, m, other)
  OBVIOUS
<1>1. PICK m \in ServerMessages : MessageIsHeard(starts, k, m, stream)
  OBVIOUS
<1>2. /\ k \in 1 .. sent + 1 /\ k + 1 \in 1 .. sent + 1 /\ k \in Nat /\ k >= 1
      /\ k > 1 => k - 1 \in 1 .. sent /\ k - 1 \in 1 .. sent + 1
  OBVIOUS
<1>3. /\ starts2[k] = starts[k] /\ starts2[k + 1] = starts[k + 1]
      /\ k > 1 => starts2[k - 1] = starts[k - 1]
      /\ starts[k] \in Nat
      /\ k > 1 => starts[k - 1] \in Nat
  <2>1. \A n \in 1 .. sent + 1 : starts2[n] = starts[n] /\ starts[n] \in Nat
    <3>1. \A n \in 1 .. Len(starts) : starts[n] \in Nat
      BY ElementsAreTyped
    <3>2. Len(starts) = sent + 1 /\ \A n \in 1 .. sent + 1 : starts2[n] = starts[n]
      OBVIOUS
    <3>3. QED
      BY <3>1, <3>2
  <2>2. QED
    BY <1>2, <2>1
<1>4. starts2[k + 1] = starts2[k] + 2 + BodyLen(m)
  BY <1>1, <1>3 DEF MessageIsHeard
<1>5. ASSUME k = 1, other # <<>>
      PROVE  other[1] = BodyLen(m) + 1
  <2>1. 1 \in 1 .. bound /\ sent > 0
    BY <1>2, <1>5
  <2>2. stream # <<>> /\ other[1] = stream[1]
    BY <1>5, <2>1
  <2>3. QED
    BY <1>1, <1>5, <2>2 DEF MessageIsHeard
<1>6. ASSUME k > 1, starts2[k] + 2 <= Len(other)
      PROVE  HeaderReads(starts2, k, m, other)
  <2>1. PICK a \in Nat : a = starts[k]
    BY <1>3
  <2>2. a + 1 \in 1 .. bound /\ a + 2 \in 1 .. bound
    <3>1. starts[k] + 2 <= Len(other) => starts[k] + 2 <= bound
      OBVIOUS
    <3>2. a + 2 <= bound
      BY <1>3, <1>6, <2>1, <3>1
    <3>3. QED
      BY <3>2
  <2>3. /\ other[a + 1] = stream[a + 1] /\ other[a + 2] = stream[a + 2]
        /\ a + 2 <= Len(stream)
    BY <2>2
  <2>4. HeaderReads(starts, k, m, stream)
    BY <1>1, <1>6, <2>1, <2>3 DEF MessageIsHeard
  <2>5. FeedbackOf(starts2, k, other) = FeedbackOf(starts, k, stream)
    <3>1. PICK mm \in ServerMessages : MessageIsHeard(starts, k - 1, mm, stream)
      BY <1>2, <1>6
    <3>2. PICK b \in Nat : b = starts[k - 1]
      BY <1>3, <1>6
    <3>3. BodyLen(mm) \in Nat
      BY BodyLenIsNat
    <3>4. a = b + 2 + BodyLen(mm)
      <4>1. k - 1 + 1 = k
        BY <1>2
      <4>2. QED
        BY <2>1, <3>1, <3>2, <4>1 DEF MessageIsHeard
    <3>5. b + 2 \in 1 .. bound
      BY <2>2, <3>3, <3>4
    <3>6. other[b + 2] = stream[b + 2]
      BY <3>5
    <3>7. QED
      BY <1>3, <1>6, <3>2, <3>6 DEF FeedbackOf
  <2>6. QED
    BY <1>3, <2>1, <2>3, <2>4, <2>5 DEF HeaderReads
<1>7. QED
  BY <1>4, <1>5, <1>6 DEF MessageIsHeard

\* What the server's sending leaves alone.
LEMMA ClientIsKept ==
  ASSUME IInv, UNCHANGED <<key, client, chunks, odd, clean, guess, known, next, idx>>
  PROVE  /\ ChunksAreMessages' /\ CleanChunksReadTheKey'
         /\ phase' = phase => SlotsAreRead'
  <1>1. ChunksAreMessages'
    BY DEF IInv, ChunksAreMessages, SlotOfChunk
  <1>2. CleanChunksReadTheKey'
    BY DEF IInv, CleanChunksReadTheKey, SlotOfChunk
  <1>3. phase' = phase => SlotsAreRead'
    BY DEF IInv, SlotsAreRead, SlotOfChunk, Slots
  <1>4. QED
    BY <1>1, <1>2, <1>3

LEMMA ServerSendsKeepsIInv ==
  ASSUME KeyAssumption, IInv, NEW m \in ServerMessages, ServerSends(m[1], m[2])
  PROVE  IInv'
<1>1. PICK peer : peer = server
  OBVIOUS
<1>2. PICK h : h = Header(peer, <<Len(m[2]) + 1, m[1]>>)
  OBVIOUS
<1>22. PICK body : body = m[2]
  OBVIOUS
<1>23. PICK size \in Nat : size = BodyLen(m)
  BY BodyLenIsNat
<1>3. PICK stream : stream = heard
  OBVIOUS
<1>4. PICK other : other = stream \o h \o body
  OBVIOUS
<1>5. /\ phase = "sending" /\ phase' = "sending"
      /\ server' = After(peer, h) /\ heard' = other
      /\ UNCHANGED <<key, client, chunks, odd, clean, guess, known, next, idx,
                     at, used, feedback, checked>>
  BY <1>1, <1>2, <1>3, <1>4, <1>22 DEF ServerSends, recovery, check
<1>6. /\ peer.sent \in Nat /\ peer.j \in Byte /\ key \in Keys /\ stream \in Seq(Byte)
      /\ body \in Seq(Byte) /\ Len(body) = size /\ 0 \in Byte
  <2>1. server \in [sent : Nat, j : Byte]
    BY DEF IInv, TypeOK
  <2>2. body \in Seq(Byte) /\ Len(body) = size
    BY <1>22, <1>23 DEF KeyAssumption, BodyLen
  <2>3. peer.sent \in Nat /\ peer.j \in Byte
    BY <1>1, <2>1
  <2>4. key \in Keys /\ stream \in Seq(Byte) /\ 0 \in Byte
    BY <1>3, Basics DEF IInv, TypeOK
  <2>5. QED
    BY <2>2, <2>3, <2>4
<1>7. /\ h \in Seq(Byte) /\ Len(h) = 2
      /\ peer.sent = 0 => h[1] = size + 1
      /\ peer.sent > 0 =>
           /\ Read(h[1], 2 * (peer.sent - 1), peer.j) = size + 1
           /\ Read(h[2], 2 * (peer.sent - 1) + 1, h[1]) = m[1]
  BY <1>2, <1>6, <1>23, ServerHeaderReads
<1>8. /\ other \in Seq(Byte) /\ Len(other) = Len(stream) + 2 + size
      /\ \A n \in 1 .. Len(stream) : n \in 1 .. Len(other) /\ other[n] = stream[n]
      /\ other[Len(stream) + 1] = h[1] /\ other[Len(stream) + 2] = h[2]
  <2>1. PICK head : head = stream \o h
    OBVIOUS
  <2>2. h \in Seq(Byte) /\ Len(h) = 2 /\ stream \in Seq(Byte) /\ body \in Seq(Byte)
    BY <1>6, <1>7
  <2>3. /\ head \in Seq(Byte) /\ Len(head) = Len(stream) + 2
        /\ \A n \in 1 .. Len(stream) : head[n] = stream[n]
        /\ head[Len(stream) + 1] = h[1] /\ head[Len(stream) + 2] = h[2]
    <3>1. /\ stream \o h \in Seq(Byte) /\ Len(stream \o h) = Len(stream) + Len(h)
          /\ \A n \in 1 .. Len(stream) : (stream \o h)[n] = stream[n]
          /\ \A n \in 1 .. Len(h) : (stream \o h)[Len(stream) + n] = h[n]
      <4>1. /\ stream \o h \in Seq(Byte) /\ Len(stream \o h) = Len(stream) + Len(h)
            /\ \A n \in 1 .. Len(stream) : (stream \o h)[n] = stream[n]
        BY <2>2, JoinedBytes, Zenon
      <4>2. \A n \in 1 .. Len(h) : (stream \o h)[Len(stream) + n] = h[n]
        BY <2>2, JoinedTail
      <4>3. QED
        BY <4>1, <4>2
    <3>2. /\ head \in Seq(Byte) /\ Len(head) = Len(stream) + 2
          /\ \A n \in 1 .. Len(stream) : head[n] = stream[n]
          /\ \A n \in 1 .. 2 : head[Len(stream) + n] = h[n]
      BY <2>1, <2>2, <3>1, Zenon
    <3>3. 1 \in 1 .. 2 /\ 2 \in 1 .. 2
      OBVIOUS
    <3>4. QED
      BY <3>2, <3>3, Zenon
  <2>4. /\ head \o body \in Seq(Byte) /\ Len(head \o body) = Len(head) + size
        /\ \A n \in 1 .. Len(head) : (head \o body)[n] = head[n]
    <3>1. /\ head \o body \in Seq(Byte) /\ Len(head \o body) = Len(head) + Len(body)
          /\ \A n \in 1 .. Len(head) : (head \o body)[n] = head[n]
      BY <2>2, <2>3, JoinedBytes, Zenon
    <3>2. QED
      BY <1>6, <3>1, Zenon
  <2>5. other = head \o body
    BY <1>4, <2>1, Zenon
  <2>6. /\ Len(stream) \in Nat /\ size \in Nat
    BY <1>6
  <2>7. /\ other \in Seq(Byte) /\ Len(other) = Len(stream) + 2 + size
        /\ \A n \in 1 .. Len(stream) + 2 : other[n] = head[n]
    BY <2>3, <2>4, <2>5
  <2>8. QED
    BY <2>3, <2>6, <2>7
<1>9. PICK starts \in Seq(Nat) : SessionIsHeard(starts)
  BY DEF IInv, ServerIsHeard
<1>10. PICK sent \in Nat : sent = peer.sent
  BY <1>6
<1>11. /\ Len(starts) = sent + 1 /\ starts[1] = 0
       /\ Len(stream) = starts[sent + 1]
       /\ \A k \in 1 .. sent + 1 : starts[k] <= Len(stream)
       /\ sent > 0 => peer.j = FeedbackOf(starts, sent + 1, stream)
       /\ \A k \in 1 .. sent : \E mm \in ServerMessages : MessageIsHeard(starts, k, mm, stream)
  BY <1>1, <1>3, <1>5, <1>9, <1>10 DEF SessionIsHeard
<1>12. PICK last \in Nat : last = Len(stream)
  BY <1>6
<1>13. PICK starts2 : starts2 = Append(starts, last + 2 + size)
  OBVIOUS
<1>14. /\ starts2 \in Seq(Nat) /\ Len(starts2) = sent + 2
       /\ \A k \in 1 .. sent + 1 : starts2[k] = starts[k]
       /\ starts2[sent + 2] = last + 2 + size
  <2>1. last + 2 + size \in Nat
    BY <1>6
  <2>2. PICK e \in Nat : e = last + 2 + size
    BY <2>1
  <2>3. Len(starts) = sent + 1 /\ starts2 = Append(starts, e)
    BY <1>11, <1>13, <2>2
  <2>4. /\ starts2 \in Seq(Nat) /\ Len(starts2) = Len(starts) + 1
        /\ \A k \in 1 .. Len(starts) : starts2[k] = starts[k]
        /\ starts2[Len(starts) + 1] = e
    BY <2>3
  <2>5. QED
    BY <2>2, <2>3, <2>4
<1>15. \A k \in 1 .. sent : \E mm \in ServerMessages : MessageIsHeard(starts2, k, mm, other)
  <2>1. \A k \in 1 .. sent : starts[k] + 2 <= last
    <3>1. ASSUME NEW k \in 1 .. sent
          PROVE  starts[k] + 2 <= last
      <4>1. PICK mm \in ServerMessages : MessageIsHeard(starts, k, mm, stream)
        BY <1>11
      <4>2. BodyLen(mm) \in Nat
        BY BodyLenIsNat
      <4>3. starts[k] \in Nat /\ starts[k + 1] \in Nat /\ starts[k + 1] <= last
        BY <1>11, <1>12
      <4>4. starts[k + 1] = starts[k] + 2 + BodyLen(mm)
        BY <4>1 DEF MessageIsHeard
      <4>5. QED
        BY <4>2, <4>3, <4>4
    <3>2. QED
      BY <3>1
  <2>2. sent > 0 => last >= 1
    <3>1. ASSUME sent > 0 PROVE last >= 1
      <4>1. 1 \in 1 .. sent
        BY <3>1
      <4>2. starts[1] + 2 <= last
        BY <2>1, <4>1
      <4>3. QED
        BY <1>11, <4>2
    <3>2. QED
      BY <3>1
  <2>3. sent > 0 => stream # <<>>
    BY <1>6, <1>12, <2>2
  <2>4. /\ \A n \in 1 .. last :
             n \in 1 .. Len(stream) /\ n \in 1 .. Len(other) /\ other[n] = stream[n]
        /\ other # <<>> => stream # <<>> \/ sent = 0
        /\ \A k \in 1 .. sent : starts[k] + 2 <= Len(other) => starts[k] + 2 <= last
        /\ other # <<>> /\ sent > 0 => last >= 1
    BY <1>8, <1>12, <2>1, <2>2, <2>3
  <2>5. Len(starts) = sent + 1 /\ other \in Seq(Byte) /\ stream \in Seq(Byte)
    BY <1>6, <1>8, <1>11
  <2>6. QED
    BY <1>11, <1>14, <2>4, <2>5, MessagesStayHeard, Zenon
<1>16. MessageIsHeard(starts2, sent + 1, m, other)
  <2>1. starts2[sent + 1] = last /\ starts2[sent + 2] = last + 2 + size
    BY <1>11, <1>12, <1>14
  <2>2. sent + 1 = 1 => other[1] = size + 1
    <3>1. ASSUME sent = 0 PROVE other[1] = size + 1
      <4>1. last = 0
        BY <1>11, <1>12, <3>1
      <4>2. QED
        BY <1>7, <1>8, <1>10, <1>12, <3>1, <4>1
    <3>2. QED
      BY <3>1
  <2>3. ASSUME sent > 0 PROVE HeaderReads(starts2, sent + 1, m, other)
    <3>1. FeedbackOf(starts2, sent + 1, other) = peer.j
      <4>1. CASE sent = 1
        BY <1>11, <4>1 DEF FeedbackOf
      <4>2. CASE sent > 1
        <5>1. PICK mm \in ServerMessages : MessageIsHeard(starts, sent, mm, stream)
          BY <1>11, <4>2
        <5>2. BodyLen(mm) \in Nat
          BY BodyLenIsNat
        <5>3. starts[sent] \in Nat /\ starts2[sent] = starts[sent] /\ starts[sent + 1] = last
          BY <1>11, <1>12, <1>14, <4>2
        <5>4. starts[sent + 1] = starts[sent] + 2 + BodyLen(mm)
          BY <5>1 DEF MessageIsHeard
        <5>5. starts[sent] + 2 \in 1 .. last
          BY <5>2, <5>3, <5>4
        <5>6. other[starts[sent] + 2] = stream[starts[sent] + 2]
          BY <1>8, <1>12, <5>5
        <5>7. sent + 1 - 1 = sent /\ sent + 1 # 2
          BY <4>2
        <5>8. QED
          BY <1>11, <2>3, <5>3, <5>6, <5>7 DEF FeedbackOf
      <4>3. QED
        BY <2>3, <4>1, <4>2
    <3>2. sent + 1 - 2 = sent - 1
      OBVIOUS
    <3>3. other[last + 1] = h[1] /\ other[last + 2] = h[2]
      BY <1>8, <1>12
    <3>4. /\ Read(h[1], 2 * (sent - 1), peer.j) = size + 1
          /\ Read(h[2], 2 * (sent - 1) + 1, h[1]) = m[1]
      BY <1>7, <1>10, <2>3
    <3>5. QED
      BY <1>23, <2>1, <3>1, <3>2, <3>3, <3>4 DEF HeaderReads
  <2>4. sent + 1 + 1 = sent + 2 /\ (sent + 1 > 1 => sent > 0)
    OBVIOUS
  <2>5. QED
    BY <1>23, <2>1, <2>2, <2>3, <2>4 DEF MessageIsHeard
<1>17. /\ server'.sent = sent + 1
       /\ server'.j = IF sent = 0 THEN 0 ELSE h[2]
       /\ server' \in [sent : Nat, j : Byte]
  <2>1. /\ peer.sent + 1 \in Nat
        /\ (IF peer.sent = 0 THEN 0 ELSE h[Len(h)]) \in Byte
        /\ h[Len(h)] = h[2]
    <3>1. h[2] \in Byte
      <4>1. h \in Seq(Byte) /\ Len(h) = 2
        BY <1>7
      <4>2. QED
        BY <4>1
    <3>2. QED
      BY <1>6, <1>7, <3>1
  <2>2. QED
    BY <1>5, <1>10, <2>1 DEF After
<1>18. SessionIsHeard(starts2)'
  <2>1. server'.sent + 1 = sent + 2
    BY <1>17
  <2>2. /\ Len(starts2) = sent + 2 /\ starts2[1] = 0 /\ Len(other) = starts2[sent + 2]
    <3>1. 1 \in 1 .. sent + 1
      OBVIOUS
    <3>2. starts2[1] = 0
      BY <1>11, <1>14, <3>1
    <3>3. Len(other) = last + 2 + size
      BY <1>8, <1>12
    <3>4. QED
      BY <1>14, <3>2, <3>3
  <2>3. \A k \in 1 .. sent + 2 : starts2[k] <= Len(other)
    <3>1. ASSUME NEW k \in 1 .. sent + 1
          PROVE  starts2[k] <= Len(other)
      <4>1. starts2[k] = starts[k] /\ starts[k] \in Nat /\ starts[k] <= Len(stream)
        BY <1>11, <1>14
      <4>2. QED
        BY <1>6, <1>8, <4>1
    <3>2. starts2[sent + 2] <= Len(other)
      BY <1>6, <1>8, <2>2
    <3>3. \A k \in 1 .. sent + 2 : k \in 1 .. sent + 1 \/ k = sent + 2
      OBVIOUS
    <3>4. QED
      BY <3>1, <3>2, <3>3
  <2>4. server'.j = FeedbackOf(starts2, sent + 2, other)
    <3>1. CASE sent = 0
      BY <1>17, <3>1 DEF FeedbackOf
    <3>2. CASE sent # 0
      <4>1. sent + 2 # 2 /\ sent + 2 - 1 = sent + 1 /\ starts2[sent + 1] = last
        BY <1>11, <1>12, <1>14, <3>2
      <4>2. QED
        BY <1>8, <1>12, <1>17, <3>2, <4>1 DEF FeedbackOf
    <3>3. QED
      BY <3>1, <3>2
  <2>5. \A k \in 1 .. sent + 1 : \E mm \in ServerMessages : MessageIsHeard(starts2, k, mm, other)
    <3>1. \A k \in 1 .. sent + 1 : k \in 1 .. sent \/ k = sent + 1
      OBVIOUS
    <3>2. QED
      BY <1>15, <1>16, <3>1
  <2>6. Len(other) \in Nat
    BY <1>8
  <2>7. /\ Len(starts2) = server'.sent + 1
        /\ Len(heard') = starts2[server'.sent + 1] /\ Len(heard') <= starts2[server'.sent + 1]
        /\ \A k \in 1 .. server'.sent + 1 : starts2[k] <= Len(heard')
    BY <1>5, <2>1, <2>2, <2>3, <2>6
  <2>8. /\ server'.j = FeedbackOf(starts2, server'.sent + 1, heard')
        /\ \A k \in 1 .. server'.sent :
             \E mm \in ServerMessages : MessageIsHeard(starts2, k, mm, heard')
    BY <1>5, <1>17, <2>1, <2>4, <2>5
  <2>9. QED
    BY <1>5, <2>2, <2>7, <2>8 DEF SessionIsHeard, FeedbackOf, MessageIsHeard, HeaderReads, Read
<1>19. ServerIsHeard'
  <2>1. CheckIsOnHeaders(starts2)'
    BY <1>5 DEF CheckIsOnHeaders
  <2>2. QED
    BY <1>14, <1>18, <2>1 DEF ServerIsHeard
<1>20. TypeOK'
  <2>1. TypeOK
    BY DEF IInv
  <2>2. client' \in [sent : Nat, j : Byte]
    BY <1>5, <2>1 DEF TypeOK
  <2>3. QED
    BY <1>5, <1>8, <1>17, <2>1, <2>2 DEF TypeOK
<1>21. QED
  BY <1>5, <1>19, <1>20, ClientIsKept DEF IInv, CheckIsToCome, TheRightKeyIsNeverRefused

LEMMA CaptureEndsKeepsIInv ==
  ASSUME KeyAssumption, IInv, CaptureEnds
  PROVE  IInv'
<1>1. PICK stream : stream = heard
  OBVIOUS
<1>2. PICK n \in 1 .. Len(stream) : heard' = SubSeq(stream, 1, n)
  BY <1>1 DEF CaptureEnds
<1>3. PICK other : other = SubSeq(stream, 1, n)
  OBVIOUS
<1>4. /\ phase = "sending" /\ phase' = "recovering" /\ heard' = other
      /\ UNCHANGED <<key, client, server, chunks, odd, clean, guess, known, next, idx,
                     at, used, feedback, checked>>
  BY <1>2, <1>3 DEF CaptureEnds, recovery, check
<1>5. PICK sent \in Nat : sent = server.sent
  <2>1. server \in [sent : Nat, j : Byte]
    BY DEF IInv, TypeOK
  <2>2. QED
    BY <2>1
<1>6. stream \in Seq(Byte)
  BY <1>1 DEF IInv, TypeOK
<1>7. /\ other \in Seq(Byte) /\ Len(other) = n /\ n \in Nat /\ n >= 1 /\ n <= Len(stream)
      /\ \A i \in 1 .. n : i \in 1 .. Len(stream) /\ i \in 1 .. Len(other) /\ other[i] = stream[i]
      /\ other # <<>> /\ stream # <<>>
  BY <1>2, <1>3, <1>6
<1>8. PICK starts \in Seq(Nat) : SessionIsHeard(starts)
  BY DEF IInv, ServerIsHeard
<1>9. /\ Len(starts) = sent + 1 /\ starts[1] = 0
      /\ Len(stream) = starts[sent + 1]
      /\ \A k \in 1 .. sent : \E m \in ServerMessages : MessageIsHeard(starts, k, m, stream)
  BY <1>1, <1>4, <1>5, <1>8 DEF SessionIsHeard
<1>10. \A k \in 1 .. sent : \E m \in ServerMessages : MessageIsHeard(starts, k, m, other)
  <2>1. /\ \A k \in 1 .. sent + 1 : starts[k] = starts[k]
        /\ \A k \in 1 .. sent : starts[k] + 2 <= Len(other) => starts[k] + 2 <= n
        /\ other # <<>> => stream # <<>> \/ sent = 0
        /\ other # <<>> /\ sent > 0 => n >= 1
    BY <1>7
  <2>2. /\ other \in Seq(Byte) /\ n \in Nat
        /\ \A i \in 1 .. n : i \in 1 .. Len(stream) /\ i \in 1 .. Len(other) /\ other[i] = stream[i]
    BY <1>7
  <2>3. /\ Len(starts) = sent + 1
        /\ \A k \in 1 .. sent : \E m \in ServerMessages : MessageIsHeard(starts, k, m, stream)
    BY <1>9
  <2>4. QED
    BY <1>6, <2>1, <2>2, <2>3, MessagesStayHeard, Zenon
<1>11. Len(other) <= starts[sent + 1]
  <2>1. Len(stream) \in Nat
    BY <1>6
  <2>2. QED
    BY <1>7, <1>9, <2>1
<1>12. ServerIsHeard'
  <2>1. SessionIsHeard(starts)'
    BY <1>4, <1>5, <1>7, <1>9, <1>10, <1>11
    DEF SessionIsHeard, FeedbackOf, MessageIsHeard, HeaderReads, Read
  <2>2. CheckIsOnHeaders(starts)'
    BY <1>4 DEF CheckIsOnHeaders
  <2>3. QED
    BY <2>1, <2>2 DEF ServerIsHeard
<1>13. TypeOK'
  <2>1. TypeOK
    BY DEF IInv
  <2>2. client' \in [sent : Nat, j : Byte] /\ server' \in [sent : Nat, j : Byte]
    BY <1>4, <2>1 DEF TypeOK
  <2>3. QED
    BY <1>4, <1>7, <2>1, <2>2 DEF TypeOK
<1>14. SlotsAreRead'
  <2>1. Slots # {}
    <3>1. KeyLen \in Nat \ {0}
      BY Basics
    <3>2. 0 \in Slots
      BY <3>1 DEF Slots
    <3>3. QED
      BY <3>2
  <2>2. SlotsAreRead
    BY DEF IInv
  <2>3. QED
    BY <1>4, <2>1, <2>2 DEF SlotsAreRead, SlotOfChunk, Slots
<1>15. QED
  BY <1>4, <1>12, <1>13, <1>14, ClientIsKept DEF IInv, CheckIsToCome, TheRightKeyIsNeverRefused

-----------------------------------------------------------------------------
(* Recovery. *)

\* The slot the loop is at is the chunk's.
LEMMA SlotsFollowTheChunks ==
  ASSUME KeyAssumption, SlotsAreRead, next \in Nat
  PROVE  /\ Slot = SlotOfChunk(next) /\ Slot \in Slots
         /\ NextSlot = ((next + 1 - 2) * 3) % KeyLen /\ NextSlot \in Slots
<1>1. next >= 2 /\ idx = ((next - 2) * 3) % KeyLen
  BY DEF SlotsAreRead
<1>2. PICK a \in Nat : a = (next - 2) * 3
  BY <1>1
<1>3. KeyLen \in Nat \ {0} /\ \A x \in Int : x % KeyLen \in Slots
  BY Basics
<1>4. /\ ((a % KeyLen) + 2) % KeyLen = (a + 2) % KeyLen
      /\ ((a % KeyLen) + 3) % KeyLen = (a + 3) % KeyLen
  BY <1>3, ModAdd
<1>5. idx = a % KeyLen
  BY <1>1, <1>2
<1>6. Slot = (a + 2) % KeyLen /\ NextSlot = (a + 3) % KeyLen
  <2>1. PICK i \in Int : i = idx
    BY <1>3, <1>5 DEF Slots
  <2>2. i + 3 - 1 = i + 2
    OBVIOUS
  <2>3. Slot = (idx + 2) % KeyLen /\ NextSlot = (idx + 3) % KeyLen
    BY <2>1, <2>2 DEF Slot, NextSlot, ClientHeaderLen
  <2>4. QED
    BY <1>4, <1>5, <2>3
<1>7. SlotOfChunk(next) = (a + 2) % KeyLen
  <2>1. (next - 2) * 3 + 3 - 1 = a + 2
    BY <1>2
  <2>2. QED
    BY <2>1 DEF SlotOfChunk, ClientHeaderLen
<1>8. (next + 1 - 2) * 3 = a + 3
  BY <1>1, <1>2
<1>9. a + 2 \in Int /\ a + 3 \in Int
  OBVIOUS
<1>10. QED
  BY <1>3, <1>6, <1>7, <1>8, <1>9

\* What no step of the recovery changes, while it goes on to the check or not.
LEMMA SessionIsKept ==
  ASSUME NEW starts, SessionIsHeard(starts), phase # "sending", phase' # "sending",
         UNCHANGED <<key, server, heard>>
  PROVE  SessionIsHeard(starts)'
BY DEF SessionIsHeard, MessageIsHeard, HeaderReads, FeedbackOf, Read

LEMMA TakeChunkKeepsIInv ==
  ASSUME KeyAssumption, IInv, TakeChunk
  PROVE  IInv'
<1>1. /\ TypeOK /\ ChunksAreMessages /\ SlotsAreRead /\ ServerIsHeard /\ CheckIsToCome
      /\ CleanChunksReadTheKey
  BY DEF IInv
<1>2. PICK c : c = chunks[next]
  OBVIOUS
<1>3. PICK slot : slot = Slot
  OBVIOUS
<1>4. /\ phase = "recovering" /\ next <= Len(chunks)
      /\ IF Len(c) >= 3 /\ slot \notin known
         THEN /\ guess' = [guess EXCEPT ![slot] = (c[3] - c[2]) % ByteModulus]
              /\ known' = known \union {slot}
         ELSE UNCHANGED <<guess, known>>
      /\ idx' = NextSlot /\ next' = next + 1
      /\ IF known' = Slots
         THEN phase' = "checking" /\ at' = heard[1] + 1
         ELSE phase' = phase /\ at' = at
      /\ used' = used /\ feedback' = feedback /\ checked' = checked
      /\ UNCHANGED <<key, client, server, chunks, heard, odd, clean>>
  <2>1. ClientHeaderLen = 3 /\ ClientHeaderLen - 1 = 2
    BY DEF ClientHeaderLen
  <2>2. QED
    BY <1>2, <1>3, <2>1 DEF TakeChunk, check, captured, Slots
<1>5. /\ next \in Nat /\ next >= 2 /\ clean \in Nat /\ chunks \in Seq(Seq(Byte))
      /\ next \in 1 .. Len(chunks)
  BY <1>1, <1>4 DEF TypeOK, SlotsAreRead, ChunksAreMessages
<1>6. /\ slot = SlotOfChunk(next) /\ slot \in Slots
      /\ idx' = ((next' - 2) * 3) % KeyLen /\ idx' \in Slots
  BY <1>1, <1>3, <1>4, <1>5, SlotsFollowTheChunks
<1>7. /\ guess \in [Slots -> Byte] /\ known \subseteq Slots
      /\ guess' \in [Slots -> Byte] /\ known' \subseteq Slots /\ known \subseteq known'
      /\ \A s \in known : guess'[s] = guess[s]
  <2>1. guess \in [Slots -> Byte] /\ known \subseteq Slots
    BY <1>1 DEF TypeOK, Slots
  <2>2. CASE Len(c) >= 3 /\ slot \notin known
    <3>1. PICK value : value = (c[3] - c[2]) % ByteModulus
      OBVIOUS
    <3>2. value \in Byte
      <4>1. c \in Seq(Byte)
        BY <1>2, <1>5
      <4>2. c[3] \in Byte /\ c[2] \in Byte
        BY <2>2, <4>1
      <4>3. c[3] \in Int /\ c[2] \in Int
        <5>1. ByteModulus \in Nat \ {0} /\ Byte = 0 .. (ByteModulus - 1)
          BY Basics
        <5>2. QED
          BY <4>2, <5>1
      <4>4. c[3] - c[2] \in Int
        BY <4>3
      <4>5. QED
        BY <3>1, <4>4, Basics
    <3>3. guess' = [guess EXCEPT ![slot] = value] /\ known' = known \union {slot}
      BY <1>4, <2>2, <3>1
    <3>4. QED
      BY <1>6, <2>1, <2>2, <3>2, <3>3
  <2>3. CASE ~(Len(c) >= 3 /\ slot \notin known)
    BY <1>4, <2>1, <2>3
  <2>4. QED
    BY <2>2, <2>3
<1>8. ASSUME next <= clean
      PROVE  slot \in known' /\ (slot \notin known => guess'[slot] = key[slot])
  <2>1. next \in 2 .. clean
    BY <1>5, <1>8
  <2>2. Len(c) >= 3 /\ (c[3] - c[2]) % ByteModulus = key[slot]
    BY <1>1, <1>2, <1>6, <2>1 DEF ChunksAreMessages
  <2>3. CASE slot \in known
    BY <1>7, <2>3
  <2>4. CASE slot \notin known
    <3>1. guess' = [guess EXCEPT ![slot] = key[slot]] /\ known' = known \union {slot}
      BY <1>4, <2>2, <2>4
    <3>2. QED
      BY <1>6, <1>7, <3>1
  <2>5. QED
    BY <2>3, <2>4
<1>9. next' <= clean' + 1 => \A s \in known' : guess'[s] = key'[s]
  <2>1. ASSUME next' <= clean' + 1, NEW s \in known'
        PROVE  guess'[s] = key'[s]
    <3>1. next <= clean
      BY <1>4, <1>5, <2>1
    <3>2. \A x \in known : guess[x] = key[x]
      BY <1>1, <1>5, <3>1 DEF SlotsAreRead
    <3>3. s \in known \/ s = slot
      BY <1>4
    <3>4. QED
      BY <1>4, <1>7, <1>8, <3>1, <3>2, <3>3
  <2>2. QED
    BY <2>1
<1>10. \A n \in 2 .. clean' : n < next' => SlotOfChunk(n) \in known'
  <2>1. ASSUME NEW n \in 2 .. clean, n < next + 1
        PROVE  SlotOfChunk(n) \in known'
    <3>1. n < next \/ (n = next /\ next <= clean)
      BY <1>5, <2>1
    <3>2. CASE n < next
      BY <1>1, <1>7, <3>2 DEF SlotsAreRead
    <3>3. CASE n = next /\ next <= clean
      BY <1>6, <1>8, <3>3
    <3>4. QED
      BY <3>1, <3>2, <3>3
  <2>2. QED
    BY <1>4, <2>1
<1>11. SlotsAreRead'
  <2>1. next' >= 2 /\ next' <= Len(chunks') + 1
    BY <1>4, <1>5
  <2>2. /\ phase' # "sending" /\ phase' # "returned"
        /\ phase' = "recovering" => known' # Slots
        /\ phase' = "checking" => known' = Slots
    BY <1>4
  <2>3. QED
    BY <1>6, <1>9, <1>10, <2>1, <2>2 DEF SlotsAreRead, SlotOfChunk, Slots
<1>12. CleanChunksReadTheKey'
  <2>1. ASSUME NEW n \in 2 .. clean, n < next + 1
        PROVE  guess'[SlotOfChunk(n)] = key[SlotOfChunk(n)]
    <3>1. n < next \/ (n = next /\ next <= clean)
      BY <1>5, <2>1
    <3>2. CASE n < next
      <4>1. SlotOfChunk(n) \in known /\ guess[SlotOfChunk(n)] = key[SlotOfChunk(n)]
        BY <1>1, <3>2 DEF SlotsAreRead, CleanChunksReadTheKey
      <4>2. QED
        BY <1>7, <4>1
    <3>3. CASE n = next /\ next <= clean
      <4>1. slot \in known' /\ next' <= clean' + 1
        BY <1>4, <1>5, <1>8, <3>3
      <4>2. QED
        BY <1>4, <1>6, <1>9, <3>3, <4>1
    <3>4. QED
      BY <3>1, <3>2, <3>3
  <2>2. QED
    BY <1>4, <2>1 DEF CleanChunksReadTheKey, SlotOfChunk
<1>13. PICK starts \in Seq(Nat) : SessionIsHeard(starts)
  BY <1>1 DEF ServerIsHeard
<1>14. PICK sent \in Nat : sent = server.sent
  <2>1. server \in [sent : Nat, j : Byte]
    BY <1>1 DEF TypeOK
  <2>2. QED
    BY <2>1
<1>15. /\ Len(heard) <= starts[sent + 1] /\ starts[1] = 0 /\ heard # <<>> /\ heard \in Seq(Byte)
       /\ \A k \in 1 .. sent : \E m \in ServerMessages : MessageIsHeard(starts, k, m, heard)
  BY <1>1, <1>4, <1>13, <1>14 DEF SessionIsHeard, TypeOK
<1>16. sent >= 1 /\ heard[1] \in Nat /\ heard[1] + 1 = starts[2]
  <2>1. PICK stream \in Seq(Byte) : stream = heard
    BY <1>15
  <2>2. stream # <<>> /\ Len(stream) >= 1 /\ stream[1] \in Byte
    BY <1>15, <2>1
  <2>3. sent >= 1
    <3>1. sent # 0
      BY <1>15, <2>1, <2>2
    <3>2. QED
      BY <3>1
  <2>4. PICK m \in ServerMessages : MessageIsHeard(starts, 1, m, heard)
    <3>1. 1 \in 1 .. sent
      BY <2>3
    <3>2. QED
      BY <1>15, <3>1
  <2>5. PICK size \in Nat : size = BodyLen(m)
    BY BodyLenIsNat
  <2>6. starts[1 + 1] = 0 + 2 + size /\ heard[1] = size + 1
    BY <1>15, <2>4, <2>5 DEF MessageIsHeard
  <2>7. QED
    BY <2>3, <2>6
<1>17. ServerIsHeard'
  <2>1. SessionIsHeard(starts)'
    BY <1>4, <1>13, SessionIsKept
  <2>2. CheckIsOnHeaders(starts)'
    <3>1. ASSUME phase' = "checking"
          PROVE  /\ used' = 2 * checked' /\ checked' + 1 <= server'.sent
                 /\ at' = starts[checked' + 2] /\ feedback' = 0 /\ checked' + 2 = 2
      <4>1. used' = 0 /\ feedback' = 0 /\ checked' = 0
        BY <1>1, <1>4 DEF CheckIsToCome
      <4>2. at' = heard[1] + 1
        BY <1>4, <3>1
      <4>3. QED
        BY <1>4, <1>14, <1>16, <4>1, <4>2
    <3>2. QED
      BY <3>1 DEF CheckIsOnHeaders, FeedbackOf
  <2>3. QED
    BY <2>1, <2>2 DEF ServerIsHeard
<1>18. TypeOK'
  <2>1. at' \in Nat /\ next' \in Nat
    <3>1. at \in Nat
      BY <1>1 DEF TypeOK
    <3>2. heard[1] + 1 \in Nat /\ next + 1 \in Nat
      BY <1>5, <1>16
    <3>3. QED
      BY <1>4, <3>1, <3>2, Zenon
  <2>2. client' \in [sent : Nat, j : Byte] /\ server' \in [sent : Nat, j : Byte]
    BY <1>1, <1>4 DEF TypeOK
  <2>3. phase' \in {"recovering", "checking"}
    BY <1>4
  <2>4. QED
    BY <1>1, <1>4, <1>6, <1>7, <2>1, <2>2, <2>3 DEF TypeOK, Slots
<1>19. ChunksAreMessages' /\ CheckIsToCome' /\ TheRightKeyIsNeverRefused'
  <2>1. ChunksAreMessages'
    BY <1>1, <1>4 DEF ChunksAreMessages, SlotOfChunk
  <2>2. CheckIsToCome' /\ TheRightKeyIsNeverRefused'
    BY <1>1, <1>4 DEF CheckIsToCome, TheRightKeyIsNeverRefused
  <2>3. QED
    BY <2>1, <2>2
<1>20. QED
  BY <1>11, <1>12, <1>17, <1>18, <1>19 DEF IInv

\* A client whose every message is a chunk, and who sent enough of them, has
\* given every slot by the time the chunks are through.
LEMMA TooFewChunksKeepsIInv ==
  ASSUME KeyAssumption, IInv, TooFewChunks
  PROVE  IInv'
<1>1. /\ phase = "recovering" /\ next > Len(chunks) /\ phase' = "refused"
      /\ UNCHANGED <<key, client, server, chunks, heard, odd, clean, guess, known, next, idx,
                     at, used, feedback, checked>>
  BY DEF TooFewChunks, captured, recovery, check
<1>2. TypeOK /\ ChunksAreMessages /\ SlotsAreRead /\ ServerIsHeard
  BY DEF IInv
<1>3. known # Slots /\ known \subseteq Slots
  BY <1>1, <1>2 DEF SlotsAreRead, TypeOK, Slots
<1>4. ASSUME odd = 0, ~(client.sent < 1 + KeyLen)
      PROVE  FALSE
  <2>1. PICK K \in Nat : K = KeyLen
    BY Basics
  <2>2. PICK sent \in Nat : sent = client.sent
    <3>1. client \in [sent : Nat, j : Byte]
      BY <1>2 DEF TypeOK
    <3>2. QED
      BY <3>1
  <2>3. clean = sent /\ clean = Len(chunks)
    BY <1>2, <1>4, <2>2 DEF ChunksAreMessages
  <2>4. sent >= 1 + K
    BY <1>4, <2>1, <2>2
  <2>5. next > sent /\ next \in Nat
    BY <1>1, <1>2, <2>3 DEF TypeOK
  <2>6. \A slot \in Slots : \E n \in 2 .. (K + 1) : SlotOfChunk(n) = slot
    BY <2>1 DEF KeyAssumption, Slots
  <2>7. ASSUME NEW slot \in Slots
        PROVE  slot \in known
    <3>1. PICK n \in 2 .. (K + 1) : SlotOfChunk(n) = slot
      BY <2>6
    <3>2. n \in 2 .. clean /\ n < next
      BY <2>3, <2>4, <2>5
    <3>3. QED
      BY <1>2, <3>1, <3>2 DEF SlotsAreRead
  <2>8. QED
    BY <1>3, <2>7
<1>5. TheRightKeyIsNeverRefused'
  BY <1>1, <1>3, <1>4 DEF TheRightKeyIsNeverRefused, Slots
<1>6. ServerIsHeard'
  <2>1. PICK starts \in Seq(Nat) : SessionIsHeard(starts)
    BY <1>2 DEF ServerIsHeard
  <2>2. SessionIsHeard(starts)'
    BY <1>1, <2>1, SessionIsKept
  <2>3. CheckIsOnHeaders(starts)'
    BY <1>1 DEF CheckIsOnHeaders
  <2>4. QED
    BY <2>2, <2>3 DEF ServerIsHeard
<1>7. SlotsAreRead'
  BY <1>1, <1>2 DEF SlotsAreRead, SlotOfChunk, Slots
<1>8. TypeOK'
  BY <1>1, <1>2 DEF TypeOK
<1>9. CheckIsToCome'
  BY <1>1 DEF CheckIsToCome
<1>10. QED
  BY <1>1, <1>5, <1>6, <1>7, <1>8, <1>9, ClientIsKept DEF IInv

-----------------------------------------------------------------------------
(* The check. *)

LEMMA CheckHeaderKeepsIInv ==
  ASSUME KeyAssumption, IInv, CheckHeader
  PROVE  IInv'
<1>1. /\ phase = "checking" /\ checked < Checked /\ at + 2 <= Len(heard)
      /\ checked' = checked + 1 /\ used' = used + 2 /\ feedback' = heard[at + 2]
      /\ Fails => phase' = "refused" /\ at' = at
      /\ ~Fails => at' = at + 1 + Size /\ phase' = phase
      /\ UNCHANGED <<key, client, server, chunks, heard, odd, clean, guess, known, next, idx>>
  BY DEF CheckHeader, HeadersLeft, ServerHeaderLen, captured, recovery
<1>2. TypeOK /\ ChunksAreMessages /\ SlotsAreRead /\ ServerIsHeard
  BY DEF IInv
<1>3. /\ at \in Nat /\ used \in Nat /\ feedback \in Byte /\ checked \in Nat /\ Checked \in Nat
      /\ heard \in Seq(Byte) /\ guess \in [Slots -> Byte] /\ key \in Keys
      /\ key \in [Slots -> Byte]
  <2>1. key \in Keys /\ key \in [Slots -> Byte]
    BY <1>2, Basics DEF TypeOK
  <2>2. QED
    BY <1>2, <2>1 DEF TypeOK, Slots, KeyAssumption
<1>4. heard[at + 1] \in Byte /\ heard[at + 2] \in Byte
  <2>1. \A n \in 1 .. Len(heard) : heard[n] \in Byte
    BY <1>3, ElementsAreTyped
  <2>2. at + 1 \in 1 .. Len(heard) /\ at + 2 \in 1 .. Len(heard)
    <3>1. Len(heard) \in Nat
      BY <1>3
    <3>2. QED
      BY <1>1, <1>3, <3>1
  <2>3. QED
    BY <2>1, <2>2
<1>5. Size \in Nat
  <2>1. PICK b \in Byte, f \in Byte : b = heard[at + 1] /\ f = feedback
    BY <1>3, <1>4
  <2>2. ByteModulus \in Nat \ {0} /\ Byte = 0 .. (ByteModulus - 1)
    BY Basics
  <2>3. b - f \in Int /\ used \in Int
    BY <1>3, <2>1, <2>2
  <2>4. (b - f) % ByteModulus \in Byte /\ used % KeyLen \in Slots
    BY <2>3, Basics
  <2>5. guess[used % KeyLen] \in Byte
    BY <1>3, <2>4
  <2>6. Size \in Byte
    BY <2>1, <2>4, <2>5, Basics DEF Size
  <2>7. QED
    BY <2>2, <2>6
<1>6. TypeOK'
  <2>1. at' \in Nat /\ used' \in Nat /\ feedback' \in Byte /\ checked' \in 0 .. Checked
    <3>1. at + 1 + Size \in Nat
      BY <1>3, <1>5
    <3>2. at' \in Nat
      BY <1>1, <1>3, <3>1, Zenon
    <3>3. QED
      BY <1>1, <1>3, <1>4, <3>2
  <2>2. client' \in [sent : Nat, j : Byte] /\ server' \in [sent : Nat, j : Byte]
    BY <1>1, <1>2 DEF TypeOK
  <2>3. phase' \in {"refused", "checking"}
    BY <1>1
  <2>4. QED
    BY <1>1, <1>2, <2>1, <2>2, <2>3 DEF TypeOK
<1>7. PICK starts \in Seq(Nat) : SessionIsHeard(starts) /\ CheckIsOnHeaders(starts)
  BY <1>2 DEF ServerIsHeard
<1>8. PICK sent \in Nat : sent = server.sent
  <2>1. server \in [sent : Nat, j : Byte]
    BY <1>2 DEF TypeOK
  <2>2. QED
    BY <2>1
<1>9. ASSUME guess = key
      PROVE  /\ ~Fails
             /\ checked + 2 <= sent /\ at' = starts[checked + 3]
             /\ used' = 2 * (checked + 1)
             /\ feedback' = heard[starts[checked + 2] + 2]
  <2>1. PICK k \in Nat : k = checked + 2
    BY <1>3
  <2>2. /\ used = 2 * (k - 2) /\ k - 1 <= sent /\ at = starts[k]
        /\ feedback = FeedbackOf(starts, k, heard)
    <3>1. /\ used = 2 * checked /\ checked + 1 <= sent /\ at = starts[checked + 2]
          /\ feedback = FeedbackOf(starts, checked + 2, heard)
      BY <1>1, <1>7, <1>8, <1>9 DEF CheckIsOnHeaders
    <3>2. checked = k - 2 /\ checked + 1 = k - 1
      BY <1>3, <2>1
    <3>3. QED
      BY <2>1, <3>1, <3>2
  <2>3. Len(heard) <= starts[sent + 1] /\ Len(heard) \in Nat
    BY <1>3, <1>7, <1>8 DEF SessionIsHeard
  <2>4. k <= sent
    <3>1. k # sent + 1
      BY <1>1, <1>3, <2>2, <2>3
    <3>2. QED
      BY <2>2, <3>1
  <2>5. k \in 1 .. sent /\ k > 1
    BY <1>3, <2>1, <2>4
  <2>6. PICK m \in ServerMessages : MessageIsHeard(starts, k, m, heard)
    BY <1>7, <1>8, <2>5 DEF SessionIsHeard
  <2>7. HeaderReads(starts, k, m, heard)
    BY <1>1, <2>2, <2>5, <2>6 DEF MessageIsHeard
  <2>8. Size = BodyLen(m) + 1
    BY <1>9, <2>2, <2>7 DEF Size, HeaderReads, Read
  <2>9. Opcode = m[1]
    BY <1>9, <2>2, <2>7 DEF Opcode, HeaderReads, Read
  <2>10. m[1] \in 0 .. Ceiling /\ Ceiling \in Nat
    <3>1. m[1] \in 0 .. Ceiling /\ Ceiling \in Byte
      BY DEF KeyAssumption
    <3>2. ByteModulus \in Nat \ {0} /\ Byte = 0 .. (ByteModulus - 1)
      BY Basics
    <3>3. QED
      BY <3>1, <3>2
  <2>11. PICK size \in Nat : size = BodyLen(m)
    BY BodyLenIsNat
  <2>12. ~Fails
    <3>1. Size = size + 1
      BY <2>8, <2>11
    <3>2. PICK o \in 0 .. Ceiling : o = Opcode
      BY <2>9, <2>10
    <3>3. ~(Size < 1) /\ ~(Opcode > Ceiling)
      BY <2>10, <3>1, <3>2
    <3>4. QED
      BY <3>3 DEF Fails
  <2>13. at' = starts[k + 1]
    <3>1. starts[k + 1] = starts[k] + 2 + size
      BY <2>6, <2>11 DEF MessageIsHeard
    <3>2. at' = at + 1 + (size + 1)
      BY <1>1, <2>8, <2>11, <2>12
    <3>3. at + 1 + (size + 1) = at + 2 + size
      BY <1>3
    <3>4. at = starts[k]
      BY <2>2
    <3>5. QED
      BY <3>1, <3>2, <3>3, <3>4, Zenon
  <2>14. checked + 3 = k + 1 /\ used' = 2 * (checked + 1)
    BY <1>1, <1>3, <2>1, <2>2
  <2>15. feedback' = heard[starts[k] + 2]
    BY <1>1, <2>2
  <2>16. QED
    BY <2>1, <2>4, <2>12, <2>13, <2>14, <2>15
<1>10. ServerIsHeard'
  <2>1. SessionIsHeard(starts)'
    <3>1. phase # "sending" /\ phase' # "sending"
      BY <1>1
    <3>2. QED
      BY <1>1, <1>7, <3>1, SessionIsKept
  <2>2. CheckIsOnHeaders(starts)'
    <3>1. ASSUME guess' = key'
          PROVE  /\ used' = 2 * checked' /\ checked' + 1 <= server'.sent
                 /\ at' = starts[checked' + 2]
                 /\ feedback' = FeedbackOf(starts, checked' + 2, heard')
      <4>1. guess = key
        BY <1>1, <3>1
      <4>2. /\ checked' + 1 = checked + 2 /\ checked' + 2 = checked + 3 /\ checked + 3 # 2
            /\ checked + 3 - 1 = checked + 2
        BY <1>1, <1>3
      <4>3. FeedbackOf(starts, checked' + 2, heard') = heard[starts[checked + 2] + 2]
        BY <1>1, <4>2 DEF FeedbackOf
      <4>4. QED
        BY <1>1, <1>8, <1>9, <4>1, <4>2, <4>3
    <3>2. QED
      BY <3>1 DEF CheckIsOnHeaders, FeedbackOf
  <2>3. QED
    BY <2>1, <2>2 DEF ServerIsHeard
<1>11. TheRightKeyIsNeverRefused'
  <2>1. guess # key \/ phase' # "refused"
    BY <1>1, <1>9
  <2>2. odd = 0 => guess = key
    <3>1. ASSUME odd = 0
          PROVE  guess = key
      <4>1. known = Slots /\ clean = Len(chunks) /\ clean \in Nat /\ next \in Nat
        BY <1>1, <1>2, <3>1 DEF SlotsAreRead, ChunksAreMessages, TypeOK
      <4>2. Slots # {}
        <5>1. KeyLen \in Nat \ {0}
          BY Basics
        <5>2. 0 \in Slots
          BY <5>1 DEF Slots
        <5>3. QED
          BY <5>2
      <4>3. next <= clean + 1
        BY <1>2, <4>1, <4>2 DEF SlotsAreRead
      <4>4. \A slot \in Slots : guess[slot] = key[slot]
        BY <1>2, <4>1, <4>3 DEF SlotsAreRead
      <4>5. QED
        BY <1>3, <4>4
    <3>2. QED
      BY <3>1
  <2>3. QED
    BY <1>1, <2>1, <2>2 DEF TheRightKeyIsNeverRefused
<1>12. SlotsAreRead'
  <2>1. phase' \in {"checking", "refused"}
    BY <1>1
  <2>2. QED
    BY <1>1, <1>2, <2>1 DEF SlotsAreRead, SlotOfChunk, Slots
<1>13. CheckIsToCome'
  BY <1>1 DEF CheckIsToCome
<1>14. QED
  BY <1>1, <1>6, <1>10, <1>11, <1>12, <1>13, ClientIsKept DEF IInv

LEMMA ReturnKeyKeepsIInv ==
  ASSUME KeyAssumption, IInv, ReturnKey
  PROVE  IInv'
<1>1. /\ phase = "checking" /\ phase' = "returned"
      /\ UNCHANGED <<key, client, server, chunks, heard, odd, clean, guess, known, next, idx,
                     at, used, feedback, checked>>
  BY DEF ReturnKey, captured, recovery, check
<1>2. TypeOK /\ SlotsAreRead /\ ServerIsHeard
  BY DEF IInv
<1>3. ServerIsHeard'
  <2>1. PICK starts \in Seq(Nat) : SessionIsHeard(starts)
    BY <1>2 DEF ServerIsHeard
  <2>2. SessionIsHeard(starts)'
    BY <1>1, <2>1, SessionIsKept
  <2>3. CheckIsOnHeaders(starts)'
    BY <1>1 DEF CheckIsOnHeaders
  <2>4. QED
    BY <2>2, <2>3 DEF ServerIsHeard
<1>4. TypeOK'
  BY <1>1, <1>2 DEF TypeOK
<1>5. SlotsAreRead'
  BY <1>1, <1>2 DEF SlotsAreRead, SlotOfChunk, Slots
<1>6. CheckIsToCome' /\ TheRightKeyIsNeverRefused'
  BY <1>1 DEF CheckIsToCome, TheRightKeyIsNeverRefused
<1>7. QED
  BY <1>1, <1>3, <1>4, <1>5, <1>6, ClientIsKept DEF IInv

-----------------------------------------------------------------------------
(* The theorems. *)

LEMMA NextKeepsIInv ==
  ASSUME KeyAssumption, IInv, [Next]_vars
  PROVE  IInv'
<1>1. CASE \E m \in ClientMessages : ClientSends(m[1], m[2])
  BY <1>1, ClientSendsKeepsIInv
<1>2. CASE \E m \in ServerMessages : ServerSends(m[1], m[2])
  BY <1>2, ServerSendsKeepsIInv
<1>3. CASE CaptureEnds
  BY <1>3, CaptureEndsKeepsIInv
<1>4. CASE TakeChunk
  BY <1>4, TakeChunkKeepsIInv
<1>5. CASE TooFewChunks
  BY <1>5, TooFewChunksKeepsIInv
<1>6. CASE CheckHeader
  BY <1>6, CheckHeaderKeepsIInv
<1>7. CASE ReturnKey
  BY <1>7, ReturnKeyKeepsIInv
<1>8. CASE UNCHANGED vars
  <2>1. UNCHANGED <<phase, key, client, server, chunks, heard, odd, clean, guess, known, next,
                    idx, at, used, feedback, checked>>
    BY <1>8 DEF vars
  <2>2. TypeOK' /\ SlotsAreRead'
    BY <2>1 DEF IInv, TypeOK, SlotsAreRead, SlotOfChunk, Slots
  <2>3. ServerIsHeard'
    BY <2>1, ServerIsKept DEF IInv, check
  <2>4. QED
    BY <2>1, <2>2, <2>3, ClientIsKept DEF IInv, CheckIsToCome, TheRightKeyIsNeverRefused
<1>9. QED
  BY <1>1, <1>2, <1>3, <1>4, <1>5, <1>6, <1>7, <1>8 DEF Next

\* Of every recovery: the state is of its type, the chunks before the first odd one
\* are the client's messages, and the server's stream reads back with its key.
THEOREM InvariantHolds == ASSUME KeyAssumption PROVE Spec => []IInv
<1>1. Init => IInv
  BY InitIsTrue
<1>2. IInv /\ [Next]_vars => IInv'
  BY NextKeepsIInv
<1>3. QED
  BY <1>1, <1>2, PTL DEF Spec

\* What is read from the chunks before the first that is not one message is the
\* key's, and stays so whatever comes after (recover_session_key).
THEOREM CleanChunksGiveTheKey == ASSUME KeyAssumption PROVE Spec => []CleanChunksReadTheKey
<1>1. IInv => CleanChunksReadTheKey
  BY DEF IInv
<1>2. QED
  BY <1>1, InvariantHolds, PTL

\* The check refuses no right key, and with every message a chunk of its own the
\* recovery is refused only for want of messages (recover_session_key, _walk_server).
THEOREM ARightKeyPasses == ASSUME KeyAssumption PROVE Spec => []TheRightKeyIsNeverRefused
<1>1. IInv => TheRightKeyIsNeverRefused
  BY DEF IInv
<1>2. QED
  BY <1>1, InvariantHolds, PTL
=============================================================================
