------------------------------- MODULE Framing -------------------------------
(***************************************************************************)
(* One direction of a session cut into messages and decrypted              *)
(* (wire/framing.py, walk; wire/crypt.py, HeaderCrypt).                    *)
(*                                                                         *)
(* A message is a header and a body; its size field says where the next    *)
(* begins, and every header but the first is encrypted with a cipher that  *)
(* chains over headers.  So one byte the capture missed can garble a size, *)
(* an opcode, or the cipher's feedback, and everything after it.  The      *)
(* header is two bytes here, a size that counts the opcode and an opcode;  *)
(* the stream is any that Reassembly can return: its first and last bytes  *)
(* were captured, what was not is zero.                                    *)
(***************************************************************************)
EXTENDS Integers, FiniteSets, Sequences, SequencesExt

CONSTANTS
  ByteModulus,   \* values of a byte
  Xor(_, _),     \* exclusive or of two bytes
  KeyLen,        \* bytes of the session key
  Keys,          \* the session keys tried, the right one of the session
  Bootstrap,     \* opcode of the plaintext handshake message
  Opcodes,       \* opcodes of the other messages
  Ceiling,       \* the opcode table's highest, or NoCeiling when it is empty
  Bodies,        \* message bodies
  MaxMessages,   \* bound: messages sent
  Losses(_)      \* the losses tried: sets of positions inside a stream of n bytes

HeaderLen == 2
Byte == 0 .. (ByteModulus - 1)
NoCeiling == -1

FramingAssumption ==
  /\ ByteModulus \in Nat \ {0}
  /\ \A a, b \in Byte : Xor(a, b) \in Byte /\ Xor(Xor(a, b), b) = a
  /\ KeyLen \in Nat \ {0}
  /\ Keys \subseteq [0 .. (KeyLen - 1) -> Byte]
  /\ Bootstrap \in Byte /\ Opcodes \subseteq Byte
  /\ Ceiling \in Int
  /\ Ceiling # NoCeiling => \A op \in Opcodes \union {Bootstrap} : op <= Ceiling
  /\ Bodies \subseteq {b \in Seq(Byte) : Len(b) + 1 < ByteModulus}
  /\ MaxMessages \in Nat

VARIABLES
  phase,         \* "sending", "opening", "walking", "done"
  key,           \* the session key, of both ends
  bytes,         \* what the peer wrote
  sent,          \* its messages: [at, opcode, body], at an index of bytes
  peer,          \* its cipher: bytes encrypted so far, last ciphertext byte
  origin, length, unseen,   \* the Stream: length bytes from origin, less unseen
  pos, seq,      \* the walk: next header's offset, packets counted so far
  cipher,        \* the walk's HeaderCrypt
  yielded,       \* the packets it yielded
  log            \* the errors it logged

vars == <<phase, key, bytes, sent, peer, origin, length, unseen, pos, seq, cipher, yielded, log>>

session == <<key, bytes, sent, peer>>
stream  == <<origin, length, unseen>>

Fresh == [i |-> 0, j |-> 0]

-----------------------------------------------------------------------------
(* The peer, external: it encrypts each header after the first. *)

Encrypted(plain, c) ==
  LET c1 == (Xor(plain[1], key[c.i % KeyLen]) + c.j) % ByteModulus
      c2 == (Xor(plain[2], key[(c.i + 1) % KeyLen]) + c1) % ByteModulus
  IN  <<c1, c2>>

Send(opcode, body) ==
  LET plain  == <<Len(body) + 1, opcode>>
      header == IF sent = <<>> THEN plain ELSE Encrypted(plain, peer)
  IN
  /\ phase = "sending"
  /\ Len(sent) < MaxMessages
  /\ sent = <<>> => opcode = Bootstrap
  /\ bytes' = bytes \o header \o body
  /\ sent' = Append(sent, [at |-> Len(bytes), opcode |-> opcode, body |-> body])
  /\ peer' = IF sent = <<>> THEN peer ELSE [i |-> peer.i + HeaderLen, j |-> header[2]]
  /\ UNCHANGED <<phase, key, stream, pos, seq, cipher, yielded, log>>

\* What the capture saw of it: nothing, or a stretch that may miss bytes inside.
Captured ==
  /\ phase = "sending"
  /\ \E from, n \in 0 .. Len(bytes) : \E lost \in Losses(n) :
       /\ from + n <= Len(bytes)
       /\ lost \subseteq 1 .. (n - 2)
       /\ origin' = from /\ length' = n /\ unseen' = lost
  /\ phase' = "opening"
  /\ UNCHANGED <<session, pos, seq, cipher, yielded, log>>

-----------------------------------------------------------------------------
(* The walk. *)

Data(k) == IF k \in unseen THEN 0 ELSE bytes[origin + k + 1]

Unseen(from, to) == Cardinality(unseen \intersect from .. (to - 1))

\* data[from:to], which stops at the end of the stream.
Slice(from, to) ==
  LET stop == IF to > length THEN length ELSE to
  IN  [k \in 1 .. (IF stop > from THEN stop - from ELSE 0) |-> Data(from + k - 1)]

Packet(n, at, opcode, body) == [seq |-> n, at |-> at, opcode |-> opcode, body |-> body]

\* Mutant: feedback from the wrong byte.
DecryptedEarly == [i |-> cipher.i + HeaderLen, j |-> Data(pos)]

\* HeaderCrypt.decrypt of the header at pos.
Size   == Xor((Data(pos) - cipher.j) % ByteModulus, key[cipher.i % KeyLen])
Opcode == Xor((Data(pos + 1) - Data(pos)) % ByteModulus, key[(cipher.i + 1) % KeyLen])
Decrypted == [i |-> cipher.i + HeaderLen, j |-> Data(pos + 1)]

BodyLen == Size - 1
EndOfMessage == pos + HeaderLen + BodyLen

Init ==
  /\ phase = "sending"
  /\ key \in Keys
  /\ bytes = <<>> /\ sent = <<>> /\ peer = Fresh
  /\ origin = 0 /\ length = 0 /\ unseen = {}
  /\ pos = 0 /\ seq = 0 /\ cipher = Fresh
  /\ yielded = <<>> /\ log = <<>>

TooShort ==
  /\ phase = "opening"
  /\ length < HeaderLen
  /\ log' = Append(log, IF length = 0 THEN "empty" ELSE "no header")
  /\ phase' = "done"
  /\ UNCHANGED <<session, stream, pos, seq, cipher, yielded>>

\* The first message is plaintext, and is yielded whatever it holds.
Open ==
  LET body == Data(0) - 1
  IN
  /\ phase = "opening"
  /\ length >= HeaderLen
  /\ yielded' = <<Packet(0, 0, Data(1), Slice(HeaderLen, HeaderLen + body))>>
  /\ pos' = HeaderLen + body
  /\ seq' = 1
  /\ cipher' = Fresh
  /\ phase' = "walking"
  /\ UNCHANGED <<session, stream, log>>

HeaderLeft == phase = "walking" /\ pos + HeaderLen <= length

\* Mutant: a message that ends with the stream counts as running past it.
ReachesEnd == BodyLen < 0 \/ EndOfMessage >= length

AboveCeiling == Ceiling # NoCeiling /\ Opcode > Ceiling
RunsPastEnd  == BodyLen < 0 \/ EndOfMessage > length

Stop(why) ==
  /\ log' = Append(log, why)
  /\ cipher' = Decrypted
  /\ phase' = "done"
  /\ UNCHANGED <<session, stream, pos, seq, yielded>>

DesyncOpcode == HeaderLeft /\ AboveCeiling /\ Stop("opcode")
DesyncLength == HeaderLeft /\ ~AboveCeiling /\ RunsPastEnd /\ Stop("length")

Step ==
  /\ HeaderLeft
  /\ ~AboveCeiling
  /\ ~RunsPastEnd
  /\ IF Unseen(pos, EndOfMessage) > 0
     THEN log' = Append(log, "unseen") /\ UNCHANGED yielded
     ELSE yielded' = Append(yielded, Packet(seq, pos, Opcode, Slice(pos + HeaderLen, EndOfMessage)))
          /\ UNCHANGED log
  /\ cipher' = Decrypted
  /\ seq' = seq + 1
  /\ pos' = EndOfMessage
  /\ UNCHANGED <<phase, session, stream>>

Finish ==
  /\ phase = "walking"
  /\ ~HeaderLeft
  /\ phase' = "done"
  /\ UNCHANGED <<session, stream, pos, seq, cipher, yielded, log>>

Next ==
  \/ \E opcode \in Opcodes \union {Bootstrap}, body \in Bodies : Send(opcode, body)
  \/ Captured \/ TooShort \/ Open \/ DesyncOpcode \/ DesyncLength \/ Step \/ Finish

Spec == Init /\ [][Next]_vars

-----------------------------------------------------------------------------
Complaints == {"empty", "no header", "opcode", "length", "unseen"}

TypeOK ==
  /\ phase \in {"sending", "opening", "walking", "done"}
  /\ key \in Keys
  /\ bytes \in Seq(Byte)
  /\ sent \in Seq([at : Nat, opcode : Byte, body : Bodies])
  /\ peer \in [i : Nat, j : Byte]
  /\ origin \in Nat /\ length \in Nat /\ origin + length <= Len(bytes)
  /\ unseen \subseteq 1 .. (length - 2)
  /\ pos \in Nat /\ seq \in Nat
  /\ cipher \in [i : Nat, j : Byte]
  /\ yielded \in Seq([seq : Nat, at : Nat, opcode : Byte, body : Seq(Byte)])
  /\ log \in Seq(Complaints)

PacketEnd(p) == p.at + HeaderLen + Len(p.body)

\* Message k of the session as the walk numbers and places it.
Genuine(k) == Packet(k - 1, sent[k].at - origin, sent[k].opcode, sent[k].body)

MessageEnd(k) == sent[k].at + HeaderLen + Len(sent[k].body)

\* The capture has the session from its start, and all of the first message.
FromTheStart ==
  /\ phase \notin {"sending", "opening"}
  /\ origin = 0 /\ sent # <<>>
  /\ MessageEnd(1) <= length
  /\ Unseen(0, MessageEnd(1)) = 0

\* Until the walk has logged an error, what it yielded is the session: the
\* first messages, in order, each whole and under its own number; and if it ends
\* without one, it has left at most a piece of a header.
SilentMeansRight ==
  FromTheStart /\ log = <<>> =>
    /\ Len(yielded) <= Len(sent)
    /\ \A k \in DOMAIN yielded : yielded[k] = Genuine(k)
    /\ phase = "done" =>
         \A k \in DOMAIN sent : k > Len(yielded) => sent[k].at + HeaderLen > length

\* However the walk is misled, the packets it frames are disjoint stretches of
\* the stream, in order and numbered in order, and hold no byte that was not
\* captured: no zero of a gap is decoded as a value the server sent.
NoGapIsDecoded ==
  \A n \in DOMAIN yielded : n > 1 =>
    /\ yielded[n - 1].seq < yielded[n].seq
    /\ n > 2 => PacketEnd(yielded[n - 1]) <= yielded[n].at
    /\ PacketEnd(yielded[n]) <= length
    /\ unseen \intersect yielded[n].at .. (PacketEnd(yielded[n]) - 1) = {}

HeadersSeen ==
  \A k \in DOMAIN sent : Unseen(sent[k].at, sent[k].at + HeaderLen) = 0

\* "A gap inside one body keeps the framing aligned": it costs the message it
\* is in and no other, and that message's number is not reused.
GapsCostOnlyTheirMessages ==
  /\ NoGapIsDecoded
  /\ FromTheStart /\ HeadersSeen /\ phase = "done" =>
       LET whole == {k \in DOMAIN sent : MessageEnd(k) <= length}
           clean == {k \in whole : Unseen(sent[k].at, MessageEnd(k)) = 0}
       IN  /\ Range(yielded) = {Genuine(k) : k \in clean}
           /\ Cardinality({n \in DOMAIN log : log[n] = "unseen"}) = Cardinality(whole \ clean)
=============================================================================
