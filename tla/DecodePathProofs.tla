-------------------------- MODULE DecodePathProofs --------------------------
(***************************************************************************)
(* What the proofs of the stages say of the whole decode path.  No stage   *)
(* touches another's state, so what the walk, the recovery, the merge and  *)
(* the run keep on their own, the path keeps.  The proofs about the merge  *)
(* and the run are here in full.  The other two stages are instantiated    *)
(* twice, in DecodePath and here with the theorems about them: each of     *)
(* their sections first shows that the two instances are the same.         *)
(***************************************************************************)
EXTENDS DecodePath, FiniteSetTheorems, FunctionTheorems, TLAPS

WalkProofs == INSTANCE FramingProofs WITH
  phase <- walking, key <- walkKey, KeyLen <- 3, Keys <- WalkKeys, Bootstrap <- 1,
  Opcodes <- {1, 2}, MaxMessages <- WalkMessages
KeyProofs == INSTANCE KeyRecoveryProofs WITH
  phase <- recovering, KeyLen <- 4, Keys <- SessionKeys

-----------------------------------------------------------------------------
(* The walk. *)

LEMMA SameHeader ==
  /\ Walk!Opcode = WalkProofs!Opcode
  /\ Walk!Decrypted = WalkProofs!Decrypted
  /\ Walk!EndOfMessage = WalkProofs!EndOfMessage
  /\ Walk!HeaderLeft = WalkProofs!HeaderLeft
  /\ Walk!AboveCeiling = WalkProofs!AboveCeiling
  /\ Walk!RunsPastEnd = WalkProofs!RunsPastEnd
  /\ Walk!Unseen(pos, Walk!EndOfMessage) = WalkProofs!Unseen(pos, WalkProofs!EndOfMessage)
BY Zenon
DEF Walk!Data, WalkProofs!Data, Walk!Size, WalkProofs!Size, Walk!Opcode,
      WalkProofs!Opcode, Walk!Decrypted, WalkProofs!Decrypted, Walk!HeaderLen,
      WalkProofs!HeaderLen, Walk!BodyLen, WalkProofs!BodyLen,
      Walk!EndOfMessage, WalkProofs!EndOfMessage, Walk!HeaderLeft,
      WalkProofs!HeaderLeft, Walk!AboveCeiling, WalkProofs!AboveCeiling,
      Walk!NoCeiling, WalkProofs!NoCeiling, Walk!RunsPastEnd,
      WalkProofs!RunsPastEnd, Walk!Unseen, WalkProofs!Unseen,
      Walk!Cardinality, WalkProofs!Cardinality

LEMMA SamePacket ==
  /\ Walk!Packet(seq, pos, Walk!Opcode, Walk!Slice(pos + Walk!HeaderLen, Walk!EndOfMessage))
       = WalkProofs!Packet(seq, pos, WalkProofs!Opcode,
                           WalkProofs!Slice(pos + WalkProofs!HeaderLen, WalkProofs!EndOfMessage))
BY Zenon
DEF Walk!Packet, WalkProofs!Packet, Walk!Slice, WalkProofs!Slice, Walk!Data,
      WalkProofs!Data, Walk!Size, WalkProofs!Size, Walk!Opcode,
      WalkProofs!Opcode, Walk!HeaderLen, WalkProofs!HeaderLen, Walk!BodyLen,
      WalkProofs!BodyLen, Walk!EndOfMessage, WalkProofs!EndOfMessage

LEMMA SameSteps == Walk!Next => WalkProofs!Next
<1>1. \A opcode, body : Walk!Send(opcode, body) => WalkProofs!Send(opcode, body)
  BY Zenon DEF Walk!Send, WalkProofs!Send, Walk!HeaderLen, WalkProofs!HeaderLen,
      Walk!session, WalkProofs!session, Walk!stream, WalkProofs!stream,
      Walk!Encrypted, WalkProofs!Encrypted
<1>2. Walk!Captured => WalkProofs!Captured
  BY Zenon DEF Walk!Captured, WalkProofs!Captured, Walk!session, WalkProofs!session
<1>3. Walk!TooShort => WalkProofs!TooShort
  BY Zenon DEF Walk!TooShort, WalkProofs!TooShort, Walk!HeaderLen,
      WalkProofs!HeaderLen, Walk!session, WalkProofs!session, Walk!stream,
      WalkProofs!stream
<1>4. Walk!Open => WalkProofs!Open
  BY Zenon
  DEF Walk!Open, WalkProofs!Open, Walk!Slice, WalkProofs!Slice, Walk!Data,
      WalkProofs!Data, Walk!Packet, WalkProofs!Packet, Walk!HeaderLen,
      WalkProofs!HeaderLen, Walk!Fresh, WalkProofs!Fresh, Walk!session,
      WalkProofs!session, Walk!stream, WalkProofs!stream
<1>5. /\ Walk!DesyncOpcode => WalkProofs!DesyncOpcode
      /\ Walk!DesyncLength => WalkProofs!DesyncLength
  BY SameHeader, Zenon
  DEF Walk!DesyncOpcode, WalkProofs!DesyncOpcode, Walk!DesyncLength,
      WalkProofs!DesyncLength, Walk!Stop, WalkProofs!Stop, Walk!session,
      WalkProofs!session, Walk!stream, WalkProofs!stream
<1>6. Walk!Step => WalkProofs!Step
  <2>1. Walk!session = WalkProofs!session /\ Walk!stream = WalkProofs!stream
    BY DEF Walk!session, WalkProofs!session, Walk!stream, WalkProofs!stream
  <2>2. QED
    BY <2>1, SameHeader, SamePacket
    DEF Walk!Step, WalkProofs!Step, Walk!session, WalkProofs!session,
      Walk!stream, WalkProofs!stream
<1>7. Walk!Finish => WalkProofs!Finish
  BY SameHeader, Zenon DEF Walk!Finish, WalkProofs!Finish, Walk!session, WalkProofs!session,
      Walk!stream, WalkProofs!stream
<1>8. QED
  BY <1>1, <1>2, <1>3, <1>4, <1>5, <1>6, <1>7, Zenon DEF Walk!Next, WalkProofs!Next

LEMMA SamePromises ==
  /\ WalkProofs!SilentMeansRight => SilentMeansRight
  /\ WalkProofs!GapsCostOnlyTheirMessages => GapsCostOnlyTheirMessages
<1>1. Walk!SilentMeansRight = WalkProofs!SilentMeansRight
  BY Zenon DEF Walk!SilentMeansRight, WalkProofs!SilentMeansRight, Walk!HeaderLen,
      WalkProofs!HeaderLen, Walk!FromTheStart, WalkProofs!FromTheStart,
      Walk!MessageEnd, WalkProofs!MessageEnd, Walk!Unseen, WalkProofs!Unseen,
      Walk!Cardinality, WalkProofs!Cardinality, Walk!Genuine,
      WalkProofs!Genuine, Walk!Packet, WalkProofs!Packet
<1>2. Walk!GapsCostOnlyTheirMessages = WalkProofs!GapsCostOnlyTheirMessages
  BY Zenon
  DEF Walk!GapsCostOnlyTheirMessages, WalkProofs!GapsCostOnlyTheirMessages,
      Walk!NoGapIsDecoded, WalkProofs!NoGapIsDecoded, Walk!PacketEnd,
      WalkProofs!PacketEnd, Walk!HeadersSeen, WalkProofs!HeadersSeen,
      Walk!FromTheStart, WalkProofs!FromTheStart, Walk!Genuine,
      WalkProofs!Genuine, Walk!Packet, WalkProofs!Packet, Walk!HeaderLen,
      WalkProofs!HeaderLen, Walk!MessageEnd, WalkProofs!MessageEnd,
      Walk!Unseen, WalkProofs!Unseen, Walk!Cardinality,
      WalkProofs!Cardinality, Walk!Range, WalkProofs!Range
<1>3. QED
  BY <1>1, <1>2 DEF SilentMeansRight, GapsCostOnlyTheirMessages

LEMMA TheWalksAssumption == WalkProofs!FramingAssumption
BY StageAssumption
DEF Walk!FramingAssumption, WalkProofs!FramingAssumption, Walk!Byte,
      WalkProofs!Byte, Walk!NoCeiling, WalkProofs!NoCeiling

LEMMA TheWalkIsKept ==
  /\ Init => WalkProofs!IInv
  /\ WalkProofs!IInv /\ [Next]_vars => WalkProofs!IInv'
<1>1. Init => WalkProofs!Init
  BY DEF Init, Walk!Init, WalkProofs!Init, Walk!Fresh, WalkProofs!Fresh
<1>2. [Next]_vars => [WalkProofs!Next]_(WalkProofs!vars)
  BY SameSteps DEF Next, vars, walkVars, keyVars, mergeVars, runVars, WalkProofs!vars
<1>3. QED
  BY <1>1, <1>2, TheWalksAssumption, WalkProofs!InitIsTrue, WalkProofs!NextKeepsIInv

\* Until the walk logs an error, what it yields is the session's messages, each
\* whole, in order, under its own number; and if it logs none, all of them but a
\* piece of a header (framing.py, walk).
THEOREM TheSilentWalkIsRight == Spec => []SilentMeansRight
<1>1. Init => WalkProofs!IInv
  BY TheWalkIsKept
<1>2. WalkProofs!IInv /\ [Next]_vars => WalkProofs!IInv'
  BY TheWalkIsKept
<1>3. WalkProofs!IInv => SilentMeansRight
  BY TheWalksAssumption, SamePromises, WalkProofs!SilenceIsRight
<1>4. QED
  BY <1>1, <1>2, <1>3, PTL DEF Spec

\* A gap in the capture inside one body costs the walk that message and no other,
\* and no byte of a gap is ever decoded (framing.py, walk).
THEOREM AGapCostsItsMessage == Spec => []GapsCostOnlyTheirMessages
<1>1. Init => WalkProofs!IInv
  BY TheWalkIsKept
<1>2. WalkProofs!IInv /\ [Next]_vars => WalkProofs!IInv'
  BY TheWalkIsKept
<1>3. WalkProofs!IInv => GapsCostOnlyTheirMessages
  BY TheWalksAssumption, SamePromises, WalkProofs!GapsCostOnlyTheirs
<1>4. QED
  BY <1>1, <1>2, <1>3, PTL DEF Spec

-----------------------------------------------------------------------------
(* Key recovery. *)

LEMMA SameMessages ==
  /\ \A p, plain : Key!Header(p, plain) = KeyProofs!Header(p, plain)
  /\ \A p, header : Key!After(p, header) = KeyProofs!After(p, header)
<1>1. \A p, plain : Key!Header(p, plain) = KeyProofs!Header(p, plain)
  BY DEF Key!Header, KeyProofs!Header
<1>2. \A p, header : Key!After(p, header) = KeyProofs!After(p, header)
  BY Zenon DEF Key!After, KeyProofs!After
<1>3. QED
  BY <1>1, <1>2, Zenon

LEMMA SameRecovery == Key!Next => KeyProofs!Next
<1>1. ASSUME NEW opcode, NEW body, Key!ClientSends(opcode, body)
      PROVE  KeyProofs!ClientSends(opcode, body)
  <2>1. PICK h : h = Key!Header(client, <<Len(body) + 2, opcode, 0>>)
    OBVIOUS
  <2>2. /\ recovering = "sending" /\ client.sent < MaxClient /\ client' = Key!After(client, h)
        /\ \/ /\ chunks' = Append(chunks, h \o body)
              /\ clean' = IF odd = 0 THEN clean + 1 ELSE clean
              /\ UNCHANGED odd
           \/ /\ odd < MaxOdd
              /\ odd' = odd + 1
              /\ \/ chunks # <<>> /\ chunks' = [chunks EXCEPT ![Len(chunks)] = @ \o (h \o body)]
                 \/ \E cut \in 1 .. (Len(h \o body) - 1) :
                      chunks' = chunks \o <<SubSeq(h \o body, 1, cut),
                                            SubSeq(h \o body, cut + 1, Len(h \o body))>>
                 \/ UNCHANGED chunks
              /\ UNCHANGED clean
        /\ UNCHANGED <<recovering, key, server, heard, Key!recovery, Key!check>>
    BY <1>1, <2>1 DEF Key!ClientSends
  <2>3. /\ h = KeyProofs!Header(client, <<Len(body) + 2, opcode, 0>>)
        /\ Key!After(client, h) = KeyProofs!After(client, h)
    BY <2>1, SameMessages
  <2>4. QED
    BY <2>2, <2>3, Zenon DEF KeyProofs!ClientSends, Key!recovery, KeyProofs!recovery,
       Key!check, KeyProofs!check
<1>2. ASSUME NEW opcode, NEW body, Key!ServerSends(opcode, body)
      PROVE  KeyProofs!ServerSends(opcode, body)
  <2>1. PICK h : h = Key!Header(server, <<Len(body) + 1, opcode>>)
    OBVIOUS
  <2>2. /\ recovering = "sending" /\ server.sent < MaxServer /\ server' = Key!After(server, h)
        /\ heard' = heard \o h \o body
        /\ UNCHANGED <<recovering, key, client, chunks, odd, clean, Key!recovery, Key!check>>
    BY <1>2, <2>1 DEF Key!ServerSends
  <2>3. /\ h = KeyProofs!Header(server, <<Len(body) + 1, opcode>>)
        /\ Key!After(server, h) = KeyProofs!After(server, h)
    BY <2>1, SameMessages
  <2>4. QED
    BY <2>2, <2>3, Zenon DEF KeyProofs!ServerSends, Key!recovery, KeyProofs!recovery,
       Key!check, KeyProofs!check
<1>3. Key!CaptureEnds => KeyProofs!CaptureEnds
  BY Zenon DEF Key!CaptureEnds, KeyProofs!CaptureEnds, Key!recovery, KeyProofs!recovery,
      Key!check, KeyProofs!check
<1>4. Key!TakeChunk => KeyProofs!TakeChunk
  BY Zenon DEF Key!TakeChunk, KeyProofs!TakeChunk, Key!ClientHeaderLen, KeyProofs!ClientHeaderLen,
      Key!Slot, KeyProofs!Slot, Key!NextSlot, KeyProofs!NextSlot, Key!check, KeyProofs!check,
      Key!captured, KeyProofs!captured
<1>5. Key!TooFewChunks => KeyProofs!TooFewChunks
  BY Zenon DEF Key!TooFewChunks, KeyProofs!TooFewChunks, Key!captured, KeyProofs!captured,
      Key!recovery, KeyProofs!recovery, Key!check, KeyProofs!check
<1>6. Key!HeadersLeft = KeyProofs!HeadersLeft
  BY Zenon DEF Key!HeadersLeft, KeyProofs!HeadersLeft, Key!ServerHeaderLen,
      KeyProofs!ServerHeaderLen
<1>7. Key!CheckHeader => KeyProofs!CheckHeader
  BY <1>6, Zenon DEF Key!CheckHeader, KeyProofs!CheckHeader, Key!ServerHeaderLen,
      KeyProofs!ServerHeaderLen, Key!Size, KeyProofs!Size, Key!Opcode, KeyProofs!Opcode,
      Key!Fails, KeyProofs!Fails, Key!captured, KeyProofs!captured, Key!recovery,
      KeyProofs!recovery
<1>8. Key!ReturnKey => KeyProofs!ReturnKey
  BY <1>6, Zenon DEF Key!ReturnKey, KeyProofs!ReturnKey, Key!captured, KeyProofs!captured,
      Key!recovery, KeyProofs!recovery, Key!check, KeyProofs!check
<1>9. QED
  BY <1>1, <1>2, <1>3, <1>4, <1>5, <1>7, <1>8, Zenon DEF Key!Next, KeyProofs!Next

LEMMA SameKeyPromises ==
  /\ KeyProofs!CleanChunksReadTheKey => CleanChunksReadTheKey
  /\ KeyProofs!TheRightKeyIsNeverRefused => TheRightKeyIsNeverRefused
BY Zenon DEF Key!CleanChunksReadTheKey, KeyProofs!CleanChunksReadTheKey, CleanChunksReadTheKey,
    Key!SlotOfChunk, KeyProofs!SlotOfChunk, Key!ClientHeaderLen, KeyProofs!ClientHeaderLen,
    Key!TheRightKeyIsNeverRefused, KeyProofs!TheRightKeyIsNeverRefused, TheRightKeyIsNeverRefused

LEMMA TheKeysAssumption == KeyProofs!KeyAssumption
<1>1. Key!KeyAssumption = KeyProofs!KeyAssumption
  BY Zenon DEF Key!KeyAssumption, KeyProofs!KeyAssumption, Key!Byte, KeyProofs!Byte,
      Key!SlotOfChunk, KeyProofs!SlotOfChunk, Key!ClientHeaderLen, KeyProofs!ClientHeaderLen
<1>2. QED
  BY <1>1, StageAssumption

LEMMA TheKeyIsKept ==
  /\ Init => KeyProofs!IInv
  /\ KeyProofs!IInv /\ [Next]_vars => KeyProofs!IInv'
<1>1. Init => KeyProofs!Init
  BY Zenon DEF Init, Key!Init, KeyProofs!Init
<1>2. [Next]_vars => [KeyProofs!Next]_(KeyProofs!vars)
  BY SameRecovery DEF Next, vars, walkVars, keyVars, mergeVars, runVars, KeyProofs!vars
<1>3. QED
  BY <1>1, <1>2, TheKeysAssumption, KeyProofs!InitIsTrue, KeyProofs!NextKeepsIInv

\* What recovery reads of the key before the first chunk that is not one message is
\* right, and stays so whatever chunks come after (crypt.py, recover_session_key).
THEOREM CleanChunksGiveTheKey == Spec => []CleanChunksReadTheKey
<1>1. Init => KeyProofs!IInv
  BY TheKeyIsKept
<1>2. KeyProofs!IInv /\ [Next]_vars => KeyProofs!IInv'
  BY TheKeyIsKept
<1>3. KeyProofs!IInv => CleanChunksReadTheKey
  BY SameKeyPromises DEF KeyProofs!IInv
<1>4. QED
  BY <1>1, <1>2, <1>3, PTL DEF Spec

\* The check refuses no right key; and with every client message a chunk of its own,
\* and one per key slot, recovery gives the key (crypt.py, recover_session_key).
THEOREM ARightKeyPasses == Spec => []TheRightKeyIsNeverRefused
<1>1. Init => KeyProofs!IInv
  BY TheKeyIsKept
<1>2. KeyProofs!IInv /\ [Next]_vars => KeyProofs!IInv'
  BY TheKeyIsKept
<1>3. KeyProofs!IInv => TheRightKeyIsNeverRefused
  BY SameKeyPromises DEF KeyProofs!IInv
<1>4. QED
  BY <1>1, <1>2, <1>3, PTL DEF Spec


-----------------------------------------------------------------------------
(* The merge: the inductive invariant.  What is on the stack is of the     *)
(* packet last taken, later in its order than all that came out, and each  *)
(* place on it stands for all that hangs below it; so a place that is      *)
(* promised has come out, or hangs below the stack, until it is empty.     *)

Paths == Seq(Nat \ {0})
Messages == [t : Times, seq : Int, shape : Shapes]
PlacesIn == [direction : Merge!Directions, n : Nat \ {0}, path : Paths]
Packets == [seq : Nat, t : Nat, from : PlacesIn]

Typed ==
  /\ merging \in {"framing", "merging", "done"}
  /\ framed \in [Merge!Directions -> Seq(Messages)]
  /\ merged \in [Merge!Directions -> Nat]
  /\ stack \in Seq(PlacesIn) /\ out \in Seq(Packets)

TimeOf(x) == framed[x.direction][x.n].t

FramedInOrder ==
  \A d \in Merge!Directions :
    /\ merged[d] <= Len(framed[d])
    /\ \A k \in DOMAIN framed[d] : k > 1 => framed[d][k - 1].t <= framed[d][k].t

OfThePhase ==
  /\ merging = "framing" => stack = <<>> /\ out = <<>> /\ \A d \in Merge!Directions : merged[d] = 0
  /\ merging = "done" => stack = <<>> /\ \A d \in Merge!Directions : ~Merge!Left(d)

\* A place that was promised, of a packet the merge has taken.
IsTaken(x) == x.n <= merged[x.direction] /\ x.path \in Merge!Reachable(Merge!Shape(x))

\* At some place, p's contents come before q's.
Diverges(p, q) ==
  \E i \in DOMAIN p \intersect DOMAIN q :
    p[i] < q[i] /\ \A k \in 1 .. (i - 1) : p[k] = q[k]

StackIsOfOnePacket ==
  \A k \in DOMAIN stack :
    /\ IsTaken(stack[k]) /\ stack[k].n = merged[stack[k].direction]
    /\ \A m \in DOMAIN stack :
         /\ stack[k].direction = stack[m].direction
         /\ k < m => Diverges(stack[k].path, stack[m].path)

Earlier(x, y) ==
  x.direction = y.direction => x.n < y.n \/ (x.n = y.n /\ Merge!Before(x.path, y.path))

OutIsTaken ==
  \A i \in DOMAIN out :
    IsTaken(out[i].from) /\ out[i].seq = i - 1 /\ out[i].t = TimeOf(out[i].from)

InOrder ==
  /\ \A i, j \in DOMAIN out : i < j => Earlier(out[i].from, out[j].from)
  /\ \A i \in DOMAIN out, k \in DOMAIN stack : Earlier(out[i].from, stack[k])

\* No packet still to come is earlier than one that came out or is on the stack.
InTime ==
  /\ \A i, j \in DOMAIN out : i < j => out[i].t <= out[j].t
  /\ \A i \in DOMAIN out, k \in DOMAIN stack : out[i].t <= TimeOf(stack[k])
  /\ \A d \in Merge!Directions : Merge!Left(d) =>
       /\ \A i \in DOMAIN out : out[i].t <= Merge!NextOf(d).t
       /\ \A k \in DOMAIN stack : TimeOf(stack[k]) <= Merge!NextOf(d).t

IsOut(d, n, p) == \E i \in DOMAIN out : out[i].from = [direction |-> d, n |-> n, path |-> p]

IsToCome(d, n, p) ==
  \E k \in DOMAIN stack :
    stack[k].direction = d /\ stack[k].n = n /\ Merge!IsPrefix(stack[k].path, p)

NothingIsLost ==
  \A d \in Merge!Directions : \A n \in 1 .. merged[d] :
    \A p \in Merge!Reachable(framed[d][n].shape) : IsOut(d, n, p) \/ IsToCome(d, n, p)

MergeInv ==
  /\ Typed /\ FramedInOrder /\ OfThePhase /\ StackIsOfOnePacket
  /\ OutIsTaken /\ InOrder /\ InTime /\ NothingIsLost

-----------------------------------------------------------------------------
(* Sequences and paths. *)

LEMMA AppendFacts ==
  ASSUME NEW S, NEW s \in Seq(S), NEW m \in S
  PROVE  /\ Len(s) \in Nat /\ DOMAIN s = 1 .. Len(s) /\ Append(s, m) \in Seq(S)
         /\ DOMAIN Append(s, m) = 1 .. (Len(s) + 1) /\ Append(s, m)[Len(s) + 1] = m
         /\ \A i \in 1 .. Len(s) : Append(s, m)[i] = s[i]
OBVIOUS

LEMMA HeadAndTail ==
  ASSUME NEW S, NEW s \in Seq(S), s # <<>>
  PROVE  /\ Len(s) \in Nat \ {0} /\ DOMAIN s = 1 .. Len(s)
         /\ Head(s) \in S /\ Head(s) = s[1]
         /\ Tail(s) \in Seq(S) /\ DOMAIN Tail(s) = 1 .. (Len(s) - 1)
         /\ \A k \in 1 .. (Len(s) - 1) : Tail(s)[k] = s[k + 1]
OBVIOUS

\* A place of one sequence after another is a place of either.
LEMMA Joined ==
  ASSUME NEW S, NEW s \in Seq(S), NEW t \in Seq(S)
  PROVE  /\ s \o t \in Seq(S) /\ DOMAIN s = 1 .. Len(s) /\ Len(s) \in Nat
         /\ DOMAIN (s \o t) = 1 .. (Len(s) + Len(t)) /\ DOMAIN t = 1 .. Len(t) /\ Len(t) \in Nat
         /\ \A k \in 1 .. Len(s) : (s \o t)[k] = s[k]
         /\ \A k \in 1 .. Len(t) : (s \o t)[Len(s) + k] = t[k]
         /\ \A k \in DOMAIN (s \o t) :
              \/ k \in DOMAIN s /\ (s \o t)[k] = s[k]
              \/ k - Len(s) \in DOMAIN t /\ (s \o t)[k] = t[k - Len(s)] /\ k > Len(s)
<1>1. /\ s \o t \in Seq(S) /\ DOMAIN s = 1 .. Len(s) /\ Len(s) \in Nat
      /\ DOMAIN (s \o t) = 1 .. (Len(s) + Len(t)) /\ DOMAIN t = 1 .. Len(t) /\ Len(t) \in Nat
  OBVIOUS
<1>2. \A k \in 1 .. Len(s) : (s \o t)[k] = s[k]
  OBVIOUS
<1>3. \A k \in 1 .. Len(t) : (s \o t)[Len(s) + k] = t[k]
  OBVIOUS
<1>4. ASSUME NEW k \in DOMAIN (s \o t), k > Len(s)
      PROVE  k - Len(s) \in DOMAIN t /\ (s \o t)[k] = t[k - Len(s)]
  <2>1. k - Len(s) \in 1 .. Len(t) /\ Len(s) + (k - Len(s)) = k
    BY <1>1, <1>4
  <2>2. (s \o t)[Len(s) + (k - Len(s))] = t[k - Len(s)]
    BY <1>3, <2>1
  <2>3. QED
    BY <1>1, <2>1, <2>2
<1>5. QED
  BY <1>1, <1>2, <1>3, <1>4

LEMMA PrefixIsInPlace ==
  ASSUME NEW p \in Paths, NEW q \in Paths
  PROVE  Merge!IsPrefix(p, q) <=> Len(p) <= Len(q) /\ \A i \in 1 .. Len(p) : p[i] = q[i]
<1>1. Len(p) \in Nat /\ Len(q) \in Nat /\ DOMAIN p = 1 .. Len(p) /\ DOMAIN q = 1 .. Len(q)
  BY DEF Paths
<1>2. ASSUME Len(p) <= Len(q)
      PROVE  /\ SubSeq(q, 1, Len(p)) \in Paths /\ Len(SubSeq(q, 1, Len(p))) = Len(p)
             /\ \A i \in 1 .. Len(p) : SubSeq(q, 1, Len(p))[i] = q[i]
  BY <1>1, <1>2 DEF Paths
<1>3. SubSeq(p, 1, Len(p)) = p
  BY <1>1 DEF Paths
<1>4. ASSUME Len(p) <= Len(q), \A i \in 1 .. Len(p) : p[i] = q[i]
      PROVE  SubSeq(q, 1, Len(p)) = p
  BY <1>1, <1>2, <1>4 DEF Paths
<1>5. QED
  BY <1>1, <1>2, <1>3, <1>4 DEF Merge!IsPrefix

LEMMA PrefixesChain ==
  ASSUME NEW p \in Paths, NEW q \in Paths, NEW c \in Paths,
         Merge!IsPrefix(p, q), Merge!IsPrefix(q, c)
  PROVE  Merge!IsPrefix(p, c) /\ (p # q => p # c)
<1>1. /\ Len(p) \in Nat /\ Len(q) \in Nat /\ Len(c) \in Nat
      /\ DOMAIN p = 1 .. Len(p) /\ DOMAIN q = 1 .. Len(q)
  BY DEF Paths
<1>2. /\ Len(p) <= Len(q) /\ \A i \in 1 .. Len(p) : p[i] = q[i]
      /\ Len(q) <= Len(c) /\ \A i \in 1 .. Len(q) : q[i] = c[i]
  BY PrefixIsInPlace
<1>3. Merge!IsPrefix(p, c)
  BY <1>1, <1>2, PrefixIsInPlace
<1>4. ASSUME p = c PROVE p = q
  BY <1>1, <1>2, <1>4 DEF Paths
<1>5. QED
  BY <1>3, <1>4

\* Whatever diverges from a container diverges from its contents.
LEMMA ContentsDiverge ==
  ASSUME NEW p \in Paths, NEW c \in Paths, NEW q \in Paths, Merge!IsPrefix(p, c)
  PROVE  /\ Diverges(p, q) => Diverges(c, q)
         /\ Diverges(q, p) => Diverges(q, c)
<1>1. /\ DOMAIN p = 1 .. Len(p) /\ DOMAIN c = 1 .. Len(c) /\ DOMAIN q = 1 .. Len(q)
      /\ Len(p) \in Nat /\ Len(q) \in Nat /\ Len(c) \in Nat
  BY DEF Paths
<1>2. Len(p) <= Len(c) /\ \A i \in 1 .. Len(p) : p[i] = c[i]
  BY PrefixIsInPlace
<1>3. ASSUME Diverges(p, q) PROVE Diverges(c, q)
  BY <1>1, <1>2, <1>3 DEF Diverges
<1>4. ASSUME Diverges(q, p) PROVE Diverges(q, c)
  BY <1>1, <1>2, <1>4 DEF Diverges
<1>5. QED
  BY <1>3, <1>4

LEMMA BeforeIsOrDiverges ==
  ASSUME NEW p, NEW q
  PROVE  Merge!Before(p, q) <=> (p # q /\ Merge!IsPrefix(p, q)) \/ Diverges(p, q)
BY DEF Merge!Before, Diverges

\* What comes before a container comes before its contents.
LEMMA BeforeContents ==
  ASSUME NEW q \in Paths, NEW p \in Paths, NEW c \in Paths, Merge!Before(q, p), Merge!IsPrefix(p, c)
  PROVE  Merge!Before(q, c)
BY PrefixesChain, ContentsDiverge, BeforeIsOrDiverges

LEMMA NextPathFacts ==
  ASSUME NEW p \in Paths, NEW i \in Nat \ {0}
  PROVE  /\ Append(p, i) \in Paths /\ Len(Append(p, i)) = Len(p) + 1 /\ Len(p) \in Nat
         /\ Append(p, i)[Len(p) + 1] = i
         /\ \A k \in 1 .. Len(p) : Append(p, i)[k] = p[k]
         /\ Merge!Front(Append(p, i)) = p /\ Merge!Last(Append(p, i)) = i /\ Append(p, i) # <<>>
         /\ Append(p, i) # p /\ Merge!IsPrefix(p, Append(p, i))
<1>1. /\ Append(p, i) \in Paths /\ Len(Append(p, i)) = Len(p) + 1 /\ Len(p) \in Nat
      /\ Append(p, i)[Len(p) + 1] = i
      /\ \A k \in 1 .. Len(p) : Append(p, i)[k] = p[k]
  BY DEF Paths
<1>2. Merge!Last(Append(p, i)) = i /\ Append(p, i) # <<>> /\ Append(p, i) # p
  BY <1>1 DEF Merge!Last
<1>3. Merge!Front(Append(p, i)) = p
  BY <1>1 DEF Merge!Front, Paths
<1>4. Merge!IsPrefix(p, Append(p, i))
  <2>1. Merge!IsPrefix(p, Append(p, i))
          <=> Len(p) <= Len(Append(p, i)) /\ \A k \in 1 .. Len(p) : p[k] = Append(p, i)[k]
    BY <1>1, PrefixIsInPlace, Zenon
  <2>2. QED
    BY <1>1, <2>1
<1>5. QED
  BY <1>1, <1>2, <1>3, <1>4

LEMMA SiblingsDiverge ==
  ASSUME NEW p \in Paths, NEW i \in Nat \ {0}, NEW j \in Nat \ {0}, i < j
  PROVE  Diverges(Append(p, i), Append(p, j))
<1>1. /\ DOMAIN Append(p, i) = 1 .. (Len(p) + 1) /\ DOMAIN Append(p, j) = 1 .. (Len(p) + 1)
      /\ Len(p) \in Nat
  BY DEF Paths
<1>2. Len(p) + 1 \in DOMAIN Append(p, i) \intersect DOMAIN Append(p, j)
  BY <1>1
<1>3. /\ Append(p, i)[Len(p) + 1] < Append(p, j)[Len(p) + 1]
      /\ \A k \in 1 .. (Len(p) + 1 - 1) : Append(p, i)[k] = Append(p, j)[k]
  BY <1>1, NextPathFacts
<1>4. QED
  BY <1>2, <1>3 DEF Diverges

-----------------------------------------------------------------------------
(* What a packet holds. *)

LEMMA CountedAlike ==
  \A S : /\ Merge!IsFiniteSet(S) = IsFiniteSet(S)
         /\ Merge!Cardinality(S) = Cardinality(S)
BY Zenon DEF Merge!IsFiniteSet, IsFiniteSet, Merge!Cardinality, Cardinality

LEMMA CountedFromOne ==
  ASSUME NEW S \in SUBSET (Nat \ {0}), IsFiniteSet(S), \A i \in S : \A k \in 1 .. i : k \in S
  PROVE  Cardinality(S) \in Nat /\ S = 1 .. Cardinality(S)
<1>1. Cardinality(S) \in Nat
  BY FS_CardinalityType
<1>2. ASSUME NEW i \in S PROVE i <= Cardinality(S)
  <2>1. 1 .. i \in SUBSET S /\ i \in Nat \ {0}
    OBVIOUS
  <2>2. Cardinality(1 .. i) = i
    BY <2>1, FS_Interval
  <2>3. QED
    BY <1>1, <2>1, <2>2, FS_Subset
<1>3. S \in SUBSET (1 .. Cardinality(S))
  BY <1>1, <1>2
<1>4. IsFiniteSet(1 .. Cardinality(S)) /\ Cardinality(1 .. Cardinality(S)) = Cardinality(S)
  BY <1>1, FS_Interval
<1>5. QED
  BY <1>1, <1>3, <1>4, FS_Subset

LEMMA TheShape ==
  ASSUME Merge!PipelineAssumption, Typed, NEW x \in PlacesIn, x.n \in DOMAIN framed[x.direction]
  PROVE  /\ Merge!Shape(x) \in Shapes /\ TimeOf(x) \in Times
         /\ x.path \in Paths /\ x.direction \in Merge!Directions /\ x.n \in Nat \ {0}
<1>1. x.direction \in Merge!Directions /\ x.path \in Paths /\ x.n \in Nat \ {0}
  BY DEF PlacesIn
<1>2. framed[x.direction][x.n] \in Messages
  BY <1>1 DEF Typed
<1>3. QED
  BY <1>1, <1>2 DEF Merge!Shape, TimeOf, Messages

LEMMA AShape ==
  ASSUME Merge!PipelineAssumption, NEW s \in Shapes
  PROVE  /\ IsFiniteSet(s.paths) /\ s.paths \subseteq Paths /\ <<>> \in s.paths
         /\ \A p \in s.paths : \A k \in 0 .. Len(p) : SubSeq(p, 1, k) \in s.paths
         /\ \A p \in s.paths : p # <<>> =>
              \A i \in 1 .. Merge!Last(p) : Append(Merge!Front(p), i) \in s.paths
BY CountedAlike DEF Merge!PipelineAssumption, Paths

\* A path is its first part and the next step.
LEMMA AppendedIs ==
  ASSUME NEW q \in Paths, NEW p \in Paths, Len(p) = Len(q) + 1,
         \A k \in 1 .. Len(q) : q[k] = p[k]
  PROVE  p[Len(q) + 1] \in Nat \ {0} /\ Append(q, p[Len(q) + 1]) = p
<1>1. PICK i \in Nat \ {0} : i = p[Len(q) + 1]
  BY DEF Paths
<1>2. /\ Append(q, i) \in Paths /\ Len(Append(q, i)) = Len(p)
      /\ \A k \in 1 .. Len(p) : Append(q, i)[k] = p[k]
  <2>1. /\ Append(q, i) \in Paths /\ Len(Append(q, i)) = Len(q) + 1 /\ Len(q) \in Nat
        /\ Append(q, i)[Len(q) + 1] = i /\ \A k \in 1 .. Len(q) : Append(q, i)[k] = q[k]
    BY NextPathFacts
  <2>2. ASSUME NEW k \in 1 .. Len(p) PROVE Append(q, i)[k] = p[k]
    <3>1. CASE k \in 1 .. Len(q)
      BY <2>1, <3>1
    <3>2. CASE k = Len(q) + 1
      BY <1>1, <2>1, <3>2
    <3>3. QED
      BY <2>1, <3>1, <3>2
  <2>3. QED
    BY <2>1, <2>2
<1>3. Append(q, i) = p
  BY <1>2 DEF Paths
<1>4. QED
  BY <1>1, <1>3

LEMMA APath ==
  ASSUME NEW p \in Paths, p # <<>>
  PROVE  /\ Merge!Last(p) \in Nat \ {0} /\ Merge!Front(p) \in Paths
         /\ p = Append(Merge!Front(p), Merge!Last(p))
<1>1. Len(p) \in Nat \ {0} /\ DOMAIN p = 1 .. Len(p) /\ \A k \in 1 .. Len(p) : p[k] \in Nat \ {0}
  BY DEF Paths
<1>2. /\ Merge!Front(p) \in Paths /\ Len(Merge!Front(p)) = Len(p) - 1
      /\ \A k \in 1 .. (Len(p) - 1) : Merge!Front(p)[k] = p[k]
  BY <1>1 DEF Merge!Front, Paths
<1>3. Merge!Last(p) = p[Len(p)]
  BY DEF Merge!Last
<1>4. Merge!Last(p) \in Nat \ {0}
  BY <1>1, <1>3
<1>5. p = Append(Merge!Front(p), Merge!Last(p))
  <2>1. PICK q \in Paths : q = Merge!Front(p)
    BY <1>2
  <2>2. Len(p) = Len(q) + 1 /\ \A k \in 1 .. Len(q) : q[k] = p[k]
    <3>1. Len(q) = Len(p) - 1 /\ \A k \in 1 .. (Len(p) - 1) : q[k] = p[k]
      BY <1>2, <2>1, Zenon
    <3>2. QED
      BY <1>1, <3>1
  <2>3. p[Len(q) + 1] = Merge!Last(p)
    BY <1>3, <2>2
  <2>4. Append(q, p[Len(q) + 1]) = p
    BY <2>2, AppendedIs
  <2>5. QED
    BY <2>1, <2>3, <2>4
<1>6. QED
  BY <1>2, <1>4, <1>5

\* The packets in one at path q are numbered 1, 2, ... as many as there are.
LEMMA HeldAreNumbered ==
  ASSUME Merge!PipelineAssumption, NEW s \in Shapes, NEW q \in Paths
  PROVE  LET held == {p \in s.paths : p # <<>> /\ Merge!Front(p) = q}
         IN  /\ Cardinality(held) \in Nat
             /\ \A i \in Nat \ {0} : i \in 1 .. Cardinality(held) <=> Append(q, i) \in s.paths
<1> DEFINE held == {p \in s.paths : p # <<>> /\ Merge!Front(p) = q}
           S == {i \in Nat \ {0} : Append(q, i) \in s.paths}
           f == [p \in held |-> Merge!Last(p)]
<1>1. IsFiniteSet(held)
  BY AShape, FS_Subset
<1>2. \A p \in held : p \in Paths /\ Merge!Last(p) \in Nat \ {0} /\ p = Append(q, Merge!Last(p))
  BY AShape, APath
<1>3. \A i \in S : Append(q, i) \in held /\ Merge!Last(Append(q, i)) = i
  BY NextPathFacts
<1>4. f \in Bijection(held, S)
  <2>1. f \in [held -> S]
    BY <1>2
  <2>2. \A a, b \in held : f[a] = f[b] => a = b
    BY <1>2
  <2>3. \A i \in S : \E p \in held : f[p] = i
    BY <1>3
  <2>4. QED
    BY <2>1, <2>2, <2>3, Fun_IsBij
<1>5. IsFiniteSet(S) /\ Cardinality(S) = Cardinality(held)
  BY <1>1, <1>4, FS_Bijection, Fun_ExistsBij
<1>6. \A i \in S : \A k \in 1 .. i : k \in S
  <2>1. ASSUME NEW i \in S, NEW k \in 1 .. i PROVE k \in S
    <3>1. Append(q, i) \in s.paths /\ Append(q, i) # <<>>
          /\ Merge!Last(Append(q, i)) = i /\ Merge!Front(Append(q, i)) = q
      BY NextPathFacts
    <3>2. Append(q, k) \in s.paths
      BY <3>1, AShape
    <3>3. QED
      BY <3>2
  <2>2. QED
    BY <2>1
<1>7. Cardinality(S) \in Nat /\ S = 1 .. Cardinality(S)
  BY <1>5, <1>6, CountedFromOne
<1>8. QED
  BY <1>5, <1>7

LEMMA TheContents ==
  ASSUME Merge!PipelineAssumption, Typed, NEW x \in PlacesIn, x.n \in DOMAIN framed[x.direction],
         x.path \in Merge!Reachable(Merge!Shape(x)), ~Merge!TooDeep(x),
         x.path \notin Merge!Shape(x).bad
  PROVE  /\ Merge!Contents(x) \in Seq(PlacesIn)
         /\ \A i \in DOMAIN Merge!Contents(x) :
              /\ i \in Nat \ {0} /\ Merge!Contents(x)[i] = [x EXCEPT !.path = Append(x.path, i)]
              /\ Append(x.path, i) \in Merge!Reachable(Merge!Shape(x))
         /\ \A p \in Merge!Reachable(Merge!Shape(x)) : p # x.path /\ Merge!IsPrefix(x.path, p) =>
              \E i \in DOMAIN Merge!Contents(x) : Merge!IsPrefix(Append(x.path, i), p)
<1> DEFINE s == Merge!Shape(x)
           q == x.path
           held == {p \in s.paths : p # <<>> /\ Merge!Front(p) = q}
           c == Cardinality(held)
<1>1. /\ s \in Shapes /\ q \in Paths /\ s.paths \subseteq Paths /\ q \in s.paths
      /\ Len(q) \in Nat /\ MaxExpansionDepth \in Nat
  BY TheShape, AShape DEF Merge!Reachable, Merge!PipelineAssumption, Paths
<1>2. c \in Nat /\ \A i \in Nat \ {0} : i \in 1 .. c <=> Append(q, i) \in s.paths
  BY <1>1, HeldAreNumbered
<1>3. Merge!Contents(x) = [i \in 1 .. c |-> [x EXCEPT !.path = Append(x.path, i)]]
  BY CountedAlike, Zenon DEF Merge!Contents
<1>4. \A i \in 1 .. c : [x EXCEPT !.path = Append(x.path, i)] \in PlacesIn
  <2>1. \A i \in 1 .. c : Append(x.path, i) \in Paths
    BY <1>1, <1>2
  <2>2. QED
    BY <2>1 DEF PlacesIn
<1>5. ASSUME NEW i \in 1 .. c PROVE Append(q, i) \in Merge!Reachable(s)
  <2>1. Append(q, i) \in s.paths /\ i \in Nat \ {0}
    BY <1>2
  <2>2. Len(Append(q, i)) = Len(q) + 1 /\ Len(q) < MaxExpansionDepth
    BY <1>1, <2>1, NextPathFacts DEF Merge!TooDeep
  <2>3. ASSUME NEW k \in 0 .. Len(q) PROVE SubSeq(Append(q, i), 1, k) \notin s.bad
    <3>1. SubSeq(Append(q, i), 1, k) = SubSeq(q, 1, k)
      BY <1>1, <2>1 DEF Paths
    <3>2. CASE k < Len(q)
      <4>1. k \in 0 .. (Len(q) - 1)
        BY <1>1, <3>2
      <4>2. SubSeq(q, 1, k) \notin s.bad
        BY <4>1 DEF Merge!Reachable
      <4>3. QED
        BY <3>1, <4>2
    <3>3. CASE k = Len(q)
      <4>1. SubSeq(q, 1, k) = q
        BY <1>1, <3>3 DEF Paths
      <4>2. QED
        BY <3>1, <4>1
    <3>4. QED
      BY <1>1, <3>2, <3>3
  <2>4. QED
    BY <1>1, <2>1, <2>2, <2>3 DEF Merge!Reachable
<1>6. ASSUME NEW p \in Merge!Reachable(s), p # q, Merge!IsPrefix(q, p)
      PROVE  \E i \in 1 .. c : Merge!IsPrefix(Append(q, i), p)
  <2>1. p \in s.paths /\ p \in Paths
    BY <1>1 DEF Merge!Reachable
  <2>2. Len(q) <= Len(p) /\ Len(p) \in Nat /\ \A k \in 1 .. Len(q) : q[k] = p[k]
    BY <1>1, <1>6, <2>1, PrefixIsInPlace DEF Paths
  <2>3. Len(q) < Len(p)
    <3>1. Len(q) = Len(p) => p = q
      BY <1>1, <2>1, <2>2 DEF Paths
    <3>2. QED
      BY <1>1, <1>6, <2>2, <3>1
  <2> DEFINE i == p[Len(q) + 1]
             u == SubSeq(p, 1, Len(q) + 1)
  <2>4. /\ u \in Paths /\ Len(u) = Len(q) + 1
        /\ \A k \in 1 .. (Len(q) + 1) : u[k] = p[k]
    BY <1>1, <2>1, <2>2, <2>3 DEF Paths
  <2>5. i \in Nat \ {0} /\ Append(q, i) = u
    <3>1. u[Len(q) + 1] = i /\ \A k \in 1 .. Len(q) : q[k] = u[k]
      BY <1>1, <2>2, <2>4
    <3>2. QED
      BY <1>1, <2>4, <3>1, AppendedIs
  <2>6. Append(q, i) \in s.paths
    <3>1. Len(q) + 1 \in 0 .. Len(p)
      BY <1>1, <2>2, <2>3
    <3>2. u \in s.paths
      BY <1>1, <2>1, <3>1, AShape
    <3>3. QED
      BY <2>5, <3>2
  <2>7. Merge!IsPrefix(Append(q, i), p)
    <3>1. PICK v \in Paths : v = u
      BY <2>4
    <3>2. Len(v) <= Len(p) /\ \A k \in 1 .. Len(v) : v[k] = p[k]
      <4>1. Len(v) = Len(q) + 1 /\ \A k \in 1 .. (Len(q) + 1) : v[k] = p[k]
        BY <2>4, <3>1, Zenon
      <4>2. QED
        BY <1>1, <2>2, <2>3, <4>1
    <3>3. Merge!IsPrefix(v, p)
      BY <2>1, <3>2, PrefixIsInPlace
    <3>4. QED
      BY <2>5, <3>1, <3>3, Zenon
  <2>8. i \in 1 .. c
    BY <1>2, <2>5, <2>6
  <2>9. QED
    BY <2>7, <2>8
<1>7. DOMAIN Merge!Contents(x) = 1 .. c
  BY <1>3
<1>8. Merge!Contents(x) \in Seq(PlacesIn)
  <2>1. Merge!Contents(x) \in [1 .. c -> PlacesIn]
    BY <1>3, <1>4
  <2>2. PICK n \in Nat : n = c
    BY <1>2
  <2>3. Merge!Contents(x) \in [1 .. n -> PlacesIn]
    BY <2>1, <2>2
  <2>4. QED
    BY <2>3
<1>9. QED
  BY <1>2, <1>3, <1>5, <1>6, <1>7, <1>8

-----------------------------------------------------------------------------
(* The steps. *)

LEMMA MergeInitially ==
  ASSUME Merge!PipelineAssumption, Merge!Init
  PROVE  MergeInv
<1>1. Typed /\ FramedInOrder
  BY DEF Merge!Init, Typed, FramedInOrder
<1>2. OfThePhase /\ StackIsOfOnePacket
  BY DEF Merge!Init, OfThePhase, StackIsOfOnePacket
<1>3. OutIsTaken /\ InOrder /\ InTime
  BY DEF Merge!Init, OutIsTaken, InOrder, InTime, Merge!Left
<1>4. NothingIsLost
  BY DEF Merge!Init, NothingIsLost
<1>5. QED
  BY <1>1, <1>2, <1>3, <1>4 DEF MergeInv

LEMMA FrameKeepsMergeInv ==
  ASSUME Merge!PipelineAssumption, MergeInv,
         NEW d \in Merge!Directions, NEW t \in Times, NEW shape \in Shapes, NEW skip \in 0 .. 1,
         Merge!Frame(d, t, shape, skip)
  PROVE  MergeInv'
<1>1. /\ merging = "framing" /\ stack = <<>> /\ out = <<>>
      /\ \A e \in Merge!Directions : merged[e] = 0
      /\ UNCHANGED <<merging, merged, stack, out>>
  BY DEF MergeInv, OfThePhase, Merge!Frame
<1>2. PICK number \in Int :
        /\ framed' = [framed EXCEPT ![d] = Append(@, [t |-> t, seq |-> number, shape |-> shape])]
        /\ Len(framed[d]) > 0 => framed[d][Len(framed[d])].t <= t
  <2>1. framed[d] \in Seq(Messages)
    BY DEF MergeInv, Typed
  <2>2. CASE Len(framed[d]) = 0
    <3>1. framed' = [framed EXCEPT ![d] = Append(@,
                       [t |-> t, seq |-> -1 + 1 + skip, shape |-> shape])]
      BY <2>2 DEF Merge!Frame
    <3>2. -1 + 1 + skip \in Int /\ ~(Len(framed[d]) > 0)
      BY <2>2
    <3>3. QED
      BY <3>1, <3>2, Zenon
  <2>3. CASE Len(framed[d]) # 0
    <3>1. framed[d][Len(framed[d])] \in Messages
      BY <2>1, <2>3
    <3>2. framed[d][Len(framed[d])].seq + 1 + skip \in Int
      BY <3>1 DEF Messages
    <3>3. /\ framed' = [framed EXCEPT ![d] = Append(@,
                         [t |-> t, seq |-> framed[d][Len(framed[d])].seq + 1 + skip,
                          shape |-> shape])]
          /\ t >= framed[d][Len(framed[d])].t
      BY <2>3 DEF Merge!Frame
    <3>4. t \in Nat /\ framed[d][Len(framed[d])].t \in Nat
      BY <3>1 DEF Messages, Merge!PipelineAssumption
    <3>5. framed[d][Len(framed[d])].t <= t
      BY <3>3, <3>4
    <3>6. QED
      BY <3>2, <3>3, <3>5, Zenon
  <2>4. QED
    BY <2>2, <2>3
<1>3. PICK m \in Messages : m = [t |-> t, seq |-> number, shape |-> shape]
  BY DEF Messages
<1>4. framed' = [framed EXCEPT ![d] = Append(@, m)] /\ m.t = t
  BY <1>2, <1>3
<1>5. \A e \in Merge!Directions :
        /\ framed[e] \in Seq(Messages) /\ Len(framed[e]) \in Nat
        /\ framed'[e] = IF e = d THEN Append(framed[e], m) ELSE framed[e]
  BY <1>4 DEF MergeInv, Typed
<1>6. Typed'
  BY <1>1, <1>4, <1>5 DEF MergeInv, Typed
<1>7. FramedInOrder'
  <2>1. ASSUME NEW e \in Merge!Directions, NEW k \in DOMAIN framed'[e], k > 1
        PROVE  framed'[e][k - 1].t <= framed'[e][k].t
    <3>1. CASE e # d
      BY <1>5, <2>1, <3>1 DEF MergeInv, FramedInOrder
    <3>2. CASE e = d
      <4>1. PICK s \in Seq(Messages) : s = framed[d]
        BY <1>5
      <4>2. /\ framed'[e] = Append(s, m) /\ Len(s) \in Nat /\ DOMAIN s = 1 .. Len(s)
            /\ DOMAIN Append(s, m) = 1 .. (Len(s) + 1) /\ Append(s, m)[Len(s) + 1] = m
            /\ \A i \in 1 .. Len(s) : Append(s, m)[i] = s[i]
        <5>1. framed'[e] = Append(s, m)
          BY <1>5, <3>2, <4>1
        <5>2. QED
          BY <5>1, AppendFacts
      <4>3. \A i \in 1 .. Len(s) : i > 1 => s[i - 1].t <= s[i].t
        BY <4>1, <4>2 DEF MergeInv, FramedInOrder
      <4>4. Len(s) > 0 => s[Len(s)].t <= m.t
        BY <1>2, <1>4, <4>1
      <4>5. CASE k <= Len(s)
        <5>1. Append(s, m)[k] = s[k] /\ Append(s, m)[k - 1] = s[k - 1]
          BY <2>1, <4>2, <4>5
        <5>2. QED
          BY <2>1, <4>2, <4>3, <4>5, <5>1
      <4>6. CASE k = Len(s) + 1
        <5>1. k - 1 = Len(s) /\ Len(s) > 0 /\ Len(s) \in 1 .. Len(s)
          BY <2>1, <4>2, <4>6
        <5>2. Append(s, m)[k] = m /\ Append(s, m)[k - 1] = s[Len(s)]
          BY <4>2, <4>6, <5>1
        <5>3. QED
          BY <4>2, <4>4, <5>1, <5>2
      <4>7. QED
        BY <2>1, <4>2, <4>5, <4>6
    <3>3. QED
      BY <3>1, <3>2
  <2>2. \A e \in Merge!Directions : merged'[e] <= Len(framed'[e])
    BY <1>1, <1>5
  <2>3. QED
    BY <2>1, <2>2 DEF FramedInOrder
<1>8. OfThePhase' /\ StackIsOfOnePacket' /\ OutIsTaken' /\ InOrder'
  BY <1>1 DEF OfThePhase, StackIsOfOnePacket, OutIsTaken, InOrder
<1>9. InTime'
  BY <1>1 DEF InTime
<1>10. NothingIsLost'
  BY <1>1 DEF NothingIsLost
<1>11. QED
  BY <1>6, <1>7, <1>8, <1>9, <1>10 DEF MergeInv

\* The start and the end of the merge.
LEMMA PhaseKeepsMergeInv ==
  ASSUME Merge!PipelineAssumption, MergeInv, Merge!Merge \/ Merge!Finish
  PROVE  MergeInv'
<1>1. UNCHANGED <<framed, merged, stack, out>> /\ merging' \in {"merging", "done"}
  BY DEF Merge!Merge, Merge!Finish
<1>2. Typed' /\ OfThePhase'
  BY <1>1 DEF MergeInv, Typed, OfThePhase, Merge!Merge, Merge!Finish, Merge!Left
<1>3. FramedInOrder' /\ StackIsOfOnePacket' /\ OutIsTaken'
  BY <1>1 DEF MergeInv, FramedInOrder, StackIsOfOnePacket, OutIsTaken, IsTaken, Merge!Shape, TimeOf
<1>4. InOrder' /\ InTime'
  BY <1>1 DEF MergeInv, InOrder, InTime, TimeOf, Merge!Left, Merge!NextOf
<1>5. NothingIsLost'
  BY <1>1 DEF MergeInv, NothingIsLost, IsOut, IsToCome
<1>6. QED
  BY <1>2, <1>3, <1>4, <1>5 DEF MergeInv

\* Every message has a time, and times are compared.
LEMMA TimesAreNumbers ==
  ASSUME Merge!PipelineAssumption, Typed
  PROVE  /\ \A d \in Merge!Directions : /\ Len(framed[d]) \in Nat
                                  /\ DOMAIN framed[d] = 1 .. Len(framed[d])
                                  /\ \A n \in 1 .. Len(framed[d]) : framed[d][n].t \in Nat
         /\ \A d \in Merge!Directions : merged[d] \in Nat
         /\ \A k \in DOMAIN stack : stack[k] \in PlacesIn
         /\ \A i \in DOMAIN out : out[i].from \in PlacesIn /\ out[i].t \in Nat
<1>1. ASSUME NEW d \in Merge!Directions, NEW n \in 1 .. Len(framed[d]) PROVE framed[d][n].t \in Nat
  <2>1. framed[d] \in Seq(Messages)
    BY DEF Typed
  <2>2. framed[d][n] \in Messages
    BY <2>1
  <2>3. QED
    BY <2>2 DEF Messages, Merge!PipelineAssumption
<1>2. \A i \in DOMAIN out : out[i] \in Packets
  BY DEF Typed
<1>3. QED
  BY <1>1, <1>2 DEF Typed, Packets

LEMMA TakeKeepsMergeInv ==
  ASSUME Merge!PipelineAssumption, MergeInv, NEW d \in Merge!Directions, Merge!Take(d)
  PROVE  MergeInv'
<1>n. PICK n \in Nat \ {0} : n = merged[d] + 1
  BY DEF MergeInv, Typed
<1>x. PICK x \in PlacesIn : x = [direction |-> d, n |-> n, path |-> <<>>]
  <2>1. <<>> \in Paths
    BY DEF Paths
  <2>2. [direction |-> d, n |-> n, path |-> <<>>] \in PlacesIn
    BY <2>1 DEF PlacesIn
  <2>3. QED
    BY <2>2
<1>1. /\ merging = "merging" /\ stack = <<>> /\ merged[d] < Len(framed[d])
      /\ merged' = [merged EXCEPT ![d] = @ + 1] /\ stack' = <<x>>
      /\ UNCHANGED <<merging, framed, out>>
      /\ \A e \in Merge!Directions : e # d /\ Merge!Left(e) => framed[d][n].t <= Merge!NextOf(e).t
  <2>1. ASSUME NEW e \in Merge!Directions, e # d, Merge!Left(e)
        PROVE  framed[d][n].t <= Merge!NextOf(e).t
    <3>1. Merge!Precedes(d, e) /\ Merge!NextOf(d) = framed[d][n]
      BY <1>n, <2>1 DEF Merge!Take, Merge!NextOf
    <3>2. framed[d][n].t \in Nat /\ Merge!NextOf(e).t \in Nat
      <4>1. n \in 1 .. Len(framed[d]) /\ merged[e] + 1 \in 1 .. Len(framed[e])
        BY <1>n, <2>1, TimesAreNumbers DEF MergeInv, Merge!Take, Merge!Left
      <4>2. QED
        BY <4>1, TimesAreNumbers DEF MergeInv, Merge!NextOf
    <3>3. QED
      BY <3>1, <3>2 DEF Merge!Precedes
  <2>2. QED
    BY <1>n, <1>x, <2>1 DEF Merge!Take, Merge!Left
<1>2. /\ \A e \in Merge!Directions : merged[e] \in Nat /\ Len(framed[e]) \in Nat
      /\ \A e \in Merge!Directions : merged'[e] = IF e = d THEN n ELSE merged[e]
      /\ n \in 1 .. Len(framed[d]) /\ n \in Nat \ {0}
  BY <1>1, <1>n, TimesAreNumbers DEF MergeInv, Typed
<1>3. x \in PlacesIn /\ <<>> \in Paths
  BY DEF Paths
<1>4. Typed'
  BY <1>1, <1>2, <1>3 DEF MergeInv, Typed
<1>5. FramedInOrder' /\ OfThePhase'
  BY <1>1, <1>2 DEF MergeInv, FramedInOrder, OfThePhase
<1>6. /\ DOMAIN stack' = {1} /\ stack'[1] = x
      /\ x.direction = d /\ x.n = n /\ x.path = <<>>
  BY <1>1, <1>x
<1>7. <<>> \in Merge!Reachable(framed[d][n].shape)
  <2>1. framed[d][n].shape \in Shapes
    BY <1>2, <1>3, <1>6, TheShape DEF MergeInv, Merge!Shape, Typed
  <2>2. Len(<<>>) = 0 /\ MaxExpansionDepth >= 0 /\ 0 .. (0 - 1) = {}
    BY DEF Merge!PipelineAssumption
  <2>3. QED
    BY <2>1, <2>2, AShape DEF Merge!Reachable
<1>8. StackIsOfOnePacket'
  <2>1. IsTaken(x)' /\ x.n = merged'[d]
    BY <1>1, <1>2, <1>6, <1>7 DEF IsTaken, Merge!Shape
  <2>2. QED
    BY <1>6, <2>1 DEF StackIsOfOnePacket
<1>9. OutIsTaken'
  <2>1. ASSUME NEW i \in DOMAIN out
        PROVE  /\ IsTaken(out[i].from)' /\ out[i].seq = i - 1
               /\ out[i].t = TimeOf(out[i].from)'
    <3>1. IsTaken(out[i].from) /\ out[i].seq = i - 1 /\ out[i].t = TimeOf(out[i].from)
      BY DEF MergeInv, OutIsTaken
    <3>2. out[i].from.direction \in Merge!Directions /\ out[i].from.n \in Nat
      BY TimesAreNumbers DEF MergeInv, PlacesIn
    <3>3. QED
      BY <1>1, <1>2, <3>1, <3>2 DEF IsTaken, Merge!Shape, TimeOf
  <2>2. QED
    BY <1>1, <2>1 DEF OutIsTaken
<1>10. InOrder'
  <2>1. ASSUME NEW i \in DOMAIN out PROVE Earlier(out[i].from, x)
    <3>1. out[i].from.n <= merged[out[i].from.direction]
      BY DEF MergeInv, OutIsTaken, IsTaken
    <3>2. out[i].from.n \in Nat /\ out[i].from.direction \in Merge!Directions
      BY TimesAreNumbers DEF MergeInv, PlacesIn
    <3>3. out[i].from.direction = d => out[i].from.n < n
      BY <1>2, <1>n, <3>1, <3>2
    <3>4. QED
      BY <1>6, <3>3 DEF Earlier
  <2>2. QED
    BY <1>1, <1>6, <2>1 DEF MergeInv, InOrder, Earlier
<1>11. InTime'
  <2>1. TimeOf(x)' = framed[d][n].t /\ framed[d][n].t = Merge!NextOf(d).t /\ Merge!Left(d)
    BY <1>1, <1>6, <1>n DEF TimeOf, Merge!NextOf, Merge!Left
  <2>2. \A i \in DOMAIN out : out[i].t <= framed[d][n].t
    BY <2>1 DEF MergeInv, InTime
  <2>3. ASSUME NEW e \in Merge!Directions, Merge!Left(e)' PROVE framed[d][n].t <= Merge!NextOf(e)'.t
    <3>1. CASE e = d
      <4>1. n + 1 \in DOMAIN framed[d] /\ Merge!NextOf(e)' = framed[d][n + 1]
        BY <1>1, <1>2, <2>3, <3>1, TimesAreNumbers DEF MergeInv, Merge!Left, Merge!NextOf
      <4>2. n + 1 > 1 /\ n + 1 - 1 = n
        BY <1>2
      <4>3. \A k \in DOMAIN framed[d] : k > 1 => framed[d][k - 1].t <= framed[d][k].t
        BY DEF MergeInv, FramedInOrder
      <4>4. PICK k \in DOMAIN framed[d] : k = n + 1
        BY <4>1
      <4>5. k > 1 /\ k - 1 = n
        BY <4>2, <4>4
      <4>6. framed[d][n].t <= framed[d][k].t
        BY <4>3, <4>5
      <4>7. QED
        BY <4>1, <4>4, <4>6
    <3>2. CASE e # d
      <4>1. Merge!Left(e) /\ Merge!NextOf(e)' = Merge!NextOf(e)
        BY <1>1, <1>2, <2>3, <3>2 DEF Merge!Left, Merge!NextOf
      <4>2. QED
        BY <1>1, <3>2, <4>1
    <3>3. QED
      BY <3>1, <3>2
  <2>4. ASSUME NEW e \in Merge!Directions, Merge!Left(e)', NEW i \in DOMAIN out
        PROVE  out[i].t <= Merge!NextOf(e)'.t
    <3>1. out[i].t \in Nat /\ framed[d][n].t \in Nat
      BY <1>2, TimesAreNumbers DEF MergeInv
    <3>2. Merge!NextOf(e)'.t \in Nat
      <4>1. merged'[e] + 1 \in 1 .. Len(framed[e]) /\ Merge!NextOf(e)' = framed[e][merged'[e] + 1]
        BY <1>1, <1>2, <2>4 DEF Merge!Left, Merge!NextOf
      <4>2. QED
        BY <4>1, TimesAreNumbers DEF MergeInv
    <3>3. out[i].t <= framed[d][n].t /\ framed[d][n].t <= Merge!NextOf(e)'.t
      BY <2>2, <2>3, <2>4
    <3>4. QED
      BY <3>1, <3>2, <3>3
  <2>5. \A i, j \in DOMAIN out : i < j => out[i].t <= out[j].t
    BY DEF MergeInv, InTime
  <2>6. QED
    BY <1>1, <1>6, <2>1, <2>2, <2>3, <2>4, <2>5 DEF InTime, TimeOf
<1>12. NothingIsLost'
  <2>1. ASSUME NEW e \in Merge!Directions, NEW m \in 1 .. merged'[e],
               NEW p \in Merge!Reachable(framed[e][m].shape)
        PROVE  IsOut(e, m, p)' \/ IsToCome(e, m, p)'
    <3>1. CASE e = d /\ m = n
      <4>1. Merge!IsPrefix(<<>>, p)
        <5>1. p \in Paths
          <6>1. framed[d][n].shape \in Shapes
            BY <1>2, <1>3, <1>6, TheShape DEF MergeInv, Merge!Shape, Typed
          <6>2. QED
            BY <2>1, <3>1, <6>1, AShape DEF Merge!Reachable
        <5>2. Len(<<>>) = 0 /\ Len(p) \in Nat
          BY <5>1 DEF Paths
        <5>3. QED
          BY <1>3, <5>1, <5>2, PrefixIsInPlace
      <4>2. QED
        BY <1>6, <3>1, <4>1 DEF IsToCome
    <3>2. CASE m \in 1 .. merged[e]
      <4>1. IsOut(e, m, p) \/ IsToCome(e, m, p)
        BY <2>1, <3>2 DEF MergeInv, NothingIsLost
      <4>2. ~IsToCome(e, m, p)
        BY <1>1 DEF IsToCome
      <4>3. QED
        BY <1>1, <4>1, <4>2 DEF IsOut
    <3>3. (e = d /\ m = n) \/ m \in 1 .. merged[e]
      BY <1>2, <1>n, <2>1
    <3>4. QED
      BY <3>1, <3>2, <3>3
  <2>2. QED
    BY <1>1, <2>1 DEF NothingIsLost
<1>13. QED
  BY <1>4, <1>5, <1>8, <1>9, <1>10, <1>11, <1>12 DEF MergeInv

\* What replaces the first place of the stack: nothing, or what it holds.
Replaces(new, x) ==
  /\ new \in Seq(PlacesIn)
  /\ \A k \in DOMAIN new :
       /\ new[k].direction = x.direction /\ new[k].n = x.n
       /\ new[k].path \in Merge!Reachable(Merge!Shape(x)) /\ Merge!Before(x.path, new[k].path)
       /\ Merge!IsPrefix(x.path, new[k].path)
       /\ \A m \in DOMAIN new : k < m => Diverges(new[k].path, new[m].path)
  /\ \A p \in Merge!Reachable(Merge!Shape(x)) : Merge!IsPrefix(x.path, p) =>
       p = x.path \/ \E k \in DOMAIN new : Merge!IsPrefix(new[k].path, p)

LEMMA StoppingReplaces ==
  ASSUME Merge!PipelineAssumption, Typed, NEW x \in PlacesIn, x.n \in DOMAIN framed[x.direction],
         Merge!TooDeep(x) \/ x.path \in Merge!Shape(x).bad
  PROVE  Replaces(<<>>, x)
<1>1. ASSUME NEW p \in Merge!Reachable(Merge!Shape(x)), Merge!IsPrefix(x.path, p) PROVE p = x.path
  <2>1. x.path \in Paths /\ p \in Paths
    BY TheShape, AShape DEF Merge!Reachable
  <2>2. /\ Len(x.path) \in Nat /\ Len(p) \in Nat
        /\ Len(x.path) <= Len(p) /\ \A k \in 1 .. Len(x.path) : x.path[k] = p[k]
    BY <1>1, <2>1, PrefixIsInPlace DEF Paths
  <2>3. Len(x.path) = Len(p)
    <3>1. CASE Merge!TooDeep(x)
      BY <2>2, <3>1 DEF Merge!TooDeep, Merge!Reachable, Merge!PipelineAssumption
    <3>2. CASE x.path \in Merge!Shape(x).bad
      <4>1. SubSeq(p, 1, Len(x.path)) = x.path
        BY <1>1, <2>1 DEF Merge!IsPrefix, Paths
      <4>2. Len(x.path) \notin 0 .. (Len(p) - 1)
        BY <3>2, <4>1 DEF Merge!Reachable
      <4>3. QED
        BY <2>2, <4>2
    <3>3. QED
      BY <3>1, <3>2
  <2>4. QED
    BY <2>1, <2>2, <2>3 DEF Paths
<1>2. <<>> \in Seq(PlacesIn) /\ DOMAIN <<>> = {}
  OBVIOUS
<1>3. QED
  BY <1>1, <1>2 DEF Replaces

LEMMA ContentsReplace ==
  ASSUME Merge!PipelineAssumption, Typed, NEW x \in PlacesIn, x.n \in DOMAIN framed[x.direction],
         x.path \in Merge!Reachable(Merge!Shape(x)), ~Merge!TooDeep(x),
         x.path \notin Merge!Shape(x).bad
  PROVE  Replaces(Merge!Contents(x), x)
<1>1. PICK new : new = Merge!Contents(x)
  OBVIOUS
<1>2. /\ new \in Seq(PlacesIn)
      /\ \A i \in DOMAIN new :
           /\ i \in Nat \ {0} /\ new[i] = [x EXCEPT !.path = Append(x.path, i)]
           /\ Append(x.path, i) \in Merge!Reachable(Merge!Shape(x))
      /\ \A p \in Merge!Reachable(Merge!Shape(x)) : p # x.path /\ Merge!IsPrefix(x.path, p) =>
           \E i \in DOMAIN new : Merge!IsPrefix(Append(x.path, i), p)
  BY <1>1, TheContents
<1>3. x.path \in Paths
  BY DEF PlacesIn
<1>4. \A k \in DOMAIN new :
        /\ new[k].direction = x.direction /\ new[k].n = x.n /\ new[k].path = Append(x.path, k)
        /\ k \in Nat \ {0}
  BY <1>2 DEF PlacesIn
<1>5. ASSUME NEW k \in DOMAIN new
      PROVE  /\ Merge!Before(x.path, new[k].path) /\ Merge!IsPrefix(x.path, new[k].path)
             /\ \A m \in DOMAIN new : k < m => Diverges(new[k].path, new[m].path)
  <2>1. Merge!IsPrefix(x.path, Append(x.path, k)) /\ Append(x.path, k) # x.path
    BY <1>3, <1>4, NextPathFacts
  <2>2. Merge!Before(x.path, Append(x.path, k))
    BY <2>1, BeforeIsOrDiverges
  <2>3. \A m \in DOMAIN new : k < m => Diverges(Append(x.path, k), Append(x.path, m))
    BY <1>3, <1>4, SiblingsDiverge
  <2>4. QED
    BY <1>4, <2>1, <2>2, <2>3
<1>6. \A p \in Merge!Reachable(Merge!Shape(x)) : Merge!IsPrefix(x.path, p) =>
        p = x.path \/ \E k \in DOMAIN new : Merge!IsPrefix(new[k].path, p)
  <2>1. ASSUME NEW p \in Merge!Reachable(Merge!Shape(x)), Merge!IsPrefix(x.path, p), p # x.path
        PROVE  \E k \in DOMAIN new : Merge!IsPrefix(new[k].path, p)
    <3>1. PICK k \in DOMAIN new : Merge!IsPrefix(Append(x.path, k), p)
      BY <1>2, <2>1
    <3>2. new[k].path = Append(x.path, k)
      BY <1>4
    <3>3. QED
      BY <3>1, <3>2
  <2>2. QED
    BY <2>1
<1>7. Replaces(new, x)
  BY <1>2, <1>4, <1>5, <1>6 DEF Replaces
<1>8. QED
  BY <1>1, <1>7

\* What a step of the expansion does to the stack and to what is out.
Expands(x, rest, new) ==
  /\ merging = "merging"
  /\ x \in PlacesIn /\ x.n \in DOMAIN framed[x.direction] /\ IsTaken(x)
  /\ rest \in Seq(PlacesIn) /\ Replaces(new, x)
  /\ stack # <<>> /\ x = stack[1] /\ DOMAIN rest = 1 .. (Len(stack) - 1)
  /\ \A k \in DOMAIN rest : k + 1 \in DOMAIN stack /\ rest[k] = stack[k + 1]
  /\ \A k \in DOMAIN stack : k > 1 => k - 1 \in DOMAIN rest /\ rest[k - 1] = stack[k]
  /\ out' = Append(out, [seq |-> Len(out), t |-> TimeOf(x), from |-> x])
  /\ stack' = new \o rest
  /\ UNCHANGED <<merging, framed, merged>>

LEMMA ExpandsAPlace ==
  ASSUME Merge!PipelineAssumption, MergeInv, Merge!Expand
  PROVE  \E x, rest, new : Expands(x, rest, new)
<1>1. stack \in Seq(PlacesIn) /\ stack # <<>>
  BY DEF MergeInv, Typed, Merge!Expand
<1>2. PICK x \in PlacesIn : x = Head(stack)
  BY <1>1
<1>3. PICK rest \in Seq(PlacesIn) : rest = Tail(stack)
  BY <1>1, HeadAndTail
<1>4. /\ Len(stack) \in Nat \ {0} /\ DOMAIN stack = 1 .. Len(stack) /\ x = stack[1]
      /\ DOMAIN rest = 1 .. (Len(stack) - 1)
      /\ \A k \in 1 .. (Len(stack) - 1) : rest[k] = stack[k + 1]
  BY <1>1, <1>2, <1>3, HeadAndTail
<1>5. /\ \A k \in DOMAIN rest : k + 1 \in DOMAIN stack /\ rest[k] = stack[k + 1]
      /\ \A k \in DOMAIN stack : k > 1 => k - 1 \in DOMAIN rest /\ rest[k - 1] = stack[k]
  BY <1>4
<1>6. IsTaken(x)
  BY <1>4 DEF MergeInv, StackIsOfOnePacket
<1>7. x.n \in DOMAIN framed[x.direction]
  <2>1. x.direction \in Merge!Directions /\ x.n \in Nat \ {0} /\ x.n <= merged[x.direction]
    BY <1>6 DEF PlacesIn, IsTaken
  <2>2. merged[x.direction] <= Len(framed[x.direction]) /\ merged[x.direction] \in Nat
    BY <2>1, TimesAreNumbers DEF MergeInv, FramedInOrder
  <2>3. QED
    BY <2>1, <2>2, TimesAreNumbers DEF MergeInv
<1>8. x.path \in Merge!Reachable(Merge!Shape(x))
  BY <1>6 DEF IsTaken
<1>9. PICK new : Replaces(new, x) /\ stack' = new \o rest
  <2>1. CASE Merge!TooDeep(x) \/ x.path \in Merge!Shape(x).bad
    <3>1. Replaces(<<>>, x)
      BY <1>7, <2>1, StoppingReplaces DEF MergeInv
    <3>2. stack' = rest /\ <<>> \o rest = rest
      BY <1>2, <1>3, <2>1 DEF Merge!Expand
    <3>3. QED
      BY <3>1, <3>2
  <2>2. CASE ~(Merge!TooDeep(x) \/ x.path \in Merge!Shape(x).bad)
    <3>1. Replaces(Merge!Contents(x), x)
      BY <1>7, <1>8, <2>2, ContentsReplace DEF MergeInv
    <3>2. stack' = Merge!Contents(x) \o rest
      BY <1>2, <1>3, <2>2 DEF Merge!Expand
    <3>3. QED
      BY <3>1, <3>2
  <2>3. QED
    BY <2>1, <2>2
<1>10. out' = Append(out, [seq |-> Len(out), t |-> TimeOf(x), from |-> x])
  BY <1>2 DEF Merge!Expand, TimeOf
<1>11. merging = "merging" /\ UNCHANGED <<merging, framed, merged>>
  BY DEF Merge!Expand
<1>12. Expands(x, rest, new)
  BY <1>1, <1>4, <1>5, <1>6, <1>7, <1>9, <1>10, <1>11 DEF Expands
<1>13. QED
  BY <1>12

LEMMA NewStack ==
  ASSUME NEW x, NEW rest, NEW new, Expands(x, rest, new)
  PROVE  /\ stack' \in Seq(PlacesIn) /\ Len(new) \in Nat
         /\ \A k \in DOMAIN stack' :
              \/ k \in DOMAIN new /\ stack'[k] = new[k] /\ k <= Len(new)
              \/ k - Len(new) \in DOMAIN rest /\ stack'[k] = rest[k - Len(new)] /\ k > Len(new)
         /\ \A k \in DOMAIN new : k \in DOMAIN stack' /\ stack'[k] = new[k]
         /\ \A k \in DOMAIN rest : Len(new) + k \in DOMAIN stack' /\ stack'[Len(new) + k] = rest[k]
<1>1. new \in Seq(PlacesIn) /\ rest \in Seq(PlacesIn) /\ stack' = new \o rest
  BY DEF Expands, Replaces
<1>2. PICK joined : joined = new \o rest
  OBVIOUS
<1>3. /\ joined \in Seq(PlacesIn) /\ DOMAIN new = 1 .. Len(new) /\ Len(new) \in Nat
      /\ DOMAIN joined = 1 .. (Len(new) + Len(rest))
      /\ DOMAIN rest = 1 .. Len(rest) /\ Len(rest) \in Nat
      /\ \A k \in 1 .. Len(new) : joined[k] = new[k]
      /\ \A k \in 1 .. Len(rest) : joined[Len(new) + k] = rest[k]
      /\ \A k \in DOMAIN joined :
           \/ k \in DOMAIN new /\ joined[k] = new[k]
           \/ k - Len(new) \in DOMAIN rest /\ joined[k] = rest[k - Len(new)] /\ k > Len(new)
  BY <1>1, <1>2, Joined
<1>4. stack' = joined
  BY <1>1, <1>2
<1>5. QED
  BY <1>3, <1>4

LEMMA NewOut ==
  ASSUME Typed, NEW x, NEW rest, NEW new, Expands(x, rest, new), TimeOf(x) \in Nat
  PROVE  /\ out' \in Seq(Packets) /\ Len(out) \in Nat /\ DOMAIN out = 1 .. Len(out)
         /\ DOMAIN out' = 1 .. (Len(out) + 1)
         /\ \A i \in DOMAIN out : out'[i] = out[i]
         /\ out'[Len(out) + 1].from = x /\ out'[Len(out) + 1].t = TimeOf(x)
         /\ out'[Len(out) + 1].seq = Len(out)
<1>1. out \in Seq(Packets) /\ Len(out) \in Nat
  BY DEF Typed
<1>2. PICK o \in Packets : o = [seq |-> Len(out), t |-> TimeOf(x), from |-> x]
  BY <1>1 DEF Packets, Expands
<1>3. out' = Append(out, o) /\ o.seq = Len(out) /\ o.t = TimeOf(x) /\ o.from = x
  BY <1>2 DEF Expands
<1>4. QED
  BY <1>1, <1>3, AppendFacts

\* What is on the stack now is of the same packet, and after x.
LEMMA PlacesAfter ==
  ASSUME Merge!PipelineAssumption, MergeInv, NEW x, NEW rest, NEW new, Expands(x, rest, new),
         NEW k \in DOMAIN stack'
  PROVE  /\ stack'[k] \in PlacesIn /\ stack'[k].direction = x.direction /\ stack'[k].n = x.n
         /\ stack'[k].path \in Merge!Reachable(Merge!Shape(x))
         /\ Merge!Before(x.path, stack'[k].path)
         /\ \A i \in DOMAIN out : Earlier(out[i].from, stack'[k])
<1>1. stack'[k] \in PlacesIn
  BY NewStack
<1>2. /\ stack # <<>> /\ stack \in Seq(PlacesIn) /\ 1 \in DOMAIN stack /\ x = stack[1]
      /\ x \in PlacesIn
  BY DEF Expands, MergeInv, Typed
<1>3. \A i \in DOMAIN out : out[i].from \in PlacesIn /\ Earlier(out[i].from, x)
  BY <1>2, TimesAreNumbers DEF MergeInv, InOrder
<1>4. CASE k \in DOMAIN new /\ stack'[k] = new[k]
  <2>1. /\ new[k].direction = x.direction /\ new[k].n = x.n
        /\ new[k].path \in Merge!Reachable(Merge!Shape(x)) /\ Merge!Before(x.path, new[k].path)
        /\ Merge!IsPrefix(x.path, new[k].path)
    BY <1>4 DEF Expands, Replaces
  <2>2. ASSUME NEW i \in DOMAIN out PROVE Earlier(out[i].from, new[k])
    <3>1. out[i].from.path \in Paths /\ x.path \in Paths /\ new[k].path \in Paths
      BY <1>1, <1>2, <1>3, <1>4 DEF PlacesIn
    <3>2. Merge!Before(out[i].from.path, x.path) => Merge!Before(out[i].from.path, new[k].path)
      BY <2>1, <3>1, BeforeContents
    <3>3. QED
      BY <1>3, <2>1, <3>2 DEF Earlier
  <2>3. QED
    BY <1>1, <1>4, <2>1, <2>2
<1>5. CASE k - Len(new) \in DOMAIN rest /\ stack'[k] = rest[k - Len(new)]
  <2>1. PICK j \in DOMAIN stack : stack[j] = stack'[k] /\ j > 1
    <3>1. PICK l \in DOMAIN rest : l = k - Len(new)
      BY <1>5
    <3>2. l + 1 \in DOMAIN stack /\ stack[l + 1] = rest[l] /\ l \in Nat \ {0}
      BY <1>2 DEF Expands
    <3>3. l + 1 > 1
      BY <3>2
    <3>4. QED
      BY <1>5, <3>1, <3>2, <3>3
  <2>2. /\ IsTaken(stack[j]) /\ stack[j].n = merged[stack[j].direction]
        /\ x.n = merged[x.direction] /\ stack[j].direction = x.direction
        /\ Diverges(x.path, stack[j].path)
    BY <1>2, <2>1 DEF MergeInv, StackIsOfOnePacket
  <2>3. stack[j].n = x.n /\ Merge!Shape(stack[j]) = Merge!Shape(x)
    BY <2>2 DEF Merge!Shape
  <2>4. stack[j].path \in Merge!Reachable(Merge!Shape(x)) /\ Merge!Before(x.path, stack[j].path)
    BY <2>2, <2>3, BeforeIsOrDiverges DEF IsTaken
  <2>5. \A i \in DOMAIN out : Earlier(out[i].from, stack[j])
    BY DEF MergeInv, InOrder
  <2>6. QED
    BY <1>1, <2>1, <2>2, <2>3, <2>4, <2>5
<1>6. QED
  BY <1>4, <1>5, NewStack

LEMMA ExpandKeepsTypes ==
  ASSUME Merge!PipelineAssumption, MergeInv, NEW x, NEW rest, NEW new, Expands(x, rest, new)
  PROVE  /\ Typed' /\ FramedInOrder' /\ OfThePhase'
         /\ x \in PlacesIn /\ x.direction \in Merge!Directions
         /\ TimeOf(x) \in Nat /\ x.n = merged[x.direction]
         /\ \A k \in DOMAIN stack' : TimeOf(stack'[k]) = TimeOf(x)
<1>1. /\ x \in PlacesIn /\ x.n \in DOMAIN framed[x.direction] /\ merging = "merging"
      /\ UNCHANGED <<merging, framed, merged>>
  BY DEF Expands
<1>2. TimeOf(x) \in Nat /\ x.direction \in Merge!Directions
  BY <1>1, TheShape DEF MergeInv, Merge!PipelineAssumption
<1>3. Typed'
  BY <1>1, <1>2, NewStack, NewOut DEF MergeInv, Typed
<1>4. FramedInOrder' /\ OfThePhase'
  BY <1>1 DEF MergeInv, FramedInOrder, OfThePhase
<1>5. \A k \in DOMAIN stack' : TimeOf(stack'[k]) = TimeOf(x)
  BY <1>1, PlacesAfter DEF TimeOf
<1>6. x.n = merged[x.direction]
  <2>1. 1 \in DOMAIN stack /\ x = stack[1]
    BY DEF Expands, MergeInv, Typed
  <2>2. QED
    BY <2>1 DEF MergeInv, StackIsOfOnePacket
<1>7. QED
  BY <1>1, <1>2, <1>3, <1>4, <1>5, <1>6

LEMMA ExpandKeepsTheStack ==
  ASSUME Merge!PipelineAssumption, MergeInv, NEW x, NEW rest, NEW new, Expands(x, rest, new)
  PROVE  StackIsOfOnePacket'
<1>1. UNCHANGED <<framed, merged>> /\ x.n = merged[x.direction] /\ x.direction \in Merge!Directions
      /\ x \in PlacesIn
  BY ExpandKeepsTypes DEF Expands
<1>2. ASSUME NEW k \in DOMAIN stack'
      PROVE  IsTaken(stack'[k]) /\ stack'[k].n = merged'[stack'[k].direction]
             /\ stack'[k].direction = x.direction
  <2>1. /\ stack'[k].direction = x.direction /\ stack'[k].n = x.n
        /\ stack'[k].path \in Merge!Reachable(Merge!Shape(x))
    BY PlacesAfter
  <2>2. stack'[k].n <= merged'[stack'[k].direction]
    BY <1>1, <2>1, TimesAreNumbers DEF MergeInv
  <2>3. stack'[k].path \in Merge!Reachable(Merge!Shape(stack'[k]))
    BY <2>1 DEF Merge!Shape
  <2>4. QED
    BY <1>1, <2>1, <2>2, <2>3 DEF IsTaken
<1>3. \A k, m \in DOMAIN rest : k < m => Diverges(rest[k].path, rest[m].path)
  <2>1. ASSUME NEW k \in DOMAIN rest, NEW m \in DOMAIN rest, k < m
        PROVE  Diverges(rest[k].path, rest[m].path)
    <3>1. /\ k + 1 \in DOMAIN stack /\ rest[k] = stack[k + 1]
          /\ m + 1 \in DOMAIN stack /\ rest[m] = stack[m + 1] /\ k \in Int /\ m \in Int
      BY DEF Expands
    <3>2. k + 1 < m + 1
      BY <2>1, <3>1
    <3>3. QED
      BY <3>1, <3>2 DEF MergeInv, StackIsOfOnePacket
  <2>2. QED
    BY <2>1
<1>4. \A k \in DOMAIN new, m \in DOMAIN rest : Diverges(new[k].path, rest[m].path)
  <2>1. ASSUME NEW k \in DOMAIN new, NEW m \in DOMAIN rest
        PROVE  Diverges(new[k].path, rest[m].path)
    <3>1. /\ m + 1 \in DOMAIN stack /\ rest[m] = stack[m + 1] /\ 1 \in DOMAIN stack /\ x = stack[1]
          /\ m \in Nat \ {0}
      BY DEF Expands, MergeInv, Typed
    <3>2. 1 < m + 1
      BY <3>1
    <3>3. Diverges(x.path, rest[m].path)
      BY <3>1, <3>2 DEF MergeInv, StackIsOfOnePacket
    <3>4. new[k] \in PlacesIn /\ rest[m] \in PlacesIn
      BY DEF Expands, Replaces
    <3>5. new[k].path \in Paths /\ rest[m].path \in Paths /\ x.path \in Paths
      BY <1>1, <3>4 DEF PlacesIn
    <3>6. Merge!IsPrefix(x.path, new[k].path)
      BY DEF Expands, Replaces
    <3>7. QED
      BY <3>3, <3>5, <3>6, ContentsDiverge
  <2>2. QED
    BY <2>1
<1>5. ASSUME NEW k \in DOMAIN stack', NEW m \in DOMAIN stack', k < m
      PROVE  Diverges(stack'[k].path, stack'[m].path)
  <2>1. CASE m \in DOMAIN new /\ stack'[m] = new[m] /\ m <= Len(new)
    <3>1. k \in DOMAIN new /\ stack'[k] = new[k]
      BY <1>5, <2>1, NewStack
    <3>2. QED
      BY <1>5, <2>1, <3>1 DEF Expands, Replaces
  <2>2. CASE m - Len(new) \in DOMAIN rest /\ stack'[m] = rest[m - Len(new)]
    <3>1. CASE k \in DOMAIN new /\ stack'[k] = new[k]
      BY <1>4, <2>2, <3>1
    <3>2. CASE k - Len(new) \in DOMAIN rest /\ stack'[k] = rest[k - Len(new)]
      <4>1. k - Len(new) < m - Len(new)
        BY <1>5, NewStack
      <4>2. QED
        BY <1>3, <2>2, <3>2, <4>1
    <3>3. QED
      BY <3>1, <3>2, NewStack
  <2>3. QED
    BY <2>1, <2>2, NewStack
<1>6. QED
  BY <1>1, <1>2, <1>5 DEF StackIsOfOnePacket, IsTaken, Merge!Shape

LEMMA ExpandKeepsOut ==
  ASSUME Merge!PipelineAssumption, MergeInv, NEW x, NEW rest, NEW new, Expands(x, rest, new)
  PROVE  OutIsTaken' /\ InOrder' /\ InTime'
<1>1. /\ UNCHANGED <<framed, merged>> /\ IsTaken(x) /\ 1 \in DOMAIN stack /\ x = stack[1]
      /\ x \in PlacesIn /\ x.direction \in Merge!Directions /\ TimeOf(x) \in Nat
  <2>1. 1 \in DOMAIN stack
    BY DEF Expands, MergeInv, Typed
  <2>2. QED
    BY <2>1, ExpandKeepsTypes DEF Expands
<1>2. /\ Len(out) \in Nat /\ DOMAIN out = 1 .. Len(out)
      /\ DOMAIN out' = 1 .. (Len(out) + 1)
      /\ \A i \in DOMAIN out : out'[i] = out[i]
      /\ out'[Len(out) + 1].from = x /\ out'[Len(out) + 1].t = TimeOf(x)
      /\ out'[Len(out) + 1].seq = Len(out)
  BY <1>1, NewOut DEF MergeInv
<1>3. ASSUME NEW i \in DOMAIN out'
      PROVE  i \in DOMAIN out \/ i = Len(out) + 1
  BY <1>2
<1>4. OutIsTaken'
  <2>1. ASSUME NEW i \in DOMAIN out'
        PROVE  /\ IsTaken(out'[i].from) /\ out'[i].seq = i - 1
               /\ out'[i].t = TimeOf(out'[i].from)
    <3>1. CASE i \in DOMAIN out
      <4>1. IsTaken(out[i].from) /\ out[i].seq = i - 1 /\ out[i].t = TimeOf(out[i].from)
        BY <3>1 DEF MergeInv, OutIsTaken
      <4>2. QED
        BY <1>2, <3>1, <4>1
    <3>2. CASE i = Len(out) + 1
      BY <1>1, <1>2, <3>2
    <3>3. QED
      BY <1>3, <3>1, <3>2
  <2>2. QED
    BY <1>1, <2>1 DEF OutIsTaken, IsTaken, Merge!Shape, TimeOf
<1>5. InOrder'
  <2>1. ASSUME NEW i \in DOMAIN out', NEW j \in DOMAIN out', i < j
        PROVE  Earlier(out'[i].from, out'[j].from)
    <3>1. i \in DOMAIN out
      BY <1>2, <2>1
    <3>2. CASE j \in DOMAIN out
      BY <1>2, <2>1, <3>1, <3>2 DEF MergeInv, InOrder
    <3>3. CASE j = Len(out) + 1
      <4>1. Earlier(out[i].from, x)
        BY <1>1, <3>1 DEF MergeInv, InOrder
      <4>2. QED
        BY <1>2, <3>1, <3>3, <4>1
    <3>4. QED
      BY <1>3, <3>2, <3>3
  <2>2. ASSUME NEW i \in DOMAIN out', NEW k \in DOMAIN stack'
        PROVE  Earlier(out'[i].from, stack'[k])
    <3>1. CASE i \in DOMAIN out
      BY <1>2, <3>1, PlacesAfter
    <3>2. CASE i = Len(out) + 1
      <4>1. Earlier(x, stack'[k])
        BY PlacesAfter DEF Earlier
      <4>2. QED
        BY <1>2, <3>2, <4>1
    <3>3. QED
      BY <1>3, <3>1, <3>2
  <2>3. QED
    BY <2>1, <2>2 DEF InOrder, Earlier
<1>6. InTime'
  <2>1. \A k \in DOMAIN stack' : TimeOf(stack'[k]) = TimeOf(x)
    BY ExpandKeepsTypes
  <2>2. \A i \in DOMAIN out : out[i].t <= TimeOf(x)
    BY <1>1 DEF MergeInv, InTime
  <2>3. \A i \in DOMAIN out' : out'[i].t <= TimeOf(x)
    BY <1>1, <1>2, <1>3, <2>2
  <2>4. \A i, j \in DOMAIN out' : i < j => out'[i].t <= out'[j].t
    <3>1. ASSUME NEW i \in DOMAIN out', NEW j \in DOMAIN out', i < j
          PROVE  out'[i].t <= out'[j].t
      <4>1. i \in DOMAIN out
        BY <1>2, <3>1
      <4>2. CASE j \in DOMAIN out
        BY <1>2, <3>1, <4>1, <4>2 DEF MergeInv, InTime
      <4>3. CASE j = Len(out) + 1
        BY <1>2, <2>2, <4>1, <4>3
      <4>4. QED
        BY <1>3, <4>2, <4>3
    <3>2. QED
      BY <3>1
  <2>5. ASSUME NEW d \in Merge!Directions, Merge!Left(d)'
        PROVE  /\ \A i \in DOMAIN out' : out'[i].t <= Merge!NextOf(d)'.t
               /\ TimeOf(x) <= Merge!NextOf(d)'.t
    <3>1. Merge!Left(d) /\ Merge!NextOf(d)' = Merge!NextOf(d)
      BY <1>1, <2>5 DEF Merge!Left, Merge!NextOf
    <3>2. TimeOf(x) <= Merge!NextOf(d).t /\ \A i \in DOMAIN out : out[i].t <= Merge!NextOf(d).t
      BY <1>1, <3>1 DEF MergeInv, InTime
    <3>3. QED
      BY <1>2, <1>3, <3>1, <3>2
  <2>6. QED
    BY <1>1, <1>2, <2>1, <2>3, <2>4, <2>5 DEF InTime, TimeOf
<1>7. QED
  BY <1>4, <1>5, <1>6

LEMMA ExpandLosesNothing ==
  ASSUME Merge!PipelineAssumption, MergeInv, NEW x, NEW rest, NEW new, Expands(x, rest, new)
  PROVE  NothingIsLost'
<1>1. /\ UNCHANGED <<framed, merged>> /\ x = stack[1] /\ x \in PlacesIn /\ TimeOf(x) \in Nat
  BY ExpandKeepsTypes DEF Expands
<1>2. /\ Len(out) \in Nat /\ DOMAIN out = 1 .. Len(out) /\ DOMAIN out' = 1 .. (Len(out) + 1)
      /\ \A i \in DOMAIN out : out'[i] = out[i]
      /\ out'[Len(out) + 1].from = x
  BY <1>1, NewOut DEF MergeInv
<1>3. ASSUME NEW d \in Merge!Directions, NEW n \in 1 .. merged[d],
             NEW p \in Merge!Reachable(framed[d][n].shape)
      PROVE  IsOut(d, n, p)' \/ IsToCome(d, n, p)'
  <2>1. CASE IsOut(d, n, p)
    BY <1>2, <2>1 DEF IsOut
  <2>2. ASSUME NEW k \in DOMAIN stack, k > 1, stack[k].direction = d, stack[k].n = n,
               Merge!IsPrefix(stack[k].path, p)
        PROVE  IsToCome(d, n, p)'
    <3>1. PICK l \in DOMAIN rest : rest[l] = stack[k]
      BY <2>2 DEF Expands
    <3>2. Len(new) + l \in DOMAIN stack' /\ stack'[Len(new) + l] = rest[l]
      BY NewStack
    <3>3. QED
      BY <2>2, <3>1, <3>2 DEF IsToCome
  <2>3. ASSUME x.direction = d, x.n = n, Merge!IsPrefix(x.path, p)
        PROVE  IsOut(d, n, p)' \/ IsToCome(d, n, p)'
    <3>1. p \in Merge!Reachable(Merge!Shape(x))
      BY <2>3 DEF Merge!Shape
    <3>2. CASE p = x.path
      <4>1. x = [direction |-> d, n |-> n, path |-> p]
        BY <1>1, <2>3, <3>2 DEF PlacesIn
      <4>2. QED
        BY <1>2, <4>1 DEF IsOut
    <3>3. CASE p # x.path
      <4>1. PICK k \in DOMAIN new : Merge!IsPrefix(new[k].path, p)
        BY <2>3, <3>1, <3>3 DEF Expands, Replaces
      <4>2. new[k].direction = d /\ new[k].n = n
        BY <2>3 DEF Expands, Replaces
      <4>3. k \in DOMAIN stack' /\ stack'[k] = new[k]
        BY NewStack
      <4>4. QED
        BY <4>1, <4>2, <4>3 DEF IsToCome
    <3>4. QED
      BY <3>2, <3>3
  <2>4. IsOut(d, n, p) \/ IsToCome(d, n, p)
    BY DEF MergeInv, NothingIsLost
  <2>5. CASE IsToCome(d, n, p)
    <3>1. PICK k \in DOMAIN stack :
            stack[k].direction = d /\ stack[k].n = n /\ Merge!IsPrefix(stack[k].path, p)
      BY <2>5 DEF IsToCome
    <3>2. k = 1 \/ k > 1
      BY DEF MergeInv, Typed
    <3>3. QED
      BY <1>1, <2>2, <2>3, <3>1, <3>2
  <2>6. QED
    BY <2>1, <2>4, <2>5
<1>4. QED
  BY <1>1, <1>3 DEF NothingIsLost

LEMMA ExpandKeepsMergeInv ==
  ASSUME Merge!PipelineAssumption, MergeInv, Merge!Expand
  PROVE  MergeInv'
<1>1. PICK x, rest, new : Expands(x, rest, new)
  BY ExpandsAPlace
<1>2. QED
  BY <1>1, ExpandKeepsTypes, ExpandKeepsTheStack, ExpandKeepsOut, ExpandLosesNothing DEF MergeInv

LEMMA NextKeepsMergeInv ==
  ASSUME Merge!PipelineAssumption, MergeInv, [Merge!Next]_(Merge!vars)
  PROVE  MergeInv'
<1>1. ASSUME NEW d \in Merge!Directions, NEW t \in Times, NEW shape \in Shapes, NEW skip \in 0 .. 1,
             Merge!Frame(d, t, shape, skip)
      PROVE  MergeInv'
  BY <1>1, FrameKeepsMergeInv
<1>2. ASSUME NEW d \in Merge!Directions, Merge!Take(d) PROVE MergeInv'
  BY <1>2, TakeKeepsMergeInv
<1>3. CASE Merge!Expand
  BY <1>3, ExpandKeepsMergeInv
<1>4. CASE Merge!Merge \/ Merge!Finish
  BY <1>4, PhaseKeepsMergeInv
<1>5. CASE UNCHANGED Merge!vars
  <2>1. UNCHANGED <<merging, framed, merged, stack, out>>
    BY <1>5 DEF Merge!vars
  <2>2. Typed' /\ OfThePhase' /\ FramedInOrder'
    BY <2>1 DEF MergeInv, Typed, OfThePhase, FramedInOrder, Merge!Left
  <2>3. StackIsOfOnePacket' /\ OutIsTaken'
    BY <2>1 DEF MergeInv, StackIsOfOnePacket, OutIsTaken, IsTaken, Merge!Shape, TimeOf
  <2>4. InOrder' /\ InTime'
    BY <2>1 DEF MergeInv, InOrder, InTime, TimeOf, Merge!Left, Merge!NextOf
  <2>5. NothingIsLost'
    BY <2>1 DEF MergeInv, NothingIsLost, IsOut, IsToCome
  <2>6. QED
    BY <2>2, <2>3, <2>4, <2>5 DEF MergeInv
<1>6. QED
  BY <1>1, <1>2, <1>3, <1>4, <1>5 DEF Merge!Next

-----------------------------------------------------------------------------
(* What the merge promises. *)

LEMMA EverythingComesOut ==
  ASSUME Merge!PipelineAssumption, MergeInv, merging = "done"
  PROVE  {out[i].from : i \in DOMAIN out} = Merge!Promised
<1>1. stack = <<>> /\ \A d \in Merge!Directions : merged[d] = Len(framed[d])
  <2>1. ASSUME NEW d \in Merge!Directions PROVE merged[d] = Len(framed[d])
    <3>1. /\ merged[d] \in Nat /\ Len(framed[d]) \in Nat
          /\ merged[d] <= Len(framed[d]) /\ ~(merged[d] < Len(framed[d]))
      BY TimesAreNumbers DEF MergeInv, FramedInOrder, OfThePhase, Merge!Left
    <3>2. QED
      BY <3>1
  <2>2. QED
    BY <2>1 DEF MergeInv, OfThePhase
<1>2. ASSUME NEW i \in DOMAIN out PROVE out[i].from \in Merge!Promised
  <2>1. PICK x \in PlacesIn : x = out[i].from
    BY TimesAreNumbers DEF MergeInv
  <2>2. /\ x.direction \in Merge!Directions /\ x.n \in DOMAIN framed[x.direction]
        /\ x.path \in Merge!Reachable(framed[x.direction][x.n].shape)
    <3>1. IsTaken(x) /\ x.direction \in Merge!Directions /\ x.n \in Nat \ {0}
      BY <2>1 DEF MergeInv, OutIsTaken, PlacesIn
    <3>2. QED
      BY <1>1, <3>1, TimesAreNumbers DEF MergeInv, IsTaken, Merge!Shape
  <2>3. x = [direction |-> x.direction, n |-> x.n, path |-> x.path]
    BY DEF PlacesIn
  <2>4. QED
    BY <2>1, <2>2, <2>3 DEF Merge!Promised
<1>3. ASSUME NEW x \in Merge!Promised PROVE \E i \in DOMAIN out : out[i].from = x
  <2>1. PICK d \in Merge!Directions :
          x \in UNION {{[direction |-> d, n |-> n, path |-> p] :
                         p \in Merge!Reachable(framed[d][n].shape)} :
                       n \in DOMAIN framed[d]}
    BY Zenon DEF Merge!Promised
  <2>2. PICK n \in DOMAIN framed[d] :
          x \in {[direction |-> d, n |-> n, path |-> p] : p \in Merge!Reachable(framed[d][n].shape)}
    BY <2>1, Zenon
  <2>3. PICK p \in Merge!Reachable(framed[d][n].shape) : x = [direction |-> d, n |-> n, path |-> p]
    BY <2>2
  <2>4. n \in 1 .. merged[d]
    BY <1>1, TimesAreNumbers DEF MergeInv
  <2>5. IsOut(d, n, p) \/ IsToCome(d, n, p)
    BY <2>4 DEF MergeInv, NothingIsLost
  <2>6. ~IsToCome(d, n, p)
    BY <1>1 DEF IsToCome
  <2>7. QED
    BY <2>3, <2>5, <2>6 DEF IsOut
<1>4. QED
  BY <1>2, <1>3

LEMMA MergeInvIsEnough ==
  ASSUME Merge!PipelineAssumption, MergeInv
  PROVE  Merge!EverythingOnceInOrder
<1>1. Merge!InTimeOrder
  <2>1. ASSUME NEW i \in DOMAIN out, NEW j \in DOMAIN out, i < j
        PROVE  out[i].t <= out[j].t /\ out[i].seq < out[j].seq
    <3>1. out[i].t <= out[j].t /\ out[i].seq = i - 1 /\ out[j].seq = j - 1
      BY <2>1 DEF MergeInv, InTime, OutIsTaken
    <3>2. i \in Int /\ j \in Int
      BY DEF MergeInv, Typed
    <3>3. QED
      BY <2>1, <3>1, <3>2
  <2>2. QED
    BY <2>1 DEF Merge!InTimeOrder
<1>2. \A i, j \in DOMAIN out :
        LET a == out[i].from b == out[j].from
        IN  i < j /\ a.direction = b.direction =>
              a.n < b.n \/ (a.n = b.n /\ Merge!Before(a.path, b.path))
  BY DEF MergeInv, InOrder, Earlier
<1>3. QED
  BY <1>1, <1>2, EverythingComesOut DEF Merge!EverythingOnceInOrder

LEMMA TheMergeIsKept ==
  /\ Init => MergeInv
  /\ MergeInv /\ [Next]_vars => MergeInv'
<1>1. Init => Merge!Init
  BY DEF Init
<1>2. [Next]_vars => [Merge!Next]_(Merge!vars)
  BY DEF Next, vars, walkVars, keyVars, mergeVars, runVars, Merge!vars
<1>3. QED
  BY <1>1, <1>2, StageAssumption, MergeInitially, NextKeepsMergeInv

\* Whatever the two directions hold, the packets come out as one stream in time
\* order, numbered by position, each once and its contents in its place; a container
\* that fails costs its own contents and nothing else (pipeline.py, packets and
\* _expand).
THEOREM TheMergeIsWhole == Spec => []EverythingOnceInOrder
<1>1. Init => MergeInv
  BY TheMergeIsKept
<1>2. MergeInv /\ [Next]_vars => MergeInv'
  BY TheMergeIsKept
<1>3. MergeInv => EverythingOnceInOrder
  BY StageAssumption, MergeInvIsEnough DEF EverythingOnceInOrder
<1>4. QED
  BY <1>1, <1>2, <1>3, PTL DEF Spec

-----------------------------------------------------------------------------
(* The run: the inductive invariant.  While an event is handed on, who    *)
(* has it is who is no longer to be called; when nobody is, all have it.   *)

\* Who is called with an event: everyone while packets are decoded, then sinks.
CallsAreInTurn ==
  /\ Run!IsInjective(calls)
  /\ calls # <<>> => /\ running \in {"decoding", "draining"} /\ left = <<>> /\ events # <<>>
                     /\ running = "draining" => Run!Range(calls) \subseteq Run!Range(Sinks)

\* What is handed on while packets are decoded is decoded, of decodes that ended
\* well; afterwards it is found.
EventsAreOfThePhase ==
  /\ running = "decoding" => left = <<>>
  /\ \A k \in DOMAIN events : Run!IsFinding(events[k]) <=> running # "decoding"
  /\ running = "decoding" => \A k \in DOMAIN events : events[k].whole
  /\ running = "draining" => Run!Range(left) \subseteq Run!Range(Analyzers)
  /\ running = "closing" => events = <<>> /\ Run!Range(left) \subseteq Run!Range(Sinks)
  /\ running = "done" => events = <<>>

HasIt(r) == calls # <<>> /\ r \notin Run!Range(calls)

Had(r, before) == IF HasIt(r) THEN Append(before, Head(events)) ELSE before

\* All handed on before the current event, and the part decoded.
HandedOn(all, part) ==
  /\ \A s \in Run!Range(Sinks) : given[s] = Had(s, all)
  /\ \A a \in Run!Range(Analyzers) :
       given[a] = IF running = "decoding" THEN Had(a, all) ELSE part
  /\ Run!IsDecodedPart(part, all)
  /\ running = "decoding" => part = all

EveryoneHasTheRest == \E all, part \in Seq(Run!EventRecords) : HandedOn(all, part)

RunInv ==
  /\ Run!TypeOK
  /\ CallsAreInTurn
  /\ EventsAreOfThePhase
  /\ EveryoneHasTheRest
  /\ Run!NoPartOfABadPacket

-----------------------------------------------------------------------------
(* Sequences. *)

LEMMA FirstAndRest ==
  ASSUME NEW S, NEW s \in Seq(S), s # <<>>, Run!IsInjective(s)
  PROVE  /\ Head(s) \in S /\ Tail(s) \in Seq(S)
         /\ Run!IsInjective(Tail(s))
         /\ Head(s) \in Run!Range(s) /\ Head(s) \notin Run!Range(Tail(s))
         /\ \A x : x \in Run!Range(s) <=> x = Head(s) \/ x \in Run!Range(Tail(s))
<1>1. /\ Len(s) \in Nat \ {0} /\ DOMAIN s = 1 .. Len(s) /\ Head(s) = s[1]
      /\ Tail(s) \in Seq(S) /\ DOMAIN Tail(s) = 1 .. (Len(s) - 1)
      /\ \A k \in 1 .. (Len(s) - 1) : Tail(s)[k] = s[k + 1]
  OBVIOUS
<1>2. \A k \in DOMAIN s : s[k] \in S
  OBVIOUS
<1>3. Run!IsInjective(Tail(s)) /\ Head(s) \notin Run!Range(Tail(s))
  BY <1>1 DEF Run!IsInjective, Run!Range
<1>4. ASSUME NEW x PROVE x \in Run!Range(s) <=> x = Head(s) \/ x \in Run!Range(Tail(s))
  <2>1. ASSUME NEW k \in DOMAIN s, x = s[k] PROVE x = Head(s) \/ x \in Run!Range(Tail(s))
    <3>1. CASE k = 1
      BY <1>1, <2>1, <3>1
    <3>2. CASE k # 1
      <4>1. k - 1 \in DOMAIN Tail(s) /\ Tail(s)[k - 1] = x
        BY <1>1, <2>1, <3>2
      <4>2. QED
        BY <4>1 DEF Run!Range
    <3>3. QED
      BY <3>1, <3>2
  <2>2. ASSUME NEW k \in DOMAIN Tail(s), x = Tail(s)[k] PROVE x \in Run!Range(s)
    BY <1>1, <2>2 DEF Run!Range
  <2>3. Head(s) \in Run!Range(s)
    BY <1>1 DEF Run!Range
  <2>4. QED
    BY <2>1, <2>2, <2>3 DEF Run!Range
<1>5. QED
  BY <1>1, <1>2, <1>3, <1>4

LEMMA RestIsAmong ==
  ASSUME NEW S, NEW s \in Seq(S), s # <<>>
  PROVE  /\ Head(s) \in Run!Range(s) /\ Tail(s) \in Seq(S)
         /\ Run!Range(Tail(s)) \subseteq Run!Range(s)
<1>1. /\ 1 \in DOMAIN s /\ Head(s) = s[1] /\ Tail(s) \in Seq(S)
      /\ \A k \in DOMAIN Tail(s) : k + 1 \in DOMAIN s /\ Tail(s)[k] = s[k + 1]
  OBVIOUS
<1>2. QED
  BY <1>1 DEF Run!Range

LEMMA JoinedRange ==
  ASSUME NEW S, NEW s \in Seq(S), NEW t \in Seq(S), Run!IsInjective(s), Run!IsInjective(t),
         Run!Range(s) \intersect Run!Range(t) = {}
  PROVE  /\ s \o t \in Seq(S) /\ Run!Range(s \o t) = Run!Range(s) \union Run!Range(t)
         /\ Run!IsInjective(s \o t)
<1>1. /\ s \o t \in Seq(S) /\ DOMAIN (s \o t) = 1 .. (Len(s) + Len(t))
      /\ DOMAIN s = 1 .. Len(s) /\ DOMAIN t = 1 .. Len(t) /\ Len(s) \in Nat /\ Len(t) \in Nat
      /\ \A k \in 1 .. Len(s) : (s \o t)[k] = s[k]
      /\ \A k \in 1 .. Len(t) : (s \o t)[Len(s) + k] = t[k]
  OBVIOUS
<1>2. ASSUME NEW k \in DOMAIN (s \o t)
      PROVE  \/ k \in DOMAIN s /\ (s \o t)[k] = s[k]
             \/ k - Len(s) \in DOMAIN t /\ (s \o t)[k] = t[k - Len(s)]
  BY <1>1
<1>3. Run!Range(s \o t) = Run!Range(s) \union Run!Range(t)
  <2>1. Run!Range(s \o t) \subseteq Run!Range(s) \union Run!Range(t)
    BY <1>2 DEF Run!Range
  <2>2. Run!Range(s) \subseteq Run!Range(s \o t)
    BY <1>1 DEF Run!Range
  <2>3. ASSUME NEW k \in DOMAIN t PROVE t[k] \in Run!Range(s \o t)
    <3>1. k \in 1 .. Len(t) /\ Len(s) + k \in 1 .. (Len(s) + Len(t))
      BY <1>1
    <3>2. Len(s) + k \in DOMAIN (s \o t) /\ (s \o t)[Len(s) + k] = t[k]
      BY <1>1, <3>1
    <3>3. QED
      BY <3>2 DEF Run!Range
  <2>4. QED
    BY <2>1, <2>2, <2>3 DEF Run!Range
<1>4. Run!IsInjective(s \o t)
  <2>1. SUFFICES ASSUME NEW k \in DOMAIN (s \o t), NEW m \in DOMAIN (s \o t),
                        (s \o t)[k] = (s \o t)[m]
                 PROVE  k = m
    BY DEF Run!IsInjective
  <2>2. CASE k \in DOMAIN s /\ (s \o t)[k] = s[k] /\ m \in DOMAIN s /\ (s \o t)[m] = s[m]
    BY <2>1, <2>2 DEF Run!IsInjective
  <2>3. CASE /\ k - Len(s) \in DOMAIN t /\ (s \o t)[k] = t[k - Len(s)]
             /\ m - Len(s) \in DOMAIN t /\ (s \o t)[m] = t[m - Len(s)]
    <3>1. k - Len(s) = m - Len(s)
      BY <2>1, <2>3 DEF Run!IsInjective
    <3>2. QED
      BY <3>1, <1>1
  <2>4. ASSUME NEW a \in DOMAIN s, NEW b \in DOMAIN t, s[a] = t[b] PROVE FALSE
    BY <2>4 DEF Run!Range
  <2>5. QED
    BY <1>2, <2>1, <2>2, <2>3, <2>4
<1>5. QED
  BY <1>1, <1>3, <1>4

LEMMA OneMore ==
  ASSUME NEW S, NEW s \in Seq(S), NEW x \in S
  PROVE  /\ Append(s, x) \in Seq(S)
         /\ \A y : y \in Run!Range(Append(s, x)) <=> y = x \/ y \in Run!Range(s)
<1>1. /\ Append(s, x) \in Seq(S) /\ DOMAIN Append(s, x) = 1 .. (Len(s) + 1)
      /\ DOMAIN s = 1 .. Len(s) /\ Len(s) \in Nat
      /\ \A k \in 1 .. Len(s) : Append(s, x)[k] = s[k]
      /\ Append(s, x)[Len(s) + 1] = x
  OBVIOUS
<1>2. QED
  BY <1>1 DEF Run!Range

\* A finding given to a sink leaves the decoded part as it was; a decoded event
\* given to all joins it.
LEMMA PartsGrow ==
  ASSUME NEW all \in Seq(Run!EventRecords), NEW part \in Seq(Run!EventRecords),
         Run!IsDecodedPart(part, all),
         NEW ev \in Run!EventRecords
  PROVE  /\ Run!IsFinding(ev) => Run!IsDecodedPart(part, Append(all, ev))
         /\ part = all /\ ~Run!IsFinding(ev) => Run!IsDecodedPart(Append(all, ev), Append(all, ev))
<1> HIDE DEF Run!EventRecords, Run!IsFinding
<1>1. /\ Append(all, ev) \in Seq(Run!EventRecords) /\ DOMAIN Append(all, ev) = 1 .. (Len(all) + 1)
      /\ DOMAIN all = 1 .. Len(all) /\ Len(all) \in Nat /\ Len(Append(all, ev)) = Len(all) + 1
      /\ \A k \in 1 .. Len(all) : Append(all, ev)[k] = all[k]
      /\ Append(all, ev)[Len(all) + 1] = ev
  OBVIOUS
<1>2. ASSUME Run!IsFinding(ev) PROVE Run!IsDecodedPart(part, Append(all, ev))
  <2>1. Len(part) \in Nat /\ Len(part) <= Len(all)
    BY DEF Run!IsDecodedPart, Run!IsPrefix
  <2>2. SubSeq(Append(all, ev), 1, Len(part)) = SubSeq(all, 1, Len(part))
    BY <1>1, <2>1
  <2>3. Run!IsPrefix(part, Append(all, ev))
    BY <1>1, <2>1, <2>2 DEF Run!IsDecodedPart, Run!IsPrefix
  <2>4. QED
    BY <1>1, <1>2, <2>1, <2>3 DEF Run!IsDecodedPart
<1>3. ASSUME part = all, ~Run!IsFinding(ev)
      PROVE  Run!IsDecodedPart(Append(all, ev), Append(all, ev))
  BY <1>1, <1>3 DEF Run!IsDecodedPart, Run!IsPrefix
<1>4. QED
  BY <1>2, <1>3

-----------------------------------------------------------------------------
(* What the steps do to what was given. *)

LEMMA ReceiversAreApart ==
  ASSUME Run!RunnerAssumption
  PROVE  /\ Analyzers \in Seq(Run!Receivers) /\ Sinks \in Seq(Run!Receivers)
         /\ Analyzers \o Sinks \in Seq(Run!Receivers)
         /\ Run!Range(Analyzers \o Sinks) = Run!Receivers
         /\ Run!IsInjective(Analyzers) /\ Run!IsInjective(Sinks)
         /\ Run!IsInjective(Analyzers \o Sinks)
<1>1. Analyzers \in Seq(Run!Receivers) /\ Sinks \in Seq(Run!Receivers)
  BY DEF Run!RunnerAssumption, Run!Receivers
<1>2. /\ Run!Range(Analyzers) \intersect Run!Range(Sinks) = {}
      /\ Run!IsInjective(Analyzers) /\ Run!IsInjective(Sinks)
  BY DEF Run!RunnerAssumption
<1>3. QED
  BY <1>1, <1>2, JoinedRange DEF Run!Receivers

\* Nobody has an event that is about to be handed on.
LEMMA BetweenEvents ==
  ASSUME EveryoneHasTheRest, calls = <<>>, UNCHANGED given,
         running' = "decoding" => running = "decoding",
         calls' # <<>> =>
           \A r \in Run!Receivers :
             r \in Run!Range(Sinks) \/ running' = "decoding" => r \in Run!Range(calls')
  PROVE  EveryoneHasTheRest'
<1>1. PICK all \in Seq(Run!EventRecords), part \in Seq(Run!EventRecords) : HandedOn(all, part)
  BY DEF EveryoneHasTheRest
<1>2. \A r \in Run!Receivers : r \in Run!Range(Sinks) \/ running' = "decoding" => ~HasIt(r)'
  BY DEF HasIt
<1>3. \A r : ~HasIt(r)
  BY DEF HasIt
<1>4. HandedOn(all, part)'
  BY <1>1, <1>2, <1>3 DEF HandedOn, Had, Run!Receivers, Run!IsDecodedPart, Run!IsFinding
<1>5. QED
  BY <1>4 DEF EveryoneHasTheRest, Run!EventRecords, Run!AllModules

LEMMA CallKeepsAll ==
  ASSUME Run!RunnerAssumption, RunInv, NEW raises \in BOOLEAN, Run!Call(raises)
  PROVE  EveryoneHasTheRest'
<1>1. PICK all \in Seq(Run!EventRecords), part \in Seq(Run!EventRecords) : HandedOn(all, part)
  BY DEF RunInv, EveryoneHasTheRest
<1> DEFINE who == Head(calls)
           ev  == Head(events)
<1>2. /\ calls \in Seq(Run!Receivers) /\ calls # <<>> /\ Run!IsInjective(calls)
      /\ events \in Seq(Run!EventRecords) /\ events # <<>> /\ running \in {"decoding", "draining"}
      /\ running = "draining" => Run!Range(calls) \subseteq Run!Range(Sinks)
      /\ Run!IsFinding(events[1]) <=> running # "decoding"
  BY DEF RunInv, Run!TypeOK, CallsAreInTurn, EventsAreOfThePhase, Run!Call
<1>3. /\ who \in Run!Receivers /\ who \in Run!Range(calls)
      /\ \A x : x \in Run!Range(calls) <=> x = who \/ x \in Run!Range(Tail(calls))
      /\ who \notin Run!Range(Tail(calls)) /\ Tail(calls) \in Seq(Run!Receivers)
  BY <1>2, FirstAndRest
<1>4. /\ ev \in Run!EventRecords /\ ev = events[1]
      /\ Run!IsFinding(ev) <=> running # "decoding"
  BY <1>2
<1>5. /\ given' = [given EXCEPT ![who] = Append(@, ev)]
      /\ calls' = Tail(calls) /\ running' = running
      /\ given \in [Run!Receivers -> Seq(Run!EventRecords)]
      /\ Tail(calls) # <<>> => events' = events
  BY DEF Run!Call, RunInv, Run!TypeOK
<1>6. /\ \A s \in Run!Range(Sinks) :
           given[s] = IF s \notin Run!Range(calls) THEN Append(all, ev) ELSE all
      /\ \A a \in Run!Range(Analyzers) :
           given[a] = IF running = "decoding"
                      THEN IF a \notin Run!Range(calls) THEN Append(all, ev) ELSE all
                      ELSE part
      /\ Run!IsDecodedPart(part, all)
      /\ running = "decoding" => part = all
  BY <1>1, <1>2 DEF HandedOn, Had, HasIt
<1>7. /\ \A s \in Run!Range(Sinks) :
           given'[s] = IF s \notin Run!Range(Tail(calls)) THEN Append(all, ev) ELSE all
      /\ \A a \in Run!Range(Analyzers) :
           given'[a] = IF running = "decoding"
                       THEN IF a \notin Run!Range(Tail(calls)) THEN Append(all, ev) ELSE all
                       ELSE part
  <2>1. Run!Range(Analyzers) \intersect Run!Range(Sinks) = {}
    BY DEF Run!RunnerAssumption
  <2>2. \A r \in Run!Receivers : given'[r] = IF r = who THEN Append(given[r], ev) ELSE given[r]
    BY <1>3, <1>5
  <2>3. ASSUME NEW s \in Run!Range(Sinks)
        PROVE  given'[s] = IF s \notin Run!Range(Tail(calls)) THEN Append(all, ev) ELSE all
    BY <1>3, <1>6, <2>2 DEF Run!Receivers
  <2>4. ASSUME NEW a \in Run!Range(Analyzers)
        PROVE  given'[a] = IF running = "decoding"
                           THEN IF a \notin Run!Range(Tail(calls)) THEN Append(all, ev) ELSE all
                           ELSE part
    <3>1. CASE running = "decoding"
      BY <1>3, <1>6, <2>2, <3>1 DEF Run!Receivers
    <3>2. CASE running # "decoding"
      <4>1. a # who
        BY <1>2, <1>3, <2>1, <3>2
      <4>2. QED
        BY <1>6, <2>2, <3>2, <4>1 DEF Run!Receivers
    <3>3. QED
      BY <3>1, <3>2
  <2>5. QED
    BY <2>3, <2>4
<1>8. CASE Tail(calls) # <<>>
  <2>1. /\ \A s \in Run!Range(Sinks) :
             given'[s] = IF calls' # <<>> /\ s \notin Run!Range(calls')
                         THEN Append(all, Head(events')) ELSE all
        /\ \A a \in Run!Range(Analyzers) :
             given'[a] = IF running' = "decoding"
                         THEN IF calls' # <<>> /\ a \notin Run!Range(calls')
                              THEN Append(all, Head(events')) ELSE all
                         ELSE part
    BY <1>5, <1>7, <1>8
  <2>2. Run!IsDecodedPart(part, all) /\ (running' = "decoding" => part = all)
    BY <1>5, <1>6
  <2>3. HandedOn(all, part)'
    BY <2>1, <2>2 DEF HandedOn, Had, HasIt, Run!IsDecodedPart, Run!IsFinding
  <2>4. QED
    BY <2>3 DEF EveryoneHasTheRest, Run!EventRecords, Run!AllModules
<1>9. CASE Tail(calls) = <<>>
  <2>1. PICK more \in Seq(Run!EventRecords) : more = Append(all, ev)
    BY <1>4, OneMore
  <2>2. PICK grown \in Seq(Run!EventRecords) : grown = IF running = "decoding" THEN more ELSE part
    BY <2>1
  <2>3. \A r : r \notin Run!Range(Tail(calls))
    BY <1>9 DEF Run!Range
  <2>4. Run!IsDecodedPart(grown, more)
    <3>1. /\ Run!IsFinding(ev) => Run!IsDecodedPart(part, Append(all, ev))
          /\ part = all /\ ~Run!IsFinding(ev) => Run!IsDecodedPart(Append(all, ev), Append(all, ev))
      BY <1>4, <1>6, PartsGrow, Zenon
    <3>2. CASE running = "decoding"
      BY <1>4, <1>6, <2>1, <2>2, <3>1, <3>2
    <3>3. CASE running # "decoding"
      BY <1>4, <1>6, <2>1, <2>2, <3>1, <3>3
    <3>4. QED
      BY <3>2, <3>3
  <2>5. \A r : Had(r, more)' = more
    BY <1>5, <1>9 DEF Had, HasIt
  <2>6. HandedOn(more, grown)'
    BY <1>5, <1>7, <2>1, <2>2, <2>3, <2>4, <2>5 DEF HandedOn, Run!IsDecodedPart, Run!IsFinding
  <2>7. QED
    BY <2>6 DEF EveryoneHasTheRest, Run!EventRecords, Run!AllModules
<1>10. QED
  BY <1>8, <1>9

-----------------------------------------------------------------------------
(* The invariant is inductive: one lemma per action. *)

LEMMA RunInitially ==
  ASSUME Run!RunnerAssumption, Run!Init
  PROVE  RunInv
<1>1. given = [r \in Run!Receivers |-> <<>>]
  BY ReceiversAreApart DEF Run!Init
<1>2. Run!TypeOK
  BY <1>1 DEF Run!Init, Run!TypeOK, Run!RunStats, Run!RunnerAssumption
<1>3. CallsAreInTurn /\ EventsAreOfThePhase
  BY DEF Run!Init, CallsAreInTurn, EventsAreOfThePhase, Run!IsInjective
<1>4. EveryoneHasTheRest
  <2>1. PICK none \in Seq(Run!EventRecords) : none = <<>>
    <3>1. <<>> \in Seq(Run!EventRecords)
      OBVIOUS
    <3>2. QED
      BY <3>1
  <2>2. Run!IsDecodedPart(none, none)
    BY <2>1 DEF Run!IsDecodedPart, Run!IsPrefix
  <2>3. \A r \in Run!Receivers : given[r] = none /\ ~HasIt(r)
    BY <1>1, <2>1 DEF Run!Init, HasIt
  <2>4. HandedOn(none, none)
    BY <2>2, <2>3 DEF HandedOn, Had, Run!Receivers
  <2>5. QED
    BY <2>4 DEF EveryoneHasTheRest
<1>5. Run!NoPartOfABadPacket
  BY <1>1 DEF Run!NoPartOfABadPacket, Run!Range
<1>6. QED
  BY <1>2, <1>3, <1>4, <1>5 DEF RunInv

LEMMA EventsOfAreEvents ==
  ASSUME Run!RunnerAssumption, Run!TypeOK, NEW by \in Run!AllModules \union Run!Range(Analyzers),
         NEW evs \in Run!Yields, NEW raises \in BOOLEAN
  PROVE  /\ Run!EventsOf(by, evs, raises) \in Seq(Run!EventRecords)
         /\ \A k \in DOMAIN Run!EventsOf(by, evs, raises) :
              /\ Run!EventsOf(by, evs, raises)[k].by = by
              /\ Run!EventsOf(by, evs, raises)[k].whole = ~raises
<1>1. PICK n \in 0 .. MaxYields : evs \in [1 .. n -> Facts]
  BY DEF Run!Yields
<1>2. n \in Nat
  BY DEF Run!RunnerAssumption
<1>3. stats.packets \in 0 .. MaxRead
  BY DEF Run!TypeOK, Run!RunStats
<1>4. \A k \in 1 .. n :
        [packet |-> stats.packets, by |-> by, fact |-> evs[k], whole |-> ~raises]
          \in Run!EventRecords
  BY <1>1, <1>3 DEF Run!EventRecords
<1>5. QED
  BY <1>1, <1>2, <1>4 DEF Run!EventsOf

LEMMA ReadKeeps ==
  ASSUME Run!RunnerAssumption, RunInv, NEW op \in {1, 2}, Run!Read(op)
  PROVE  RunInv'
<1>1. /\ calls = <<>> /\ calls' = <<>> /\ events = <<>>
      /\ UNCHANGED <<running, events, calls, left, given, closed>>
  BY DEF Run!Read, Run!Idle
<1>2. modules' \in Seq(Run!AllModules)
  BY DEF Run!Read, Run!RunnerAssumption
<1>3. stats' \in Run!RunStats
  <2>1. stats \in Run!RunStats /\ MaxRead \in Nat /\ stats.packets < MaxRead
    BY DEF Run!Read, RunInv, Run!TypeOK, Run!RunnerAssumption
  <2>2. \/ stats' = [stats EXCEPT !.packets = @ + 1, !.uncovered = @ + 1]
        \/ stats' = [stats EXCEPT !.packets = @ + 1, !.covered = @ + 1]
    BY DEF Run!Read
  <2>3. /\ stats.packets + 1 \in 0 .. MaxRead
        /\ stats.covered + 1 \in Nat /\ stats.uncovered + 1 \in Nat
    BY <2>1 DEF Run!RunStats
  <2>4. CASE stats' = [stats EXCEPT !.packets = @ + 1, !.uncovered = @ + 1]
    BY <2>1, <2>3, <2>4 DEF Run!RunStats
  <2>5. CASE stats' = [stats EXCEPT !.packets = @ + 1, !.covered = @ + 1]
    BY <2>1, <2>3, <2>5 DEF Run!RunStats
  <2>6. QED
    BY <2>2, <2>4, <2>5
<1>4. EveryoneHasTheRest'
  BY <1>1, BetweenEvents DEF RunInv
<1>5. Run!TypeOK'
  BY <1>1, <1>2, <1>3 DEF RunInv, Run!TypeOK, Run!EventRecords, Run!RunStats,
      Run!AllModules, Run!Receivers
<1>6. CallsAreInTurn' /\ EventsAreOfThePhase'
  BY <1>1 DEF RunInv, CallsAreInTurn, EventsAreOfThePhase, Run!IsInjective
<1>7. Run!NoPartOfABadPacket'
  BY <1>1 DEF RunInv, Run!NoPartOfABadPacket
<1>8. QED
  BY <1>4, <1>5, <1>6, <1>7 DEF RunInv

LEMMA ErrorsAreCounted ==
  ASSUME Run!TypeOK, NEW raises \in BOOLEAN
  PROVE  Run!Errors(IF raises THEN 1 ELSE 0) \in Run!RunStats
<1>1. stats \in Run!RunStats /\ stats.errors \in Nat
  BY DEF Run!TypeOK, Run!RunStats
<1>2. stats.errors + (IF raises THEN 1 ELSE 0) \in Nat
  BY <1>1
<1>3. QED
  BY <1>1, <1>2 DEF Run!Errors, Run!RunStats

LEMMA DecodeKeeps ==
  ASSUME Run!RunnerAssumption, RunInv, running = "decoding", modules # <<>>, Run!Idle,
         NEW evs \in Run!Yields, NEW raises \in BOOLEAN, Run!Decode(evs, raises)
  PROVE  RunInv'
<1>1. /\ calls = <<>> /\ calls' = <<>>
      /\ modules \in Seq(Run!AllModules) /\ Head(modules) \in Run!AllModules
      /\ modules' \in Seq(Run!AllModules)
      /\ UNCHANGED <<running, calls, left, given, closed>>
  BY DEF Run!Decode, Run!Idle, RunInv, Run!TypeOK
<1>2. /\ events' \in Seq(Run!EventRecords)
      /\ \A k \in DOMAIN events' : ~Run!IsFinding(events'[k]) /\ events'[k].whole
  <2>1. Head(modules) \notin Run!Range(Analyzers)
    BY <1>1 DEF Run!RunnerAssumption
  <2>2. CASE raises = TRUE
    BY <2>2 DEF Run!Decode
  <2>3. CASE raises = FALSE
    <3>1. events' = Run!EventsOf(Head(modules), evs, FALSE)
      BY <2>3 DEF Run!Decode
    <3>2. /\ events' \in Seq(Run!EventRecords)
          /\ \A k \in DOMAIN events' : events'[k].by = Head(modules) /\ events'[k].whole = ~FALSE
      BY <1>1, <3>1, EventsOfAreEvents DEF RunInv
    <3>3. QED
      BY <2>1, <3>2 DEF Run!IsFinding
  <2>4. QED
    BY <2>2, <2>3
<1>3. stats' \in Run!RunStats
  BY ErrorsAreCounted DEF Run!Decode, RunInv
<1>4. EveryoneHasTheRest'
  BY <1>1, BetweenEvents DEF RunInv
<1>5. Run!TypeOK'
  BY <1>1, <1>2, <1>3 DEF RunInv, Run!TypeOK, Run!EventRecords, Run!RunStats,
      Run!AllModules, Run!Receivers
<1>6. CallsAreInTurn'
  BY <1>1 DEF RunInv, CallsAreInTurn, Run!IsInjective
<1>7. EventsAreOfThePhase'
  BY <1>1, <1>2 DEF RunInv, EventsAreOfThePhase, Run!IsFinding
<1>8. Run!NoPartOfABadPacket'
  BY <1>1 DEF RunInv, Run!NoPartOfABadPacket, Run!IsFinding
<1>9. QED
  BY <1>4, <1>5, <1>6, <1>7, <1>8 DEF RunInv

\* Pass and PassFinding.
LEMMA HandToKeeps ==
  ASSUME Run!RunnerAssumption, RunInv, left = <<>>, calls = <<>>, events # <<>>,
         NEW receivers, Run!HandTo(receivers),
         \/ receivers = <<>> /\ running \in {"decoding", "draining"}
         \/ receivers = Analyzers \o Sinks /\ running = "decoding"
         \/ receivers = Sinks /\ running = "draining",
         stats' \in Run!RunStats,
         UNCHANGED <<running, modules, left, given, closed>>
  PROVE  RunInv'
<1>1. EveryoneHasTheRest'
  BY BetweenEvents, ReceiversAreApart DEF RunInv, Run!HandTo
<1>2. /\ calls' = receivers /\ calls' \in Seq(Run!Receivers) /\ Run!IsInjective(calls')
      /\ calls' # <<>> => events' = events
      /\ events' \in Seq(Run!EventRecords)
      /\ \A k \in DOMAIN events' : \E n \in DOMAIN events : events'[k] = events[n]
  <2>1. receivers \in Seq(Run!Receivers) /\ Run!IsInjective(receivers)
    <3>1. <<>> \in Seq(Run!Receivers) /\ Run!IsInjective(<<>>)
      BY DEF Run!IsInjective
    <3>2. QED
      BY <3>1, ReceiversAreApart
  <2>2. /\ events \in Seq(Run!EventRecords) /\ Tail(events) \in Seq(Run!EventRecords)
        /\ \A k \in DOMAIN Tail(events) : k + 1 \in DOMAIN events /\ Tail(events)[k] = events[k + 1]
    BY DEF RunInv, Run!TypeOK
  <2>3. QED
    BY <2>1, <2>2 DEF Run!HandTo
<1>3. Run!TypeOK'
  BY <1>2 DEF RunInv, Run!TypeOK, Run!EventRecords, Run!RunStats, Run!AllModules, Run!Receivers
<1>4. CallsAreInTurn'
  BY <1>2, ReceiversAreApart DEF CallsAreInTurn, RunInv
<1>5. EventsAreOfThePhase'
  BY <1>2 DEF RunInv, EventsAreOfThePhase, Run!IsFinding
<1>6. Run!NoPartOfABadPacket'
  BY DEF RunInv, Run!NoPartOfABadPacket, Run!IsFinding
<1>7. QED
  BY <1>1, <1>3, <1>4, <1>5, <1>6 DEF RunInv

LEMMA PassKeeps ==
  ASSUME Run!RunnerAssumption, RunInv, Run!Pass
  PROVE  RunInv'
<1> DEFINE takes == Run!Accept(Head(events).fact)
<1>1. PICK receivers : /\ receivers = IF takes THEN Analyzers \o Sinks ELSE <<>>
                       /\ Run!HandTo(receivers)
  BY DEF Run!Pass
<1>2. stats' \in Run!RunStats
  <2>1. stats \in Run!RunStats /\ stats.events + 1 \in Nat
    BY DEF RunInv, Run!TypeOK, Run!RunStats
  <2>2. stats.emitted + (IF takes THEN 1 ELSE 0) \in Nat
    BY DEF RunInv, Run!TypeOK, Run!RunStats
  <2>3. stats' = [stats EXCEPT !.events = @ + 1, !.emitted = @ + (IF takes THEN 1 ELSE 0)]
    BY DEF Run!Pass
  <2> HIDE DEF takes
  <2>4. QED
    BY <2>1, <2>2, <2>3 DEF Run!RunStats
<1>3. left = <<>>
  BY DEF Run!Pass, RunInv, EventsAreOfThePhase
<1>4. QED
  BY <1>1, <1>2, <1>3, HandToKeeps DEF Run!Pass

LEMMA PassFindingKeeps ==
  ASSUME Run!RunnerAssumption, RunInv, Run!PassFinding
  PROVE  RunInv'
<1>1. stats' \in Run!RunStats
  <2>1. stats \in Run!RunStats /\ stats.findings + 1 \in Nat
    BY DEF RunInv, Run!TypeOK, Run!RunStats
  <2>2. QED
    BY <2>1 DEF Run!PassFinding, Run!RunStats
<1>2. QED
  BY <1>1, HandToKeeps DEF Run!PassFinding

LEMMA CallKeeps ==
  ASSUME Run!RunnerAssumption, RunInv, NEW raises \in BOOLEAN, Run!Call(raises)
  PROVE  RunInv'
<1>1. /\ calls \in Seq(Run!Receivers) /\ calls # <<>> /\ Run!IsInjective(calls)
      /\ events \in Seq(Run!EventRecords) /\ events # <<>> /\ running \in {"decoding", "draining"}
      /\ left = <<>>
      /\ running = "draining" => Run!Range(calls) \subseteq Run!Range(Sinks)
  BY DEF RunInv, Run!TypeOK, CallsAreInTurn, Run!Call
<1>2. /\ Head(calls) \in Run!Receivers
      /\ \A x : x \in Run!Range(Tail(calls)) => x \in Run!Range(calls)
      /\ calls' \in Seq(Run!Receivers) /\ Run!IsInjective(calls')
  BY <1>1, FirstAndRest DEF Run!Call
<1>3. Head(events) \in Run!EventRecords /\ Head(events) = events[1] /\ 1 \in DOMAIN events
  BY <1>1
<1>4. /\ events' \in Seq(Run!EventRecords)
      /\ \A k \in DOMAIN events' : \E n \in DOMAIN events : events'[k] = events[n]
      /\ calls' # <<>> => events' = events
  <2>1. /\ Tail(events) \in Seq(Run!EventRecords)
        /\ \A k \in DOMAIN Tail(events) : k + 1 \in DOMAIN events /\ Tail(events)[k] = events[k + 1]
    BY <1>1
  <2>2. QED
    BY <1>1, <2>1 DEF Run!Call
<1>5. /\ given \in [Run!Receivers -> Seq(Run!EventRecords)]
      /\ given' = [given EXCEPT ![Head(calls)] = Append(@, Head(events))]
      /\ UNCHANGED <<running, modules, left, closed>>
  BY DEF RunInv, Run!TypeOK, Run!Call
<1>6. Append(given[Head(calls)], Head(events)) \in Seq(Run!EventRecords)
  BY <1>2, <1>3, <1>5, OneMore
<1>7. stats' \in Run!RunStats
  BY ErrorsAreCounted DEF Run!Call, RunInv
<1>8. Run!TypeOK'
  BY <1>2, <1>4, <1>5, <1>6, <1>7 DEF RunInv, Run!TypeOK, Run!EventRecords, Run!RunStats,
      Run!AllModules, Run!Receivers
<1>9. CallsAreInTurn'
  BY <1>1, <1>2, <1>4, <1>5 DEF CallsAreInTurn, Run!Call
<1>10. EventsAreOfThePhase'
  BY <1>4, <1>5 DEF RunInv, EventsAreOfThePhase, Run!IsFinding
<1>11. Run!NoPartOfABadPacket'
  <2>1. Run!IsFinding(Head(events)) \/ Head(events).whole
    BY <1>1, <1>3 DEF RunInv, EventsAreOfThePhase
  <2>2. SUFFICES ASSUME NEW r \in Run!Receivers, NEW ev \in Run!Range(given'[r])
                 PROVE  Run!IsFinding(ev) \/ ev.whole
    BY <1>5 DEF Run!NoPartOfABadPacket, Run!IsFinding
  <2>3. CASE r = Head(calls)
    <3>1. given'[r] = Append(given[r], Head(events))
      BY <1>5, <2>3
    <3>2. ev = Head(events) \/ ev \in Run!Range(given[r])
      BY <1>3, <1>5, <3>1, OneMore
    <3>3. QED
      BY <1>5, <2>1, <3>2 DEF RunInv, Run!NoPartOfABadPacket
  <2>4. CASE r # Head(calls)
    BY <1>5, <2>4 DEF RunInv, Run!NoPartOfABadPacket
  <2>5. QED
    BY <2>3, <2>4
<1>12. EveryoneHasTheRest'
  BY CallKeepsAll
<1>13. QED
  BY <1>8, <1>9, <1>10, <1>11, <1>12 DEF RunInv

LEMMA DrainKeeps ==
  ASSUME Run!RunnerAssumption, RunInv, running = "draining", left # <<>>,
         NEW evs \in Run!Yields, NEW raises \in BOOLEAN, Run!Drain(evs, raises)
  PROVE  RunInv'
<1>1. /\ calls = <<>> /\ calls' = <<>>
      /\ left \in Seq(Run!Receivers) /\ left' \in Seq(Run!Receivers)
      /\ UNCHANGED <<running, modules, calls, given, closed>>
  BY DEF Run!Drain, RunInv, Run!TypeOK, CallsAreInTurn
<1>2. Head(left) \in Run!Range(Analyzers) /\ Run!Range(left') \subseteq Run!Range(Analyzers)
  <2>1. /\ Run!Range(left) \subseteq Run!Range(Analyzers) /\ left' = Tail(left)
    BY DEF RunInv, EventsAreOfThePhase, Run!Drain
  <2>2. QED
    BY <1>1, <2>1, RestIsAmong
<1>3. /\ events' \in Seq(Run!EventRecords)
      /\ \A k \in DOMAIN events' : Run!IsFinding(events'[k])
  <2>1. PICK more \in Seq(Run!EventRecords) :
          /\ events' = events \o more
          /\ \A k \in DOMAIN more : more[k].by = Head(left)
    <3>1. /\ Run!EventsOf(Head(left), evs, raises) \in Seq(Run!EventRecords)
          /\ \A k \in DOMAIN Run!EventsOf(Head(left), evs, raises) :
               Run!EventsOf(Head(left), evs, raises)[k].by = Head(left)
      BY <1>2, EventsOfAreEvents DEF RunInv
    <3>2. events' = events \o Run!EventsOf(Head(left), evs, raises)
      BY DEF Run!Drain
    <3>3. QED
      BY <3>1, <3>2
  <2>2. events \in Seq(Run!EventRecords) /\ \A k \in DOMAIN events : Run!IsFinding(events[k])
    BY DEF RunInv, Run!TypeOK, EventsAreOfThePhase
  <2>3. \A k \in DOMAIN more : Run!IsFinding(more[k])
    BY <1>2, <2>1 DEF Run!IsFinding
  <2>4. /\ events \o more \in Seq(Run!EventRecords)
        /\ \A k \in DOMAIN (events \o more) :
             \/ k \in DOMAIN events /\ (events \o more)[k] = events[k]
             \/ k - Len(events) \in DOMAIN more /\ (events \o more)[k] = more[k - Len(events)]
    BY <2>2
  <2>5. QED
    BY <2>1, <2>2, <2>3, <2>4
<1>4. stats' \in Run!RunStats
  BY ErrorsAreCounted DEF Run!Drain, RunInv
<1>5. EveryoneHasTheRest'
  BY <1>1, BetweenEvents DEF RunInv
<1>6. Run!TypeOK'
  BY <1>1, <1>3, <1>4 DEF RunInv, Run!TypeOK, Run!EventRecords, Run!RunStats,
      Run!AllModules, Run!Receivers
<1>7. CallsAreInTurn'
  BY <1>1 DEF RunInv, CallsAreInTurn, Run!IsInjective
<1>8. EventsAreOfThePhase'
  BY <1>1, <1>2, <1>3 DEF RunInv, EventsAreOfThePhase, Run!IsFinding
<1>9. Run!NoPartOfABadPacket'
  BY <1>1 DEF RunInv, Run!NoPartOfABadPacket, Run!IsFinding
<1>10. QED
  BY <1>5, <1>6, <1>7, <1>8, <1>9 DEF RunInv

LEMMA CloseKeeps ==
  ASSUME Run!RunnerAssumption, RunInv, NEW raises \in BOOLEAN, Run!Close(raises)
  PROVE  RunInv'
<1>1. /\ calls = <<>> /\ calls' = <<>>
      /\ left \in Seq(Run!Receivers) /\ left' \in Seq(Run!Receivers)
      /\ UNCHANGED <<running, modules, events, calls, given>>
  BY DEF Run!Close, RunInv, Run!TypeOK, CallsAreInTurn
<1>2. Head(left) \in Run!Range(Sinks) /\ Run!Range(left') \subseteq Run!Range(Sinks)
  <2>1. /\ Run!Range(left) \subseteq Run!Range(Sinks) /\ left' = Tail(left)
    BY DEF RunInv, EventsAreOfThePhase, Run!Close
  <2>2. left # <<>>
    BY DEF Run!Close
  <2>3. QED
    BY <1>1, <2>1, <2>2, RestIsAmong
<1>3. closed' \subseteq Run!Range(Sinks)
  BY <1>2 DEF Run!Close, RunInv, Run!TypeOK
<1>4. stats' \in Run!RunStats
  BY ErrorsAreCounted DEF Run!Close, RunInv
<1>5. EveryoneHasTheRest'
  BY <1>1, BetweenEvents DEF RunInv
<1>6. Run!TypeOK'
  BY <1>1, <1>3, <1>4 DEF RunInv, Run!TypeOK, Run!EventRecords, Run!RunStats,
      Run!AllModules, Run!Receivers
<1>7. CallsAreInTurn'
  BY <1>1 DEF RunInv, CallsAreInTurn, Run!IsInjective
<1>8. EventsAreOfThePhase'
  BY <1>1, <1>2 DEF RunInv, EventsAreOfThePhase, Run!IsFinding, Run!Close
<1>9. Run!NoPartOfABadPacket'
  BY <1>1 DEF RunInv, Run!NoPartOfABadPacket, Run!IsFinding
<1>10. QED
  BY <1>5, <1>6, <1>7, <1>8, <1>9 DEF RunInv

\* The steps from one phase to the next.
LEMMA TurningKeeps ==
  ASSUME Run!RunnerAssumption, RunInv, Run!EndOfPackets \/ Run!StartClosing \/ Run!Return
  PROVE  RunInv'
<1>1. /\ calls = <<>> /\ calls' = <<>> /\ events = <<>> /\ running' # "decoding"
      /\ running' \in {"draining", "closing", "done"}
      /\ UNCHANGED <<modules, events, calls, given, closed, stats>>
  BY DEF Run!EndOfPackets, Run!StartClosing, Run!Return, Run!Idle, RunInv,
      CallsAreInTurn, EventsAreOfThePhase
<1>2. left' \in Seq(Run!Receivers)
  BY ReceiversAreApart DEF Run!EndOfPackets, Run!StartClosing, Run!Return, RunInv, Run!TypeOK
<1>3. EveryoneHasTheRest'
  BY <1>1, BetweenEvents DEF RunInv
<1>4. Run!TypeOK'
  BY <1>1, <1>2 DEF RunInv, Run!TypeOK, Run!EventRecords, Run!RunStats, Run!AllModules,
      Run!Receivers
<1>5. CallsAreInTurn'
  BY <1>1 DEF RunInv, CallsAreInTurn, Run!IsInjective
<1>6. EventsAreOfThePhase'
  BY <1>1 DEF EventsAreOfThePhase, Run!IsFinding, Run!EndOfPackets, Run!StartClosing, Run!Return
<1>7. Run!NoPartOfABadPacket'
  BY <1>1 DEF RunInv, Run!NoPartOfABadPacket, Run!IsFinding
<1>8. QED
  BY <1>3, <1>4, <1>5, <1>6, <1>7 DEF RunInv

LEMMA NextKeepsRunInv ==
  ASSUME Run!RunnerAssumption, RunInv, [Run!Next]_(Run!vars)
  PROVE  RunInv'
<1>1. CASE \E op \in {1, 2} : Run!Read(op)
  BY <1>1, ReadKeeps
<1>2. CASE /\ running = "decoding" /\ modules # <<>> /\ Run!Idle
           /\ \E evs \in Run!Yields, raises \in BOOLEAN : Run!Decode(evs, raises)
  BY <1>2, DecodeKeeps
<1>3. CASE Run!Pass
  BY <1>3, PassKeeps
<1>4. CASE Run!PassFinding
  BY <1>4, PassFindingKeeps
<1>5. CASE \E raises \in BOOLEAN : Run!Call(raises)
  BY <1>5, CallKeeps
<1>6. CASE Run!EndOfPackets \/ Run!StartClosing \/ Run!Return
  BY <1>6, TurningKeeps
<1>7. CASE /\ running = "draining" /\ left # <<>>
           /\ \E evs \in Run!Yields, raises \in BOOLEAN : Run!Drain(evs, raises)
  BY <1>7, DrainKeeps
<1>8. CASE \E raises \in BOOLEAN : Run!Close(raises)
  BY <1>8, CloseKeeps
<1>9. CASE UNCHANGED Run!vars
  <2>1. Run!TypeOK' /\ CallsAreInTurn' /\ EventsAreOfThePhase' /\ Run!NoPartOfABadPacket'
    BY <1>9 DEF RunInv, Run!vars, Run!TypeOK, CallsAreInTurn, EventsAreOfThePhase,
        Run!NoPartOfABadPacket,
       Run!IsFinding, Run!EventRecords, Run!RunStats, Run!AllModules, Run!Receivers
  <2>2. EveryoneHasTheRest'
    BY <1>9 DEF RunInv, Run!vars, EveryoneHasTheRest, HandedOn, Had, HasIt,
        Run!IsDecodedPart, Run!IsFinding,
       Run!EventRecords, Run!AllModules
  <2>3. QED
    BY <2>1, <2>2 DEF RunInv
<1>10. QED
  BY <1>1, <1>2, <1>3, <1>4, <1>5, <1>6, <1>7, <1>8, <1>9 DEF Run!Next

LEMMA EveryoneHasTheSame ==
  ASSUME RunInv
  PROVE  Run!EveryoneIsGivenTheSame
<1>1. PICK all \in Seq(Run!EventRecords), part \in Seq(Run!EventRecords) : HandedOn(all, part)
  BY DEF RunInv, EveryoneHasTheRest
<1>2. SUFFICES ASSUME calls = <<>>
               PROVE  \A s \in Run!Range(Sinks) :
                        /\ \A r \in Run!Range(Sinks) : given[r] = given[s]
                        /\ \A a \in Run!Range(Analyzers) : Run!IsDecodedPart(given[a], given[s])
  BY DEF Run!EveryoneIsGivenTheSame
<1>3. /\ \A s \in Run!Range(Sinks) : given[s] = all
      /\ \A a \in Run!Range(Analyzers) : given[a] = part
      /\ Run!IsDecodedPart(part, all)
  BY <1>1, <1>2 DEF HandedOn, Had, HasIt
<1>4. QED
  BY <1>3

-----------------------------------------------------------------------------

LEMMA TheRunIsKept ==
  /\ Init => RunInv
  /\ RunInv /\ [Next]_vars => RunInv'
<1>1. Init => Run!Init
  BY DEF Init
<1>2. [Next]_vars => [Run!Next]_(Run!vars)
  BY DEF Next, vars, walkVars, keyVars, mergeVars, runVars, Run!vars
<1>3. QED
  BY <1>1, <1>2, StageAssumption, RunInitially, NextKeepsRunInv

\* Whoever raises, between two events every sink was given the same ones in the same
\* order, and every analyzer the decoded ones among them, findings after (dispatch.py,
\* Runner.run).
THEOREM NobodyMissesAnEvent == Spec => []EveryoneIsGivenTheSame
<1>1. Init => RunInv
  BY TheRunIsKept
<1>2. RunInv /\ [Next]_vars => RunInv'
  BY TheRunIsKept
<1>3. RunInv => EveryoneIsGivenTheSame
  BY StageAssumption, EveryoneHasTheSame DEF EveryoneIsGivenTheSame
<1>4. QED
  BY <1>1, <1>2, <1>3, PTL DEF Spec

\* A handler that raises halfway leaves none of its events with anyone: the generator
\* is exhausted before anything is handed on (dispatch.py, Runner.run).
THEOREM NothingOfABadPacket == Spec => []NoPartOfABadPacket
<1>1. Init => RunInv
  BY TheRunIsKept
<1>2. RunInv /\ [Next]_vars => RunInv'
  BY TheRunIsKept
<1>3. RunInv => NoPartOfABadPacket
  BY DEF RunInv, NoPartOfABadPacket
<1>4. QED
  BY <1>1, <1>2, <1>3, PTL DEF Spec
=============================================================================
