---------------------------- MODULE KeyRecovery ----------------------------
(***************************************************************************)
(* The session key read off the client's own headers, and checked against  *)
(* the server's (wire/crypt.py, recover_session_key and _walk_server).     *)
(*                                                                         *)
(* Recovery counts client messages by the chunks of the reassembled        *)
(* stream, and each message uses the key slots after the last one's.  A    *)
(* chunk that is not one message, or a message that left no chunk, shifts  *)
(* every later slot, and nothing in the client's bytes shows it.  Headers  *)
(* are scaled: the client's is size, opcode and one known zero (the        *)
(* code's six bytes end in two), the server's size and opcode.             *)
(***************************************************************************)
EXTENDS Integers, FiniteSets, Sequences, SequencesExt

CONSTANTS
  ByteModulus, Xor(_, _),   \* bytes, and their exclusive or
  KeyLen, Keys,             \* SESSION_KEY_LEN, and the session keys tried
  Ceiling,                  \* the opcode table's highest
  ClientMessages,           \* <<opcode, body>> of the client's messages
  ServerMessages,           \* <<opcode, body>> of the server's
  Checked,                  \* SERVER_HEADERS_CHECKED
  MaxClient, MaxServer,     \* bounds: messages each side sends
  MaxOdd                    \* bound: messages not captured as a chunk of their own

Byte == 0 .. (ByteModulus - 1)
ClientHeaderLen == 3
ServerHeaderLen == 2

\* The key slot of the known zero of chunk n, when each before it was a message.
SlotOfChunk(n) == ((n - 2) * ClientHeaderLen + ClientHeaderLen - 1) % KeyLen

\* Enough headers have a known zero under every slot (the code's last two of six
\* bytes, at steps of six through forty slots, do too).
KeyAssumption ==
  /\ ByteModulus \in Nat \ {0}
  /\ \A a, b \in Byte : Xor(a, b) \in Byte /\ Xor(Xor(a, b), b) = a
  /\ \A b \in Byte : Xor(0, b) = b
  /\ KeyLen \in Nat \ {0} /\ Keys \subseteq [0 .. (KeyLen - 1) -> Byte]
  /\ \A slot \in 0 .. (KeyLen - 1) : \E n \in 2 .. (KeyLen + 1) : SlotOfChunk(n) = slot
  /\ Ceiling \in Byte
  /\ \A m \in ClientMessages :
       m[1] \in Byte /\ m[2] \in Seq(Byte) /\ Len(m[2]) + 2 \in Byte
  /\ \A m \in ServerMessages :
       m[1] \in 0 .. Ceiling /\ m[2] \in Seq(Byte) /\ Len(m[2]) + 1 \in Byte
  /\ Checked \in Nat /\ MaxClient \in Nat /\ MaxServer \in Nat /\ MaxOdd \in Nat

VARIABLES
  phase,            \* "sending", "recovering", "checking", "returned", "refused"
  key,              \* the true key
  client, server,   \* each peer: how many messages it sent, and its last cipher byte
  chunks,           \* Stream.segments of the client
  heard,            \* the server stream, up to its first gap
  odd, clean,       \* messages that are not chunks of their own; chunks before the first
  guess, known,     \* the key so far, and which slots of it are known
  next, idx,        \* the chunk the loop is at, and its first key slot
  at, used,         \* the check: next header's offset, cipher bytes used
  feedback, checked \* its last cipher byte, headers checked

vars == <<phase, key, client, server, chunks, heard, odd, clean, guess, known, next, idx,
          at, used, feedback, checked>>

captured == <<key, client, server, chunks, heard, odd, clean>>
recovery == <<guess, known, next, idx>>
check    == <<at, used, feedback, checked>>

Init ==
  /\ phase = "sending"
  /\ key \in Keys
  /\ client = [sent |-> 0, j |-> 0] /\ server = [sent |-> 0, j |-> 0]
  /\ chunks = <<>> /\ heard = <<>> /\ odd = 0 /\ clean = 0
  /\ guess = [k \in 0 .. (KeyLen - 1) |-> 0] /\ known = {}
  /\ next = 2 /\ idx = 0
  /\ at = 0 /\ used = 0 /\ feedback = 0 /\ checked = 0

-----------------------------------------------------------------------------
(* The peers and the capture, external. *)

\* The header of a peer's next message; the first is plaintext.
Header(peer, plain) ==
  LET slot(n) == key[((peer.sent - 1) * Len(plain) + n - 1) % KeyLen]
      cipher[n \in 0 .. Len(plain)] ==
        IF n = 0 THEN peer.j ELSE (Xor(plain[n], slot(n)) + cipher[n - 1]) % ByteModulus
  IN  IF peer.sent = 0 THEN plain ELSE [n \in 1 .. Len(plain) |-> cipher[n]]

After(peer, header) ==
  [sent |-> peer.sent + 1, j |-> IF peer.sent = 0 THEN 0 ELSE header[Len(header)]]

\* A client message is normally one segment; it may share the last one's, be
\* cut in two, or be lost.
ClientSends(opcode, body) ==
  LET header  == Header(client, <<Len(body) + 2, opcode, 0>>)
      message == header \o body
  IN
  /\ phase = "sending"
  /\ client.sent < MaxClient
  /\ client' = After(client, header)
  /\ \/ /\ chunks' = Append(chunks, message)
        /\ clean' = IF odd = 0 THEN clean + 1 ELSE clean
        /\ UNCHANGED odd
     \/ /\ odd < MaxOdd
        /\ odd' = odd + 1
        /\ \/ chunks # <<>> /\ chunks' = [chunks EXCEPT ![Len(chunks)] = @ \o message]
           \/ \E cut \in 1 .. (Len(message) - 1) :
                chunks' = chunks \o <<SubSeq(message, 1, cut),
                                      SubSeq(message, cut + 1, Len(message))>>
           \/ UNCHANGED chunks
        /\ UNCHANGED clean
  /\ UNCHANGED <<phase, key, server, heard, recovery, check>>

ServerSends(opcode, body) ==
  LET header == Header(server, <<Len(body) + 1, opcode>>)
  IN
  /\ phase = "sending"
  /\ server.sent < MaxServer
  /\ server' = After(server, header)
  /\ heard' = heard \o header \o body
  /\ UNCHANGED <<phase, key, client, chunks, odd, clean, recovery, check>>

\* The capture ends; what it has of the server ends at a gap, or not at all.
CaptureEnds ==
  /\ phase = "sending"
  /\ \E n \in 1 .. Len(heard) : heard' = SubSeq(heard, 1, n)
  /\ phase' = "recovering"
  /\ UNCHANGED <<key, client, server, chunks, odd, clean, recovery, check>>

-----------------------------------------------------------------------------
(* recover_session_key. *)

\* Mutant: the header's first slot.
SlotAtStart == idx

\* The key slot of a header's known zero, and the first slot of the next header.
Slot     == (idx + ClientHeaderLen - 1) % KeyLen
NextSlot == (idx + ClientHeaderLen) % KeyLen

TakeChunk ==
  LET c == chunks[next]
  IN
  /\ phase = "recovering"
  /\ next <= Len(chunks)
  /\ IF Len(c) >= ClientHeaderLen /\ Slot \notin known
     THEN /\ guess' = [guess EXCEPT ![Slot] =
                         (c[ClientHeaderLen] - c[ClientHeaderLen - 1]) % ByteModulus]
          /\ known' = known \union {Slot}
     ELSE UNCHANGED <<guess, known>>
  /\ idx' = NextSlot
  /\ next' = next + 1
  /\ IF known' = 0 .. (KeyLen - 1)
     THEN /\ phase' = "checking"
          /\ at' = heard[1] + 1       \* past the plaintext first message
          /\ UNCHANGED <<used, feedback, checked>>
     ELSE UNCHANGED <<phase, check>>
  /\ UNCHANGED captured

TooFewChunks ==
  /\ phase = "recovering"
  /\ next > Len(chunks)
  /\ phase' = "refused"
  /\ UNCHANGED <<captured, recovery, check>>

\* Mutant: feedback carried from the last header.
OpcodeFedBack == Xor((heard[at + 2] - feedback) % ByteModulus, guess[(used + 1) % KeyLen])

\* _walk_server, one header.
Size   == Xor((heard[at + 1] - feedback) % ByteModulus, guess[used % KeyLen])
Opcode == Xor((heard[at + 2] - heard[at + 1]) % ByteModulus, guess[(used + 1) % KeyLen])

Fails == Size < 1 \/ Opcode > Ceiling

HeadersLeft == checked < Checked /\ at + ServerHeaderLen <= Len(heard)

CheckHeader ==
  /\ phase = "checking"
  /\ HeadersLeft
  /\ checked' = checked + 1
  /\ used' = used + ServerHeaderLen
  /\ feedback' = heard[at + 2]
  /\ IF Fails
     THEN phase' = "refused" /\ UNCHANGED at
     ELSE at' = at + 1 + Size /\ UNCHANGED phase
  /\ UNCHANGED <<captured, recovery>>

ReturnKey ==
  /\ phase = "checking"
  /\ ~HeadersLeft
  /\ phase' = "returned"
  /\ UNCHANGED <<captured, recovery, check>>

Next ==
  \/ \E m \in ClientMessages : ClientSends(m[1], m[2])
  \/ \E m \in ServerMessages : ServerSends(m[1], m[2])
  \/ CaptureEnds
  \/ TakeChunk \/ TooFewChunks
  \/ CheckHeader \/ ReturnKey

Spec == Init /\ [][Next]_vars

-----------------------------------------------------------------------------
TypeOK ==
  /\ phase \in {"sending", "recovering", "checking", "returned", "refused"}
  /\ key \in Keys
  /\ {client, server} \subseteq [sent : Nat, j : Byte]
  /\ chunks \in Seq(Seq(Byte)) /\ heard \in Seq(Byte)
  /\ odd \in 0 .. MaxOdd
  /\ guess \in [0 .. (KeyLen - 1) -> Byte]
  /\ known \subseteq 0 .. (KeyLen - 1)
  /\ next \in Nat /\ idx \in 0 .. (KeyLen - 1)
  /\ at \in Nat /\ used \in Nat /\ feedback \in Byte /\ checked \in 0 .. Checked

\* Every slot read from a chunk before the first that is not one message is right,
\* and stays right whatever later chunks hold: the first reading of a slot wins.
CleanChunksReadTheKey ==
  \A n \in 2 .. clean : n < next => guess[SlotOfChunk(n)] = key[SlotOfChunk(n)]

\* Whatever the chunks, the check turns down no key that is right; and when every
\* client message is a chunk of its own, recovery is refused only for want of
\* messages: with one per key slot, and any server stream from the session's
\* start, the key is returned.
TheRightKeyIsNeverRefused ==
  phase = "refused" =>
    /\ guess # key \/ known # 0 .. (KeyLen - 1)
    /\ odd = 0 => client.sent < 1 + KeyLen
=============================================================================
