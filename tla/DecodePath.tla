----------------------------- MODULE DecodePath -----------------------------
(***************************************************************************)
(* From the reassembled streams to the sinks: the session key, the walk    *)
(* over each direction, the merge of the two, and the run over the packets *)
(* (cli.py, _packet_source and cmd_decode).                                *)
(*                                                                         *)
(* No stage feeds anything back to the one before it, so each is followed  *)
(* on its own, under everything the stage before may hand it: the walk and *)
(* the key take any stretch of any session with bytes lost, the merge any  *)
(* packets with times forward, the run any packets that may all fail.      *)
(***************************************************************************)
EXTENDS Integers, Sequences

CONSTANTS
  Stages,         \* those followed, of: key, walk, merge, run
  None,
  ByteModulus, Xor(_, _), Ceiling,
  WalkKeys, Bodies, Losses(_), WalkMessages,
  SessionKeys, ClientMessages, ServerMessages, Checked, MaxClient, MaxServer, MaxOdd,
  MaxExpansionDepth, Shapes, Times, MaxMerged,
  Handlers, Only, Analyzers, Sinks, Facts, Filters, MaxRead, MaxYields

VARIABLES stage,
  walking, walkKey, bytes, sent, peer, origin, length, unseen, pos, seq, cipher, yielded, log,
  recovering, key, client, server, chunks, heard, odd, clean, guess, known, next, idx, at,
  used, feedback, checked,
  merging, framed, merged, stack, out, errors,
  running, modules, events, calls, left, given, closed, stats

walkVars == <<walking, walkKey, bytes, sent, peer, origin, length, unseen, pos, seq, cipher,
              yielded, log>>
keyVars == <<recovering, key, client, server, chunks, heard, odd, clean, guess, known, next,
             idx, at, used, feedback, checked>>
mergeVars == <<merging, framed, merged, stack, out, errors>>
runVars == <<running, modules, events, calls, left, given, closed, stats>>
vars == <<stage, walkVars, keyVars, mergeVars, runVars>>

Walk == INSTANCE Framing WITH
  phase <- walking, key <- walkKey, KeyLen <- 3, Keys <- WalkKeys, Bootstrap <- 1,
  Opcodes <- {1, 2}, MaxMessages <- WalkMessages
Key == INSTANCE KeyRecovery WITH
  phase <- recovering, KeyLen <- 4, Keys <- SessionKeys
Merge == INSTANCE Pipeline WITH
  phase <- merging, MaxPackets <- MaxMerged
Run == INSTANCE Runner WITH
  phase <- running, Opcodes <- {1, 2}, MaxPackets <- MaxRead

ASSUME StageAssumption ==
  /\ Walk!FramingAssumption /\ Key!KeyAssumption
  /\ Merge!PipelineAssumption /\ Run!RunnerAssumption

Init ==
  /\ stage \in Stages
  /\ Walk!Init /\ Key!Init /\ Merge!Init /\ Run!Init

Next ==
  /\ UNCHANGED stage
  /\ \/ /\ stage = "key" /\ Key!Next
        /\ UNCHANGED <<walkVars, mergeVars, runVars>>
     \/ /\ stage = "walk" /\ Walk!Next
        /\ UNCHANGED <<keyVars, mergeVars, runVars>>
     \/ /\ stage = "merge" /\ Merge!Next
        /\ UNCHANGED <<walkVars, keyVars, runVars>>
     \/ /\ stage = "run" /\ Run!Next
        /\ UNCHANGED <<walkVars, keyVars, mergeVars>>

\* The process goes on running.
Spec == Init /\ [][Next]_vars /\ WF_vars(Next)
-----------------------------------------------------------------------------
(* What each stage promises; the modules say it in full. *)

\* Of the walk: until it logs an error, what it yields is the session, and if it
\* logs none, all of it.
SilentMeansRight == Walk!SilentMeansRight

\* Of the walk: no byte of a gap is decoded, and a gap in a body costs that message
\* and no other.
GapsCostOnlyTheirMessages == Walk!GapsCostOnlyTheirMessages

\* Of key recovery: up to the first chunk that is not one message, every key byte
\* read is right, and stays so.
CleanChunksReadTheKey == Key!CleanChunksReadTheKey

\* Of key recovery: a right key is never turned down, and with a message per chunk
\* and one per slot there is one.
TheRightKeyIsNeverRefused == Key!TheRightKeyIsNeverRefused

\* Of the merge: one stream in time order, everything once, contents in place.
EverythingOnceInOrder == Merge!EverythingOnceInOrder

\* Of the run: whoever raises, nobody misses an event for it.
EveryoneIsGivenTheSame == Run!EveryoneIsGivenTheSame

\* Of the run: no event of a decode that failed reaches anyone.
NoPartOfABadPacket == Run!NoPartOfABadPacket

\* Of the run: it ends with every sink closed, whatever raised.
EverySinkIsClosed == stage = "run" => Run!EverySinkIsClosed
=============================================================================
