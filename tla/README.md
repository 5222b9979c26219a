# A verification project for tortoise-capture-tools

`tortoise-capture` (`tct`) turns a packet capture of a World of Warcraft session into facts and
proposed database rows: it reassembles TCP, recovers the session key from the client's own
headers, decrypts and frames the messages, decodes them, correlates them over time and writes text,
SQL and migrations. This directory holds TLA+ models of the parts in which an error would be silent
(a wrong value that looks like a right one), the TLC configurations that check them, and TLAPS
proofs. Every definition was translated from the Python source; `PROJECT.json` gives, for each, the
lines it stands for.

## 1. Inventory

Data flows one way; nothing runs in parallel within a run. What makes the program hard is that its
input is an adversary by nature: segments lost, repeated, re-cut and out of order, messages the
capture never saw, creatures that die out of sight. The only concurrency is between runs: two on one
capture, or on one cache directory, a run that is killed, and a checkout that is edited while a run
parses it.

| Component (`src/tortoise_capture/`) | State it keeps | Operations | Interacts with | What makes it correct |
|---|---|---|---|---|
| TCP reassembly, `wire/pcap.py` | buffer, breakpoints, chunks, gaps | sort, absorb a segment, `time_at`, `unseen` | feeds framing (bytes, times, gaps) and key recovery (chunks) | each captured byte once in its place; gaps exactly the unseen bytes; times forward; one chunk per message when cuts are clean |
| Key recovery, `wire/crypt.py` | key bytes known so far, slot cursor; the check's cipher | take a chunk, check a header | reads chunks of C2S, stream of S2C | clean chunks give right bytes; a right key is never refused |
| Framing and cipher, `wire/framing.py`, `wire/crypt.py` | offset, packet number, cipher feedback | open, step, stop at a desync | reads one Stream, yields Packets | no error logged means the packets are the session's; no gap decoded; a gap costs its own message |
| Packet pipeline, `core/pipeline.py`, `modules/compressed.py` | merge heads, expansion stack, running index | merge, expand | two walks, registry's containers | time order, everything once, contents in place |
| Dispatch, `core/dispatch.py` | statistics, pending events | decode, filter, feed, handle, finish, close | modules, analyzers, sinks: any call may raise | a failure costs only itself; all sinks given the same; all closed |
| Deaths and revivals, `core/contracts.py` | deaths, timed deaths, revivals, alive | see an event, pick the sighting after a death | used by behaviour, patrol, spawn, stats | every recorded death is real and counted once |
| Slim copy, what is kept, `wire/slim.py` | records, the plan | plan, write | the reader's own choice of server, client and clock | the copy is read exactly as the original |
| Slim copy, publishing, `cli.py` | three file names, the error count | write, verify, rename, replace, clean up | the file system, other runs, interrupts | the only record of a session is never lost |
| Opcode and field tables, `wire/opcodes.py`, `fields/tables.py` | a stamped JSON cache each | look, stamp, read the cache, parse, store | the checkout parsed; other runs through the cache | the table a run uses is its checkout's, whatever was cached |
| Registry and bases, `core/registry.py`, `core/base.py` | modules by opcode | discover, resolve | start-up only | static checks |
| Reader and modules, `core/reader.py`, `modules/*.py`, `fields/values.py` | none | decode one body | pure functions | byte layouts: unit tests |
| Behaviour, `analyze/behaviour.py` | per spawn: triggers, texts, casts, creates, a Lifeline | feed, finish | Lifeline; findings go back to the sinks | a finding follows from what was seen |
| Patrol, `analyze/patrol.py` | hops, clusters, engagements | feed, walk, refuse | Lifeline | a route is one the creature walked |
| Author rules, `author/*.py` | per-spawn and per-entry facts, cast ledger | handle, then rows and gaps | Lifeline, world database, findings | what is proposed was observed; what was not is said to be missing |
| Rows already stored, `author/existing.py` | none | `only_new` | each rule's rows, the world database | no row is overwritten, none left hanging off a row held back |
| Sinks, `emit/*.py` | buffered rows | handle, close | files | every row in the file, with its own columns |
| Configuration, `config.py` | levels of settings, which are named | resolve | every command | the last word said counts, a default is no word |
| World database, logging: `world.py`, `dbc.py`, `log.py` | caches of DESCRIBE; the error count | query, mute | author rules; exit codes | a failed query fails the run |

The list of hazards, line by line, with the properties that watch each, is in `PROJECT.json`
("hazards"); those without a property say why.

## 2. Plan

Order: the byte path first, for everything downstream trusts it; then the one place where a user's
data could be destroyed; then the correlation layers.

| Step | Modules | State |
|---|---|---|
| 1 | `Reassembly`, abstract `ByteStream` | done, proved but for the sum over gaps and the chunks' concatenation |
| 2 | `Framing`, `KeyRecovery` | done, proved |
| 3 | `SlimPlan`, `SlimPublish` | done, `SlimPublish` proved |
| 4 | `Pipeline`, `Runner` | done, safety proved |
| 5 | `Lifeline`, `Stats` (the lives of a spawn), `Creature` (a creature's life and what is read of it: gaps, lives, late sightings, map) | done, proved |
| 6 | `Behaviour` over `Lifeline`: engagements, delays, intervals, triggers, sounds | done, proved |
| 7 | `Patrol`: combat windows, repeats, the walk and what it refuses | done, model-checked |
| 8 | `AuthorBase`, `Spells`, `Equipment`, `Dialogue`, `SpawnRows`, `StatsRows`, `Existing`, and `Author`, which composes them with the writer | done, model-checked |
| 9 | `Settings`, `Startup` (two table caches among several runs) | done, proved |
| 10 | `DecodePath`: the stages from the reassembled streams to the sinks | done, safety proved |
| 11 | Proofs of the lives, over `Creature`, `Lifeline` and `Stats` | done |

Abstract specifications: `ByteStream` (what reassembly promises its readers) is stated, and
implemented. Worth stating: a message stream that `Framing` implements until it logs.

Theorems worth proving, in order: reassembly's faithfulness and refinement; `OutIsVerified`,
`TheSessionSurvives` and `TheExitCodeIsTrue` for one shell; `TheTableIsTheCheckouts` for any number of
shells, checkouts and edits; `SilentMeansRight` from an invariant on the cipher's feedback and
offset; `CleanChunksReadTheKey` and `TheRightKeyIsNeverRefused` for every key length;
`EveryoneIsGivenTheSame`; `EverythingOnceInOrder` for any contents and depth; all seven properties of
`Creature`, from one invariant on what a `Lifeline` has recorded of it. All of these are proved
(section 5). Left: of the pure operators, that what `HeldKeys` lets through hangs off nothing held.

## 3. The modules

Modules contain, next to the definition it alters, an operator whose comment starts with "Mutant":
a plausible bug of the code behind that definition. Nothing uses it in the specification; putting
it in the definition's place must make the property named in `PROJECT.json` fail, which shows that
the property can.

**`Reassembly`** is `_reassemble` and `Stream`. The sender's stream is positions 0 ..
`StreamLen - 1`; a byte is its own position, so "the right byte" can be said, and a gap's filler is
`Zero`. `Capture` lets the capture catch any segment in any order; a capture time is a place in
`capture`. `Begin` is the sort and the choice of `start`; `Absorb(i)`, a turn of the loop
(lines 105-121): gap, fresh bytes, breakpoint, chunk. `Offset` is the code's signed distance
modulo 2^32 (`SeqModulus`). `pending` stands for the rest of the sorted list.

**`ByteStream`** is the promise to readers: a buffer that only grows at its end, each byte in its
place or a hole, under a clock that only advances. `Reassembly!Reader` is the refinement mapping.

**`Framing`** is `walk` with `HeaderCrypt`. The peer (`Send`, external) encrypts with the real
cipher; `Captured` picks any stretch of it with bytes lost inside, which is what `Reassembly`'s
`StreamIsWhatWasCaptured` says a stream is. `Open`, `Step`, `DesyncOpcode`, `DesyncLength`,
`TooShort` and `Finish` are the function's exits and its loop. A header is a size byte and an
opcode byte; size counts the opcode, as on the wire.

**`KeyRecovery`** is `recover_session_key` (`TakeChunk`, `TooFewChunks`) and the check of its
result against the server (`CheckHeader`, `ReturnKey`). Client messages normally arrive one per
chunk; up to `MaxOdd` share a chunk, are cut in two or leave none. The check always has a server and
a ceiling: without the one nothing is checked, without the other no opcode is above it, and fewer than
two bytes hold no header; none of these refuses a key.

**`SlimPlan`** is `plan`, `write`, `world_server` and the reader's `_world` and `read_session`, over
records abstracted to who talks to whom and what a logon reply lists. **`SlimPublish`** is the
path of the copy to disk as a state machine over names and files: POSIX renames move names, an
open file stays the file that was opened. `faithful` and `clean` are the two facts about the
data that the path depends on: whether the copy decodes as the original and whether decoding
logs an error. A rename is a step (`published` follows the first, `leave` the second), and so are
the handler that removes the temporary file (`cleanup`) and `main`'s return (`leave`), so that what
goes wrong can come between any two of them. `Fault` is an OSError; `Interrupt`, a KeyboardInterrupt
before any step: inside the try it goes to the handler, outside it to `main`, in the handler it
leaves the temporary file, and in `main`'s own handler or tail it ends the process. A run's `code` is what
it returns: "ok" (0), "errors" (`EXIT_WITH_ERRORS`), "fatal" and "interrupted" (both `EXIT_FATAL`, the
second with the word "interrupted" logged), or "killed". `Kill` ends the process and not the machine: nothing
is synced before a rename (slim.py:315, cli.py:244, 465), and what is left on the disk after a power
loss is outside the model. Of `decode`'s own work, which follows the copy, only its errors are here.

**`Pipeline`** is `packets` and `_expand`. What a packet holds is a prefix-closed set of paths, the
last number of each its place in its container (`PipelineAssumption`); the recursion of `_expand` is
`stack`. `Frame` is `walk` as seen from here: times forward,
numbers rising with holes. That times go forward is assumed here and is what `Reassembly`'s
`TimesAreTrue` shows.

**`Runner`** is `Runner.run`. Each call into a module, an analyzer or a sink is a step that may
raise. An event carries the packet it came from, its producer and whether the producer ended well,
so that "a part of a bad packet" can be recognised at the sinks. Findings carry the id of their own
analyzer, as those of all the repository's analyzers do; one that names no analyzer would reach no sink
(dispatch.py:181-182).

**`Lifeline`** is `Lifeline.see` and `create_after_a_death`: a record and one operator per kind of
event. **`Creature`** drives it by a creature that lives, dies and respawns on the server (external)
while a player sees some of it and the capture loses some of that; the world's actions say which
messages follow. Its `RespawnGaps` are what `Behaviour._respawn` makes of the record, `Late` what
`_Spawn.late_by` makes of those, and `MapSeen` the map `Spawn.handle` keeps; the player changes map
only while the creature is out of sight, and the capture has every map message. **`Stats`** is how the
stats rule tells lives apart, for one field rolled at every respawn, whose value is here the number
of respawns before it.
`CreatureAssumption` has a respawn last longer than two coincidences: `_by_health` survives a
revival (contracts.py:302-306), so a kill message that came before its own HEALTH block could
otherwise redate the death before. Game respawns take longer.

**`Behaviour`** is `analyze/behaviour.py` over the same `Lifeline`: `feed` one operator per kind of
event, `finish` as operators on what was seen (`FreshEngagements`, `InitialDelays`, `Repeats`,
`Credited`, `SoundsFor`). The spawns (external) engage from rest, are aggroed again, cast, evade
without a packet, die with or without a kill message and respawn; they may have been fighting before
the capture. The engagements they really had are `fights`, which the analyzer never sees.

**`DecodePath`** puts the four stages a reassembled stream passes through beside one another:
`KeyRecovery`, `Framing`, `Pipeline` and `Runner`, each instantiated with variables of its own. No
stage feeds anything back, so the composition is by what each promises the next: a behaviour
follows one stage (`stage`), given everything the one before may hand it. What `Framing` takes is
what `Reassembly`'s `StreamIsWhatWasCaptured` says a stream is; what `Pipeline` takes, numbers rising
with holes under times that go forward, is what `Framing`'s packets and `TimesAreTrue` come to;
what `Runner` takes is any sequence of packets.

**`Patrol`** is `analyze/patrol.py` over `Lifeline`, for one creature: `feed` keeps hops, creates,
engagements and the life, and the operators are `_Route`'s methods: `InCombat`, `Calm`, `Ordered`,
`StillHops`, `WanderHops`, `Repeated`, `WalksALine`, `Anchor`, `Walk`, `DropsPoints`, and `Refusal`,
the chain of conditions in `finish`. The creature (external) walks one of `Paths`, pauses and wanders at
some points, is drawn into fights and chased off, returns, dies in and out of sight and respawns at
its start; any hop may be unseen. A point is a name, since clustering is floating point;
fractions are in percent.

**The author rules.** `AuthorBase` is what the rules inherit and ask (a row is a function from
columns to a value and its source; a gap is a triple), and each rule has a module of operators on a
record of its own: `Spells`, `Equipment`, `Dialogue`, `SpawnRows`, `StatsRows`. For each event of the
rule's `handle` there is an operator on the record, and `...Rows` and `...Gaps` are its `rows` and
`gaps` against a database `w`: absent, empty, holding some keys, with tables that could not be
described or queries that raise. `Existing` is `only_new`. **`Author`** is the state machine:
a capture fills the records (one `subject` per behaviour, for the rules read disjoint events and
share nothing but the database), then `AuthorFile` is the loop of `cmd_author` over all five rules,
the collector, the migration's statements and the exit code. It is one action because it is
sequential code that nothing can interleave with. `truth` is what the creature did
(which casts it began, what it held, what the database it runs on says), which the rules never see.

**`Settings`** is `RunConfig.resolve` for a path (`repo`) and a port: a file, the environment and
the flags, each of which may give either or a value of the wrong type. **`Startup`** has
several shells run `tct` on one cache directory: `Resolve`, then `load` a step at a time (`Begin`,
`Look`, `Stat`, `ReadCache`, `Read`, `Open`, `Write`), between any two of which a checkout may be
edited, a file of it removed, `tct` upgraded, another run go on, or this one be killed. A behaviour follows one
of the two tables, which are loaded by the same steps but for the stamp: the field table's has the
parser's version, the opcode table's does not. A file's version stands for its size and time, so
versions of different checkouts are assumed to be told apart; a copy that keeps the times
(`cp -a`) and then differs in content of equal length would not be. `Look` asks for all of the files
at once (opcodes.py:66 asks for one and then the other): a file that goes after it is found missing
by `Stat` or `Read`, the same whichever was asked for first.

## 4. The runs

| Run | What it shows | Bounds, and why they are enough |
|---|---|---|
| `reassembly` | all properties of `Reassembly`, and the refinement of `ByteStream` | four bytes, four segments: enough for a gap between two segments, a retransmit over both edges of it, a segment inside another and a duplicate, all orders; sequence space of 8 with a wrap inside the stream. The theorems need no bound. |
| `decode_path` | stage by stage: clean chunks give right key bytes, and a right key is never refused; silence of the walk means the session, and gaps cost their message; one stream in order; failures are isolated | *key*: four bytes with headers of three (the slots come round in four messages), six client messages so that every slot is read again, one odd message, three server headers. *walk*: four messages, two-bit bytes, key of three (no multiple of a header), up to two lost bytes: a loss in a size, an opcode, the feedback byte, a body, and in two messages at once. *merge*: two packets each way with equal times and skipped numbers; depth limit two with contents nested three deep and a failing container between good ones. *run*: two packets, two modules on one opcode, one opcode uncovered by `--only`, two analyzers, two sinks, every call raising or not |
| `creature` | what is read from the wire happened, once; no respawn gap is short; late sightings are late, lives are told apart, a row's map is the creature's | two deaths, three live sightings, seven moments of time, respawn after three or more: two full lives after the first, with a witness late by the whole coincidence window, a revival seen before the CREATE that is judged late, and a corpse of either life |
| `behaviour` | delays and intervals are one fight's; lines and sounds go to their own | one spawn for five ticks with four packets among aggros, casts and stray sounds: two lives with a cast in each, or an evade between two casts; two spawns (a TLC constraint) for three ticks and three packets, which is where lines of several speakers meet |
| `patrol` | a chase's hops are never calm; a pause is not a repeat; a confident route is the path | five paths of three or four points: a loop, there and back, one point come to twice, one held twice, one with a pause to wander in; nine hops, three laps of a path of three; two odd things (a missed hop, a chase, a draw, a sighting) among them, so that a refusal has a cause and a chase a return |
| `author` | every row in the file or said to be held; nothing hangs off a held row; no silent default; slots, items, paths and stored values are the creature's | two casters and three spells, of which two fit the slots; two hands and items that share a display; a template with decimals, hidden flags and a scale of 0; two lines, said or yelled, of two triggers; two spawns, one watched through several deaths. Three or four events of each kind (six for spawns, the rarer ones weighing more), which is what the longest chains need: start, go and a stray go; create, change and create; a death, a late sighting and a third |
| `startup` | the table a run uses is its checkout's; a default setting is no name | two shells, three runs, two edits, one upgrade, two checkouts on one cache: a run between the halves of another's load, and a third that meets what both left |
| `slim_plan` | the copy reads as the original | four records of nine kinds: logon list, two clients, two realms, a foreign connection and a non-TCP record, in any order of time |
| `slim_publish` | the capture survives every failure, interrupt and kill; what is published is verified; an exit code, but an interrupt's, says whether the capture was replaced | four runs of any command, one after another: a run can meet what a killed one left behind, and what the run after that made of it. An interrupt before each step, the handlers and the return after a rename included |

Every run turns the deadlock check off, since each of these programs ends; a walk or a run
that stopped in the middle would show in `SilentMeansRight`, which asks for all of the session at the
end, in `EverythingOnceInOrder` or in `EverySinkIsClosed`.

*Fairness.* Only `DecodePath` assumes any: weak fairness of its next-state relation, that the process
goes on running, over packets that end and calls that return or raise. It is what
`EverySinkIsClosed` needs, and all the code gives: an interrupt or a kill ends the run with no
sink closed, and is outside that claim.

### Runs that end in a violation

Each checks one sentence of the repository that the code does not keep; `PROJECT.json` ("findings")
quotes it.

- `behaviour_one_shot`: an aggro and the death it brings share a timestamp, the fight is then taken to
  end at the next life's death, and takes that life's first cast for its own.
- `startup_unsaid`: the field table is cached even when parsing it logged an error, and every later
  run uses the unreliable table from the cache, with nothing said and exit code 0.
- `slim_publish_two_runs`: overlapping runs share the temporary name, and one can empty the file
  the other has verified just before it replaces the original.

Some smaller departures from what comments say are left without a run.

- *Reassembly, framing.* Of two copies with one sequence number a longer one caught later sorts
  first (pcap.py:93) and dates bytes that were readable before; times still only go forward and are
  never too early (`TimesAreTrue`). The first message of a direction is yielded before
  the checks for gaps and for running past the end (framing.py:82), with nothing logged;
  `FromTheStart` leaves such a stream aside.
- *Behaviour.* An evade before the first cast gives one sample measured from the first fight, where
  `_fresh_engagements` speaks of "fewer samples than it could. Fewer, never wrong"
  (behaviour.py:314-316). `InitialDelaysAreTrue` shows that apart from this, the one-shot kill above
  and a fight that was on before the capture every delay is right.
- *Lives.* A creature that dies, stands again in sight (a VALUES block) and is next seen as a corpse
  of that later life is compared with the life before: a corpse's CREATE starts no life
  (stats.py:187); `LivesAreToldApart` speaks of CREATEs of it standing. And `create_after_a_death`
  takes the earliest death that has a CREATE after it, so when that death was followed by a revival
  in sight and by another death, a CREATE at the second respawn is called late (spawn.py:122):
  `LateIsLate` can only say it came long after the creature was back from the first.
- *Patrol.* "Combat detours drop out on their own" (patrol.py:25) holds when the legs of the path are
  seen more often than the detours, which is how `ConfidentRoutesAreThePath` is stated.
- *Author.* A spawn said to be "only ever seen lying dead" may have been seen to revive by a VALUES
  block. A creature re-armed between two sightings with an item of the same display shows no change;
  `TheItemIsTheOneHeld` then speaks of the display. An UPDATE may point a template at spell rows that were
  held back because the database has the list. The delays' repeat bounds are rounded to the nearest
  second, the initial ones outward, and only these bracket what was seen. `authored_id` numbers lines
  from `entry * 100`, so an entry with more than 99 lines would reach the next entry's.
- *Publishing.* An interrupt after `slim --replace` has renamed the copy over the capture and before
  `main` returns (cli.py:465-467, 525-527) exits `EXIT_FATAL` (cli.py:516-518) with the capture
  replaced, where README.md:122-124 says that the original stays unless it was swapped after a clean
  run; the copy is verified and the run was clean, so nothing is lost, and `TheExitCodeIsTrue` claims
  nothing of an interrupted run. An interrupt within the handler that removes the temporary file, or a
  failure of the removal, leaves that file (cli.py:245-247); the next run empties it and uses its name.
  "Nothing about it may cost the command its real work" (cli.py:255-256) is said of the copy that
  `decode` leaves beside a capture, but only SlimError is caught from its plan, which reads the capture
  a second time (cli.py:260-264, slim.py:116), and only OSError from what follows (cli.py:272): when that
  reading fails (`Fault` at "plan"), or another run has torn the temporary file (the last disjunct of
  `Verify`), the command ends "fatal" with none of its own work done.
- *Start-up.* A cache that is valid JSON but no object raises out of `load` (opcodes.py:76), where
  every other unusable cache is reparsed; `Unusable` is the caches `load` survives.

## 5. The proofs

Each proof module extends the module it is about, states the inductive invariant `IInv` in named
parts, has one lemma per action (and under it a step per part of the invariant that the action can
disturb), and ends in theorems of the specification. A property that a run checks is never
inductive here; what the invariant has to add is said below. The bounds of the runs (`MaxRuns`,
`MaxMessages`, ...) are any natural numbers in the theorems.

| Module | Theorems, beside `InvariantHolds` | Assumed |
|---|---|---|
| `ReassemblyProofs` | `TypeCorrect`, `StreamIsFaithful`, `TheTimesAreTrue`, `GapsAreTrue`, `ChunksAreSegments`, `StreamIsAByteStream` (the refinement) | `StreamAssumption` |
| `FramingProofs` | `TheSilentWalkIsRight`, `AGapCostsItsMessage` | `FramingAssumption` |
| `KeyRecoveryProofs` | `CleanChunksGiveTheKey`, `ARightKeyPasses` | `KeyAssumption` |
| `DecodePathProofs` | `TheMergeIsWhole`, `NobodyMissesAnEvent`, `NothingOfABadPacket`, and the four of these two modules, of the whole path | `StageAssumption` |
| `CreatureProofs` | `EveryRecordIsReal`, `NoneIsMissed`, `NoGapIsShort`, `LateMeansLate`, `EachLifeIsItsOwn`, `TheMapIsItsOwn`, `TypesAreKept` | `CreatureAssumption`, `LifelineAssumption` |
| `BehaviourProofs` | `DelaysAreOfOneFight`, `IntervalsAreOfOneFight`, `LinesAnswerTheirTrigger`, `SoundsGoWithTheirLine` | `BehaviourAssumption`, `LifelineAssumption` |
| `SlimPublishProofs` | `TheCopyIsVerified`, `TheSessionIsNeverLost`, `TheExitCodeSaysWhatWasDone` | `OneShell`, `PublishAssumption` |
| `StartupProofs` | `TheTableIsTheirs`, `ADefaultNamesNothing` | `StartupAssumption`, `SettingsAssumption` |

**Reassembly**, for every stream length, modulus, initial sequence number and number of segments.
`StreamAssumption` says that the conversation is shorter than half the sequence space, which is what
reading distances as signed numbers requires.
`Offset` is a modular expression; the first lemma shows that for any two captured
segments it is simply the difference of their positions. From there the invariant has
these parts besides the types. `SequenceNumbersAreTrue`: a captured segment's number is the one its
place gives it. `Span`: the stream starts at the segment that sorts first and runs to `end`,
where some absorbed segment ends and none beyond. `AbsorbedInOrder`: no absorbed segment starts
after a pending one, the fact that makes a byte skipped now impossible to come later. `Contents`: a
buffer cell is its own position, carried by a segment, or a hole that no absorbed segment carries
and every pending one starts beyond. `Clock`: `latest` bounds every breakpoint's time.
`StreamIsWhatWasCaptured` alone is
not inductive: it speaks of the finished stream, and only the order of absorption rules out that a
pending segment belongs in a hole already passed. `Absorb` is the only step with work to do;
its cases are a segment beyond the end, one that overlaps it and one that is wholly inside.

Three more invariants rest on that one, each with its own step lemma for `Absorb`.
`TimesAreOfTheBytes`: every byte that is there was captured by the time of some breakpoint at or
before it; as breakpoints' times never fall, the time `time_at` finds for a byte is late enough for
it and for all before it (`TheTimesAreTrue`). `GapsAreTheZeros`: the recorded gaps lie in the
buffer, apart from each other, and are exactly its zeros (`GapsAreTrue`: with `StreamIsFaithful`, the
bytes nobody carried). `ChunksAreRuns`: each chunk is a run of positions from where a segment starts,
chunks are in order, the last ends where the buffer does, and when all is cut alike they are the
segments absorbed (`ChunksAreSegments`). The case that matters is a segment that starts before the
end: if all is cut alike it repeats the last one that reached the end, so nothing of it is fresh and
no chunk grows (`OverlapsAreCopies`); the number of chunks follows from the bijection between chunks
and intervals.

**Framing**, for every byte width, exclusive or (any operation that undoes itself), key, session,
stretch captured and loss. `FramingAssumption` has the session's own opcodes within the ceiling,
which is how the code chooses it (the opcode table's highest); a size fits its field. The walk is
right because the chaining takes nothing from a body: `SessionIsWritten` says with which cipher
state (`CipherAt`) the peer wrote each header, and `OnMessages` that while the log is
empty, or holds only gaps and every header was captured (`Follows`), the walk stands at the end of
message `seq` with exactly the state that the next header was written with. `WholeSession` and
`GapsCounted` relate what was yielded and logged to the messages passed. `MovesForward` needs none
of this: a misled walk still frames disjoint stretches. `SilentMeansRight` alone is not inductive, for
it says nothing of the offset and the cipher, on which the next packet depends.

**Key recovery**, for every key length and key, client and server session, and way of cutting chunks.
`KeyAssumption` asks that the known zeros come round to every slot within as many messages as there
are slots, as they do for forty slots and headers of six bytes with two zeros, and that the server's
opcodes are within the ceiling. `ChunksAreMessages` ties chunk n to message n up to the first odd
one, and `SlotsAreRead` the loop's slot counter to the chunk it is at; the key bytes known are right
until then, and since a slot is written once, stay so. For the check, `ServerIsHeard` says that there
are `starts` of the server's messages (a witness the code never has) with which each header, read
with the true key and the feedback of the header before, gives its own size and opcode, and that with
the right key the check stands at the next of them.

**The run**, for any modules, analyzers, sinks and filters, and whatever raises.
`EveryoneHasTheRest`: while an event is handed on, whoever is no longer to be called has it (even one
that raised was called); but for it, all sinks have the same and each analyzer its decoded part.
`EveryoneIsGivenTheSame` itself speaks only of the moments between two events.
`RunnerAssumption`, a part of `StageAssumption`, has the modules, analyzers and sinks be different objects, each registered once.
That what `--only` keeps of a sequence is a sequence of the same modules (`Chosen`) is assumed, for
the prover knows nothing of `SelectSeq`; TLC evaluates it.

**The merge**, for any times, gaps in the numbering, contents and depth, the contents finite. The
merge is read off a stack, so the invariant is about it. `StackIsOfOnePacket`: what is on it is of
the packet last taken, and of two places on it the upper comes first in the packet (`Diverges`, so
that the same holds of everything below them). `InOrder`: everything that came out is before all of
it. `InTime`: of what came out, what is on the stack and what either direction has left, none is
later than one further on, which is where `Precedes` and the order within a direction come in.
`NothingIsLost`: whatever a packet taken should come to has come out or hangs below a place on the
stack. The step with work to do is `Expand`: a place gives way to its contents, which are all that
hangs below it and as many as `Contents` counts (`HeldAreNumbered`, by cardinality), or to nothing,
when by `Reachable` nothing below it was promised (`StoppingReplaces`). `EverythingOnceInOrder`
speaks of what is out alone, and so of nothing the next step depends on.

**The decode path.** `DecodePath` fixes small keys for its runs, so the general results of the walk and
the recovery are those of the two modules above. `DecodePathProofs` shows that they hold of its
specification: each of the two stages' `Init`, `Next` and properties are the ones its proofs are about,
the assumptions follow from `StageAssumption`, and a step of another stage leaves the invariant alone.
The merge and the run have their proofs here, in full and over the stage's own variables.

**A creature's lives**, for any respawn time, slack, length of capture and number of deaths and
sightings, and whatever the capture loses. The record is a heap of coincidences: a kill message and
a HEALTH block of 0 are one death if they come within `Coincidence` of each other, in either order, and
the later kill message dates anew the death that the block recorded. The invariant names what the
code never has, which death each entry is: `Deaths(f)` and `Revivals(g)` match the entries with
what happened, in order, each between the death (the respawn) and what follows it. For a step to keep
`Deaths` it must be settled which death a kill message tells of, and this is where
`CreatureAssumption` comes in (`TheKillIsOfItsDeath`): the mark `byHealth` is the date of an entry
within `Coincidence` of its own death (the last line of `Deaths`), two deaths are a respawn
and so more than twice that apart (`History`), hence a mark still within reach is of this death and
any other says that the death has no entry yet. A HEALTH block needs only that the creature is on
record as dead if its present death has an entry. `TheRecordIsReal` follows from the matchings, but
says nothing of the mark or of `alive`, on which the next message depends.

`Signs` says that no sign of life lies between a death and its respawn, and that timed deaths are
close to real ones, which with the least respawn time gives `GapsAreNeverShort`, and with that
`LateIsLate`: the timer is the length of some gap, so no shorter than a respawn less the slack, and
what was chosen as a CREATE is a sign of life like any other. For what nothing lost promises,
`Counted` counts: the deaths shown are as many as the timed ones, and one more while its witnesses
are all still to come (`Pending`); and the stats rule has been told of each one later than the life
it reads, but that one. `LivesIn` keeps the lives' numbers within the respawns there were. The
matchings are existential, so each step's lemma says how to extend them (`DeathsGrow`,
`RevivalsGrow`), redate one entry (`DeathsRedated`) or keep them (`DeathsStay`, `RevivalsStay`).
TLC checked the invariant over the whole of the `creature` run before it was proved.

**Behaviour**, for any spawns, window, respawn time and length of capture. The analyzer holds times
only, and which engagement each belongs to is what it has to find out; so the invariant is about the
fights there really were. `Fought`: a spawn's fights lie apart on the clock, in order, and all but the
last of a spawn that is fighting are over; one that is at rest came there since the last of them, which
is what keeps two fights from sharing a moment, for an evade takes a tick and a respawn `MinRespawn`.
`Recorded`: every aggro and every cast lies in a fight, a fight's start and its first cast are among
them, and the deaths on record are the ends of those that ended in one, each recorded once although two
messages may tell of it (`DeathGives`, by `Lifeline`). `Watched` and `Sounded` tie the lines to the
triggers and the sounds to the lines. Two casts of one interval are then of one fight, for the later
of two fights has an aggro at its start, after the other's end (`OneTimer`); the first aggro after a
death begins a fight (`StartBegins`), and the least cast up to the next death is that fight's own
unless it was over uncast (`DelaysAreTrue`). A line's own trigger comes with every occurrence, at
distance 0, so no other is closer and only one that comes with it ties (`CreditedRight`). TLC checked
`Inv` over the `behaviour` run's states.

**Publishing**, for one shell and any sequence of its runs, failures, interrupts and kills. `OneShell`
is needed: with two shells the properties are false (`slim_publish_two_runs`). `NamesAreApart`: the
capture's name shares its file with no other, nor the two temporary ones with each other, so
what a run writes is never the capture nor a copy kept earlier. `TheTemporaryIsMine`: a
run past its write finds under the temporary name the very file it wrote, although a killed run may
have left one there; and outside the try and its handler there is none, unless a run was stopped
before it could remove it (`left`). `TheCopyIsFaithful` carries the verdict of the verification past the
rename, and `TheCaptureIsUntouched` what the capture held to the moment the command is over.
`TheCodeIsTrue` is `TheExitCodeIsTrue` from that moment on, before `main` has returned: the steps left,
an interrupt among them, can only turn the code into one that claims nothing. The lemmas
`ExitKeeps` and `UnwindKeeps` say so for every way out at once, and a step's lemma shows that its way
out is one of those.

**Start-up**, for any number of shells, runs, checkouts, ports, edits, upgrades and kills. A cached
table may be newer than its stamp, when a file was edited between the two readings; `CacheIsNoOlder`
says that this is all, and within one checkout (`Follows`). `Reading` says that each file's stamp and
content were that checkout's since the run began, the stamp first. So a run that finds its own
stamp in the cache is given files its checkout has had since. `TheTableIsTheCheckouts` alone says
nothing of the cache, through which one run's table becomes another's. The versions of two
checkouts are apart by construction of `Edit` (section 3 says what that leaves out).

*Only model-checked.* `EveryByteIsAccountedFor`, which is what `Stream.unseen` adds up over the gaps
(a sum; that the gaps are right is `GapsAreTrue`) and the concatenation of the chunks (a fold); the
layers over many facts of a spawn or over several rules (`Patrol`, `Author`); what a slim copy keeps (`SlimPlan`);
`EverySinkIsClosed`, as liveness, with ENABLED and fairness, is out of the prover's reach, as are
induction over data and the library's filters and folds of sequences.

## 6. What is not modelled, and why

Byte layouts (module decoders, the reader, pcap and pcapng containers, the realm list packet) are
pure functions of their input and well served by the repository's tests. Formatting of text, SQL
and migrations, and the wording of provenance notes and log lines, are left out; which rows, columns
and gaps there are is not. The geometry of patrols (clustering, enclosing circles), the fit of respawn
timers and the ranges of health and mana at a level are floating point; the comparison of stored
decimals with wire floats is modelled as a tolerance. Two processes writing one *output* file
are the user's to avoid, and nothing in the code is about them.

Running: `tlc -config MCDecodePath.cfg MCDecodePath.tla`, `tlapm ReassemblyProofs.tla` and
likewise for the other proof modules; `FramingProofs` and `KeyRecoveryProofs` take some minutes each.
