--------------------------- MODULE StartupProofs ---------------------------
(***************************************************************************)
(* Proofs about Startup, for any number of shells, runs, checkouts, edits  *)
(* and upgrades.  The argument: a cached table may be newer than its stamp *)
(* says, when a file was edited between the two readings, and that is all  *)
(* it may be; a run that finds its own stamp in the cache began before     *)
(* that stamp was taken off its checkout, so what it is given the checkout *)
(* had since.  Versions of two checkouts are never the same.               *)
(***************************************************************************)
EXTENDS Startup, TLAPS

-----------------------------------------------------------------------------
(* The inductive invariant. *)

SourceFiles == ToSet(Source)
AnyVersion == [repo : Repos, n : Nat, kind : Kinds]
AnyTable == [files : Seq(AnyVersion), parser : Nat]
Steps == {"look", "stat", "cache", "read", "open", "write"}

AnyRun ==
  [at : {"idle", "resolved", "done"} \union Steps,
   repo : Repos \union {NoRepo}, world : Ports \union {Listed},
   lastRepo : Repos \union {NoRepo}, lastPort : Ports \union {Wrong},
   parser : Nat, since : Seq(Nat), stamp : Seq(AnyVersion), read : Seq(AnyVersion),
   loaded : AnyTable, errors : Nat]

Typed ==
  /\ table \in Tables
  /\ versions \in [Repos -> [SourceFiles -> Seq(AnyVersion)]]
  /\ edits \in Nat /\ parser \in Nat /\ runs \in Nat
  /\ cache \in [stamp : AnyTable, table : AnyTable] \union {Unusable}
  /\ run \in [Processes -> AnyRun]

\* A file's versions are its checkout's, and no two are the same.
VersionsAreApart ==
  \A r \in Repos, f \in SourceFiles :
    /\ versions[r][f] # <<>>
    /\ \A k \in DOMAIN versions[r][f] : versions[r][f][k].repo = r /\ versions[r][f][k].n <= edits
    /\ \A k, m \in DOMAIN versions[r][f] : k < m => versions[r][f][k].n < versions[r][f][m].n

\* One checkout had both versions of the file, b not before a.
Follows(i, a, b) ==
  \E r \in Repos : \E k, m \in DOMAIN versions[r][Source[i]] :
    k <= m /\ versions[r][Source[i]][k] = a /\ versions[r][Source[i]][m] = b

\* A cached table is what some checkout had at the time of the stamp or later.
CacheIsNoOlder ==
  cache # Unusable =>
    /\ Len(cache.stamp.files) = Len(Source) /\ Len(cache.table.files) = Len(Source)
    /\ \A i \in DOMAIN Source : Follows(i, cache.stamp.files[i], cache.table.files[i])
    /\ table = "fields" => cache.stamp.parser = cache.table.parser

\* The file behind symbol i is one that run r's checkout has had since it began.
IsSince(r, i, v) ==
  \E k \in DOMAIN versions[r.repo][Source[i]] :
    r.since[i] <= k /\ versions[r.repo][Source[i]][k] = v

\* How far a run is with its stamp and its reading.
Progress(r) ==
  /\ r.at \in {"resolved", "look"} => r.stamp = <<>> /\ r.read = <<>>
  /\ r.at = "stat" => Len(r.stamp) < Len(Source) /\ r.read = <<>>
  /\ r.at \in {"cache", "read", "open", "write"} => Len(r.stamp) = Len(Source)
  /\ r.at = "cache" => r.read = <<>>
  /\ r.at = "read" => Len(r.read) < Len(Source)
  /\ r.at \in {"open", "write"} => Len(r.read) = Len(Source)

\* What a run has stamped and read is its checkout's, and was read after it was stamped.
Reading(r) ==
  r.at \in Steps =>
    /\ r.repo \in Repos
    /\ Len(r.since) = Len(Source)
    /\ \A i \in DOMAIN Source : r.since[i] \in DOMAIN versions[r.repo][Source[i]]
    /\ \A i \in DOMAIN r.stamp : IsSince(r, i, r.stamp[i])
    /\ \A i \in DOMAIN r.read :
         IsSince(r, i, r.read[i]) /\ Follows(i, r.stamp[i], r.read[i])

\* What a run that is done was given.
Given(r) ==
  r.at = "done" =>
    IF r.loaded = Empty
    THEN \/ r.repo = NoRepo
         \/ /\ r.repo \in Repos
            /\ \E i \in DOMAIN Source : \E k \in DOMAIN versions[r.repo][Source[i]] :
                 r.since[i] <= k /\ versions[r.repo][Source[i]][k].kind = "gone"
    ELSE /\ r.repo \in Repos
         /\ \A i \in DOMAIN Source : IsSince(r, i, r.loaded.files[i])
         /\ table = "fields" => r.loaded.parser = r.parser

\* The checkout a run uses is the one the user named last.
NamedLast(r) == r.at # "idle" => r.lastRepo = r.repo

\* The port a run has before it reads anything is the one the user named last.
PortIsNamed(r) ==
  r.at = "resolved" => IF r.lastPort = Wrong THEN r.world = Listed ELSE r.world = r.lastPort

RunIsTrue(r) == Progress(r) /\ Reading(r) /\ Given(r) /\ NamedLast(r) /\ PortIsNamed(r)

IInv ==
  /\ Typed /\ VersionsAreApart /\ CacheIsNoOlder
  /\ \A p \in Processes : RunIsTrue(run[p])

-----------------------------------------------------------------------------
(* Settings: the value in force is the last word said. *)

LEMMA GivingIsTyped ==
  ASSUME NEW repos, NEW ports, NEW l \in Giving(repos, ports)
  PROVE  /\ DOMAIN l \subseteq {"repo", "port"}
         /\ "repo" \in DOMAIN l => l["repo"] \in repos
         /\ "port" \in DOMAIN l => l["port"] \in ports
BY DEF Giving

\* The highest level that gives a setting.
LEMMA LastLevel ==
  ASSUME NEW said, NEW key, NEW otherwise
  PROVE  LastWord(said, key, otherwise) =
           IF key \in DOMAIN said.flag THEN said.flag[key]
           ELSE IF key \in DOMAIN said.env THEN said.env[key]
           ELSE IF key \in DOMAIN said.file THEN said.file[key] ELSE otherwise
<1> DEFINE levels == <<said.file, said.env, said.flag>>
           giving == {n \in DOMAIN levels : key \in DOMAIN levels[n]}
<1>1. DOMAIN levels = {1, 2, 3}
  OBVIOUS
<1>2. LastWord(said, key, otherwise) = IF giving = {} THEN otherwise ELSE levels[Max(giving)][key]
  BY DEF LastWord
<1>3. ASSUME NEW n \in giving, \A m \in giving : n >= m
      PROVE  Max(giving) = n
  <2>1. giving \subseteq Int
    BY <1>1
  <2>2. Max(giving) \in giving /\ \A m \in giving : Max(giving) >= m
    BY <1>3 DEF Max
  <2>3. QED
    BY <1>3, <2>1, <2>2
<1>4. CASE key \in DOMAIN said.flag
  BY <1>1, <1>2, <1>3, <1>4
<1>5. CASE key \notin DOMAIN said.flag /\ key \in DOMAIN said.env
  BY <1>1, <1>2, <1>3, <1>5
<1>6. CASE key \notin DOMAIN said.flag /\ key \notin DOMAIN said.env /\ key \in DOMAIN said.file
  BY <1>1, <1>2, <1>3, <1>6
<1>7. CASE key \notin DOMAIN said.flag /\ key \notin DOMAIN said.env /\ key \notin DOMAIN said.file
  BY <1>1, <1>2, <1>7
<1>8. QED
  BY <1>4, <1>5, <1>6, <1>7

LEMMA ValueInForce ==
  ASSUME NEW said, NEW key \in {"repo", "port"}
  PROVE  Values(said)[key] = LastWord(said, key, Defaults[key])
BY LastLevel DEF Values, Over, Defaults

LEMMA OutcomeIsTrue ==
  ASSUME NEW o \in Outcomes, ~o.refused
  PROVE  /\ o.repo \in Repos \union {NoRepo} /\ o.lastRepo = o.repo
         /\ o.world \in Ports \union {Listed} /\ o.lastPort \in Ports \union {Wrong}
         /\ IF o.lastPort = Wrong THEN o.world = Listed ELSE o.world = o.lastPort
<1>1. PICK said \in Said : o = Outcome(said)
  BY DEF Outcomes
<1>2. /\ said.file \in Giving(Repos \union {Wrong}, Ports \union {Wrong})
      /\ said.env \in Giving(Repos, Ports \union {Wrong})
      /\ said.flag \in Giving(Repos, Ports)
  BY DEF Said
<1>3. /\ \A l \in {said.file, said.env, said.flag} :
            /\ "repo" \in DOMAIN l => l["repo"] \in Repos \union {Wrong}
            /\ "port" \in DOMAIN l => l["port"] \in Ports \union {Wrong}
  BY <1>2, GivingIsTyped
<1>4. /\ Values(said).repo = LastWord(said, "repo", NoRepo)
      /\ Values(said).port = LastWord(said, "port", DefaultPort)
  BY ValueInForce DEF Defaults
<1>5. /\ o.refused = Refused(said) /\ o.repo = Values(said).repo /\ o.world = World(said)
      /\ o.lastRepo = LastWord(said, "repo", NoRepo) /\ o.lastPort = LastWord(said, "port", Wrong)
  BY <1>1 DEF Outcome
<1>6. o.repo \in Repos \union {NoRepo} /\ o.lastRepo = o.repo
  BY <1>3, <1>4, <1>5, LastLevel DEF Refused
<1>7. CASE "port" \in DOMAIN said.flag \union DOMAIN said.env \union DOMAIN said.file
  <2>1. Values(said).port = o.lastPort /\ o.lastPort \in Ports \union {Wrong}
    BY <1>3, <1>4, <1>5, <1>7, LastLevel
  <2>2. "port" \in Named(said) <=> Values(said).port # Wrong
    BY <1>7 DEF Named
  <2>3. IF o.lastPort = Wrong THEN o.world = Listed ELSE o.world = o.lastPort
    BY <1>5, <2>1, <2>2 DEF World, Port
  <2>4. QED
    BY <1>5, <1>6, <2>1, <2>2, <2>3 DEF World, Port
<1>8. CASE "port" \notin DOMAIN said.flag \union DOMAIN said.env \union DOMAIN said.file
  <2>1. o.lastPort = Wrong
    BY <1>5, <1>8, LastLevel
  <2>2. o.world = Listed
    BY <1>5, <1>8 DEF World, Named
  <2>3. QED
    BY <1>6, <2>1, <2>2
<1>9. QED
  BY <1>7, <1>8

-----------------------------------------------------------------------------
(* The table followed. *)

LEMMA SourceFacts ==
  ASSUME table \in Tables
  PROVE  /\ Len(Source) \in Nat \ {0} /\ DOMAIN Source = 1 .. Len(Source)
         /\ \A i \in DOMAIN Source : Source[i] \in SourceFiles
         /\ SourceFiles \subseteq Files
BY DEF Source, SourceFiles, Tables, Files, Sources, ToSet

LEMMA InitIsTrue == Init => IInv
<1> SUFFICES ASSUME Init PROVE IInv
  OBVIOUS
<1>1. Typed
  <2>1. versions \in [Repos -> [SourceFiles -> Seq(AnyVersion)]]
    BY DEF Init, SourceFiles, Source, AnyVersion, Version, Kinds
  <2>2. AtRest \in AnyRun
    BY DEF AtRest, AnyRun, Empty, AnyTable
  <2>3. QED
    BY <2>1, <2>2 DEF Init, Typed
<1>2. VersionsAreApart
  BY DEF Init, VersionsAreApart, SourceFiles, Source, Version
<1>3. CacheIsNoOlder
  BY DEF Init, CacheIsNoOlder
<1>4. \A p \in Processes : RunIsTrue(run[p])
  BY DEF Init, RunIsTrue, Progress, Reading, Given, NamedLast, PortIsNamed, AtRest, Steps
<1>5. QED
  BY <1>1, <1>2, <1>3, <1>4 DEF IInv

\* The version a file has now is the last of those it had, and a later one than any.
LEMMA CurrentIsLast ==
  ASSUME IInv, NEW p \in Processes, run[p].at \in Steps, NEW i \in DOMAIN Source
  PROVE  LET had == versions[run[p].repo][Source[i]]
         IN  /\ had \in Seq(AnyVersion) /\ Len(had) \in DOMAIN had
             /\ Current(p, i) = had[Len(had)] /\ Current(p, i) \in AnyVersion
             /\ IsSince(run[p], i, Current(p, i))
<1> DEFINE had == versions[run[p].repo][Source[i]]
<1>1. run[p].repo \in Repos /\ run[p].since[i] \in DOMAIN had
  BY DEF IInv, RunIsTrue, Reading
<1>2. Source[i] \in SourceFiles
  BY SourceFacts DEF IInv, Typed
<1>3. had \in Seq(AnyVersion) /\ had # <<>>
  BY <1>1, <1>2 DEF IInv, Typed, VersionsAreApart
<1>4. Current(p, i) = had[Len(had)]
  BY DEF Current, Now, Repo, Last
<1>5. Len(had) \in DOMAIN had
  BY <1>3
<1>6. run[p].since[i] \in 1 .. Len(had) /\ Len(had) \in Nat
  BY <1>1, <1>3
<1>7. IsSince(run[p], i, Current(p, i))
  BY <1>4, <1>6 DEF IsSince
<1>8. QED
  BY <1>3, <1>4, <1>5, <1>7

-----------------------------------------------------------------------------
(* Every step keeps the invariant. *)

\* What is true of a run stays so while the checkouts are as they are.
LEMMA TruthIsKept ==
  ASSUME UNCHANGED <<table, versions>>, NEW q \in Processes, RunIsTrue(run'[q])
  PROVE  RunIsTrue(run[q])'
<1> PICK r : r = run'[q]
  OBVIOUS
<1>1. RunIsTrue(r)
  OBVIOUS
<1>2. \A i, v : IsSince(r, i, v)' <=> IsSince(r, i, v)
  BY DEF IsSince, Source
<1>3. \A i, a, b : Follows(i, a, b)' <=> Follows(i, a, b)
  BY DEF Follows, Source
<1>4. Progress(r)' /\ NamedLast(r)' /\ PortIsNamed(r)'
  BY <1>1 DEF RunIsTrue, Progress, NamedLast, PortIsNamed, Source
<1>5. Reading(r)'
  BY <1>1, <1>2, <1>3 DEF RunIsTrue, Reading, Source
<1>6. Given(r)'
  BY <1>1, <1>2 DEF RunIsTrue, Given, Source
<1>7. RunIsTrue(r)'
  BY <1>4, <1>5, <1>6 DEF RunIsTrue
<1>8. QED
  BY <1>7 DEF RunIsTrue

\* A step of one run: it is enough that what becomes of its record, and of the
\* cache, is right.
LEMMA OneRunMoves ==
  ASSUME IInv, NEW p \in Processes, NEW r \in AnyRun, RunIsTrue(r),
         run' = [run EXCEPT ![p] = r],
         UNCHANGED <<table, versions, edits, parser>>, runs' \in Nat,
         cache' \in [stamp : AnyTable, table : AnyTable] \union {Unusable}, CacheIsNoOlder'
  PROVE  IInv'
<1>1. Typed'
  BY DEF IInv, Typed, SourceFiles, Source, AnyVersion
<1>2. VersionsAreApart'
  BY DEF IInv, VersionsAreApart, SourceFiles, Source
<1>3. \A q \in Processes : RunIsTrue(run'[q])
  BY DEF IInv, Typed
<1>4. ASSUME NEW q \in Processes PROVE RunIsTrue(run[q])'
  BY <1>3, TruthIsKept DEF RunIsTrue
<1>5. QED
  BY <1>1, <1>2, <1>4 DEF IInv

\* The same when the cache is left alone.
LEMMA OnlyOneRunMoves ==
  ASSUME IInv, NEW p \in Processes, NEW r \in AnyRun, RunIsTrue(r),
         run' = [run EXCEPT ![p] = r],
         UNCHANGED <<table, versions, edits, parser, cache>>, runs' \in Nat
  PROVE  IInv'
<1>1. CacheIsNoOlder'
  BY DEF IInv, CacheIsNoOlder, Follows, Source
<1>2. cache' \in [stamp : AnyTable, table : AnyTable] \union {Unusable}
  BY DEF IInv, Typed
<1>3. QED
  BY <1>1, <1>2, OneRunMoves

LEMMA AtRestIsTrue == AtRest \in AnyRun /\ RunIsTrue(AtRest)
BY DEF AtRest, AnyRun, Empty, AnyTable, RunIsTrue, Progress, Reading, Given, NamedLast,
       PortIsNamed, Steps

LEMMA FailKeeps ==
  ASSUME IInv, NEW p \in Processes, Fail(p), UNCHANGED <<cache, others>>
  PROVE  IInv'
BY AtRestIsTrue, OnlyOneRunMoves DEF Fail, others, IInv, Typed

LEMMA ResolveKeeps ==
  ASSUME IInv, NEW p \in Processes, NEW o \in Outcomes, Resolve(p, o)
  PROVE  IInv'
<1>1. UNCHANGED <<table, versions, edits, parser, cache>> /\ runs' \in Nat
  BY DEF Resolve, IInv, Typed
<1>2. CASE o.refused
  BY <1>1, <1>2, AtRestIsTrue, OnlyOneRunMoves DEF Resolve
<1>3. CASE ~o.refused
  <2> DEFINE r == [AtRest EXCEPT !.at = "resolved", !.repo = o.repo, !.world = o.world,
                     !.lastRepo = o.lastRepo, !.lastPort = o.lastPort, !.parser = parser]
  <2>1. run' = [run EXCEPT ![p] = r]
    BY <1>3 DEF Resolve
  <2>2. r \in AnyRun
    BY <1>3, OutcomeIsTrue, AtRestIsTrue DEF AnyRun, IInv, Typed
  <2>3. RunIsTrue(r)
    BY <1>3, OutcomeIsTrue
    DEF AtRest, RunIsTrue, Progress, Reading, Given, NamedLast, PortIsNamed, Steps
  <2>4. QED
    BY <1>1, <2>1, <2>2, <2>3, OnlyOneRunMoves
<1>4. QED
  BY <1>2, <1>3

\* A run that gets its table.
LEMMA ReturnKeeps ==
  ASSUME IInv, NEW p \in Processes, NEW loaded \in AnyTable, NEW errors \in Nat,
         Return(p, loaded, errors), run[p].at # "idle",
         LET r == [run[p] EXCEPT !.at = "done", !.loaded = loaded] IN Given(r),
         UNCHANGED others,
         cache' \in [stamp : AnyTable, table : AnyTable] \union {Unusable}, CacheIsNoOlder'
  PROVE  IInv'
<1> DEFINE r == [run[p] EXCEPT !.at = "done", !.loaded = loaded, !.errors = errors,
                               !.stamp = <<>>, !.read = <<>>]
<1>1. run[p] \in AnyRun
  BY DEF IInv, Typed
<1>2. run' = [run EXCEPT ![p] = r]
  BY DEF Return, IInv, Typed
<1>3. r \in AnyRun
  <2>1. <<>> \in Seq(AnyVersion)
    OBVIOUS
  <2>2. QED
    BY <1>1, <2>1, Zenon DEF AnyRun
<1>4. Given(r)
  BY <1>1 DEF Given, AnyRun, IsSince
<1>5. NamedLast(r) /\ PortIsNamed(r)
  BY <1>1 DEF NamedLast, PortIsNamed, AnyRun, IInv, RunIsTrue
<1>6. Progress(r) /\ Reading(r)
  BY <1>1 DEF Progress, Reading, AnyRun, Steps
<1>7. QED
  BY <1>2, <1>3, <1>4, <1>5, <1>6, OneRunMoves DEF RunIsTrue, others, IInv, Typed

LEMMA BeginKeeps ==
  ASSUME IInv, NEW p \in Processes, Begin(p)
  PROVE  IInv'
<1>1. CacheIsNoOlder' /\ cache' \in [stamp : AnyTable, table : AnyTable] \union {Unusable}
  BY DEF Begin, others, IInv, Typed, CacheIsNoOlder, Follows, Source
<1>2. run[p] \in AnyRun /\ run[p].at = "resolved" /\ RunIsTrue(run[p])
  BY DEF IInv, Typed, Begin, At
<1>3. CASE Repo(p) = NoRepo
  <2>1. LET r == [run[p] EXCEPT !.at = "done", !.loaded = Empty] IN Given(r)
    BY <1>2, <1>3 DEF Given, Repo, AnyRun
  <2>2. Empty \in AnyTable
    BY DEF Empty, AnyTable
  <2>3. QED
    BY <1>1, <1>2, <1>3, <2>1, <2>2, ReturnKeeps DEF Begin
<1>4. CASE Repo(p) # NoRepo
  <2> DEFINE r == [run[p] EXCEPT !.at = "look", !.world = Listed, !.lastPort = Wrong,
                     !.since = [i \in DOMAIN Source |-> Len(versions[Repo(p)][Source[i]])]]
  <2>1. run' = [run EXCEPT ![p] = r]
    BY <1>4 DEF Begin, IInv, Typed
  <2>2. \A i \in DOMAIN Source :
          /\ r.since[i] \in DOMAIN versions[r.repo][Source[i]]
          /\ r.since[i] \in Nat
    BY <1>2, <1>4, SourceFacts DEF Repo, AnyRun, IInv, Typed, VersionsAreApart
  <2>3. r.since \in Seq(Nat) /\ Len(r.since) = Len(Source)
    BY <1>2, <2>2, SourceFacts DEF IInv, Typed, AnyRun
  <2>4. r \in AnyRun
    BY <1>2, <2>3 DEF AnyRun, Steps
  <2>5. Progress(r) /\ Given(r) /\ NamedLast(r) /\ PortIsNamed(r)
    BY <1>2 DEF RunIsTrue, Progress, Given, NamedLast, PortIsNamed, AnyRun, Steps
  <2>6. r.stamp = <<>> /\ r.read = <<>> /\ r.repo \in Repos
    BY <1>2, <1>4 DEF RunIsTrue, Progress, AnyRun, Repo
  <2>7. Reading(r)
    <3> HIDE DEF r
    <3>1. QED
      BY <2>2, <2>3, <2>6 DEF Reading
  <2>8. QED
    BY <2>1, <2>4, <2>5, <2>7, OnlyOneRunMoves DEF RunIsTrue, Begin, others, IInv, Typed
<1>5. QED
  BY <1>3, <1>4

LEMMA LookKeeps ==
  ASSUME IInv, NEW p \in Processes, Look(p)
  PROVE  IInv'
<1>1. CacheIsNoOlder' /\ cache' \in [stamp : AnyTable, table : AnyTable] \union {Unusable}
  BY DEF Look, others, IInv, Typed, CacheIsNoOlder, Follows, Source
<1>2. run[p] \in AnyRun /\ run[p].at = "look" /\ RunIsTrue(run[p])
  BY DEF IInv, Typed, Look, At
<1>3. CASE \A i \in DOMAIN Source : Current(p, i).kind # "gone"
  <2> DEFINE r == [run[p] EXCEPT !.at = "stat"]
  <2>1. r \in AnyRun /\ run' = [run EXCEPT ![p] = r]
    BY <1>2, <1>3 DEF Look, AnyRun, Steps, IInv, Typed
  <2>2. Progress(r) /\ Given(r) /\ NamedLast(r) /\ PortIsNamed(r)
    BY <1>2, SourceFacts
    DEF RunIsTrue, Progress, Given, NamedLast, PortIsNamed, AnyRun, Steps, IInv, Typed
  <2>3. Reading(r)
    BY <1>2 DEF RunIsTrue, Reading, AnyRun, Steps, IsSince
  <2>4. QED
    BY <2>1, <2>2, <2>3, OnlyOneRunMoves DEF RunIsTrue, Look, others, IInv, Typed
<1>4. CASE ~\A i \in DOMAIN Source : Current(p, i).kind # "gone"
  <2>1. PICK i \in DOMAIN Source : Current(p, i).kind = "gone"
    BY <1>4
  <2>2. IsSince(run[p], i, Current(p, i)) /\ run[p].repo \in Repos
    BY <1>2, CurrentIsLast DEF Steps, RunIsTrue, Reading
  <2>3. LET r == [run[p] EXCEPT !.at = "done", !.loaded = Empty] IN Given(r)
    BY <1>2, <2>1, <2>2 DEF Given, AnyRun, IsSince
  <2>4. Empty \in AnyTable
    BY DEF Empty, AnyTable
  <2>5. QED
    BY <1>1, <1>2, <1>4, <2>3, <2>4, ReturnKeeps DEF Look
<1>5. QED
  BY <1>3, <1>4

LEMMA StatKeeps ==
  ASSUME IInv, NEW p \in Processes, Stat(p)
  PROVE  IInv'
<1> DEFINE i == Len(run[p].stamp) + 1
           step == IF i = Len(Source) THEN "cache" ELSE "stat"
           r == [run[p] EXCEPT !.stamp = Append(@, Current(p, i)), !.at = step]
<1>1. run[p] \in AnyRun /\ run[p].at = "stat" /\ RunIsTrue(run[p])
  BY DEF IInv, Typed, Stat, At
<1>2. i \in DOMAIN Source /\ run[p].stamp \in Seq(AnyVersion) /\ run[p].read = <<>>
  BY <1>1, SourceFacts DEF AnyRun, RunIsTrue, Progress, IInv, Typed
<1>3. CASE Current(p, i).kind = "gone"
  BY <1>3, FailKeeps DEF Stat
<1>4. CASE Current(p, i).kind # "gone"
  <2>1. Current(p, i) \in AnyVersion /\ IsSince(run[p], i, Current(p, i))
    BY <1>1, <1>2, CurrentIsLast DEF Steps
  <2>2. r \in AnyRun
    <3>1. Append(run[p].stamp, Current(p, i)) \in Seq(AnyVersion) /\ step \in Steps
      BY <1>2, <2>1 DEF Steps
    <3>2. QED
      BY <1>1, <3>1, Zenon DEF AnyRun
  <2>3. run' = [run EXCEPT ![p] = r]
    BY <1>4 DEF Stat, IInv, Typed
  <2>4. /\ r.at = step /\ r.repo = run[p].repo /\ r.since = run[p].since /\ r.read = <<>>
        /\ r.stamp = Append(run[p].stamp, Current(p, i)) /\ r.lastRepo = run[p].lastRepo
    BY <1>1, <1>2 DEF AnyRun
  <2>5. Progress(r) /\ Given(r) /\ NamedLast(r) /\ PortIsNamed(r)
    <3> HIDE DEF r
    <3>1. Len(r.stamp) = i
      BY <1>2, <2>1, <2>4
    <3>2. Len(Source) \in Nat /\ i <= Len(Source) /\ i \in Nat
      BY <1>2, SourceFacts DEF IInv, Typed
    <3>3. QED
      BY <1>1, <2>4, <3>1, <3>2 DEF RunIsTrue, Progress, Given, NamedLast, PortIsNamed
  <2>6. \A n \in DOMAIN r.stamp : IsSince(run[p], n, r.stamp[n])
    BY <1>1, <1>2, <2>1, <2>4 DEF RunIsTrue, Reading, Steps
  <2>7. Reading(r)
    <3> HIDE DEF r
    <3>1. QED
      BY <1>1, <2>4, <2>6 DEF RunIsTrue, Reading, Steps, IsSince
  <2>8. QED
    BY <2>2, <2>3, <2>5, <2>7, OnlyOneRunMoves DEF RunIsTrue, Stat, others, IInv, Typed
<1>5. QED
  BY <1>3, <1>4

LEMMA ReadKeeps ==
  ASSUME IInv, NEW p \in Processes, Read(p)
  PROVE  IInv'
<1> DEFINE i == Len(run[p].read) + 1
           step == IF i = Len(Source) THEN "open" ELSE "read"
           r == [run[p] EXCEPT !.read = Append(@, Current(p, i)), !.at = step]
           had == versions[run[p].repo][Source[i]]
<1>1. run[p] \in AnyRun /\ run[p].at = "read" /\ RunIsTrue(run[p])
  BY DEF IInv, Typed, Read, At
<1>2. /\ i \in DOMAIN Source /\ run[p].read \in Seq(AnyVersion)
      /\ run[p].stamp \in Seq(AnyVersion) /\ i \in DOMAIN run[p].stamp
  BY <1>1, SourceFacts DEF AnyRun, RunIsTrue, Progress, IInv, Typed
<1>3. CASE Current(p, i).kind = "gone"
  BY <1>3, FailKeeps DEF Read
<1>4. CASE Current(p, i).kind # "gone"
  <2>1. Current(p, i) \in AnyVersion /\ IsSince(run[p], i, Current(p, i))
    BY <1>1, <1>2, CurrentIsLast DEF Steps
  <2>2. r \in AnyRun
    <3>1. Append(run[p].read, Current(p, i)) \in Seq(AnyVersion) /\ step \in Steps
      BY <1>2, <2>1 DEF Steps
    <3>2. QED
      BY <1>1, <3>1, Zenon DEF AnyRun
  <2>3. run' = [run EXCEPT ![p] = r]
    BY <1>4 DEF Read, IInv, Typed
  <2>4. /\ r.at = step /\ r.repo = run[p].repo /\ r.since = run[p].since /\ r.stamp = run[p].stamp
        /\ r.read = Append(run[p].read, Current(p, i)) /\ r.lastRepo = run[p].lastRepo
    BY <1>1, <1>2 DEF AnyRun
  <2>5. Progress(r) /\ Given(r) /\ NamedLast(r) /\ PortIsNamed(r)
    <3> HIDE DEF r
    <3>1. Len(r.read) = i
      BY <1>2, <2>1, <2>4
    <3>2. Len(Source) \in Nat /\ i <= Len(Source) /\ i \in Nat
      BY <1>2, SourceFacts DEF IInv, Typed
    <3>3. QED
      BY <1>1, <2>4, <3>1, <3>2 DEF RunIsTrue, Progress, Given, NamedLast, PortIsNamed
  <2>6. Follows(i, run[p].stamp[i], Current(p, i))
    <3>1. /\ IsSince(run[p], i, run[p].stamp[i]) /\ run[p].since[i] \in DOMAIN had
          /\ run[p].repo \in Repos
      BY <1>1, <1>2 DEF RunIsTrue, Reading, Steps
    <3>2. Current(p, i) = had[Len(had)] /\ had \in Seq(AnyVersion) /\ Len(had) \in DOMAIN had
      BY <1>1, <1>2, CurrentIsLast DEF Steps
    <3>3. PICK k \in DOMAIN had : run[p].since[i] <= k /\ had[k] = run[p].stamp[i]
      BY <3>1 DEF IsSince
    <3>4. k <= Len(had)
      <4> HIDE DEF had
      <4>1. QED
        BY <3>2, <3>3
    <3>5. QED
      BY <3>1, <3>2, <3>3, <3>4 DEF Follows
  <2>7. \A n \in DOMAIN r.read : IsSince(run[p], n, r.read[n]) /\ Follows(n, r.stamp[n], r.read[n])
    BY <1>1, <1>2, <2>1, <2>4, <2>6 DEF RunIsTrue, Reading, Steps
  <2>8. Reading(r)
    <3> HIDE DEF r
    <3>1. r.at \in Steps
      BY <2>4 DEF Steps
    <3>2. \A n, v : IsSince(r, n, v) <=> IsSince(run[p], n, v)
      BY <2>4 DEF IsSince
    <3>3. \A n \in DOMAIN r.stamp : IsSince(r, n, r.stamp[n])
      BY <1>1, <2>4, <3>2 DEF RunIsTrue, Reading, Steps
    <3>4. QED
      BY <1>1, <2>4, <2>7, <3>1, <3>2, <3>3 DEF RunIsTrue, Reading, Steps
  <2>9. QED
    BY <2>2, <2>3, <2>5, <2>8, OnlyOneRunMoves DEF RunIsTrue, Read, others, IInv, Typed
<1>5. QED
  BY <1>3, <1>4

\* A hit: the stamp was taken off this checkout since the run began, and what was
\* cached with it the checkout had then or later.
LEMMA ReadCacheKeeps ==
  ASSUME IInv, NEW p \in Processes, ReadCache(p)
  PROVE  IInv'
<1>1. CacheIsNoOlder' /\ cache' \in [stamp : AnyTable, table : AnyTable] \union {Unusable}
  BY DEF ReadCache, others, IInv, Typed, CacheIsNoOlder, Follows, Source
<1>2. run[p] \in AnyRun /\ run[p].at = "cache" /\ RunIsTrue(run[p])
  BY DEF IInv, Typed, ReadCache, At
<1>3. CASE cache # Unusable /\ cache.stamp = Stamp(p)
  <2>1. /\ cache.stamp \in AnyTable /\ cache.table \in AnyTable
        /\ cache.stamp.files = run[p].stamp
        /\ table = "fields" => cache.stamp.parser = run[p].parser
    BY <1>3 DEF IInv, Typed, Stamp
  <2>2. /\ Len(cache.table.files) = Len(Source)
        /\ table = "fields" => cache.table.parser = run[p].parser
    BY <1>3, <2>1 DEF IInv, CacheIsNoOlder
  <2>3. ASSUME NEW i \in DOMAIN Source
        PROVE  IsSince(run[p], i, cache.table.files[i])
    <3> DEFINE had == versions[run[p].repo][Source[i]]
    <3>1. i \in DOMAIN run[p].stamp
      BY <1>2, SourceFacts DEF AnyRun, RunIsTrue, Progress, IInv, Typed
    <3>2. /\ run[p].repo \in Repos /\ run[p].since[i] \in DOMAIN had
          /\ IsSince(run[p], i, run[p].stamp[i])
      BY <1>2, <3>1 DEF RunIsTrue, Reading, Steps
    <3>3. Source[i] \in SourceFiles
      BY SourceFacts DEF IInv, Typed
    <3>4. had \in Seq(AnyVersion)
      BY <3>2, <3>3 DEF IInv, Typed
    <3>5. PICK n \in DOMAIN had : run[p].since[i] <= n /\ had[n] = run[p].stamp[i]
      BY <3>2 DEF IsSince
    <3>6. PICK o \in Repos : \E k, m \in DOMAIN versions[o][Source[i]] :
            /\ k <= m /\ versions[o][Source[i]][k] = run[p].stamp[i]
            /\ versions[o][Source[i]][m] = cache.table.files[i]
      BY <1>3, <2>1 DEF IInv, CacheIsNoOlder, Follows
    <3>7. PICK k, m \in DOMAIN versions[o][Source[i]] :
            /\ k <= m /\ versions[o][Source[i]][k] = run[p].stamp[i]
            /\ versions[o][Source[i]][m] = cache.table.files[i]
      BY <3>6
    <3>8. o = run[p].repo
      BY <3>2, <3>3, <3>5, <3>7 DEF IInv, VersionsAreApart
    <3>9. /\ k \in DOMAIN had /\ m \in DOMAIN had /\ k <= m
           /\ had[k] = run[p].stamp[i] /\ had[m] = cache.table.files[i]
      BY <3>7, <3>8
    <3>10. \A a, b \in DOMAIN had : a < b => had[a].n < had[b].n
      BY <3>2, <3>3 DEF IInv, VersionsAreApart
    <3>11. m \in DOMAIN had /\ run[p].since[i] <= m /\ had[m] = cache.table.files[i]
      <4> HIDE DEF had
      <4>1. had[n] = had[k] /\ had[k] \in AnyVersion
        BY <3>4, <3>5, <3>9
      <4>2. had[k].n \in Nat /\ had[n].n = had[k].n
        BY <4>1 DEF AnyVersion
      <4>3. {k, m, n} \subseteq Nat /\ run[p].since[i] \in Nat
        BY <3>2, <3>4, <3>5, <3>9
      <4>4. k = n
        BY <3>5, <3>9, <3>10, <4>2, <4>3
      <4>5. QED
        BY <3>5, <3>9, <4>3, <4>4
    <3>12. QED
      BY <3>11 DEF IsSince
  <2>4. cache.table # Empty
    BY <2>2, SourceFacts DEF Empty, IInv, Typed
  <2>5. LET r == [run[p] EXCEPT !.at = "done", !.loaded = cache.table] IN Given(r)
    <3> DEFINE r == [run[p] EXCEPT !.at = "done", !.loaded = cache.table]
    <3>1. /\ r.loaded = cache.table /\ r.repo = run[p].repo /\ r.since = run[p].since
          /\ r.parser = run[p].parser /\ r.repo \in Repos
      BY <1>2 DEF AnyRun, RunIsTrue, Reading, Steps
    <3> HIDE DEF r
    <3>2. Given(r)
      BY <2>2, <2>3, <2>4, <3>1 DEF Given, IsSince
    <3>3. QED
      BY <3>2 DEF r
  <2>6. QED
    BY <1>1, <1>2, <1>3, <2>1, <2>5, ReturnKeeps DEF ReadCache
<1>4. CASE ~(cache # Unusable /\ cache.stamp = Stamp(p))
  <2> DEFINE r == [run[p] EXCEPT !.at = "read"]
  <2>1. r \in AnyRun /\ run' = [run EXCEPT ![p] = r]
    BY <1>2, <1>4 DEF ReadCache, AnyRun, Steps, IInv, Typed
  <2>2. Progress(r) /\ Given(r) /\ NamedLast(r) /\ PortIsNamed(r)
    BY <1>2, SourceFacts
    DEF RunIsTrue, Progress, Given, NamedLast, PortIsNamed, AnyRun, Steps, IInv, Typed
  <2>3. Reading(r)
    BY <1>2 DEF RunIsTrue, Reading, AnyRun, Steps, IsSince
  <2>4. QED
    BY <2>1, <2>2, <2>3, OnlyOneRunMoves DEF RunIsTrue, ReadCache, others, IInv, Typed
<1>5. QED
  BY <1>3, <1>4

LEMMA OpenKeeps ==
  ASSUME IInv, NEW p \in Processes, Open(p)
  PROVE  IInv'
<1> DEFINE r == [run[p] EXCEPT !.at = "write"]
<1>1. run[p] \in AnyRun /\ run[p].at = "open" /\ RunIsTrue(run[p])
  BY DEF IInv, Typed, Open, At
<1>2. CacheIsNoOlder' /\ cache' \in [stamp : AnyTable, table : AnyTable] \union {Unusable}
  BY DEF Open, CacheIsNoOlder, Unusable
<1>3. r \in AnyRun /\ run' = [run EXCEPT ![p] = r]
  BY <1>1 DEF Open, AnyRun, Steps, IInv, Typed
<1>4. Progress(r) /\ Given(r) /\ NamedLast(r) /\ PortIsNamed(r)
  BY <1>1 DEF RunIsTrue, Progress, Given, NamedLast, PortIsNamed, AnyRun, Steps
<1>5. Reading(r)
  BY <1>1 DEF RunIsTrue, Reading, AnyRun, Steps, IsSince
<1>6. QED
  BY <1>2, <1>3, <1>4, <1>5, OneRunMoves DEF RunIsTrue, Open, others, IInv, Typed

\* What a run has parsed is its checkout's, and by its own parser.
LEMMA ParsedIsTrue ==
  ASSUME IInv, NEW p \in Processes, run[p].at \in {"open", "write"}
  PROVE  /\ Parsed(p) \in AnyTable
         /\ LET r == [run[p] EXCEPT !.at = "done", !.loaded = Parsed(p)] IN Given(r)
<1>1. run[p] \in AnyRun /\ RunIsTrue(run[p])
  BY DEF IInv, Typed
<1>2. Parsed(p) \in AnyTable
  BY <1>1 DEF Parsed, AnyTable, AnyRun
<1>3. /\ Parsed(p).files = run[p].read /\ Parsed(p).parser = run[p].parser
      /\ Len(run[p].read) = Len(Source) /\ run[p].read \in Seq(AnyVersion)
  BY <1>1 DEF Parsed, RunIsTrue, Progress, AnyRun
<1>4. DOMAIN run[p].read = DOMAIN Source /\ Parsed(p) # Empty
  BY <1>3, SourceFacts DEF Empty, IInv, Typed
<1> DEFINE r == [run[p] EXCEPT !.at = "done", !.loaded = Parsed(p)]
<1>5. /\ r.loaded = Parsed(p) /\ r.repo = run[p].repo /\ r.since = run[p].since
      /\ r.parser = run[p].parser /\ r.repo \in Repos
      /\ \A i \in DOMAIN Source : IsSince(run[p], i, run[p].read[i])
  BY <1>1, <1>4 DEF AnyRun, RunIsTrue, Reading, Steps
<1> HIDE DEF r
<1>6. Given(r)
  BY <1>3, <1>4, <1>5 DEF Given, IsSince
<1>7. QED
  BY <1>2, <1>6 DEF r

LEMMA CannotOpenKeeps ==
  ASSUME IInv, NEW p \in Processes, CannotOpen(p)
  PROVE  IInv'
<1>1. CacheIsNoOlder' /\ cache' \in [stamp : AnyTable, table : AnyTable] \union {Unusable}
  BY DEF CannotOpen, others, IInv, Typed, CacheIsNoOlder, Follows, Source
<1>2. ErrorsOf(Parsed(p)) \in Nat
  BY DEF ErrorsOf
<1>3. QED
  BY <1>1, <1>2, ParsedIsTrue, ReturnKeeps DEF CannotOpen, At

LEMMA WriteKeeps ==
  ASSUME IInv, NEW p \in Processes, Write(p)
  PROVE  IInv'
<1>1. run[p] \in AnyRun /\ run[p].at = "write" /\ RunIsTrue(run[p])
  BY DEF IInv, Typed, Write, At
<1>2. ASSUME cache' = Unusable
      PROVE  cache' \in [stamp : AnyTable, table : AnyTable] \union {Unusable} /\ CacheIsNoOlder'
  BY <1>2 DEF CacheIsNoOlder, Unusable
<1>3. ASSUME cache' = [stamp |-> Stamp(p), table |-> Parsed(p)]
      PROVE  cache' \in [stamp : AnyTable, table : AnyTable] \union {Unusable} /\ CacheIsNoOlder'
  <2>1. Stamp(p) \in AnyTable
    BY <1>1 DEF Stamp, AnyTable, AnyRun
  <2>2. cache' \in [stamp : AnyTable, table : AnyTable] \union {Unusable}
    BY <1>1, <1>3, <2>1, ParsedIsTrue
  <2>3. /\ Len(Stamp(p).files) = Len(Source) /\ Len(Parsed(p).files) = Len(Source)
        /\ table = "fields" => Stamp(p).parser = Parsed(p).parser
    BY <1>1 DEF Stamp, Parsed, RunIsTrue, Progress
  <2>4. \A i \in DOMAIN Source : Follows(i, Stamp(p).files[i], Parsed(p).files[i])
    BY <1>1, SourceFacts DEF Stamp, Parsed, RunIsTrue, Reading, Progress, Steps, AnyRun, IInv, Typed
  <2>5. CacheIsNoOlder'
    BY <1>3, <2>3, <2>4 DEF CacheIsNoOlder, Follows, Source, Write, others
  <2>6. QED
    BY <2>2, <2>5
<1>4. ErrorsOf(Parsed(p)) \in Nat
  BY DEF ErrorsOf
<1>5. QED
  BY <1>1, <1>2, <1>3, <1>4, ParsedIsTrue, ReturnKeeps DEF Write

LEMMA KillKeeps ==
  ASSUME IInv, NEW p \in Processes, Kill(p)
  PROVE  IInv'
BY FailKeeps DEF Kill

LEMMA UpgradeKeeps ==
  ASSUME IInv, Upgrade
  PROVE  IInv'
<1>1. Typed'
  BY DEF IInv, Typed, Upgrade, SourceFiles, Source
<1>2. VersionsAreApart'
  BY DEF IInv, VersionsAreApart, Upgrade, SourceFiles, Source
<1>3. CacheIsNoOlder'
  BY DEF IInv, CacheIsNoOlder, Follows, Upgrade, Source
<1>4. \A p \in Processes : RunIsTrue(run[p])'
  BY TruthIsKept DEF IInv, Upgrade
<1>5. QED
  BY <1>1, <1>2, <1>3, <1>4 DEF IInv

\* An edit only adds a version at the end of a file's.
LEMMA EditKeeps ==
  ASSUME IInv, NEW r \in Repos, NEW f \in Files, NEW kind \in Kinds, Edit(r, f, kind)
  PROVE  IInv'
<1> DEFINE added == Version(r, edits + 1, kind)
<1>1. /\ versions' = [versions EXCEPT ![r][f] = Append(@, added)] /\ edits' = edits + 1
      /\ UNCHANGED <<table, parser, cache, run, runs>>
  BY DEF Edit
<1>2. /\ f \in SourceFiles /\ edits \in Nat /\ added \in AnyVersion
      /\ added.repo = r /\ added.n = edits + 1
  BY DEF Edit, IInv, Typed, Version, AnyVersion
<1>3. \A o \in Repos, g \in SourceFiles : versions[o][g] \in Seq(AnyVersion)
  BY DEF IInv, Typed
<1>4. \A o \in Repos, g \in SourceFiles :
        versions'[o][g] = IF o = r /\ g = f THEN Append(versions[o][g], added) ELSE versions[o][g]
  BY <1>1, <1>2 DEF IInv, Typed
<1>5. Source' = Source /\ SourceFiles' = SourceFiles
  BY <1>1 DEF Source, SourceFiles
<1> HIDE DEF added
<1>6. ASSUME NEW o \in Repos, NEW g \in SourceFiles
      PROVE  /\ versions'[o][g] \in Seq(AnyVersion)
             /\ DOMAIN versions[o][g] \subseteq DOMAIN versions'[o][g]
             /\ Len(versions[o][g]) \in Nat /\ Len(versions'[o][g]) \in Nat
             /\ Len(versions[o][g]) <= Len(versions'[o][g])
             /\ \A k \in DOMAIN versions[o][g] : versions'[o][g][k] = versions[o][g][k]
  <2> DEFINE had == versions[o][g]
             has == versions'[o][g]
  <2>1. had \in Seq(AnyVersion) /\ added \in AnyVersion
    BY <1>2, <1>3
  <2>2. has = Append(had, added) \/ has = had
    BY <1>4
  <2> HIDE DEF had, has
  <2>3. /\ has \in Seq(AnyVersion) /\ DOMAIN had \subseteq DOMAIN has
        /\ Len(had) \in Nat /\ Len(has) \in Nat /\ Len(had) <= Len(has)
        /\ \A k \in DOMAIN had : has[k] = had[k]
    BY <2>1, <2>2
  <2>4. QED
    BY <2>3 DEF had, has
<1>7. Typed'
  <2>1. versions' \in [Repos -> [SourceFiles -> Seq(AnyVersion)]]
    BY <1>1, <1>6 DEF IInv, Typed
  <2>2. QED
    BY <1>1, <1>2, <1>5, <2>1 DEF IInv, Typed
<1>8. VersionsAreApart'
  <2> SUFFICES ASSUME NEW o \in Repos, NEW g \in SourceFiles
               PROVE  /\ versions'[o][g] # <<>>
                      /\ \A k \in DOMAIN versions'[o][g] :
                           versions'[o][g][k].repo = o /\ versions'[o][g][k].n <= edits'
                      /\ \A k, m \in DOMAIN versions'[o][g] :
                           k < m => versions'[o][g][k].n < versions'[o][g][m].n
    BY <1>5 DEF VersionsAreApart
  <2>1. /\ versions[o][g] \in Seq(AnyVersion) /\ versions[o][g] # <<>>
        /\ \A k \in DOMAIN versions[o][g] :
             /\ versions[o][g][k].repo = o /\ versions[o][g][k].n <= edits
             /\ versions[o][g][k].n \in Nat
        /\ \A k, m \in DOMAIN versions[o][g] :
             k < m => versions[o][g][k].n < versions[o][g][m].n
    <3>1. versions[o][g] \in Seq(AnyVersion)
      BY <1>3
    <3>2. \A k \in DOMAIN versions[o][g] : versions[o][g][k] \in AnyVersion
      BY <3>1
    <3>3. QED
      BY <3>1, <3>2 DEF IInv, VersionsAreApart, AnyVersion
  <2>2. CASE o = r /\ g = f
    BY <1>1, <1>2, <1>4, <2>1, <2>2
  <2>3. CASE ~(o = r /\ g = f)
    BY <1>1, <1>2, <1>4, <2>1, <2>3
  <2>4. QED
    BY <2>2, <2>3
<1>9. \A i \in DOMAIN Source : \A a, b : Follows(i, a, b) => Follows(i, a, b)'
  BY <1>5, <1>6, SourceFacts DEF Follows, IInv, Typed
<1>10. CacheIsNoOlder'
  BY <1>1, <1>5, <1>9 DEF IInv, CacheIsNoOlder
<1>11. ASSUME NEW p \in Processes PROVE RunIsTrue(run[p])'
  <2>1. RunIsTrue(run[p]) /\ run' = run /\ run[p] \in AnyRun
    BY <1>1 DEF IInv, Typed
  <2>2. \A i \in DOMAIN Source : \A v :
          run[p].repo \in Repos /\ IsSince(run[p], i, v) => IsSince(run[p], i, v)'
    BY <1>1, <1>5, <1>6, SourceFacts DEF IsSince, IInv, Typed
  <2>3. Progress(run[p])' /\ NamedLast(run[p])' /\ PortIsNamed(run[p])'
    BY <1>5, <2>1 DEF RunIsTrue, Progress, NamedLast, PortIsNamed
  <2>4. Reading(run[p])'
    <3> SUFFICES ASSUME run[p].at \in Steps
                 PROVE  Reading(run[p])'
      BY <2>1 DEF Reading
    <3>1. /\ run[p].repo \in Repos /\ Len(run[p].since) = Len(Source)
          /\ \A i \in DOMAIN Source : run[p].since[i] \in DOMAIN versions[run[p].repo][Source[i]]
          /\ \A i \in DOMAIN run[p].stamp : IsSince(run[p], i, run[p].stamp[i])
          /\ \A i \in DOMAIN run[p].read :
               IsSince(run[p], i, run[p].read[i]) /\ Follows(i, run[p].stamp[i], run[p].read[i])
      BY <2>1 DEF RunIsTrue, Reading
    <3>2. DOMAIN run[p].stamp \subseteq DOMAIN Source /\ DOMAIN run[p].read \subseteq DOMAIN Source
      BY <2>1, SourceFacts DEF RunIsTrue, Progress, AnyRun, Steps, IInv, Typed
    <3>3. \A i \in DOMAIN Source : run[p].since[i] \in DOMAIN versions'[run[p].repo][Source[i]]
      BY <1>6, <3>1, SourceFacts DEF IInv, Typed
    <3>4. QED
      BY <1>5, <1>9, <2>1, <2>2, <3>1, <3>2, <3>3 DEF Reading
  <2>5. Given(run[p])'
    <3> SUFFICES ASSUME run[p].at = "done"
                 PROVE  Given(run[p])'
      BY <2>1 DEF Given
    <3>1. CASE run[p].loaded = Empty /\ run[p].repo = NoRepo
      BY <2>1, <3>1 DEF Given
    <3>2. CASE run[p].loaded = Empty /\ run[p].repo # NoRepo
      <4>1. PICK i \in DOMAIN Source : \E k \in DOMAIN versions[run[p].repo][Source[i]] :
              /\ run[p].since[i] <= k
              /\ versions[run[p].repo][Source[i]][k].kind = "gone"
        BY <2>1, <3>2 DEF RunIsTrue, Given
      <4>2. run[p].repo \in Repos /\ Source[i] \in SourceFiles
        BY <2>1, <3>2, SourceFacts DEF RunIsTrue, Given, IInv, Typed
      <4>3. \E k \in DOMAIN versions'[run[p].repo][Source[i]] :
              /\ run[p].since[i] <= k
              /\ versions'[run[p].repo][Source[i]][k].kind = "gone"
        BY <1>6, <4>1, <4>2
      <4>4. QED
        BY <1>5, <2>1, <3>2, <4>2, <4>3 DEF Given
    <3>3. CASE run[p].loaded # Empty
      BY <1>1, <1>5, <2>1, <2>2, <3>3 DEF RunIsTrue, Given
    <3>4. QED
      BY <3>1, <3>2, <3>3
  <2>6. QED
    BY <2>3, <2>4, <2>5 DEF RunIsTrue
<1>12. QED
  BY <1>7, <1>8, <1>10, <1>11 DEF IInv

LEMMA StepKeepsIInv == IInv /\ [Next]_vars => IInv'
<1> SUFFICES ASSUME IInv, [Next]_vars PROVE IInv'
  OBVIOUS
<1>1. CASE \E r \in Repos, f \in Files, kind \in Kinds : Edit(r, f, kind)
  BY <1>1, EditKeeps
<1>2. CASE Upgrade
  BY <1>2, UpgradeKeeps
<1>3. ASSUME NEW p \in Processes,
             \/ \E o \in Outcomes : Resolve(p, o)
             \/ Begin(p) \/ Look(p) \/ Stat(p) \/ ReadCache(p) \/ Read(p)
             \/ Open(p) \/ Write(p) \/ CannotOpen(p) \/ Kill(p)
      PROVE  IInv'
  BY <1>3, ResolveKeeps, BeginKeeps, LookKeeps, StatKeeps, ReadCacheKeeps, ReadKeeps,
     OpenKeeps, WriteKeeps, CannotOpenKeeps, KillKeeps
<1>4. CASE UNCHANGED vars
  <2>1. UNCHANGED <<table, versions, edits, parser, cache, run, runs>>
    BY <1>4 DEF vars
  <2>2. Typed' /\ VersionsAreApart' /\ CacheIsNoOlder'
    BY <2>1 DEF IInv, Typed, VersionsAreApart, CacheIsNoOlder, Follows, SourceFiles, Source
  <2>3. \A p \in Processes : RunIsTrue(run[p])'
    BY <2>1, TruthIsKept DEF IInv
  <2>4. QED
    BY <2>2, <2>3 DEF IInv
<1>5. QED
  BY <1>1, <1>2, <1>3, <1>4 DEF Next

-----------------------------------------------------------------------------
(* The properties. *)

\* The invariant holds in every state of every behaviour.
THEOREM InvariantHolds == Spec => []IInv
<1>1. QED
  BY InitIsTrue, StepKeepsIInv, PTL DEF Spec

\* A run is given a table of the checkout it was told to use, each file as it was
\* while that run was on, or none because a file was missing then: whatever other
\* runs, of that checkout or another, left in the cache they share (opcodes.py and
\* tables.py, load).
THEOREM TheTableIsTheirs == Spec => []TheTableIsTheCheckouts
<1>1. ASSUME IInv PROVE TheTableIsTheCheckouts
  <2> SUFFICES ASSUME NEW p \in Processes, run[p].at = "done"
               PROVE  IF run[p].loaded = Empty
                      THEN \/ run[p].lastRepo = NoRepo
                           \/ \E i \in DOMAIN Source : \E v \in Since(p, i) : v.kind = "gone"
                      ELSE /\ \A i \in DOMAIN Source : run[p].loaded.files[i] \in Since(p, i)
                           /\ table = "fields" => run[p].loaded.parser = run[p].parser
    BY DEF TheTableIsTheCheckouts, At
  <2>1. run[p].lastRepo = run[p].repo /\ run[p] \in AnyRun /\ Given(run[p])
    BY <1>1 DEF IInv, Typed, RunIsTrue, NamedLast
  <2>2. ASSUME run[p].repo \in Repos, NEW i \in DOMAIN Source,
               NEW k \in DOMAIN versions[run[p].repo][Source[i]], run[p].since[i] <= k
        PROVE  versions[run[p].repo][Source[i]][k] \in Since(p, i)
    <3> DEFINE had == versions[run[p].repo][Source[i]]
    <3>1. had \in Seq(AnyVersion) /\ k \in 1 .. Len(had)
      BY <1>1, <2>2, SourceFacts DEF IInv, Typed
    <3>2. QED
      BY <2>1, <2>2, <3>1 DEF Since
  <2>3. CASE run[p].loaded = Empty
    BY <2>1, <2>2, <2>3 DEF Given
  <2>4. CASE run[p].loaded # Empty
    BY <2>1, <2>2, <2>4 DEF Given, IsSince
  <2>5. QED
    BY <2>3, <2>4
<1>2. QED
  BY <1>1, InvariantHolds, PTL

\* Only a port the user named last overrules the realm list, whatever the config
\* file, the environment and the flags say between them (config.py, resolve).
THEOREM ADefaultNamesNothing == Spec => []ADefaultIsNoName
<1>1. IInv => ADefaultIsNoName
  BY DEF IInv, RunIsTrue, PortIsNamed, ADefaultIsNoName, At
<1>2. QED
  BY <1>1, InvariantHolds, PTL
=============================================================================
