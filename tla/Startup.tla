------------------------------ MODULE Startup ------------------------------
(***************************************************************************)
(* The start of runs that share a cache directory: settings, then a table  *)
(* read out of the server checkout (wire/opcodes.py and fields/tables.py,  *)
(* load; config.py; cli.py, _load_tables).                                 *)
(*                                                                         *)
(* A table is cached with a stamp of the files it was parsed from.  Runs   *)
(* overlap and can be killed, the cache is written in place and shared by  *)
(* every checkout, and the checkout is edited while runs read it.  The two *)
(* tables share nothing, so one behaviour follows one of them.  A file's   *)
(* version stands for its contents, size and time of change.               *)
(***************************************************************************)
EXTENDS Settings

CONSTANTS
  Processes,    \* shells in which tct is run
  MaxRuns,      \* bound: runs in all
  MaxEdits,     \* bound: edits of the checkouts
  MaxUpgrades   \* bound: upgrades of tct itself

ASSUME StartupAssumption == MaxRuns \in Nat /\ MaxEdits \in Nat /\ MaxUpgrades \in Nat

\* The files of each table; the field table's stamp has the parser's version too.
Sources == [opcodes |-> <<"values", "names">>, fields |-> <<"updatefields">>]
Tables == DOMAIN Sources
Files == UNION {ToSet(Sources[t]) : t \in Tables}

VARIABLES
  table,      \* the table followed
  versions,   \* of each checkout, the versions each file has had, the last the present one
  edits,      \* edits so far
  parser,     \* _PARSER_VERSION of the tct installed
  cache,      \* its cache file: a stamp and a table, or not usable
  run,        \* each process's run
  runs        \* runs started so far

vars == <<table, versions, edits, parser, cache, run, runs>>

\* A version: whether the file is there, and defines every symbol it uses.
Kinds == {"sound", "unsound", "gone"}
Version(repo, n, kind) == [repo |-> repo, n |-> n, kind |-> kind]

Now(repo, file) == Last(versions[repo][file])

\* No file, an empty one or a torn one: load reparses whichever it is.
Unusable == [stamp |-> <<>>, table |-> <<>>]

\* A table: the versions it was read from, and by which parser.
Empty == [files |-> <<>>, parser |-> 0]

AtRest == [at |-> "idle", repo |-> NoRepo, world |-> Listed, lastRepo |-> NoRepo, lastPort |-> Wrong,
           parser |-> 0, since |-> <<>>, stamp |-> <<>>, read |-> <<>>,
           loaded |-> Empty, errors |-> 0]

Init ==
  /\ table \in Tables
  /\ versions = [r \in Repos |-> [f \in ToSet(Sources[table]) |-> <<Version(r, 0, "sound")>>]]
  /\ edits = 0 /\ runs = 0
  /\ parser = 0
  /\ cache = Unusable
  /\ run = [p \in Processes |-> AtRest]

-----------------------------------------------------------------------------
(* Around the runs. *)

Edit(repo, file, kind) ==
  /\ edits < MaxEdits
  /\ file \in DOMAIN versions[repo]
  /\ kind = "unsound" => table = "fields"
  /\ edits' = edits + 1
  /\ versions' = [versions EXCEPT ![repo][file] = Append(@, Version(repo, edits + 1, kind))]
  /\ UNCHANGED <<table, parser, cache, run, runs>>

Upgrade ==
  /\ table = "fields"
  /\ parser < MaxUpgrades
  /\ parser' = parser + 1
  /\ UNCHANGED <<table, versions, edits, cache, run, runs>>

-----------------------------------------------------------------------------
(* One run: resolve, then load the table. *)

At(p, step) == run[p].at = step
Repo(p) == run[p].repo
Source == Sources[table]
Current(p, i) == Now(Repo(p), Source[i])

others == <<table, versions, edits, parser, runs>>

\* What the levels come to.
Outcome(said) ==
  [refused |-> Refused(said), repo |-> Values(said).repo, world |-> World(said),
   lastRepo |-> LastWord(said, "repo", NoRepo), lastPort |-> LastWord(said, "port", Wrong)]

Outcomes == {Outcome(said) : said \in Said}

Resolve(p, o) ==
  /\ run[p].at \in {"idle", "done"}
  /\ runs < MaxRuns
  /\ runs' = runs + 1
  /\ run' = [run EXCEPT ![p] =
       IF o.refused THEN AtRest
       ELSE [AtRest EXCEPT !.at = "resolved", !.repo = o.repo, !.world = o.world,
                           !.lastRepo = o.lastRepo, !.lastPort = o.lastPort,
                           !.parser = parser]]
  /\ UNCHANGED <<table, versions, edits, parser, cache>>

\* An OSError out of load: main reports it and the run ends.
Fail(p) == run' = [run EXCEPT ![p] = AtRest]

\* load returns a table; what was said of it is in errors.
Return(p, loaded, errors) ==
  run' = [run EXCEPT ![p].at = "done", ![p].loaded = loaded, ![p].errors = errors,
                     ![p].stamp = <<>>, ![p].read = <<>>]

\* No checkout: the empty table.
Begin(p) ==
  /\ At(p, "resolved")
  /\ IF Repo(p) = NoRepo
     THEN Return(p, Empty, 0)
     ELSE run' = [run EXCEPT ![p].at = "look", ![p].world = Listed, ![p].lastPort = Wrong,
                    ![p].since = [i \in DOMAIN Source |-> Len(versions[Repo(p)][Source[i]])]]
  /\ UNCHANGED <<cache, others>>

\* A checkout without the files: the empty table.
Look(p) ==
  /\ At(p, "look")
  /\ IF \A i \in DOMAIN Source : Current(p, i).kind # "gone"
     THEN run' = [run EXCEPT ![p].at = "stat"]
     ELSE Return(p, Empty, 0)
  /\ UNCHANGED <<cache, others>>

\* One file after the other.
Stat(p) ==
  LET i == Len(run[p].stamp) + 1
  IN
  /\ At(p, "stat")
  /\ IF Current(p, i).kind = "gone" THEN Fail(p)
     ELSE run' = [run EXCEPT ![p].stamp = Append(@, Current(p, i)),
                             ![p].at = IF i = Len(Source) THEN "cache" ELSE "stat"]
  /\ UNCHANGED <<cache, others>>

\* Mutant: the files are looked at again when the cache is written.
StampAfresh(p) ==
  [files |-> [i \in DOMAIN Source |-> Current(p, i)],
   parser |-> IF table = "fields" THEN run[p].parser ELSE 0]

\* The field table's stamp has _PARSER_VERSION in it, the opcode table's has not.
Stamp(p) == [files |-> run[p].stamp, parser |-> IF table = "fields" THEN run[p].parser ELSE 0]

\* Nothing is said of a table from the cache.
ReadCache(p) ==
  /\ At(p, "cache")
  /\ IF cache # Unusable /\ cache.stamp = Stamp(p)
     THEN Return(p, cache.table, 0)
     ELSE run' = [run EXCEPT ![p].at = "read"]
  /\ UNCHANGED <<cache, others>>

Read(p) ==
  LET i == Len(run[p].read) + 1
  IN
  /\ At(p, "read")
  /\ IF Current(p, i).kind = "gone" THEN Fail(p)
     ELSE run' = [run EXCEPT ![p].read = Append(@, Current(p, i)),
                             ![p].at = IF i = Len(Source) THEN "open" ELSE "read"]
  /\ UNCHANGED <<cache, others>>

Parsed(p) == [files |-> run[p].read, parser |-> run[p].parser]

\* Each symbol the header does not define is an error.
ErrorsOf(loaded) == IF \E i \in DOMAIN loaded.files : loaded.files[i].kind = "unsound" THEN 1 ELSE 0

\* Opening the cache file empties it.
Open(p) ==
  /\ At(p, "open")
  /\ run' = [run EXCEPT ![p].at = "write"]
  /\ cache' = Unusable
  /\ UNCHANGED others

\* A full disk leaves the file torn; so does another run's longer text that was
\* written since it was opened.  Either way the run has its table.
Write(p) ==
  /\ At(p, "write")
  /\ \/ cache' = [stamp |-> Stamp(p), table |-> Parsed(p)]
     \/ cache' = Unusable
  /\ Return(p, Parsed(p), ErrorsOf(Parsed(p)))
  /\ UNCHANGED others

\* The cache file cannot be opened.
CannotOpen(p) ==
  /\ At(p, "open")
  /\ Return(p, Parsed(p), ErrorsOf(Parsed(p)))
  /\ UNCHANGED <<cache, others>>

\* The run is interrupted or killed before any step.
Kill(p) ==
  /\ run[p].at \notin {"idle", "done"}
  /\ Fail(p)
  /\ UNCHANGED <<cache, others>>

Next ==
  \/ \E repo \in Repos, file \in Files, kind \in Kinds : Edit(repo, file, kind)
  \/ Upgrade
  \/ \E p \in Processes :
       \/ \E o \in Outcomes : Resolve(p, o)
       \/ Begin(p) \/ Look(p) \/ Stat(p) \/ ReadCache(p) \/ Read(p)
       \/ Open(p) \/ Write(p) \/ CannotOpen(p) \/ Kill(p)

Spec == Init /\ [][Next]_vars

-----------------------------------------------------------------------------
\* What a file of the checkout the user named last has been since the run began.
Since(p, i) ==
  LET had == versions[run[p].lastRepo][Source[i]]
  IN  {had[k] : k \in run[p].since[i] .. Len(had)}

\* Whatever was cached, by whichever run, of whichever checkout, and however far
\* it got: each file behind a run's table is one that the checkout named to that
\* run had while the run was on, and field indices are those of its own parser.
\* Without a table a file was missing meanwhile, or no checkout was named
\* (opcodes.py: a table must not "drift from the checkout it claims to describe").
TheTableIsTheCheckouts ==
  \A p \in Processes : At(p, "done") =>
    IF run[p].loaded = Empty
    THEN run[p].lastRepo = NoRepo \/ \E i \in DOMAIN Source : \E v \in Since(p, i) : v.kind = "gone"
    ELSE /\ \A i \in DOMAIN Source : run[p].loaded.files[i] \in Since(p, i)
         /\ table = "fields" => run[p].loaded.parser = run[p].parser

\* The realm list is overruled by a port only if that port is the last word the
\* user said on it (config.py: "A named world port overrides the one the realm
\* list gives; a default one must not").
ADefaultIsNoName ==
  \A p \in Processes : At(p, "resolved") =>
    IF run[p].lastPort = Wrong THEN run[p].world = Listed ELSE run[p].world = run[p].lastPort

\* A field table whose indices are unreliable is an error of every run that uses
\* it, whose exit code says so (log.py: "error: the work failed: a result is
\* missing or wrong -> stderr, always").
AnUnreliableTableIsSaid ==
  \A p \in Processes : At(p, "done") => run[p].errors = ErrorsOf(run[p].loaded)
=============================================================================
