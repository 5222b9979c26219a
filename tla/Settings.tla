------------------------------ MODULE Settings ------------------------------
(***************************************************************************)
(* How a run comes by its settings (config.py, RunConfig.resolve; cli.py,  *)
(* _world): the config file, over it the environment, over that the flags. *)
(*                                                                         *)
(* A level is a function of the settings it gives.  Two stand for all: the *)
(* checkout, whose path has no honest default, and the world port, which   *)
(* has one.  A setting counts as named when a level gave it, and only a    *)
(* named port overrules the realm list of the capture.                     *)
(***************************************************************************)
EXTENDS Integers, Sequences, TLC, SequencesExt

CONSTANTS
  Repos,         \* checkouts a level may name
  Ports,         \* ports a level may name
  DefaultPort,   \* _DEFAULTS["port"]
  NoRepo,        \* _DEFAULTS["repo"]: no checkout
  Wrong,         \* a value of the wrong type
  Listed         \* the world as the realm list has it

ASSUME SettingsAssumption ==
  /\ DefaultPort \in Ports
  /\ {NoRepo, Wrong} \intersect Repos = {} /\ NoRepo # Wrong
  /\ {Wrong, Listed} \intersect Ports = {}

Defaults == [repo |-> NoRepo, port |-> DefaultPort]

\* What one level may give.
Giving(repos, ports) ==
  UNION {{l \in [keys -> repos \union ports] :
            /\ "repo" \in keys => l["repo"] \in repos
            /\ "port" \in keys => l["port"] \in ports} : keys \in SUBSET {"repo", "port"}}

\* _read_file, _apply_env, _apply_args: a file may hold anything; the environment
\* holds strings, so any path but not any number; argparse has checked the flags.
Said == [file : Giving(Repos \union {Wrong}, Ports \union {Wrong}),
         env  : Giving(Repos, Ports \union {Wrong}),
         flag : Giving(Repos, Ports)]

\* The values so far, but for those that level gives.
Over(level, values) == [k \in DOMAIN values |-> IF k \in DOMAIN level THEN level[k] ELSE values[k]]

Values(said) == Over(said.flag, Over(said.env, Over(said.file, Defaults)))

\* _require_types: a path of the wrong type ends the run.
Refused(said) == Values(said).repo = Wrong

\* Mutant: what is not used still counts as named.
NamedAnyhow(said) == DOMAIN said.flag \union DOMAIN said.env \union DOMAIN said.file

\* _validate: a port of the wrong type is not used, and is not named either.
Named(said) ==
  (DOMAIN said.flag \union DOMAIN said.env \union DOMAIN said.file)
    \ (IF Values(said).port = Wrong THEN {"port"} ELSE {})

Port(said) == IF Values(said).port = Wrong THEN DefaultPort ELSE Values(said).port

\* _world: as named; else as the capture's own realm list has it.
World(said) == IF "port" \in Named(said) THEN Port(said) ELSE Listed

-----------------------------------------------------------------------------
\* What the user said last: the value at the highest level that gives any.
LastWord(said, key, otherwise) ==
  LET levels == <<said.file, said.env, said.flag>>
      giving == {n \in DOMAIN levels : key \in DOMAIN levels[n]}
  IN  IF giving = {} THEN otherwise ELSE levels[Max(giving)][key]
=============================================================================
