---------------------------- MODULE SlimPublish ----------------------------
(***************************************************************************)
(* How the slim copy of a capture reaches the disk (cli.py, _slim_beside,  *)
(* _write_verified, cmd_slim, main).                                       *)
(*                                                                         *)
(* The capture may be the only record of its session.  A run writes the    *)
(* copy under a temporary name, decodes it, renames it into place and, if  *)
(* asked, renames it over the original.  The write can fail, the user can  *)
(* interrupt, the process can be killed before any step, and runs on one   *)
(* capture can overlap.  Names point to files: a rename moves the name,    *)
(* and a process goes on writing the file it opened, whatever its name.    *)
(***************************************************************************)
EXTENDS Integers, FiniteSets

CONSTANTS
  Processes,   \* shells in which tct is run, one run after another
  MaxRuns,     \* bound: runs in all
  MaxFiles     \* bound: files ever made

ASSUME PublishAssumption == MaxRuns \in Nat /\ MaxFiles \in Nat \ {0}

VARIABLES
  names,       \* capture, capture.wow and capture.wow.partial: a file, or NoFile
  content,     \* what each file holds: "original", "copy", "torn"
  made,        \* files made so far
  faithful,    \* whether the copy decodes exactly as the original
  clean,       \* whether decoding the original logs no error
  run,         \* each process's run: its command and step, the file it opened, its
               \* exit code, and what the capture held when it started
  runs,        \* runs started so far
  left         \* whether a run was stopped before it could remove its temporary file

vars == <<names, content, made, faithful, clean, run, runs, left>>

NoFile == 0
Files == 1 .. MaxFiles
Commands == {"decode", "slim", "replace"}   \* "replace" is slim --replace

Exists(name) == names[name] # NoFile
Holds(name)  == content[names[name]]

Command(p) == run[p].command
IsAt(p, step) == run[p].at = step

Go(p, step) == run' = [run EXCEPT ![p].at = step]
GoWith(p, step, code) == run' = [run EXCEPT ![p].at = step, ![p].code = code]

\* The command is over, with its code; main has still to return it.
Exit(p, code) == GoWith(p, "leave", code)

\* An exception inside _write_verified: first its handler, then the code it leads to.
Unwind(p, code) == GoWith(p, "cleanup", code)

\* What main makes of a command that went through: errors it logged count.
Own == IF clean THEN "ok" ELSE "errors"

\* A run of another command goes on to its own work when the copy is not made; and
\* so it does after an OSError, which ends slim.
Fail(p) == Exit(p, IF Command(p) = "decode" THEN Own ELSE "errors")
FaultCode(p) == IF Command(p) = "decode" THEN Own ELSE "fatal"

Init ==
  /\ names = [capture |-> 1, out |-> NoFile, partial |-> NoFile]
  /\ content = [f \in Files |-> IF f = 1 THEN "original" ELSE "torn"]
  /\ made = 1
  /\ faithful \in BOOLEAN /\ clean \in BOOLEAN
  /\ run = [p \in Processes |-> [command |-> "decode", at |-> "idle", file |-> NoFile, code |-> "ok",
                              saw |-> "original"]]
  /\ runs = 0
  /\ left = FALSE

Start(p, command) ==
  /\ IsAt(p, "idle")
  /\ runs < MaxRuns
  /\ runs' = runs + 1
  /\ run' = [run EXCEPT ![p] = [command |-> command, file |-> NoFile, code |-> "running",
                                saw |-> Holds("capture"),
                                at |-> IF command = "decode" THEN "look" ELSE "plan"]]
  /\ UNCHANGED <<names, content, made, faithful, clean, left>>

disk == <<names, content, made>>
fixed == <<faithful, clean, runs, left>>

\* decode leaves a copy once: not when one is there.  slim refuses, after its
\* plan, to overwrite one, and stops when it has no key.
LookForCopy(p) ==
  /\ IsAt(p, "look")
  /\ \/ Exists("out") /\ Fail(p)
     \/ ~Exists("out") /\ Go(p, IF Command(p) = "decode" THEN "plan" ELSE "open")
     \/ Command(p) # "decode" /\ Fail(p)
  /\ UNCHANGED <<disk, fixed>>

\* slim.plan: only the original holds foreign records.  A torn file is refused, or
\* read up to where it ends, with a warning.
Plan(p) ==
  LET nothingToDrop == Exit(p, IF Command(p) = "decode" THEN Own ELSE "ok")
  IN
  /\ IsAt(p, "plan")
  /\ \/ Holds("capture") = "original" /\ Go(p, IF Command(p) = "decode" THEN "open" ELSE "look")
     \/ Holds("capture") \in {"copy", "torn"} /\ nothingToDrop
     \/ Holds("capture") = "torn" /\ Fail(p)
  /\ UNCHANGED <<disk, fixed>>

\* slim.write opens the temporary name: a new file, or the one there, emptied.
Open(p) ==
  LET file == IF Exists("partial") THEN names.partial ELSE made + 1
  IN
  /\ IsAt(p, "open")
  /\ file \in Files
  /\ made' = IF Exists("partial") THEN made ELSE made + 1
  /\ names' = [names EXCEPT !.partial = file]
  /\ content' = [content EXCEPT ![file] = "torn"]
  /\ run' = [run EXCEPT ![p].at = "write", ![p].file = file]
  /\ UNCHANGED fixed

Write(p) ==
  /\ IsAt(p, "write")
  /\ content' = [content EXCEPT ![run[p].file] = "copy"]
  /\ Go(p, "verify")
  /\ UNCHANGED <<names, made, fixed>>

\* Mutant: a copy that can be decoded is kept, whatever it decodes to.
VerifyReadable(p) ==
  /\ IsAt(p, "verify") /\ Exists("partial")
  /\ \/ Holds("partial") = "copy" /\ Go(p, "publish") /\ UNCHANGED names
     \/ Holds("partial") = "torn" /\ Unwind(p, "fatal") /\ UNCHANGED names
  /\ UNCHANGED <<content, made, fixed>>

\* The copy is decoded and compared, and removed if it differs.  One torn by another
\* run may not even be read: an exception that is no OSError.
Verify(p) ==
  LET same == Holds("partial") = "copy" /\ faithful
  IN
  /\ IsAt(p, "verify") /\ Exists("partial")
  /\ \/ same /\ Go(p, "publish") /\ UNCHANGED names
     \/ ~same /\ names' = [names EXCEPT !.partial = NoFile] /\ Fail(p)
     \/ Holds("partial") = "torn" /\ Unwind(p, "fatal") /\ UNCHANGED names
  /\ UNCHANGED <<content, made, fixed>>

Publish(p) ==
  /\ IsAt(p, "publish") /\ Exists("partial")
  /\ names' = [names EXCEPT !.out = names.partial, !.partial = NoFile]
  /\ Go(p, "published")
  /\ UNCHANGED <<content, made, fixed>>

\* decode goes on, slim returns.
Return(p) ==
  /\ IsAt(p, "published") /\ Command(p) # "replace"
  /\ Exit(p, Own)
  /\ UNCHANGED <<disk, fixed>>

\* Mutants: errors of the run do not count; they do, and only the exit code forgets.
ReplaceAnyway(p) ==
  /\ IsAt(p, "published") /\ Command(p) = "replace" /\ Exists("out")
  /\ names' = [names EXCEPT !.capture = names.out, !.out = NoFile]
  /\ Exit(p, "ok")
  /\ UNCHANGED <<content, made, fixed>>

ReplaceQuietly(p) ==
  /\ IsAt(p, "published") /\ Command(p) = "replace"
  /\ names' = IF clean THEN [names EXCEPT !.capture = names.out, !.out = NoFile] ELSE names
  /\ Exit(p, "ok")
  /\ UNCHANGED <<content, made, fixed>>

\* cmd_slim --replace: only after a run that logged no error.
Replace(p) ==
  /\ IsAt(p, "published") /\ Command(p) = "replace"
  /\ \/ clean /\ Exists("out") /\ Exit(p, "ok")
        /\ names' = [names EXCEPT !.capture = names.out, !.out = NoFile]
     \/ ~clean /\ Exit(p, "errors") /\ UNCHANGED names
  /\ UNCHANGED <<content, made, fixed>>

\* main returns; after an interrupt at "leave" it is not what the command returned.
Leave(p) ==
  /\ IsAt(p, "leave")
  /\ Go(p, "idle")
  /\ UNCHANGED <<disk, fixed>>

-----------------------------------------------------------------------------
(* What goes wrong, and the handlers. *)

\* Inside _write_verified's try; and where a run may be still or no longer.
InTry(p) == run[p].at \in {"write", "verify", "publish"}
ByTheTry(p) == run[p].at \in {"open", "published"}

\* A file cannot be opened, written, read or renamed, or is gone: an OSError.  Only
\* around _write_verified does another command catch it.
Fault(p) ==
  /\ \/ (InTry(p) \/ IsAt(p, "open")) /\ Unwind(p, FaultCode(p))
     \/ IsAt(p, "plan") /\ Exit(p, "fatal")
     \/ Command(p) # "decode" /\ IsAt(p, "look") /\ Exit(p, "fatal")
     \/ Command(p) = "replace" /\ IsAt(p, "published") /\ clean /\ Exit(p, "fatal")
  /\ UNCHANGED <<disk, fixed>>

\* The handler removes the temporary name, whatever it names.
CleanUp(p) ==
  /\ IsAt(p, "cleanup")
  /\ names' = [names EXCEPT !.partial = NoFile]
  /\ Go(p, "leave")
  /\ UNCHANGED <<content, made, fixed>>

\* A run that gets no further than this leaves its temporary file, if it had one.
CutShort ==
  /\ left' = (left \/ Exists("partial"))
  /\ UNCHANGED <<disk, faithful, clean, runs>>

\* The handler's own unlink raises, in place of what it was handling.
CleanUpFails(p) ==
  /\ IsAt(p, "cleanup") /\ Exists("partial")
  /\ Exit(p, FaultCode(p))
  /\ CutShort

\* KeyboardInterrupt, before any step: main reports it, unless it comes in main's own
\* handler or after its try, when it ends the process as a kill does.
Interrupt(p) ==
  \/ /\ InTry(p) \/ ByTheTry(p)
     /\ Unwind(p, "interrupted")
     /\ UNCHANGED <<disk, fixed>>
  \/ /\ run[p].at \in {"look", "plan", "leave"} \/ ByTheTry(p)
     /\ Exit(p, "interrupted")
     /\ UNCHANGED <<disk, fixed>>
  \/ /\ IsAt(p, "cleanup")
     /\ Exit(p, "interrupted")
     /\ CutShort
  \/ /\ IsAt(p, "leave")
     /\ GoWith(p, "idle", "killed")
     /\ UNCHANGED <<disk, fixed>>

\* The process dies: no handler runs.  (Files keep what was written to them: that the
\* machine does not die is assumed.)
Kill(p) ==
  /\ ~IsAt(p, "idle")
  /\ GoWith(p, "idle", "killed")
  /\ CutShort

Next ==
  \E p \in Processes :
    \/ \E command \in Commands : Start(p, command)
    \/ LookForCopy(p) \/ Plan(p) \/ Open(p) \/ Write(p) \/ Verify(p)
    \/ Publish(p) \/ Return(p) \/ Replace(p) \/ Leave(p)
    \/ Fault(p) \/ CleanUp(p) \/ CleanUpFails(p) \/ Interrupt(p) \/ Kill(p)

Spec == Init /\ [][Next]_vars

-----------------------------------------------------------------------------
TypeOK ==
  /\ names \in [capture : Files, out : Files \union {NoFile}, partial : Files \union {NoFile}]
  /\ content \in [Files -> {"original", "copy", "torn"}]
  /\ made \in Files /\ runs \in 0 .. MaxRuns
  /\ faithful \in BOOLEAN /\ clean \in BOOLEAN /\ left \in BOOLEAN
  /\ run \in [Processes -> [command : Commands, file : Files \union {NoFile},
                            at : {"idle", "look", "plan", "open", "write", "verify", "publish",
                                  "published", "cleanup", "leave"},
                            code : {"ok", "errors", "fatal", "interrupted", "killed", "running"},
                            saw : {"original", "copy", "torn"}]]
  /\ \A p \in Processes : runs > 0 =>
       (run[p].code = "running") = (run[p].at \notin {"idle", "leave", "cleanup"})

\* Under its final name there is never anything but a complete copy that decodes
\* as the original does, at whatever step runs were interrupted or killed
\* (_write_verified: "keeps it only if it decodes exactly as the original does");
\* and runs at rest leave no temporary file behind, whichever of their steps failed
\* or were interrupted, unless one was killed or its cleanup cut short.
OutIsVerified ==
  /\ Exists("out") => Holds("out") = "copy" /\ faithful
  /\ (\A p \in Processes : IsAt(p, "idle")) /\ ~left => ~Exists("partial")

\* The session is never lost: the capture's name holds the original, or a
\* faithful copy that a run was asked to put there and read without an error.
TheSessionSurvives ==
  \/ Holds("capture") = "original"
  \/ Holds("capture") = "copy" /\ faithful /\ clean

\* The exit of slim --replace says whether the capture was replaced: after 0 it is the
\* copy, and after an error it holds what it held.  A run that was interrupted says
\* nothing of it: the interrupt may come after the rename and before main returns.
TheExitCodeIsTrue ==
  \A p \in Processes :
    Command(p) = "replace" /\ IsAt(p, "idle") =>
      /\ run[p].code = "ok" => Holds("capture") = "copy"
      /\ run[p].code \in {"errors", "fatal"} => Holds("capture") = run[p].saw
=============================================================================
