------------------------- MODULE SlimPublishProofs -------------------------
(***************************************************************************)
(* Proofs about SlimPublish, for one shell and any number of runs, files,  *)
(* failures, interrupts and kills.  (With two shells the properties are    *)
(* false: the run slim_publish_two_runs.)  The argument: no file has two   *)
(* of the three names, so what a run writes under the temporary name is    *)
(* neither the capture nor the copy kept before; and a run that is past    *)
(* its write finds under that name the file it wrote, whatever a run       *)
(* stopped earlier had left there.                                          *)
(***************************************************************************)
EXTENDS SlimPublish, TLAPS

\* One shell: its runs follow one another.
OneShell == \E shell : Processes = {shell}

-----------------------------------------------------------------------------
(* The inductive invariant. *)

\* A name that is taken is that of a file made, and of no other name's file.
NamesAreApart ==
  /\ names.capture \in 1 .. made
  /\ names.out \in 0 .. made /\ names.out # names.capture
  /\ names.partial \in 0 .. made /\ names.partial # names.capture
  /\ Exists("out") => names.out # names.partial

\* What the temporary name is, at each step of a run.
TheTemporaryIsMine ==
  \A p \in Processes :
    /\ run[p].at \in {"write", "verify"} => Exists("partial") /\ run[p].file = names.partial
    /\ run[p].at \in {"verify", "publish"} => Exists("partial") /\ Holds("partial") = "copy"
    /\ IsAt(p, "publish") => faithful
    /\ ~InTry(p) /\ ~IsAt(p, "cleanup") /\ ~left => ~Exists("partial")

TheCopyIsFaithful == Exists("out") => Holds("out") = "copy" /\ faithful

\* A run that has published its copy finds it there, and until its command is over
\* the capture holds what it held when the run started.
TheCaptureIsUntouched ==
  \A p \in Processes :
    /\ IsAt(p, "published") => Exists("out")
    /\ run[p].at \notin {"idle", "leave"} => Holds("capture") = run[p].saw

\* The code of slim --replace is true from the moment it is decided.
TheCodeIsTrue ==
  \A p \in Processes : Command(p) = "replace" =>
    /\ run[p].code = "ok" => Holds("capture") = "copy"
    /\ run[p].code \in {"errors", "fatal"} => Holds("capture") = run[p].saw

IInv ==
  /\ TypeOK /\ NamesAreApart /\ TheTemporaryIsMine /\ TheCopyIsFaithful
  /\ TheCaptureIsUntouched /\ TheSessionSurvives /\ TheCodeIsTrue

-----------------------------------------------------------------------------
(* What a step makes of its run. *)

Steps == {"idle", "look", "plan", "open", "write", "verify", "publish", "published", "cleanup",
          "leave"}
Codes == {"ok", "errors", "fatal", "interrupted", "killed", "running"}
Over == {"idle", "leave", "cleanup"}

Runs == [command : Commands, file : Files \union {NoFile}, at : Steps, code : Codes,
         saw : {"original", "copy", "torn"}]

LEMMA RunIsTyped == TypeOK => run \in [Processes -> Runs]
BY DEF TypeOK, Runs, Steps, Codes

LEMMA GoWithChanges ==
  ASSUME NEW p \in Processes, TypeOK, NEW step \in Steps, NEW code \in Codes,
         GoWith(p, step, code)
  PROVE  /\ run' \in [Processes -> Runs]
         /\ run'[p].at = step /\ run'[p].code = code /\ run'[p].file = run[p].file
         /\ run'[p].command = run[p].command /\ run'[p].saw = run[p].saw
<1>1. run[p] \in Runs
  BY RunIsTyped
<1>2. [run[p] EXCEPT !.at = step, !.code = code] \in Runs
  BY <1>1 DEF Runs
<1>3. run' = [run EXCEPT ![p] = [run[p] EXCEPT !.at = step, !.code = code]]
  BY RunIsTyped DEF GoWith
<1>4. QED
  BY <1>1, <1>2, <1>3, RunIsTyped DEF Runs

LEMMA GoKeepsTheCode ==
  ASSUME NEW p \in Processes, TypeOK, NEW step \in Steps, Go(p, step)
  PROVE  run[p].code \in Codes /\ GoWith(p, step, run[p].code)
<1>1. run[p] \in Runs
  BY RunIsTyped
<1>2. [run[p] EXCEPT !.at = step, !.code = run[p].code] = [run[p] EXCEPT !.at = step]
  BY <1>1 DEF Runs
<1>3. QED
  BY <1>1, <1>2, RunIsTyped DEF Go, GoWith, Runs

LEMMA TheCodes ==
  ASSUME NEW p \in Processes, TypeOK
  PROVE  /\ Own \in {"ok", "errors"}
         /\ FaultCode(p) \in {"ok", "errors", "fatal"}
         /\ Command(p) = "replace" => FaultCode(p) = "fatal"
         /\ Fail(p) => \E code \in {"ok", "errors"} :
              Exit(p, code) /\ (Command(p) = "replace" => code = "errors")
BY DEF TypeOK, Own, FaultCode, Fail

-----------------------------------------------------------------------------
(* The invariant is inductive.  Most steps leave the files and two of the names *)
(* alone, and at most remove the temporary name: what they keep is said once.   *)

LEMMA InitIsGood == Init => IInv
<1> SUFFICES ASSUME Init PROVE IInv
  OBVIOUS
<1>1. TypeOK
  <2>1. names \in [capture : Files, out : Files \union {NoFile}, partial : Files \union {NoFile}]
    BY PublishAssumption DEF Init, Files
  <2>2. content \in [Files -> {"original", "copy", "torn"}]
    BY DEF Init
  <2>3. run \in [Processes -> Runs]
    BY DEF Init, Runs, Commands, Steps, Codes
  <2>4. made \in Files /\ runs \in 0 .. MaxRuns
    BY PublishAssumption DEF Init, Files
  <2>5. faithful \in BOOLEAN /\ clean \in BOOLEAN /\ left \in BOOLEAN
    BY DEF Init
  <2>6. ~(runs > 0)
    BY DEF Init
  <2>7. QED
    BY <2>1, <2>2, <2>3, <2>4, <2>5, <2>6 DEF TypeOK, Runs, Steps, Codes
<1>2. NamesAreApart /\ TheCopyIsFaithful /\ TheSessionSurvives
  BY PublishAssumption DEF Init, NamesAreApart, TheCopyIsFaithful, TheSessionSurvives, Files,
     NoFile, Exists, Holds
<1>3. TheTemporaryIsMine /\ TheCaptureIsUntouched /\ TheCodeIsTrue
  BY DEF Init, TheTemporaryIsMine, TheCaptureIsUntouched, TheCodeIsTrue, Exists, IsAt, InTry,
     Command
<1>4. QED
  BY <1>1, <1>2, <1>3 DEF IInv

\* A step that writes no file and leaves the capture's name and the copy's.
LEMMA MovingOnKeeps ==
  ASSUME NEW p \in Processes, Processes = {p}, IInv,
         NEW step \in Steps \ {"write", "verify", "published"}, NEW code \in Codes,
         GoWith(p, step, code),
         UNCHANGED <<content, made, faithful, clean, runs>>, left' \in BOOLEAN,
         names' \in {names, [names EXCEPT !.partial = NoFile]},
         runs > 0 => (code = "running") = (step \notin Over),
         step = "publish" => Exists("partial") /\ Holds("partial") = "copy" /\ faithful
                               /\ UNCHANGED names,
         step \notin {"publish", "cleanup"} /\ ~left' => names'.partial = NoFile,
         step \notin {"idle", "leave"} => run[p].at \notin {"idle", "leave"},
         Command(p) = "replace" => /\ code = "ok" => Holds("capture") = "copy"
                                   /\ code \in {"errors", "fatal"} => Holds("capture") = run[p].saw
  PROVE  IInv'
<1> USE DEF Command, Exists, Files, Holds, IsAt, InTry, NoFile, IInv
<1>1. /\ run' \in [Processes -> Runs]
      /\ run'[p].at = step /\ run'[p].code = code
      /\ run'[p].command = run[p].command /\ run'[p].saw = run[p].saw
  BY GoWithChanges
<1>2. /\ names' \in [capture : Files, out : Files \union {NoFile}, partial : Files \union {NoFile}]
      /\ names'.capture = names.capture /\ names'.out = names.out
      /\ names'.partial \in {names.partial, NoFile}
  BY DEF TypeOK
<1>3. TypeOK'
  <2>1. \A q \in Processes : runs' > 0 =>
          (run'[q].code = "running") = (run'[q].at \notin {"idle", "leave", "cleanup"})
    BY <1>1 DEF Over
  <2>2. QED
    BY <1>1, <1>2, <2>1 DEF TypeOK, Runs, Steps, Codes
<1>4. NamesAreApart'
  BY <1>2 DEF TypeOK, NamesAreApart
<1>5. TheTemporaryIsMine'
  BY <1>1 DEF TheTemporaryIsMine
<1>6. TheCopyIsFaithful'
  BY <1>2 DEF TheCopyIsFaithful
<1>7. TheCaptureIsUntouched'
  BY <1>1, <1>2 DEF TheCaptureIsUntouched
<1>8. TheSessionSurvives'
  BY <1>2 DEF TheSessionSurvives
<1>9. TheCodeIsTrue'
  BY <1>1, <1>2 DEF TheCodeIsTrue
<1>10. QED
  BY <1>3, <1>4, <1>5, <1>6, <1>7, <1>8, <1>9

LEMMA StartKeeps ==
  ASSUME NEW p \in Processes, Processes = {p}, IInv, NEW command \in Commands, Start(p, command)
  PROVE  IInv'
<1> USE DEF Command, Exists, Files, Holds, IsAt, InTry, NoFile, IInv
<1>1. /\ run' \in [Processes -> Runs]
      /\ run'[p].at \in {"look", "plan"} /\ run'[p].code = "running"
      /\ run'[p].saw = Holds("capture")
  BY DEF Start, Runs, Steps, Codes, TypeOK
<1>2. runs \in Nat /\ runs' = runs + 1 /\ runs' <= MaxRuns
  BY PublishAssumption DEF Start, TypeOK
<1>3. TypeOK'
  BY <1>1, <1>2 DEF TypeOK, Start, Runs, Steps, Codes
<1>4. NamesAreApart'
  BY DEF NamesAreApart, Start
<1>5. TheTemporaryIsMine'
  BY <1>1 DEF TheTemporaryIsMine, Start
<1>6. TheCopyIsFaithful'
  BY DEF TheCopyIsFaithful, Start
<1>7. TheCaptureIsUntouched'
  BY <1>1 DEF TheCaptureIsUntouched, Start
<1>8. TheSessionSurvives'
  BY DEF TheSessionSurvives, Start
<1>9. TheCodeIsTrue'
  BY <1>1 DEF TheCodeIsTrue
<1>10. QED
  BY <1>3, <1>4, <1>5, <1>6, <1>7, <1>8, <1>9

\* What a step from one that is not over may rely on.
LEMMA NotOver ==
  ASSUME NEW p \in Processes, IInv, run[p].at \notin Over
  PROVE  /\ runs > 0 => run[p].code = "running"
         /\ Holds("capture") = run[p].saw
         /\ ~InTry(p) /\ ~left => names.partial = NoFile
BY DEF IInv, TypeOK, Over, TheCaptureIsUntouched, TheTemporaryIsMine, IsAt, Exists

\* Going on to a step that is outside the try, with nothing changed.
LEMMA GoingOnKeeps ==
  ASSUME NEW p \in Processes, Processes = {p}, IInv, run[p].at \in {"look", "plan"},
         NEW step \in {"look", "plan", "open"}, Go(p, step),
         UNCHANGED <<names, content, made, faithful, clean, runs, left>>
  PROVE  IInv'
<1>1. GoWith(p, step, run[p].code) /\ run[p].code \in Codes
  BY GoKeepsTheCode DEF IInv, Steps
<1>2. TypeOK /\ left \in BOOLEAN /\ TheCodeIsTrue
  BY DEF IInv, TypeOK
<1>3. ~left => names.partial = NoFile
  BY NotOver DEF Over, InTry
<1>4. runs > 0 => run[p].code = "running"
  BY NotOver DEF Over
<1>5. QED
  BY <1>1, <1>2, <1>3, <1>4, MovingOnKeeps DEF Steps, Over, TheCodeIsTrue

\* Leaving the command from outside the try, with a code that is true.
LEMMA ExitKeeps ==
  ASSUME NEW p \in Processes, Processes = {p}, IInv,
         run[p].at \in {"look", "plan", "open", "published", "leave"},
         NEW code \in Codes \ {"running"}, Exit(p, code),
         UNCHANGED <<names, content, made, faithful, clean, runs, left>>,
         Command(p) = "replace" => /\ code = "ok" => Holds("capture") = "copy"
                                   /\ code \in {"errors", "fatal"} => Holds("capture") = run[p].saw
  PROVE  IInv'
<1>1. GoWith(p, "leave", code) /\ left \in BOOLEAN
  BY DEF Exit, IInv, TypeOK
<1>2. ~left => names.partial = NoFile
  BY DEF IInv, TheTemporaryIsMine, InTry, IsAt, Exists
<1>3. QED
  BY <1>1, <1>2, MovingOnKeeps DEF Steps, Codes, Over

\* The same, of an exception inside the try.
LEMMA UnwindKeeps ==
  ASSUME NEW p \in Processes, Processes = {p}, IInv, run[p].at \notin Over,
         NEW code \in {"ok", "errors", "fatal", "interrupted"}, Unwind(p, code),
         Command(p) = "replace" => code \in {"fatal", "interrupted"},
         UNCHANGED <<names, content, made, faithful, clean, runs, left>>
  PROVE  IInv'
<1>1. GoWith(p, "cleanup", code) /\ left \in BOOLEAN
  BY DEF Unwind, IInv, TypeOK
<1>2. Holds("capture") = run[p].saw
  BY NotOver
<1>3. QED
  BY <1>1, <1>2, MovingOnKeeps DEF Steps, Codes, Over

LEMMA LookForCopyKeeps ==
  ASSUME NEW p \in Processes, Processes = {p}, IInv, LookForCopy(p)
  PROVE  IInv'
<1>1. run[p].at = "look" /\ UNCHANGED <<names, content, made, faithful, clean, runs, left>>
  BY DEF LookForCopy, IsAt, disk, fixed
<1>2. CASE Fail(p)
  <2>1. PICK code \in {"ok", "errors"} :
          Exit(p, code) /\ (Command(p) = "replace" => code = "errors")
    BY <1>2, TheCodes DEF IInv
  <2>2. Holds("capture") = run[p].saw
    BY <1>1, NotOver DEF Over
  <2>3. QED
    BY <1>1, <2>1, <2>2, ExitKeeps DEF Codes
<1>3. CASE \E step \in {"plan", "open"} : Go(p, step)
  BY <1>1, <1>3, GoingOnKeeps
<1>4. QED
  BY <1>2, <1>3 DEF LookForCopy

LEMMA PlanKeeps ==
  ASSUME NEW p \in Processes, Processes = {p}, IInv, Plan(p)
  PROVE  IInv'
<1>1. run[p].at = "plan" /\ UNCHANGED <<names, content, made, faithful, clean, runs, left>>
  BY DEF Plan, IsAt, disk, fixed
<1>2. Holds("capture") \in {"original", "copy"}
  BY DEF IInv, TheSessionSurvives
<1>3. CASE \E step \in {"open", "look"} : Go(p, step)
  BY <1>1, <1>3, GoingOnKeeps
<1>4. CASE Holds("capture") = "copy" /\ Exit(p, IF Command(p) = "decode" THEN Own ELSE "ok")
  <2>1. PICK code \in {"ok", "errors"} :
          Exit(p, code) /\ (Command(p) = "replace" => code = "ok")
    BY <1>4, TheCodes DEF IInv
  <2>2. QED
    BY <1>1, <1>4, <2>1, ExitKeeps DEF Codes
<1>5. QED
  BY <1>2, <1>3, <1>4 DEF Plan

LEMMA OpenKeeps ==
  ASSUME NEW p \in Processes, Processes = {p}, IInv, Open(p)
  PROVE  IInv'
<1> USE DEF Command, Exists, Files, Holds, IsAt, InTry, NoFile, IInv
<1>1. PICK file \in Files :
        /\ names' = [names EXCEPT !.partial = file]
        /\ content' = [content EXCEPT ![file] = "torn"]
        /\ \/ Exists("partial") /\ file = names.partial /\ made' = made
           \/ file = made + 1 /\ made' = made + 1
        /\ run' = [run EXCEPT ![p].at = "write", ![p].file = file]
  BY DEF Open
<1>2. /\ run' \in [Processes -> Runs]
      /\ run'[p].at = "write" /\ run'[p].file = file /\ run'[p].code = run[p].code
      /\ Command(p)' = Command(p) /\ run'[p].saw = run[p].saw
  BY <1>1, RunIsTyped DEF Runs, Steps
<1>3. /\ file # names.capture /\ file # names.out
      /\ made' \in Files /\ made <= made' /\ file <= made'
      /\ UNCHANGED <<faithful, clean, runs, left>>
  BY <1>1 DEF NamesAreApart, TypeOK, Open, fixed
<1>4. TypeOK'
  <2>1. \A q \in Processes : runs' > 0 =>
          (run'[q].code = "running") = (run'[q].at \notin {"idle", "leave", "cleanup"})
    BY <1>2, <1>3 DEF TypeOK, Open
  <2>2. /\ names' \in [capture : Files, out : Files \union {NoFile}, partial : Files \union {NoFile}]
        /\ content' \in [Files -> {"original", "copy", "torn"}]
    BY <1>1 DEF TypeOK
  <2>3. QED
    BY <1>2, <1>3, <2>1, <2>2 DEF TypeOK, Runs, Steps, Codes
<1>5. NamesAreApart'
  BY <1>1 DEF TypeOK, NamesAreApart
<1>6. TheTemporaryIsMine'
  BY <1>1, <1>2 DEF TheTemporaryIsMine
<1>7. TheCopyIsFaithful'
  BY <1>1, <1>3 DEF TheCopyIsFaithful
<1>8. TheCaptureIsUntouched'
  BY <1>1, <1>2, <1>3 DEF TheCaptureIsUntouched, Open
<1>9. TheSessionSurvives'
  BY <1>1, <1>3 DEF TheSessionSurvives
<1>10. TheCodeIsTrue'
  BY <1>1, <1>2, <1>3 DEF TheCodeIsTrue
<1>11. QED
  BY <1>4, <1>5, <1>6, <1>7, <1>8, <1>9, <1>10

LEMMA WriteKeeps ==
  ASSUME NEW p \in Processes, Processes = {p}, IInv, Write(p)
  PROVE  IInv'
<1> USE DEF Command, Exists, Files, Holds, IsAt, InTry, NoFile, IInv
<1>1. /\ run[p].file = names.partial /\ Exists("partial")
      /\ content' = [content EXCEPT ![names.partial] = "copy"]
      /\ Go(p, "verify") /\ UNCHANGED <<names, made, faithful, clean, runs, left>>
  BY DEF Write, TheTemporaryIsMine, fixed
<1>2. names.partial # names.capture /\ names.partial # names.out
  BY <1>1 DEF NamesAreApart
<1>3. /\ run' \in [Processes -> Runs]
      /\ run'[p].at = "verify" /\ run'[p].file = run[p].file /\ run'[p].code = run[p].code
      /\ run'[p].command = run[p].command /\ run'[p].saw = run[p].saw
  BY <1>1, GoKeepsTheCode, GoWithChanges DEF Steps
<1>4. TypeOK'
  <2>1. \A q \in Processes : runs' > 0 =>
          (run'[q].code = "running") = (run'[q].at \notin {"idle", "leave", "cleanup"})
    BY <1>1, <1>3 DEF TypeOK, Write
  <2>2. content' \in [Files -> {"original", "copy", "torn"}]
    BY <1>1 DEF TypeOK
  <2>3. QED
    BY <1>1, <1>3, <2>1, <2>2 DEF TypeOK, Runs, Steps, Codes
<1>5. NamesAreApart'
  BY <1>1 DEF NamesAreApart
<1>6. TheTemporaryIsMine'
  BY <1>1, <1>3 DEF TypeOK, TheTemporaryIsMine
<1>7. TheCopyIsFaithful'
  BY <1>1, <1>2 DEF TheCopyIsFaithful
<1>8. TheCaptureIsUntouched'
  BY <1>1, <1>2, <1>3 DEF TheCaptureIsUntouched, Write
<1>9. TheSessionSurvives'
  BY <1>1, <1>2 DEF TheSessionSurvives
<1>10. TheCodeIsTrue'
  BY <1>1, <1>2, <1>3 DEF TheCodeIsTrue
<1>11. QED
  BY <1>4, <1>5, <1>6, <1>7, <1>8, <1>9, <1>10

LEMMA VerifyKeeps ==
  ASSUME NEW p \in Processes, Processes = {p}, IInv, Verify(p)
  PROVE  IInv'
<1>1. /\ run[p].at = "verify" /\ UNCHANGED <<content, made, faithful, clean, runs, left>>
      /\ Exists("partial") /\ Holds("partial") = "copy"
      /\ TypeOK /\ left \in BOOLEAN /\ TheCodeIsTrue
  BY DEF Verify, IsAt, fixed, IInv, TheTemporaryIsMine, TypeOK
<1>2. Holds("capture") = run[p].saw /\ (runs > 0 => run[p].code = "running")
  BY <1>1, NotOver DEF Over
<1>3. CASE faithful /\ Go(p, "publish") /\ UNCHANGED names
  <2>1. GoWith(p, "publish", run[p].code) /\ run[p].code \in Codes
    BY <1>1, <1>3, GoKeepsTheCode DEF Steps
  <2>2. QED
    BY <1>1, <1>2, <1>3, <2>1, MovingOnKeeps DEF Steps, Over, TheCodeIsTrue
<1>4. CASE names' = [names EXCEPT !.partial = NoFile] /\ Fail(p)
  <2>1. PICK code \in {"ok", "errors"} :
          GoWith(p, "leave", code) /\ (Command(p) = "replace" => code = "errors")
    BY <1>1, <1>4, TheCodes DEF Exit
  <2>2. names'.partial = NoFile
    BY <1>1, <1>4 DEF TypeOK
  <2>3. QED
    BY <1>1, <1>2, <1>4, <2>1, <2>2, MovingOnKeeps DEF Steps, Codes, Over
<1>5. QED
  BY <1>1, <1>3, <1>4 DEF Verify

LEMMA PublishKeeps ==
  ASSUME NEW p \in Processes, Processes = {p}, IInv, Publish(p)
  PROVE  IInv'
<1> USE DEF Command, Exists, Files, Holds, IsAt, InTry, NoFile, IInv
<1>1. /\ names' = [names EXCEPT !.out = names.partial, !.partial = NoFile]
      /\ Go(p, "published") /\ Exists("partial") /\ Holds("partial") = "copy" /\ faithful
      /\ UNCHANGED <<content, made, faithful, clean, runs, left>>
  BY DEF Publish, TheTemporaryIsMine, fixed
<1>2. /\ run' \in [Processes -> Runs]
      /\ run'[p].at = "published" /\ run'[p].code = run[p].code
      /\ run'[p].command = run[p].command /\ run'[p].saw = run[p].saw
  BY <1>1, GoKeepsTheCode, GoWithChanges DEF Steps
<1>3. /\ names' \in [capture : Files, out : Files \union {NoFile}, partial : Files \union {NoFile}]
      /\ names'.capture = names.capture /\ names'.out = names.partial /\ names'.partial = NoFile
  BY <1>1 DEF TypeOK
<1>4. TypeOK'
  <2>1. \A q \in Processes : runs' > 0 =>
          (run'[q].code = "running") = (run'[q].at \notin {"idle", "leave", "cleanup"})
    BY <1>1, <1>2 DEF TypeOK, Publish
  <2>2. QED
    BY <1>1, <1>2, <1>3, <2>1 DEF TypeOK, Runs, Steps, Codes
<1>5. NamesAreApart'
  BY <1>1, <1>3 DEF TypeOK, NamesAreApart
<1>6. TheTemporaryIsMine'
  BY <1>2, <1>3 DEF TheTemporaryIsMine
<1>7. TheCopyIsFaithful'
  BY <1>1, <1>3 DEF TheCopyIsFaithful
<1>8. TheCaptureIsUntouched'
  BY <1>1, <1>2, <1>3 DEF TheCaptureIsUntouched, Publish
<1>9. TheSessionSurvives'
  BY <1>1, <1>3 DEF TheSessionSurvives
<1>10. TheCodeIsTrue'
  BY <1>1, <1>2, <1>3 DEF TheCodeIsTrue
<1>11. QED
  BY <1>4, <1>5, <1>6, <1>7, <1>8, <1>9, <1>10

LEMMA ReturnKeeps ==
  ASSUME NEW p \in Processes, Processes = {p}, IInv, Return(p)
  PROVE  IInv'
<1>1. /\ run[p].at = "published" /\ UNCHANGED <<names, content, made, faithful, clean, runs, left>>
      /\ Command(p) # "replace" /\ Exit(p, Own)
  BY DEF Return, IsAt, disk, fixed
<1>2. Own \in {"ok", "errors"}
  BY TheCodes DEF IInv
<1>3. QED
  BY <1>1, <1>2, ExitKeeps DEF Codes

LEMMA ReplaceKeeps ==
  ASSUME NEW p \in Processes, Processes = {p}, IInv, Replace(p)
  PROVE  IInv'
<1>1. CASE ~clean /\ Exit(p, "errors") /\ UNCHANGED names
  <2>1. run[p].at = "published" /\ UNCHANGED <<names, content, made, faithful, clean, runs, left>>
    BY <1>1 DEF Replace, IsAt, fixed
  <2>2. Holds("capture") = run[p].saw
    BY <2>1, NotOver DEF Over
  <2>3. QED
    BY <1>1, <2>1, <2>2, ExitKeeps DEF Codes
<1>2. CASE /\ clean /\ Exists("out") /\ Exit(p, "ok")
           /\ names' = [names EXCEPT !.capture = names.out, !.out = NoFile]
  <2> USE DEF Command, Exists, Files, Holds, IsAt, InTry, NoFile, IInv
  <2>1. /\ run' \in [Processes -> Runs]
        /\ run'[p].at = "leave" /\ run'[p].code = "ok" /\ run'[p].command = run[p].command
    BY <1>2, GoWithChanges DEF Exit, Steps, Codes
  <2>2. /\ names' \in [capture : Files, out : Files \union {NoFile}, partial : Files \union {NoFile}]
        /\ names'.capture = names.out /\ names'.out = NoFile /\ names'.partial = names.partial
        /\ names.out \in Files
    BY <1>2 DEF TypeOK
  <2>3. UNCHANGED <<content, made, faithful, clean, runs, left>> /\ run[p].at = "published"
    BY DEF Replace, fixed
  <2>4. Holds("capture")' = "copy" /\ faithful
    BY <1>2, <2>2, <2>3 DEF TheCopyIsFaithful
  <2>5. TypeOK'
    <3>1. \A q \in Processes : runs' > 0 =>
            (run'[q].code = "running") = (run'[q].at \notin {"idle", "leave", "cleanup"})
      BY <2>1
    <3>2. QED
      BY <2>1, <2>2, <2>3, <3>1 DEF TypeOK, Runs, Steps, Codes
  <2>6. NamesAreApart'
    BY <1>2, <2>2, <2>3 DEF TypeOK, NamesAreApart
  <2>7. TheTemporaryIsMine'
    BY <2>1, <2>2, <2>3 DEF TheTemporaryIsMine
  <2>8. TheCopyIsFaithful'
    BY <2>2 DEF TheCopyIsFaithful
  <2>9. TheCaptureIsUntouched'
    BY <2>1 DEF TheCaptureIsUntouched
  <2>10. TheSessionSurvives'
    BY <1>2, <2>3, <2>4 DEF TheSessionSurvives
  <2>11. TheCodeIsTrue'
    BY <2>1, <2>4 DEF TheCodeIsTrue
  <2>12. QED
    BY <2>5, <2>6, <2>7, <2>8, <2>9, <2>10, <2>11
<1>3. QED
  BY <1>1, <1>2 DEF Replace

LEMMA LeaveKeeps ==
  ASSUME NEW p \in Processes, Processes = {p}, IInv, Leave(p)
  PROVE  IInv'
<1>1. /\ run[p].at = "leave" /\ UNCHANGED <<names, content, made, faithful, clean, runs, left>>
      /\ TypeOK /\ left \in BOOLEAN /\ TheCodeIsTrue
  BY DEF Leave, IsAt, disk, fixed, IInv, TypeOK
<1>2. GoWith(p, "idle", run[p].code) /\ run[p].code \in Codes
  BY <1>1, GoKeepsTheCode DEF Leave, Steps
<1>3. ~left => names.partial = NoFile
  BY <1>1 DEF IInv, TheTemporaryIsMine, InTry, IsAt, Exists
<1>4. runs > 0 => run[p].code # "running"
  BY <1>1 DEF TypeOK
<1>5. QED
  BY <1>1, <1>2, <1>3, <1>4, MovingOnKeeps DEF Steps, Over, TheCodeIsTrue

LEMMA FaultKeeps ==
  ASSUME NEW p \in Processes, Processes = {p}, IInv, Fault(p)
  PROVE  IInv'
<1>1. UNCHANGED <<names, content, made, faithful, clean, runs, left>>
  BY DEF Fault, disk, fixed
<1>2. CASE (InTry(p) \/ IsAt(p, "open")) /\ Unwind(p, FaultCode(p))
  <2>1. /\ FaultCode(p) \in {"ok", "errors", "fatal"}
        /\ Command(p) = "replace" => FaultCode(p) = "fatal"
    BY TheCodes DEF IInv
  <2>2. run[p].at \notin Over
    BY <1>2 DEF InTry, IsAt, Over
  <2>3. QED
    BY <1>1, <1>2, <2>1, <2>2, UnwindKeeps
<1>3. CASE run[p].at \in {"plan", "look", "published"} /\ Exit(p, "fatal")
  <2>1. Holds("capture") = run[p].saw
    BY <1>3, NotOver DEF Over
  <2>2. QED
    BY <1>1, <1>3, <2>1, ExitKeeps DEF Codes
<1>4. QED
  BY <1>2, <1>3 DEF Fault, IsAt

LEMMA CleanUpKeeps ==
  ASSUME NEW p \in Processes, Processes = {p}, IInv, CleanUp(p)
  PROVE  IInv'
<1>1. /\ run[p].at = "cleanup" /\ UNCHANGED <<content, made, faithful, clean, runs, left>>
      /\ names' = [names EXCEPT !.partial = NoFile] /\ names'.partial = NoFile
      /\ TypeOK /\ left \in BOOLEAN /\ TheCodeIsTrue
  BY DEF CleanUp, IsAt, fixed, IInv, TypeOK
<1>2. GoWith(p, "leave", run[p].code) /\ run[p].code \in Codes
  BY <1>1, GoKeepsTheCode DEF CleanUp, Steps
<1>3. runs > 0 => run[p].code # "running"
  BY <1>1 DEF TypeOK
<1>4. QED
  BY <1>1, <1>2, <1>3, MovingOnKeeps DEF Steps, Over, TheCodeIsTrue

\* A run stopped where it leaves its temporary file, with a code that is true.
LEMMA CutShortKeeps ==
  ASSUME NEW p \in Processes, Processes = {p}, IInv, CutShort,
         NEW step \in {"idle", "leave"}, NEW code \in Codes \ {"running"}, GoWith(p, step, code),
         Command(p) = "replace" => /\ code # "ok"
                                   /\ code \in {"errors", "fatal"} => Holds("capture") = run[p].saw
  PROVE  IInv'
<1>1. /\ UNCHANGED <<names, content, made, faithful, clean, runs>>
      /\ left' \in BOOLEAN /\ (~left' => names'.partial = NoFile)
  BY DEF CutShort, disk, IInv, TypeOK, Exists
<1>2. QED
  BY <1>1, MovingOnKeeps DEF Steps, Codes, Over

LEMMA CleanUpFailsKeeps ==
  ASSUME NEW p \in Processes, Processes = {p}, IInv, CleanUpFails(p)
  PROVE  IInv'
<1>1. /\ FaultCode(p) \in {"ok", "errors", "fatal"}
      /\ Command(p) = "replace" => FaultCode(p) = "fatal"
  BY TheCodes DEF IInv
<1>2. Holds("capture") = run[p].saw
  BY DEF CleanUpFails, IsAt, IInv, TheCaptureIsUntouched
<1>3. CutShort /\ GoWith(p, "leave", FaultCode(p))
  BY DEF CleanUpFails, Exit
<1>4. QED
  BY <1>1, <1>2, <1>3, CutShortKeeps DEF Codes

LEMMA InterruptKeeps ==
  ASSUME NEW p \in Processes, Processes = {p}, IInv, Interrupt(p)
  PROVE  IInv'
<1>1. CASE (InTry(p) \/ ByTheTry(p)) /\ Unwind(p, "interrupted") /\ UNCHANGED <<disk, fixed>>
  <2>1. UNCHANGED <<names, content, made, faithful, clean, runs, left>>
    BY <1>1 DEF disk, fixed
  <2>2. run[p].at \notin Over
    BY <1>1 DEF InTry, ByTheTry, Over
  <2>3. QED
    BY <1>1, <2>1, <2>2, UnwindKeeps
<1>2. CASE /\ run[p].at \in {"look", "plan", "leave"} \/ ByTheTry(p)
           /\ Exit(p, "interrupted") /\ UNCHANGED <<disk, fixed>>
  <2>1. UNCHANGED <<names, content, made, faithful, clean, runs, left>>
    BY <1>2 DEF disk, fixed
  <2>2. run[p].at \in {"look", "plan", "open", "published", "leave"}
    BY <1>2 DEF ByTheTry
  <2>3. QED
    BY <1>2, <2>1, <2>2, ExitKeeps DEF Codes
<1>3. CASE IsAt(p, "cleanup") /\ Exit(p, "interrupted") /\ CutShort
  <2>1. GoWith(p, "leave", "interrupted")
    BY <1>3 DEF Exit
  <2>2. QED
    BY <1>3, <2>1, CutShortKeeps DEF Codes
<1>4. CASE IsAt(p, "leave") /\ GoWith(p, "idle", "killed") /\ UNCHANGED <<disk, fixed>>
  <2>1. /\ UNCHANGED <<names, content, made, faithful, clean, runs, left>>
        /\ left \in BOOLEAN
    BY <1>4 DEF disk, fixed, IInv, TypeOK
  <2>2. ~left => names.partial = NoFile
    BY <1>4 DEF IInv, TheTemporaryIsMine, InTry, IsAt, Exists
  <2>3. QED
    BY <1>4, <2>1, <2>2, MovingOnKeeps DEF Steps, Codes, Over
<1>5. QED
  BY <1>1, <1>2, <1>3, <1>4 DEF Interrupt

LEMMA KillKeeps ==
  ASSUME NEW p \in Processes, Processes = {p}, IInv, Kill(p)
  PROVE  IInv'
BY CutShortKeeps DEF Kill, Codes

-----------------------------------------------------------------------------

LEMMA StepKeepsIInv ==
  ASSUME OneShell, IInv, [Next]_vars
  PROVE  IInv'
<1>1. CASE UNCHANGED vars
  BY <1>1 DEF vars, IInv, TypeOK, NamesAreApart, TheTemporaryIsMine, TheCopyIsFaithful,
     TheCaptureIsUntouched, TheSessionSurvives, TheCodeIsTrue, Exists, Holds, IsAt, InTry,
     Command
<1>2. CASE Next
  <2>1. PICK p \in Processes :
          \/ \E command \in Commands : Start(p, command)
          \/ LookForCopy(p) \/ Plan(p) \/ Open(p) \/ Write(p) \/ Verify(p)
          \/ Publish(p) \/ Return(p) \/ Replace(p) \/ Leave(p)
          \/ Fault(p) \/ CleanUp(p) \/ CleanUpFails(p) \/ Interrupt(p) \/ Kill(p)
    BY <1>2 DEF Next
  <2>2. Processes = {p}
    BY DEF OneShell
  <2>3. QED
    BY <2>1, <2>2, StartKeeps, LookForCopyKeeps, PlanKeeps, OpenKeeps, WriteKeeps, VerifyKeeps,
       PublishKeeps, ReturnKeeps, ReplaceKeeps, LeaveKeeps, FaultKeeps, CleanUpKeeps,
       CleanUpFailsKeeps, InterruptKeeps, KillKeeps
<1>3. QED
  BY <1>1, <1>2

\* The inductive invariant holds throughout the runs of one shell, whatever fails and
\* whenever they are interrupted or killed (cli.py, _write_verified, cmd_slim and main).
THEOREM InvariantHolds == ASSUME OneShell PROVE Spec => []IInv
<1>1. Init => IInv
  BY InitIsGood
<1>2. IInv /\ [Next]_vars => IInv'
  BY StepKeepsIInv
<1>3. QED
  BY <1>1, <1>2, PTL DEF Spec

\* With one shell, whatever fails and whenever a run is interrupted or killed,
\* the copy's final name holds nothing but a complete copy that decodes as the
\* original does, and runs leave no temporary file unless they were killed or their
\* cleanup was cut short (cli.py, _write_verified).
THEOREM TheCopyIsVerified == ASSUME OneShell PROVE Spec => []OutIsVerified
<1>1. IInv => OutIsVerified
  BY DEF OneShell, IInv, TheCopyIsFaithful, TheTemporaryIsMine, OutIsVerified, IsAt, InTry
<1>2. QED
  BY <1>1, InvariantHolds, PTL

\* With one shell the only record of the session is never lost: the capture's
\* name holds the original, or a faithful copy put there on purpose by a run
\* that logged no error (cli.py, cmd_slim).
THEOREM TheSessionIsNeverLost == ASSUME OneShell PROVE Spec => []TheSessionSurvives
<1>1. IInv => TheSessionSurvives
  BY DEF IInv
<1>2. QED
  BY <1>1, InvariantHolds, PTL

\* With one shell the exit of slim --replace says whether the capture was replaced:
\* 0 only with the copy in its place, an error that is no interrupt only with what the
\* run found, whenever it or an earlier run was interrupted (cli.py, cmd_slim and main).
THEOREM TheExitCodeSaysWhatWasDone == ASSUME OneShell PROVE Spec => []TheExitCodeIsTrue
<1>1. IInv => TheExitCodeIsTrue
  BY DEF IInv, TheCodeIsTrue, TheExitCodeIsTrue
<1>2. QED
  BY <1>1, InvariantHolds, PTL
=============================================================================
