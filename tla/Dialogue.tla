------------------------------ MODULE Dialogue ------------------------------
(***************************************************************************)
(* The dialogue rule (author/dialogue.py): an event points at a script and *)
(* the script at a text, one of each for every line whose trigger is known. *)
(***************************************************************************)
EXTENDS AuthorBase

CONSTANT NotObserved   \* _NOT_OBSERVED: columns whose default says something

\* said: [message, yelled] in the order first said.  triggers: message -> "aggro" or
\* "death".  sounds: message -> its sound.  untriggered: lines nothing explains.
NewDialogue == [said |-> <<>>, triggers |-> <<>>, sounds |-> <<>>, untriggered |-> {}]

Messages(r) == {r.said[i].message : i \in DOMAIN r.said}

\* handle: the first time a line is said; and what behaviour.py found of it.
Say(r, message, yelled) ==
  IF message \in Messages(r) THEN r
  ELSE [r EXCEPT !.said = Append(@, [message |-> message, yelled |-> yelled])]

TextTrigger(r, message, trigger, sound) ==
  [r EXCEPT !.triggers = (message :> trigger) @@ @,
            !.sounds = [m \in {n \in {message} : sound # {}} |-> CHOOSE s \in sound : TRUE] @@ @]

TextUntriggered(r, message) == [r EXCEPT !.untriggered = @ \union {message}]

-----------------------------------------------------------------------------
On(r, trigger) ==
  SelectSeq(r.said, LAMBDA line : line.message \in DOMAIN r.triggers /\ r.triggers[line.message] = trigger)

\* _numbered: aggro lines before death lines.
Numbered(r) == On(r, "aggro") \o On(r, "death")

EventType(trigger) == IF trigger = "aggro" THEN 4 ELSE 6
ChatType(line)     == IF line.yelled THEN 1 ELSE 0

\* Mutant: the script speaks the first line of its trigger.
ScriptOfFirst(r, n) ==
  LET line == Numbered(r)[n]
  IN  [convention |-> [c \in {<<"id", 0>>, <<"dataint", 0>>} |-> AuthoredId(IF c[1] = "id" THEN n ELSE 1)],
       wire |-> <<"datalong", 0>> :> ChatType(line)]

\* The cells of the three rows of line n; a yell's kind is read, a say's is seen.
Text(r, n) ==
  LET line  == Numbered(r)[n]
      kind  == <<"chat_type", 0>> :> ChatType(line)
      sound == [c \in {<<"sound_id", 0>> : m \in {line.message} \intersect DOMAIN r.sounds} |-> r.sounds[line.message]]
  IN  [convention |-> <<"entry", 0>> :> AuthoredId(n),
       wire       |-> (<<"male_text", 0>> :> line.message) @@ (IF line.yelled THEN <<>> ELSE kind),
       derived    |-> sound @@ (IF line.yelled THEN kind ELSE <<>>)]

Script(r, n) ==
  LET line == Numbered(r)[n]
      kind == <<"datalong", 0>> :> ChatType(line)
  IN  [convention |-> [c \in {<<"id", 0>>, <<"dataint", 0>>} |-> AuthoredId(n)],
       wire       |-> IF line.yelled THEN <<>> ELSE kind,
       derived    |-> IF line.yelled THEN kind ELSE <<>>]

Event(r, n) ==
  LET trigger == r.triggers[Numbered(r)[n].message]
  IN  [convention |-> [c \in {<<"id", 0>>, <<"action1_script", 0>>} |-> AuthoredId(n)],
       wire       |-> <<"creature_id", 0>> :> Entry,
       derived    |-> <<"event_type", 0>> :> EventType(trigger)]

DialogueRows(r, w) ==
  LET row(table, cells, skip) == Insert(table, FillSchemaDefaults(w, table, Cells(cells), skip))
      rows(n) == <<row("broadcast_text", Text(r, n), NotObserved),
                   row("creature_ai_scripts", Script(r, n), {}),
                   row("creature_ai_events", Event(r, n), {})>>
  IN  FlattenSeq([n \in DOMAIN Numbered(r) |-> rows(n)])

DialogueGaps(r, w) ==
  {<<"broadcast_text", "sound_id", line.message>> :
     line \in {l \in Range(Numbered(r)) : l.message \notin DOMAIN r.sounds}}
  \union {<<"broadcast_text", "trigger", m>> : m \in r.untriggered}
  \union IF r.said # <<>> /\ DOMAIN r.triggers = {} THEN {<<"creature_ai_events", "none", Entry>>} ELSE {}
=============================================================================
