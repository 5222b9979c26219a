------------------------------- MODULE Author -------------------------------
(***************************************************************************)
(* cmd_author (cli.py) over the authoring rules: what the capture held, a   *)
(* database that may be asked, and the file of rows and gaps proposed.     *)
(*                                                                         *)
(* What a rule reads no other rule reads, casts apart: a behaviour holds    *)
(* one subject of the capture, seen as the server and the network had it.  *)
(***************************************************************************)
EXTENDS Spells, Equipment, Dialogue, SpawnRows, StatsRows, Existing

CONSTANTS
  Subjects,               \* those explored, of: casts, arms, looks, talk, spawns
  Budget,                 \* of each subject: bound on the events and findings of a capture
  SpellIds, Items, Templates, Drift,
  Worlds(_, _)            \* of a subject and what is true of it: the databases there may be

VARIABLES
  subject, left,                           \* the bound: what is captured, and how much more
  truth,                                   \* what happened, whether seen or not
  talk, arms, template, spawns, spells,    \* the rules, in the order they are run
  world,                                   \* the database, once asked
  sections, gaps,                          \* of the writer (emit/authored.py)
  file, exit                               \* what was written, and the exit code

rules == <<talk, arms, template, spawns, spells>>
written == <<world, sections, gaps, file, exit>>
vars == <<subject, left, truth, rules, written>>

Handed == {1, 2}        \* the slots that ever hold an item
NoItem == [entry |-> 0, display |-> 0, kind |-> 0]

Init ==
  /\ \E s \in Subjects : subject = s /\ left = Budget[s]
  /\ truth \in CASE subject = "casts"  -> {[casting |-> {}, begun |-> {}, whole |-> {}, loose |-> {}]}
                 [] subject = "arms"   -> {[held |-> [s \in EquipSlots |-> IF s \in DOMAIN h THEN h[s] ELSE NoItem], seen |-> {}, changed |-> FALSE] :
                                       h \in [Handed -> Items]}
                 [] subject = "looks"  -> {[stored |-> t, drift |-> d] : t \in Templates, d \in Drift}
                 [] subject = "talk"   -> {[said |-> {}]}
                 [] subject = "spawns" -> {[t |-> 0, alive |-> TRUE, revived |-> FALSE]}
  /\ talk = NewDialogue /\ arms = NewArms /\ template = NewTemplate
  /\ spawns = NewSpawns /\ spells = NewSpells
  /\ world = NoWorld /\ sections = <<>> /\ gaps = {} /\ file = {} /\ exit = "none"

Capturing(what) == exit = "none" /\ subject = what
Spent(n) == left >= n /\ left' = left - n /\ UNCHANGED <<subject, written>>

-----------------------------------------------------------------------------
(* Casts, of two creatures: begun by choice or triggered by the server,     *)
(* their starts and goes seen or missed.                                   *)

Casters == {1, 2}
Casting(cost) == Spent(cost) /\ UNCHANGED <<talk, arms, spawns>>

Begin(g, s, seen) ==
  /\ Capturing("casts") /\ ~ \E k \in truth.casting : k[1] = g
  /\ truth' = [truth EXCEPT !.casting = @ \union {<<g, s>>},
                            !.begun = IF seen THEN @ \union {<<g, s>>} ELSE @,
                            !.loose = IF seen THEN @ \union {<<g, s>>} ELSE @]
  /\ spells' = IF seen THEN SpellStart(spells, g, s) ELSE spells
  /\ template' = IF seen THEN StatsSpellStart(template, g, s) ELSE template
  /\ Casting(1)

Finish(k) ==
  /\ Capturing("casts") /\ k \in truth.casting
  /\ truth' = [truth EXCEPT !.casting = @ \ {k}, !.loose = @ \ {k},
                            !.whole = IF k \in truth.loose THEN @ \union {k[2]} ELSE @]
  /\ spells' = SpellGo(spells, k[1], k[2]) /\ template' = StatsSpellGo(template, k[1], k[2])
  /\ Casting(0)

\* Interrupted, or its go missed.
Interrupt(k) ==
  /\ Capturing("casts") /\ k \in truth.casting
  /\ truth' = [truth EXCEPT !.casting = @ \ {k}]
  /\ UNCHANGED <<spells, template>> /\ Casting(0)

Trigger(g, s) ==
  /\ Capturing("casts")
  /\ spells' = SpellGo(spells, g, s) /\ template' = StatsSpellGo(template, g, s)
  /\ UNCHANGED truth /\ Casting(1)

\* behaviour.py's findings, of spells it saw cast; the creature query.
DelaysFound(s, first, again) ==
  /\ Capturing("casts") /\ s \in spells.casts \union spells.triggered
  /\ spells' = RepeatDelay(InitialDelay(spells, s, first), s, again)
  /\ UNCHANGED <<truth, template>> /\ Casting(1)

NameAnswered ==
  /\ Capturing("casts") /\ ~spells.named
  /\ spells' = [spells EXCEPT !.named = TRUE]
  /\ UNCHANGED <<truth, template>> /\ Casting(1)

-----------------------------------------------------------------------------
(* Arms: what is held changes in sight and out of it.                      *)

Arming == Spent(1) /\ UNCHANGED <<talk, template, spawns, spells>>

\* Of every field of a message, those given are in it; one names the creature.
Fields(held) ==
  (0 :> Entry) @@ [i \in {Display + s - 1 : s \in EquipSlots} |-> held[i - Display + 1].display]
    @@ [i \in {Info + (s - 1) * InfoWords : s \in EquipSlots} |-> held[(i - Info) \div InfoWords + 1].kind]
Message(held, P(_)) ==
  [fields |-> [i \in {j \in DOMAIN Fields(held) : P(j)} |-> Fields(held)[i]], named |-> {0, Display, Info}]

ComeInSight(corpse) ==
  /\ Capturing("arms")
  /\ arms' = ArmsCreated(arms, Message(truth.held, LAMBDA i : Fields(truth.held)[i] # 0), corpse)
  /\ truth' = [truth EXCEPT !.seen = @ \union {truth.held}]
  /\ Arming

Rearm(slot, item, seen) ==
  /\ Capturing("arms") /\ item # truth.held[slot]
  /\ LET now == [truth.held EXCEPT ![slot] = item]
     IN  /\ arms' = IF seen THEN ArmsChanged(arms, Message(now, LAMBDA i : Fields(now)[i] # Fields(truth.held)[i])) ELSE arms
         /\ truth' = [truth EXCEPT !.held = now,
                                   !.changed = @ \/ (seen /\ item.display # truth.held[slot].display)]
  /\ Arming

-----------------------------------------------------------------------------
(* Looks: the server shows its own template, floats computed and so drifted, *)
(* zeros left out, flags as the viewer may see them.                       *)

ModelScale == 12        \* of the creature's display, in the client's data

Showing == Spent(1) /\ UNCHANGED <<truth, talk, arms, spawns, spells>>

ShownFields(t, drift) ==
  LET scale == IF t.scale > 0 THEN t.scale ELSE ModelScale
      all == ("scale" :> scale) @@ [c \in {"dmg_min", "speed_walk", "faction"} |-> t[c]]
  IN  [c \in {d \in DOMAIN all : all[d] # 0} |-> IF c \in FloatColumns THEN all[c] + drift ELSE all[c]]

Look(hidden) ==
  /\ Capturing("looks")
  /\ template' = StatsCreated(template, ShownFields(truth.stored, truth.drift), truth.stored.level_min,
                              Shown(truth.stored.npc_flags) \ hidden)
  /\ Showing

Ask ==
  /\ Capturing("looks")
  /\ template' = [StatsAnswered(template, IF truth.stored.name = "NULL" THEN "" ELSE truth.stored.name)
                    EXCEPT !.fields = @ @@ ("type" :> truth.stored.type)]
  /\ Showing

-----------------------------------------------------------------------------
(* Talk: lines said, and what behaviour.py finds of them.                  *)

Talking == Spent(1) /\ UNCHANGED <<arms, template, spawns, spells>>

SayLine(m, yelled) ==
  /\ Capturing("talk") /\ m \notin truth.said
  /\ talk' = Say(talk, m, yelled) /\ truth' = [said |-> truth.said \union {m}]
  /\ Talking

LineFound(m, sound) ==
  /\ Capturing("talk") /\ m \in truth.said \ (DOMAIN talk.triggers \union talk.untriggered)
  /\ \/ \E trigger \in {"aggro", "death"} : talk' = TextTrigger(talk, m, trigger, sound)
     \/ sound = {} /\ talk' = TextUntriggered(talk, m)
  /\ UNCHANGED truth /\ Talking

-----------------------------------------------------------------------------
(* Spawns: one is watched die and come back; others are seen in passing.   *)
(* What is rare is weighed, so that the bound leaves room for many deaths.  *)

Watched == Min(Spawns)
Then(now, weight) ==
  truth' = now /\ Spent(weight) /\ UNCHANGED <<talk, arms, template, spells>>

\* It comes in sight, standing or lying dead, after a while.
Sighted(wait, summoned) ==
  /\ Capturing("spawns")
  /\ LET t == truth.t + wait
     IN  /\ spawns' = SpawnCreated(spawns, Watched, t, t, ~truth.alive, summoned)
         /\ Then([truth EXCEPT !.t = t], IF summoned THEN 3 ELSE 1)

\* It dies or comes back to life: in sight its health says so, out of it nothing does.
Turn(wait, seen) ==
  /\ Capturing("spawns")
  /\ LET t == truth.t + wait
         see(life, at) == IF truth.alive THEN SeeHealthZero(life, at) ELSE SeeHealth(life, at)
     IN  /\ spawns' = IF seen THEN SpawnLife(spawns, Watched, see, t) ELSE spawns
         /\ Then([t |-> t, alive |-> ~truth.alive, revived |-> truth.revived \/ (seen /\ ~truth.alive)], 1)

PassBy(g, corpse) ==
  /\ Capturing("spawns") /\ g # Watched /\ ~Seen(spawns.spawns[g])
  /\ spawns' = SpawnCreated(spawns, g, truth.t, truth.t, corpse, FALSE) /\ Then(truth, 3)

Transfer(map) ==
  /\ Capturing("spawns") /\ spawns.session # {map}
  /\ spawns' = SessionMoved(spawns, map) /\ Then(truth, 2)

Move ==
  /\ Capturing("spawns") /\ truth.alive /\ ~spawns.spawns[Watched].hops
  /\ spawns' = SpawnMoved(spawns, Watched) /\ Then(truth, 1)

\* patrol.py's findings: a path, its points some way off, or an area.
Unfound == LET s == spawns.spawns[Watched] IN s.hops /\ s.waypoints = <<>> /\ s.wander = {}

PathFound(confident, points) ==
  /\ Capturing("spawns") /\ Unfound
  /\ spawns' = PatrolFound(spawns, Watched, confident,
                 [i \in DOMAIN points |-> [at |-> 200 + i, repeats |-> points[i] = "repeats", still |-> points[i] # "passed"]])
  /\ Then(truth, 4)

AreaFound ==
  /\ Capturing("spawns") /\ Unfound
  /\ spawns' = WanderFound(spawns, Watched, [centre |-> 100, radius |-> 5]) /\ Then(truth, 1)

-----------------------------------------------------------------------------
(* The rules over the capture, in registry order (core/registry.py).        *)

Order == <<"dialogue", "equipment", "stats", "spawn", "spells">>

RowsOf(rule, w) ==
  CASE rule = "dialogue"  -> DialogueRows(talk, w)
    [] rule = "equipment" -> EquipmentRows(arms, w)
    [] rule = "stats"     -> TemplateRows(template, w)
    [] rule = "spawn"     -> AllSpawnRows(spawns, w)
    [] rule = "spells"    -> SpellRows(spells, w)

GapsOf(rule, w) ==
  CASE rule = "dialogue"  -> DialogueGaps(talk, w)
    [] rule = "equipment" -> EquipmentGaps(arms, w)
    [] rule = "stats"     -> TemplateGaps(template, w)
    [] rule = "spawn"     -> SpawnGaps(spawns, w)
    [] rule = "spells"    -> SpellGaps(spells, w)

HeldGaps(keys) == {<<k[1], "not proposed", k[2]>> : k \in keys}

\* Whether a rule's rows, the lookup of those rows in the database included, or its gaps
\* put a query to it.
Asks(rule, part, w) ==
  \/ part = "rows" /\ RowsOf(rule, w) # <<>>
  \/ part = "rows" /\ rule = "stats" /\ (DOMAIN template.fields # {} \/ template.name # {} \/ template.sawSpells)
  \/ part = "rows" /\ rule = "equipment" /\ Held(arms) # {} /\ ~Changes(arms)
  \/ part = "gaps" /\ rule = "stats"
  \/ part = "gaps" /\ rule = "equipment" /\ RowsOf(rule, w) # <<>>

\* Only what asks the database can fail, and only where the database does.
Fails(rule, part, w) == w.there /\ <<rule, part>> \in w.fails /\ Asks(rule, part, w)

\* One rule of the loop: the rows to propose, those that are new; and what is said of the
\* rest, its gaps and then the rows held back, unless one of the two fails first: then it
\* is what the gaps had yielded.
Proposes(rule, w) == IF Fails(rule, "rows", w) THEN <<>> ELSE OnlyNew(RowsOf(rule, w), w).kept

Says(rule, w, yielded) ==
  CASE Fails(rule, "rows", w) -> {}
    [] Fails(rule, "gaps", w) /\ ~Fails(rule, "rows", w) -> yielded \intersect GapsOf(rule, w)
    [] OTHER -> GapsOf(rule, w) \union HeldGaps(OnlyNew(RowsOf(rule, w), w).held)

\* The gaps of equipment ask before they yield any, those of stats between.
MayYield(w) == IF Fails("stats", "gaps", w) THEN SUBSET GapsOf("stats", w) ELSE {{}}

\* AuthoredCollector.add: the tables in order of first appearance, each with its rows.
Sections(rows) ==
  LET firsts == SelectSeq([i \in DOMAIN rows |-> i], LAMBDA i : \A j \in 1 .. i - 1 : rows[j].table # rows[i].table)
  IN  [n \in DOMAIN firsts |-> SelectSeq(rows, LAMBDA row : row.table = rows[firsts[n]].table)]

\* Mutant: one INSERT for the table, with the columns of its first row.
StatementsOneList(section) ==
  LET columns == DOMAIN section[1].cells
  IN  {[table |-> section[1].table, statement |-> section[1].statement, columns |-> columns,
        rows |-> [i \in DOMAIN section |-> [c \in columns \intersect DOMAIN section[i].cells |-> section[i].cells[c].v]]]}

\* _insert: one INSERT for each set of columns; _update, a row at a time.
Statements(section) ==
  LET kinds == {[statement |-> row.statement, columns |-> DOMAIN row.cells] : row \in Range(section)}
      of(k) == SelectSeq(section, LAMBDA row : row.statement = k.statement /\ DOMAIN row.cells = k.columns)
  IN  {[table |-> section[1].table, statement |-> k.statement, columns |-> k.columns,
        rows |-> [i \in DOMAIN of(k) |-> [c \in k.columns |-> of(k)[i].cells[c].v]]] : k \in kinds}

\* A table that could not be described is an error when a row of it is to be keyed.
Undescribed(w) ==
  w.there /\ w.broken # {} /\ \E rule \in Range(Order) : \E row \in Range(RowsOf(rule, w)) :
    row.statement = "insert" /\ row.table \in w.broken

\* Mutant: what a rule logs is not the command's to answer for.
ExitCodeOfCommand(nothing, errors) == IF nothing THEN "errors" ELSE "ok"

\* write, and main's exit code.
ExitCode(nothing, errors) == IF nothing \/ errors THEN "errors" ELSE "ok"

AuthorFile(w) ==
  LET failed == \E rule \in Range(Order), part \in {"rows", "gaps"} : Fails(rule, part, w)
  IN  /\ exit = "none"
      /\ world' = w
      /\ sections' = Sections(FlattenSeq([i \in DOMAIN Order |-> Proposes(Order[i], w)]))
      /\ \E yielded \in MayYield(w) : gaps' = UNION {Says(rule, w, yielded) : rule \in Range(Order)}
      /\ file' = UNION {Statements(sections'[i]) : i \in DOMAIN sections'}
      /\ exit' = ExitCode(sections' = <<>> /\ gaps' = {}, failed \/ Undescribed(w))
      /\ UNCHANGED <<subject, left, truth, rules>>

-----------------------------------------------------------------------------
Ranges == {[min |-> 15, max |-> 24], [min |-> 25, max |-> 30]}

Next ==
  \/ \E g \in Casters, s \in SpellIds : Trigger(g, s) \/ \E seen \in BOOLEAN : Begin(g, s, seen)
  \/ \E k \in Casters \X SpellIds : Finish(k) \/ Interrupt(k)
  \/ \E s \in SpellIds, found \in Ranges, sure \in BOOLEAN : DelaysFound(s, found, found @@ ("confident" :> sure))
  \/ NameAnswered
  \/ \E corpse \in BOOLEAN : ComeInSight(corpse)
  \/ \E slot \in Handed, item \in Items, seen \in BOOLEAN : Rearm(slot, item, seen)
  \/ \E hidden \in {{}, Hidden} : Look(hidden)
  \/ Ask
  \/ \E m \in 1 .. 2, yelled \in BOOLEAN : SayLine(m, yelled)
  \/ \E m \in 1 .. 2 : \E sound \in {{}, {900 + m}} : LineFound(m, sound)
  \/ \E b \in BOOLEAN : Turn(1, b) \/ \E wait \in {1, 4} : Sighted(wait, b)
  \/ Move \/ AreaFound
  \/ \E g \in Spawns, corpse \in BOOLEAN : PassBy(g, corpse)
  \/ \E map \in 1 .. 2 : Transfer(map)
  \/ \E confident \in BOOLEAN, points \in [1 .. 3 -> {"passed", "still", "repeats"}] :
       PathFound(confident, points)
  \/ exit = "none" /\ \E w \in {NoWorld} \union Worlds(subject, truth) : AuthorFile(w)

Spec == Init /\ [][Next]_vars

-----------------------------------------------------------------------------
Proposed == UNION {Range(sections[i]) : i \in DOMAIN sections}
Of(table) == {row \in Proposed : row.table = table}
Value(row, column) == row.cells[column].v
Has(row, column) == column \in DOMAIN row.cells

\* Of an ordinary end: every row a rule made is in the file with its own columns and
\* values, or the key it is stored or hangs under is named, and never both; and every
\* gap a rule has is there.
NoRowIsDroppedQuietly ==
  LET written_(row) == \E s \in file :
        /\ s.table = row.table /\ s.statement = row.statement /\ s.columns = DOMAIN row.cells
        /\ [c \in DOMAIN row.cells |-> Value(row, c)] \in Range(s.rows)
      named(row) == world.there /\ \E k \in Key(row, world) : <<k[1], "not proposed", k[2]>> \in gaps
  IN  exit = "ok" =>
        \A rule \in Range(Order) :
          /\ GapsOf(rule, world) \subseteq gaps
          /\ \A row \in Range(RowsOf(rule, world)) : written_(row) # named(row)

\* No row is proposed under a key the database holds, nor without the row it hangs off,
\* which comes first in the file; and the line an event ends in is one its trigger fits.
NothingHangsOffAHeldRow ==
  LET stored(table, v) == world.there /\ table \notin world.broken /\ v \in world.stored[table]
      at(table) == CHOOSE i \in DOMAIN sections : sections[i][1].table = table
  IN  exit = "ok" =>
        /\ \A row \in Proposed : row.statement = "insert" =>
             ~stored(row.table, Value(row, KeyName[row.table]))
        /\ \A link \in Range(HangsOff) : \A row \in Of(link.table) :
             /\ \E up \in Of(link.parent) : Value(up, KeyName[link.parent]) = Value(row, link.column)
             /\ at(link.parent) < at(link.table)
        /\ \A event \in Of("creature_ai_events"), script \in Of("creature_ai_scripts"), text \in Of("broadcast_text") :
             /\ Value(event, <<"action1_script", 0>>) = Value(script, <<"id", 0>>)
             /\ Value(script, <<"dataint", 0>>) = Value(text, <<"entry", 0>>)
             => Value(event, <<"event_type", 0>>) = EventType(talk.triggers[Value(text, <<"male_text", 0>>)])

\* What a schema's default would claim is never left to it: where the capture does not
\* say, the column is left out and a gap says so; a placeholder stands only with one.
NoSilentDefault ==
  LET claimed(row, column, gap) ==
        /\ Has(row, column) => row.cells[column].src # "convention"
        /\ ~Has(row, column) => gap \in gaps
      slots(row) == {n \in 1 .. MaxSlots : row.cells[<<"spellId", n>>].src = "wire"}
  IN  exit = "ok" =>
        /\ \A row \in Of("creature") :
             LET g == Value(row, <<"guid", 0>>) IN
             /\ claimed(row, <<"map", 0>>, <<"creature", "map", Entry>>)
             /\ \/ claimed(row, <<"spawntimesecs", 0>>, <<"creature", "spawntimesecs", Entry>>)
                \/ claimed(row, <<"spawntimesecs", 0>>, <<"creature", "spawntimesecs", g>>)
             /\ Has(row, <<"movement_type", 0>>) /\ row.cells[<<"movement_type", 0>>].src = "convention"
                  => ~Moved(spawns.spawns[g]) \/ <<"creature", "movement_type", g>> \in gaps
        /\ \A row \in Of("broadcast_text") :
             claimed(row, <<"sound_id", 0>>, <<"broadcast_text", "sound_id", Value(row, <<"male_text", 0>>)>>)
        /\ \A row \in Of("creature_spells"), n \in 1 .. MaxSlots :
             Has(row, <<"spellId", n>>) /\ n \in DOMAIN Slotted(spells) =>
               \A d \in {"delayInitial"} \X {"delayInitialMin", "delayInitialMax"}
                       \union {"delayRepeat"} \X {"delayRepeatMin", "delayRepeatMax"} :
                 claimed(row, <<d[2], n>>, <<"creature_spells", d[1], Slotted(spells)[n]>>)
        /\ \A row \in Of("creature_equip_template"), s \in EquipSlots :
             claimed(row, <<"equipentry", s>>, <<"creature_equip_template", "equipentry", s>>)

\* A slot's spell is one its creature was seen to begin.  A spell seen begun and cast is
\* one of the slots, or named as left out; a spell taken for chosen that was not had a
\* start of the same caster's without a go.  The first cast falls in the range written.
SlotsAreTheCreaturesOwn == subject = "casts" =>
  /\ spells.casts \subseteq {k[2] : k \in truth.begun}
  /\ truth.whole \subseteq spells.casts
  /\ spells.casts \subseteq truth.whole \union {k[2] : k \in truth.loose}
  /\ exit = "ok" =>
       /\ \A s \in truth.whole \ Range(Slotted(spells)) : <<"creature_spells", "slots", s>> \in gaps
       /\ \A row \in Of("creature_spells"), n \in DOMAIN Slotted(spells) :
            Has(row, <<"delayInitialMin", n>>) =>
              LET first == spells.initial[Value(row, <<"spellId", n>>)] IN
              /\ Value(row, <<"delayInitialMin", n>>) * Second <= first.min
              /\ first.max <= Value(row, <<"delayInitialMax", n>>) * Second

\* The items proposed are those the creature held at one sighting of it, a hand left empty
\* held nothing, and at every other sighting it looked the same and in none did it change:
\* where the database's items hold the creature's own.
TheItemIsTheOneHeld ==
  \A row \in Of("creature_equip_template") :
    LET slots == {s \in EquipSlots : Has(row, <<"equipentry", s>>)}
    IN  /\ ~truth.changed
        /\ \E held \in truth.seen : \A s \in slots : held[s].entry = Value(row, <<"equipentry", s>>)
        /\ \A h, k \in truth.seen, s \in EquipSlots : h[s].display = k[s].display

\* Each spawn seen has its row, standing where it was seen, or a gap that names it; and
\* its path's rows, walked once round, pass the points in order, those held twice twice.
EverySpawnIsAccountedFor ==
  LET rowsOf(g) == {row \in Of("creature") : Value(row, <<"guid", 0>>) = g}
      path(g) == {row \in Of("creature_movement") : Value(row, <<"id", 0>>) = g}
      at(g, n) == CHOOSE p \in {Value(row, <<"position", 0>>) : row \in {r \in path(g) : Value(r, <<"point", 0>>) = n}} : TRUE
      walked(g) == [n \in 1 .. Cardinality(path(g)) |-> at(g, n)]
      round(g) == FlattenSeq([i \in DOMAIN spawns.spawns[g].waypoints |->
                    LET p == spawns.spawns[g].waypoints[i] IN IF p.repeats THEN <<p.at, p.at>> ELSE <<p.at>>])
      turned(q, n) == SubSeq(q, n + 1, Len(q)) \o SubSeq(q, 1, n)
  IN  exit = "ok" => \A g \in Spawns :
        /\ Seen(spawns.spawns[g]) =>
             \/ Cardinality(rowsOf(g)) = 1
             \/ \E what \in {"summoned", "corpse", "not proposed"} : <<"creature", what, g>> \in gaps
        /\ \A row \in rowsOf(g) :
             Value(row, <<"position", 0>>) \in
               {c.at : c \in Range(spawns.spawns[g].creates) \union Range(spawns.spawns[g].corpses)}
                 \union {a.centre : a \in spawns.spawns[g].wander}
        /\ path(g) # {} =>
             /\ Cardinality(rowsOf(g)) = 1 /\ walked(g)[1] = round(g)[1]
             /\ \E n \in {0, 1} : walked(g) = turned(round(g), n)

\* A database that is the one the server ran on is left as it is: of its template, nothing
\* broadcast, drifted or hidden from the viewer changes a value.
TheSameDatabaseIsLeftAlone ==
  subject = "looks" /\ exit # "none" /\ world.there /\ world.template = truth.stored =>
    \A row \in Of("creature_template") : \A c \in DOMAIN row.cells : Value(row, c) = truth.stored[c[1]]
=============================================================================
