----------------------------- MODULE StatsRows -----------------------------
(***************************************************************************)
(* What the stats rule (author/stats.py) proposes for a template: what was *)
(* broadcast, restated as the database's own where the two agree.          *)
(***************************************************************************)
EXTENDS AuthorBase

CONSTANTS
  FloatColumns,    \* columns whose values are computed on their way to the wire
  Tolerance,       \* AGREEMENT_TOLERANCE
  DefaultScale     \* DEFAULT_OBJECT_SCALE

Speeds == {"speed_walk"}                        \* read as a rate over a base speed
Queried == {"type"}                             \* answered by the creature query
Hidden  == {"trainer"}                          \* npc_flags hidden from some viewers

\* fields: column -> the first value broadcast or answered, npc_flags and name apart.
\* npcFlags: as the player was shown them.  levels: of all lives.  name: the query's.
NewTemplate == [fields |-> <<>>, npcFlags |-> {}, levels |-> {}, name |-> {}, ledger |-> {}, sawSpells |-> FALSE]

\* handle: the first value seen wins, field by field; a CREATE leaves out zeros.
StatsCreated(r, fields, level, npcFlags) ==
  [r EXCEPT !.fields = @ @@ fields, !.levels = @ \union {level},
            !.npcFlags = IF @ = {} THEN npcFlags ELSE @]

StatsAnswered(r, name) == IF r.name = {} THEN [r EXCEPT !.name = {name}] ELSE r

StatsSpellStart(r, guid, spell) == [r EXCEPT !.ledger = Started(@, <<guid, spell>>)]
StatsSpellGo(r, guid, spell) ==
  [r EXCEPT !.ledger = @ \ {<<guid, spell>>}, !.sawSpells = @ \/ Chosen(r.ledger, <<guid, spell>>)]

Broadcast(r) == DOMAIN r.fields \ (Speeds \union Queried)     \* _fields

-----------------------------------------------------------------------------
\* Mutant: floats must agree to the digit.
AgreesExactly(column, stored, observed) == stored = observed

\* _agrees
Agrees(column, stored, observed) ==
  IF column \in FloatColumns THEN stored - observed \in -Tolerance .. Tolerance ELSE stored = observed

\* _confirmed_value
Confirmed(w, column, observed) == {v \in Stored(w, column) : Agrees(column, v, observed)}

\* _npc_flags_agree: what a viewer is shown of the flags stored.
Shown(flags) == (flags \ {"item restore"}) \union IF "item restore" \in flags THEN {"vendor"} ELSE {}
NpcFlagsAgree(stored, wire) ==
  /\ wire \ Hidden = Shown(stored) \ Hidden
  /\ wire \intersect Hidden \subseteq Shown(stored)

\* _zero_scale: a stored 0 stands for the model's own scale; the value it takes when it
\* agrees with the wire, when it does not, and when it cannot be checked.
ZeroScale(w) == \E s \in Stored(w, "scale") : s <= 0
Model(w) == IF w.model = {} THEN DefaultScale ELSE CHOOSE m \in w.model : TRUE
ScaleConfirmed(r, w) == ~ZeroScale(w) \/ (w.displays /\ Agrees("scale", Model(w), r.fields["scale"]))
ScaleProposed(w) == ~ZeroScale(w) \/ w.displays

\* _own_spell_list, _scripted
OwnSpellList(w) == Stored(w, "spell_list_id") \ {0}
Scripted(w) == Stored(w, "scripted") = {TRUE}

PointsAtSpells(r, w) ==
  /\ r.sawSpells /\ w.there
  /\ OwnSpellList(w) = {Entry} \/ (OwnSpellList(w) = {} /\ ~Scripted(w))

\* _stored_text: a NULL reads as ''.
StoredText(w, column) == {IF v = "NULL" THEN "" ELSE v : v \in Stored(w, column)}

\* Columns whose stored value is restated, and those whose observed one is proposed.
Restated(r, w) ==
  LET simple == {c \in DOMAIN r.fields \ {"scale"} : Confirmed(w, c, r.fields[c]) # {}}
      scale  == IF ZeroScale(w) THEN ScaleConfirmed(r, w) ELSE Confirmed(w, "scale", r.fields["scale"]) # {}
  IN  simple \union {c \in DOMAIN r.fields \intersect {"scale"} : scale}
        \union {c \in {"npc_flags"} : /\ Broadcast(r) # {}
                                      /\ \E s \in Stored(w, c) : NpcFlagsAgree(s, r.npcFlags)}
        \union {c \in {"name"} : /\ r.name # {} /\ r.name = StoredText(w, c)
                                 /\ ~(r.name = {""} /\ Stored(w, c) = {"NULL"})}
        \union {c \in {"spell_list_id"} : PointsAtSpells(r, w) /\ OwnSpellList(w) # {}}

Observed(r, w) ==
  LET simple == {c \in DOMAIN r.fields \ Restated(r, w) : c = "scale" => ScaleProposed(w)}
  IN  [c \in simple |-> r.fields[c]]
        @@ [c \in {d \in {"npc_flags"} : Broadcast(r) # {} /\ Stored(w, d) = {}} |-> r.npcFlags]
        @@ [c \in {d \in {"name"} : r.name # {} /\ Stored(w, d) = {}} |-> CHOOSE n \in r.name : TRUE]

TemplateRows(r, w) ==
  LET restated == [c \in Restated(r, w) |-> CHOOSE v \in Stored(w, c) : TRUE]
      pick(f, columns) == [c \in {<<n, 0>> : n \in DOMAIN f \intersect columns} |-> f[c[1]]]
      cells == Cells([
        confirmed  |-> pick(restated, DOMAIN restated),
        wire       |-> pick(Observed(r, w), DOMAIN Observed(r, w) \ Speeds),
        derived    |-> pick(Observed(r, w), Speeds),
        convention |-> [c \in {<<"spell_list_id", 0>> : x \in {y \in {1} : PointsAtSpells(r, w) /\ OwnSpellList(w) = {}}} |-> Entry]])
  IN  IF DOMAIN cells = {} THEN <<>> ELSE <<Update("creature_template", cells)>>

\* _checked: levels seen outside the template's range.
LevelsOff(r, w) ==
  {n \in r.levels : \E l \in Stored(w, "level_min") \X Stored(w, "level_max") : n \notin Min({l[1], l[2]}) .. Max({l[1], l[2]})}

TemplateGaps(r, w) ==
  LET gap(what, holds) == IF holds THEN {<<"creature_template", what, Entry>>} ELSE {}
  IN  gap("nothing", Broadcast(r) = {})
        \union gap("unchecked", Broadcast(r) # {} /\ ~w.there)
        \union gap("level", Broadcast(r) # {} /\ LevelsOff(r, w) # {})
        \union gap("npc_flags", Broadcast(r) # {} /\ \E s \in Stored(w, "npc_flags") : ~NpcFlagsAgree(s, r.npcFlags))
        \union gap("name", r.name # {} /\ StoredText(w, "name") \ r.name # {})
        \union gap("spell_list_id", r.sawSpells /\ \/ ~w.there
                                                   \/ OwnSpellList(w) = {} /\ Scripted(w)
                                                   \/ OwnSpellList(w) \ {Entry} # {})
=============================================================================
