----------------------------- MODULE Equipment -----------------------------
(***************************************************************************)
(* The equipment rule (author/equipment.py): creature_equip_template, from *)
(* the displays a creature broadcasts and the items that wear them.        *)
(*                                                                         *)
(* A message's fields are a function from their indices to their values; a *)
(* CREATE leaves out every zero, a VALUES block every field that stays.    *)
(***************************************************************************)
EXTENDS AuthorBase

CONSTANTS Display, Info    \* the indices of the two fields' first slots

EquipSlots == 1 .. 3
InfoWords  == 2            \* INFO_WORDS_PER_SLOT

\* creates, corpses: CREATEs of it standing and lying dead.  updates: VALUES blocks.
\* Each is [fields, named], named the indices that have a name of their own.
NewArms == [creates |-> <<>>, corpses |-> <<>>, updates |-> <<>>]

\* handle
ArmsCreated(r, message, corpse) ==
  IF DOMAIN message.fields = {} THEN r
  ELSE IF corpse THEN [r EXCEPT !.corpses = Append(@, message)]
  ELSE [r EXCEPT !.creates = Append(@, message)]

ArmsChanged(r, message) ==
  IF DOMAIN message.fields = {} THEN r ELSE [r EXCEPT !.updates = Append(@, message)]

-----------------------------------------------------------------------------
Creates(r) == r.creates \o r.corpses

\* _choose: the first CREATE, a corpse's for want of any other.
ChosenCreate(r) == Creates(r)[1]
FromCorpse(r)   == r.creates = <<>>

\* A slot after the first has no name; one that has is another field.
Read(message, base, offset) ==
  IF base + offset \in DOMAIN message.fields /\ ~(offset > 0 /\ base + offset \in message.named)
  THEN {message.fields[base + offset]} ELSE {}

\* _slots: the slots that broadcast an item.
Held(r) ==
  IF Creates(r) = <<>> THEN {}
  ELSE {s \in EquipSlots : Read(ChosenCreate(r), Display, s - 1) \ {0} # {}}
DisplayOf(r, slot) == CHOOSE d \in Read(ChosenCreate(r), Display, slot - 1) : TRUE

InfoOf(r, slot) == Read(ChosenCreate(r), Info, (slot - 1) * InfoWords)

\* Mutant: only two CREATEs that differ show a change.
ChangesBetweenCreates(r) ==
  \E m, n \in Range(Creates(r)), s \in EquipSlots : Read(m, Display, s - 1) # Read(n, Display, s - 1)

\* _changes: any sign that what it holds changed.
Changes(r) ==
  \/ \E m, n \in Range(Creates(r)), s \in EquipSlots : Read(m, Display, s - 1) # Read(n, Display, s - 1)
  \/ \E m \in Range(r.updates), s \in EquipSlots : Read(m, Display, s - 1) # {}

\* Mutant: of several items the first is taken.
ResolveAny(w, display, info) ==
  LET worn == {i \in w.items : i.display = display}
  IN  {i.entry : i \in {j \in worn : \A k \in worn : j.entry <= k.entry}}

\* _resolve: the one item that wears the display and, where the info word was
\* broadcast, has the class, subclass and inventory type it packs.
Resolve(w, display, info) ==
  LET worn == {i \in w.items : i.display = display /\ (info # {} => i.kind \in info)}
  IN  IF Cardinality(worn) = 1 THEN {i.entry : i \in worn} ELSE {}

ItemOf(r, w, slot) == Resolve(w, DisplayOf(r, slot), InfoOf(r, slot))

\* Why there is no row: nothing to ask, a change, or a main hand that does not resolve.
Unresolved(r, w) ==
  \/ ~w.there \/ Changes(r)
  \/ 1 \in Held(r) /\ ItemOf(r, w, 1) = {}

EquipmentRows(r, w) ==
  LET found == {s \in Held(r) : ItemOf(r, w, s) # {}}
      cells == Cells([
        convention |-> <<"entry", 0>> :> Entry,
        wire       |-> [c \in {"equipentry"} \X (EquipSlots \ Held(r)) |-> 0],
        lookup     |-> [c \in {"equipentry"} \X found |-> CHOOSE i \in ItemOf(r, w, c[2]) : TRUE]])
  IN  IF Held(r) = {} \/ Unresolved(r, w) THEN <<>>
      ELSE <<Insert("creature_equip_template",
                    FillSchemaDefaults(w, "creature_equip_template", cells,
                                       {"equipentry"} \X (Held(r) \ found)))>>

EquipmentGaps(r, w) ==
  LET gap(what, slots) == {<<"creature_equip_template", what, s>> : s \in slots}
      tried == Held(r) # {} /\ ~Unresolved(r, w)
  IN  gap("equipentry", IF Held(r) = {} THEN {}
                        ELSE IF Unresolved(r, w) THEN {1}
                        ELSE {s \in Held(r) : ItemOf(r, w, s) = {}})
        \union gap("unarmed", IF Held(r) = {} THEN {0} ELSE {})
        \union {<<"creature_template", "equipment_id", Entry>> :
                  id \in {i \in Stored(w, "equipment_id") : tried /\ i # Entry}}
=============================================================================
