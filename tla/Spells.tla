------------------------------- MODULE Spells -------------------------------
(***************************************************************************)
(* The spell rule (author/spells.py): creature_spells, a row of slots.      *)
(***************************************************************************)
EXTENDS AuthorBase

CONSTANTS
  MaxSlots,    \* MAX_SLOTS
  Second       \* clock ticks in a second

\* casts, triggered: spells seen cast with and without a start.  initial, repeat:
\* spell -> what behaviour.py found of its delays.
NewSpells == [ledger |-> {}, casts |-> {}, triggered |-> {},
              initial |-> <<>>, repeat |-> <<>>, named |-> FALSE]

SpellStart(r, guid, spell) == [r EXCEPT !.ledger = Started(@, <<guid, spell>>)]

SpellGo(r, guid, spell) ==
  IF Chosen(r.ledger, <<guid, spell>>)
  THEN [r EXCEPT !.ledger = @ \ {<<guid, spell>>}, !.casts = @ \union {spell}]
  ELSE [r EXCEPT !.triggered = @ \union {spell}]

InitialDelay(r, spell, range) == [r EXCEPT !.initial = (spell :> range) @@ @]
RepeatDelay(r, spell, range)  == [r EXCEPT !.repeat  = (spell :> range) @@ @]

-----------------------------------------------------------------------------
Least(n, S) == {s \in S : Cardinality({t \in S : t < s}) < n}

Slotted(r) == SetToSortSeq(Least(MaxSlots, r.casts), <)
LeftOut(r) == r.casts \ Range(Slotted(r))
TriggeredOnly(r) == r.triggered \ r.casts

\* math.floor, math.ceil, round (half to even), of a time.
Floor(t) == t \div Second
Ceil(t)  == -((-t) \div Second)
Nearest(t) ==
  LET rest == 2 * (t % Second)
  IN  IF rest < Second \/ (rest = Second /\ Floor(t) % 2 = 0) THEN Floor(t) ELSE Floor(t) + 1

\* Mutant: the range rounded to the nearest.
InitialNearest(r, slot) ==
  LET seen == r.initial[Slotted(r)[slot]]
  IN  (<<"delayInitialMin", slot>> :> Nearest(seen.min)) @@ (<<"delayInitialMax", slot>> :> Nearest(seen.max))

\* The range holds every first cast seen.
Initial(r, slot) ==
  LET seen == r.initial[Slotted(r)[slot]]
  IN  (<<"delayInitialMin", slot>> :> Floor(seen.min)) @@ (<<"delayInitialMax", slot>> :> Ceil(seen.max))

Repeat(r, slot) ==
  LET seen == r.repeat[Slotted(r)[slot]]
  IN  (<<"delayRepeatMin", slot>> :> Nearest(seen.min)) @@ (<<"delayRepeatMax", slot>> :> Nearest(seen.max))

HasInitial(r, spell) == spell \in DOMAIN r.initial
HasRepeat(r, spell)  == spell \in DOMAIN r.repeat /\ r.repeat[spell].confident

\* The name: the query's, else the template's, else a label.
NameSource(r, w) ==
  IF r.named THEN "wire" ELSE IF Stored(w, "name") \ {""} # {} THEN "lookup" ELSE "convention"
SpellListName(r, w) ==
  IF NameSource(r, w) = "lookup" THEN CHOOSE n \in Stored(w, "name") : TRUE ELSE NameSource(r, w)

\* A slot whose delays are unknown is left to be decided, never zero.
SpellRows(r, w) ==
  LET slots == DOMAIN Slotted(r)
      delays(has(_, _), of(_, _)) ==
        FoldSet(LAMBDA slot, row : of(r, slot) @@ row, <<>>, {slot \in slots : has(r, Slotted(r)[slot])})
      unknown(has(_, _), names) ==
        names \X {slot \in slots : ~has(r, Slotted(r)[slot])}
      name == <<"name", 0>> :> SpellListName(r, w)
      cells == Cells([
        wire |-> (<<"entry", 0>> :> Entry) @@ [c \in {"spellId"} \X slots |-> Slotted(r)[c[2]]]
                   @@ (IF NameSource(r, w) = "wire" THEN name ELSE <<>>),
        convention |-> [c \in {"probability"} \X slots |-> 100]
                   @@ (IF NameSource(r, w) = "convention" THEN name ELSE <<>>),
        lookup |-> IF NameSource(r, w) = "lookup" THEN name ELSE <<>>,
        derived |-> delays(HasInitial, Initial) @@ delays(HasRepeat, Repeat)])
      skip == unknown(HasInitial, {"delayInitialMin", "delayInitialMax"})
                \union unknown(HasRepeat, {"delayRepeatMin", "delayRepeatMax"})
  IN  IF r.casts = {} THEN <<>>
      ELSE <<Insert("creature_spells", FillSchemaDefaults(w, "creature_spells", cells, skip))>>

SpellGaps(r, w) ==
  LET gap(what, spells) == {<<"creature_spells", what, s>> : s \in spells}
  IN  gap("triggered", IF r.casts = {} THEN TriggeredOnly(r) ELSE {})
        \union gap("slots", LeftOut(r))
        \union gap("delayInitial", {s \in Range(Slotted(r)) : ~HasInitial(r, s)})
        \union gap("delayRepeat", {s \in Range(Slotted(r)) : ~HasRepeat(r, s)})
=============================================================================
