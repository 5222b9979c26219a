------------------------------ MODULE MCAuthor ------------------------------
EXTENDS Author

MCKeyName == [creature |-> <<"guid", 0>>, creature_movement |-> <<"id", 0>>, creature_spells |-> <<"entry", 0>>,
              creature_equip_template |-> <<"entry", 0>>, broadcast_text |-> <<"entry", 0>>,
              creature_ai_scripts |-> <<"id", 0>>, creature_ai_events |-> <<"id", 0>>]

\* Every column the rules take care not to leave to its default has one, and one more.
MCSchema ==
  LET columns(numbered, plain) == [c \in numbered \union {<<p, 0>> : p \in plain} |-> 0]
      slots(names, n) == names \X (1 .. n)
  IN  [creature |-> columns({}, {"map", "spawntimesecs", "movement_type", "wander_distance", "spawn_flags"}),
       creature_movement |-> columns({}, {"waittime"}),
       creature_spells |-> columns(slots({"spellId", "probability", "delayInitialMin", "delayInitialMax",
                                          "delayRepeatMin", "delayRepeatMax"}, MaxSlots), {}),
       creature_equip_template |-> columns(slots({"equipentry"}, 3), {"patch"}),
       broadcast_text |-> columns({}, {"sound_id", "emote"}),
       creature_ai_scripts |-> columns({}, {"delay"}),
       creature_ai_events |-> columns({}, {"event_flags"})]

MCNotObserved == {<<"sound_id", 0>>}
MCBudget == [casts |-> 3, arms |-> 3, looks |-> 3, talk |-> 4, spawns |-> 6]
MCSubjects == DOMAIN MCBudget

Sword == [entry |-> 50, display |-> 5, kind |-> 1]
Twin  == [entry |-> 51, display |-> 5, kind |-> 2]     \* wears the same display
Axe   == [entry |-> 60, display |-> 6, kind |-> 1]
MCItems == {NoItem, Sword, Twin}
MCFloatColumns == {"scale", "dmg_min", "speed_walk"}
MCDrift == {0, 1}

Template == [scale |-> 10, dmg_min |-> 40, faction |-> 7, speed_walk |-> 30, type |-> 3, npc_flags |-> {}, name |-> "Rat",
             spell_list_id |-> 0, scripted |-> FALSE, level_min |-> 1, level_max |-> 2, equipment_id |-> Entry]
MCTemplates ==
  {[Template EXCEPT !.scale = s, !.dmg_min = d, !.npc_flags = f, !.name = n] :
     s \in {0, 10}, d \in {0, 40}, f \in {{}, {"trainer"}, {"item restore", "trainer"}}, n \in {"NULL", "Rat"}}

Database == [there |-> TRUE, broken |-> {}, fails |-> {}, stored |-> [t \in DOMAIN MCKeyName |-> {}], template |-> Template,
             items |-> {}, model |-> {}, displays |-> FALSE]
Keeping(stored) == [Database EXCEPT !.stored = stored @@ Database.stored]
Broken(table) == [Database EXCEPT !.broken = {table}]
Failed(rule, part) == [Database EXCEPT !.fails = {<<rule, part>>}]

MCWorlds(what, truth_) ==
  CASE what = "casts" ->
         {Keeping("creature_spells" :> {Entry}), Broken("creature_spells"), Failed("spells", "rows"), Failed("stats", "gaps"),
          [Database EXCEPT !.template = <<>>]}
           \union {[Database EXCEPT !.template.spell_list_id = l, !.template.scripted = x] : l \in {0, Entry, 99}, x \in BOOLEAN}
    [] what = "arms" ->
         LET own == {truth_.held[s] : s \in EquipSlots} \ {NoItem}
         IN  {[w EXCEPT !.items = {Sword, Twin, Axe}] :
                w \in {Keeping("creature_equip_template" :> {Entry}), Failed("equipment", "rows"), Failed("equipment", "gaps")}}
               \union {[Database EXCEPT !.items = i, !.template.equipment_id = 0] : i \in {own, own \union {Axe}, {Sword, Twin}}}
    [] what = "looks" ->
         {[Database EXCEPT !.template = t, !.displays = d, !.model = IF d THEN {ModelScale} ELSE {}] :
            d \in BOOLEAN, t \in {<<>>, truth_.stored, [truth_.stored EXCEPT !.scale = 0, !.dmg_min = 80],
                                  [truth_.stored EXCEPT !.npc_flags = {"vendor"}, !.name = "Mouse"]}}
           \union {[Failed("stats", "rows") EXCEPT !.template = truth_.stored]}
    [] what = "talk" ->
         LET ids == SUBSET {AuthoredId(1), AuthoredId(2)}
         IN  {Keeping(s) : s \in [{"broadcast_text", "creature_ai_scripts", "creature_ai_events"} -> ids]}
               \union {Broken("broadcast_text"), Broken("creature_ai_scripts"), Failed("dialogue", "rows")}
    [] what = "spawns" ->
         {Keeping(s) : s \in [{"creature", "creature_movement"} -> {{}, {1}}]} \union {Broken("creature")}
=============================================================================
