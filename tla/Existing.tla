------------------------------ MODULE Existing ------------------------------
(***************************************************************************)
(* Which authored rows are proposed (author/existing.py, world.py): those  *)
(* new to the database and hanging off no row that is held back.  A row is *)
(* found by its key, <<table, value>>.                                     *)
(***************************************************************************)
EXTENDS AuthorBase

\* _HANGS_OFF: a table after the one it hangs off.
HangsOff == <<
  [table |-> "creature_movement",   column |-> <<"id", 0>>,             parent |-> "creature"],
  [table |-> "creature_ai_scripts", column |-> <<"dataint", 0>>,        parent |-> "broadcast_text"],
  [table |-> "creature_ai_events",  column |-> <<"action1_script", 0>>, parent |-> "creature_ai_scripts"]>>

\* key_column and _key: an UPDATE has none, nor has a row of a table not described.
Key(row, w) ==
  IF row.statement = "update" \/ row.table \in w.broken \/ KeyName[row.table] \notin DOMAIN row.cells
  THEN {} ELSE {<<row.table, row.cells[KeyName[row.table]].v>>}

Keys(rows, w) == UNION {Key(row, w) : row \in Range(rows)}

StoredKeys(rows, w) == {k \in Keys(rows, w) : k[2] \in w.stored[k[1]]}

\* Mutant: one link of the chain is followed.
HeldOneLink(rows, w) ==
  StoredKeys(rows, w) \union
    UNION {UNION {Key(row, w) : row \in {r \in Range(rows) :
             /\ r.table = link.table
             /\ <<link.parent, r.cells[link.column].v>> \in StoredKeys(rows, w)}} : link \in Range(HangsOff)}

\* held: stored, or hanging off a row that is.
HeldKeys(rows, w) ==
  FoldLeft(LAMBDA held, link :
             held \union UNION {Key(row, w) : row \in {r \in Range(rows) :
               r.table = link.table /\ <<link.parent, r.cells[link.column].v>> \in held}},
           StoredKeys(rows, w), HangsOff)

\* only_new: the rows to propose, and the keys of the ones held back.
OnlyNew(rows, w) ==
  LET held == HeldKeys(rows, w)
  IN  IF ~w.there THEN [kept |-> rows, held |-> {}]
      ELSE [kept |-> SelectSeq(rows, LAMBDA row : Key(row, w) \intersect held = {}), held |-> held]
=============================================================================
