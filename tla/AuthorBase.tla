----------------------------- MODULE AuthorBase -----------------------------
(***************************************************************************)
(* What the authoring rules share (core/base.py, world.py): rows of cells, *)
(* each with the source of its value, and the world database they ask.     *)
(*                                                                         *)
(* A column is <<name, slot>>, the slot 0 where columns are not numbered.  *)
(* A gap is <<table, what, subject>>: what could not be derived, of whom.  *)
(* An answer that may be missing is a set of at most one.                  *)
(***************************************************************************)
EXTENDS Integers, FiniteSets, Sequences, SequencesExt

CONSTANTS
  Entry,      \* the creature authored
  Schema,     \* of each table: the default of each column that has one
  KeyName     \* of each table: the column a row is found by

ASSUME AuthorAssumption ==
  /\ Entry \in Nat
  /\ DOMAIN KeyName = DOMAIN Schema

\* A row that holds the values of each source: [source |-> [column |-> value]].
Cells(bySource) ==
  LET columns == UNION {DOMAIN bySource[s] : s \in DOMAIN bySource}
      source(c) == CHOOSE s \in DOMAIN bySource : c \in DOMAIN bySource[s]
  IN  [c \in columns |-> [v |-> bySource[source(c)][c], src |-> source(c)]]

Insert(table, cells) == [table |-> table, statement |-> "insert", cells |-> cells]
Update(table, cells) == [table |-> table, statement |-> "update", cells |-> cells]

\* The world database: whether one answers, the tables whose DESCRIBE failed, the
\* keys stored in each table, the creature's template, the items, and the scale of
\* its model where the display data are there.
NoWorld == [there |-> FALSE]

\* describe: a failed one leaves a table without columns for the whole run.
Describe(w, table) ==
  IF w.there /\ table \notin w.broken THEN Schema[table] ELSE <<>>

\* column, numeric_column: of the creature's own template.
Stored(w, column) ==
  IF w.there /\ column \in DOMAIN w.template THEN {w.template[column]} ELSE {}

\* Mutant: columns are filled whatever they claim.
FillAllDefaults(w, table, cells, skip) ==
  cells @@ Cells([convention |-> Describe(w, table)])

FillSchemaDefaults(w, table, cells, skip) ==
  cells @@ Cells([convention |-> [c \in DOMAIN Describe(w, table) \ skip |-> Describe(w, table)[c]]])

\* authored_id
AuthoredId(n) == Entry * 100 + n

\* CastLedger: the starts, <<guid, spell>>, whose go has not come.
Started(ledger, key) == ledger \union {key}

\* Mutant: any start by the caster will do.
ChosenByCaster(ledger, key) == \E k \in ledger : k[1] = key[1]

Chosen(ledger, key) == key \in ledger
=============================================================================
