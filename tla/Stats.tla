------------------------------- MODULE Stats -------------------------------
(***************************************************************************)
(* How the stats rule (author/stats.py) tells a creature that was modified *)
(* from one that was rolled anew: the CREATEs of one life must agree on a  *)
(* field, those of two lives need not.  For one spawn and one field.       *)
(***************************************************************************)
EXTENDS Lifeline

\* lifeNo: _life_no.  dead: whether it died since its last CREATE.  firsts: the
\* value of the first CREATE of each life.  disagreed: <<first, later>>,
\* here with whether the later is a corpse's.
NewStats == [lifeNo |-> 0, dead |-> FALSE, firsts |-> <<>>, disagreed |-> {}]

\* _witness: what a Lifeline made of an event.
Witnessed(st, before, after) ==
  IF Len(after.deaths) > Len(before.deaths) THEN [st EXCEPT !.dead = TRUE] ELSE st

\* Mutant: a corpse starts the next life.
StartsLifeAnyhow(st, corpse) == st.dead

\* A CREATE that shows it standing, after a death, is of a new life.
StartsLife(st, corpse) == st.dead /\ ~corpse

InItsLife(st, corpse) ==
  IF StartsLife(st, corpse)
  THEN [st EXCEPT !.dead = FALSE, !.lifeNo = @ + 1]
  ELSE st

Compared(st, value, corpse) ==
  IF st.lifeNo \notin DOMAIN st.firsts
  THEN [st EXCEPT !.firsts = [no \in DOMAIN @ \union {st.lifeNo} |->
                                IF no = st.lifeNo THEN value ELSE st.firsts[no]]]
  ELSE IF value = st.firsts[st.lifeNo]
       THEN st
       ELSE [st EXCEPT !.disagreed = @ \union {<<st.firsts[st.lifeNo], value, corpse>>}]

\* A CREATE with the field's value.
SeenCreated(st, value, corpse, before, after) ==
  Witnessed(Compared(InItsLife(st, corpse), value, corpse), before, after)
=============================================================================
