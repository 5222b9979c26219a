------------------------------ MODULE Lifeline ------------------------------
(***************************************************************************)
(* When one creature died and lived again, from what a player's client was *)
(* told of it (core/contracts.py, Lifeline and create_after_a_death): a    *)
(* record, and one operator per kind of event seen at time t.              *)
(***************************************************************************)
EXTENDS Integers, FiniteSets, Sequences, SequencesExt

CONSTANT Coincidence   \* DEATH_COINCIDENCE: how far apart one death's witnesses arrive

ASSUME LifelineAssumption == Coincidence \in Nat

Never == -1    \* None

NewLife == [deaths |-> <<>>, timed |-> <<>>, revivals |-> <<>>,
            alive |-> TRUE, seenAlive |-> FALSE, byHealth |-> Never]

Lives(times) ==
  [deaths : Seq(times), timed : Seq(times), revivals : Seq(times),
   alive : BOOLEAN, seenAlive : BOOLEAN, byHealth : times \union {Never}]

\* The latest death dated anew, and a death recorded with its time.
Redated(l, t)   == [l EXCEPT !.deaths[Len(l.deaths)] = t, !.timed[Len(l.timed)] = t]
TimedDeath(l, t) == [l EXCEPT !.deaths = Append(@, t), !.timed = Append(@, t), !.alive = FALSE]

\* Mutant: a death of whatever age dated anew.
SeePartyKillAnyTime(l, t) ==
  LET dated == IF l.deaths # <<>> /\ Last(l.deaths) = l.byHealth
               THEN Redated(l, t) ELSE TimedDeath(l, t)
  IN  [dated EXCEPT !.byHealth = Never, !.alive = FALSE]

SeePartyKill(l, t) ==
  LET dated == IF l.deaths # <<>> /\ Last(l.deaths) = l.byHealth /\ t - l.byHealth <= Coincidence
               THEN Redated(l, t) ELSE TimedDeath(l, t)
  IN  [dated EXCEPT !.byHealth = Never, !.alive = FALSE]

\* A CREATE of the creature standing.
SeeCreature(l, t) == [l EXCEPT !.alive = TRUE, !.seenAlive = TRUE]

\* Mutant: every corpse is a death.
SeeCorpseAgain(l, t) ==
  [l EXCEPT !.deaths = IF l.seenAlive THEN Append(@, t) ELSE @, !.alive = FALSE]

\* A CREATE without HEALTH.
SeeCorpse(l, t) ==
  [l EXCEPT !.deaths = IF l.alive /\ l.seenAlive THEN Append(@, t) ELSE @, !.alive = FALSE]

\* A VALUES block that takes HEALTH to zero, and one that sets it above.
SeeHealthZero(l, t) == IF l.alive THEN [TimedDeath(l, t) EXCEPT !.byHealth = t] ELSE l

SeeHealth(l, t) ==
  [l EXCEPT !.revivals = IF l.alive THEN @ ELSE Append(@, t),
            !.alive = TRUE, !.seenAlive = TRUE]

After(creates, death) == {c \in Range(creates) : c > death}

\* create_after_a_death: <<the earliest death that has one, its first CREATE>>.
CreateAfterADeath(creates, deaths) ==
  LET dated == {d \in Range(deaths) : After(creates, d) # {}}
  IN  IF dated = {} THEN <<>> ELSE <<Min(dated), Min(After(creates, Min(dated)))>>
=============================================================================
