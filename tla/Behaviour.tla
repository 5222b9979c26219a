----------------------------- MODULE Behaviour -----------------------------
(***************************************************************************)
(* What analyze/behaviour.py reads off the clock: which trigger a line      *)
(* answers, which sound goes with it, how long after engaging a spell is    *)
(* first cast, and at what intervals again.                                 *)
(*                                                                         *)
(* The spawns are of one entry and cast one spell.  They fight, evade, die  *)
(* and respawn in the player's sight, and the capture holds every packet of *)
(* it; what the wire does not say is which aggro begins a fight.  A line    *)
(* and its sound arrive with each trigger, and are named for it.            *)
(***************************************************************************)
EXTENDS Lifeline

CONSTANTS
  Spawns,
  Window,       \* COINCIDENCE_WINDOW
  MinRespawn,   \* the shortest respawn
  MaxTime,      \* bound: the capture's length
  MaxPackets    \* bound: aggros, casts and sounds of no line

ASSUME BehaviourAssumption ==
  /\ Window \in Nat /\ MinRespawn \in Nat \ {0}
  /\ MaxTime \in Nat /\ MaxPackets \in Nat

VARIABLES
  now,      \* the capture's clock
  mode,     \* what each spawn is doing
  fights,   \* each spawn's engagements, from rest to death or evade
  seen,     \* _seen: each spawn's _Creature
  sounds    \* _sounds: <<time, id>>

vars == <<now, mode, fights, seen, sounds>>

Triggers == {"aggro", "death"}
Forever  == MaxTime + 1            \* math.inf

NewCreature ==
  [triggers |-> [n \in Triggers |-> <<>>], texts |-> [n \in Triggers |-> <<>>],
   casts |-> <<>>, life |-> NewLife]

\* feed, one operator per kind of event.
Aggroed(c)  == [c EXCEPT !.triggers["aggro"] = Append(@, now)]
Killed(c)   == [c EXCEPT !.triggers["death"] = Append(@, now), !.life = SeePartyKill(@, now)]
Spoke(c, m) == [c EXCEPT !.texts[m] = Append(@, now)]
Casted(c)   == [c EXCEPT !.casts = Append(@, now)]
Drained(c)  == [c EXCEPT !.life = SeeHealthZero(@, now)]
Healed(c)   == [c EXCEPT !.life = SeeHealth(@, now)]

-----------------------------------------------------------------------------
\* An engagement, from start until over; first: its first cast.
Fight(start) == [start |-> start, first |-> Never, over |-> Forever, how |-> "open"]

\* A spawn may have been fighting before the capture.
Init ==
  /\ now = 0
  /\ mode \in [Spawns -> {"rest", "fighting"}]
  /\ fights = [s \in Spawns |-> IF mode[s] = "rest" THEN <<>> ELSE <<Fight(Never)>>]
  /\ seen = [s \in Spawns |-> NewCreature]
  /\ sounds = {}

\* Whoever evaded is home and at rest.
Tick ==
  /\ now < MaxTime
  /\ now' = now + 1
  /\ mode' = [s \in Spawns |-> IF mode[s] = "evading" THEN "rest" ELSE mode[s]]
  /\ UNCHANGED <<fights, seen, sounds>>

\* What is now seen of s, with its line for the trigger m and the line's sound.
Speaking(s, m, c) ==
  /\ seen' = [seen EXCEPT ![s] = Spoke(c, m)]
  /\ sounds' = sounds \union {<<now, m>>}

Packets ==
  SumFunction([s \in Spawns |-> Len(seen[s].triggers["aggro"]) + Len(seen[s].casts)])
    + Cardinality({x \in sounds : x[2] = "music"})

MorePackets == Packets < MaxPackets

Engage(s) ==
  /\ mode[s] = "rest"
  /\ MorePackets
  /\ mode' = [mode EXCEPT ![s] = "fighting"]
  /\ fights' = [fights EXCEPT ![s] = Append(@, Fight(now))]
  /\ Speaking(s, "aggro", Aggroed(seen[s]))
  /\ UNCHANGED now

\* Another aggro in mid-fight: nothing restarts.
AggroAgain(s) ==
  /\ mode[s] = "fighting"
  /\ MorePackets
  /\ seen' = [seen EXCEPT ![s] = Aggroed(@)]
  /\ UNCHANGED <<now, mode, fights, sounds>>

\* The fight going on becomes fight.
BringTo(s, fight) == fights' = [fights EXCEPT ![s] = Append(Front(@), fight)]

CastSpell(s) ==
  /\ mode[s] = "fighting"
  /\ MorePackets
  /\ seen' = [seen EXCEPT ![s] = Casted(@)]
  /\ BringTo(s, [Last(fights[s]) EXCEPT !.first = IF @ = Never THEN now ELSE @])
  /\ UNCHANGED <<now, mode, sounds>>

Over(s, how) == BringTo(s, [Last(fights[s]) EXCEPT !.over = now, !.how = how])

\* No packet tells of it.
Evade(s) ==
  /\ mode[s] = "fighting"
  /\ mode' = [mode EXCEPT ![s] = "evading"]
  /\ Over(s, "evaded")
  /\ UNCHANGED <<now, seen, sounds>>

\* The kill message goes only to the group that tapped it.
Die(s, tapped) ==
  /\ mode[s] = "fighting"
  /\ mode' = [mode EXCEPT ![s] = "dead"]
  /\ Over(s, "died")
  /\ Speaking(s, "death", IF tapped THEN Killed(Drained(seen[s])) ELSE Drained(seen[s]))
  /\ UNCHANGED now

Respawn(s) ==
  /\ mode[s] = "dead"
  /\ now >= Last(fights[s]).over + MinRespawn
  /\ mode' = [mode EXCEPT ![s] = "rest"]
  /\ seen' = [seen EXCEPT ![s] = Healed(@)]
  /\ UNCHANGED <<now, fights, sounds>>

\* A sound that goes with no line.
Music ==
  /\ MorePackets
  /\ sounds' = sounds \union {<<now, "music">>}
  /\ UNCHANGED <<now, mode, fights, seen>>

Next ==
  \/ Tick \/ Music
  \/ \E s \in Spawns :
       \/ Engage(s) \/ AggroAgain(s) \/ CastSpell(s) \/ Evade(s) \/ Respawn(s)
       \/ \E tapped \in BOOLEAN : Die(s, tapped)

Spec == Init /\ [][Next]_vars

-----------------------------------------------------------------------------
(***************************************************************************)
(* finish.                                                                 *)
(***************************************************************************)
Aggros(s) == Range(seen[s].triggers["aggro"])
Deaths(s) == Range(seen[s].life.deaths)

\* The first aggro of the capture and the first after each death.
Starts(s) ==
  {Min({t \in Aggros(s) : t > b}) :
     b \in {d \in Deaths(s) \union {Never} : \E t \in Aggros(s) : t > d}}

\* Mutant: a fight has no end.
FightsUnended(s) == {<<start, Forever>> : start \in Starts(s)}

\* _fresh_engagements: each start, and the next death.
FreshEngagements(s) ==
  {<<start, Min({d \in Deaths(s) : d > start} \union {Forever})>> : start \in Starts(s)}

Inside(s, fight) == {t \in Range(seen[s].casts) : fight[1] <= t /\ t < fight[2]}

\* _spell_timing: <<a fight's start, the first cast inside it>>.
InitialDelays(s) ==
  {<<f[1], Min(Inside(s, f))>> : f \in {g \in FreshEngagements(s) : Inside(s, g) # {}}}

Casts(s, i) == <<seen[s].casts[i], seen[s].casts[i + 1]>>

\* Mutant: an aggro between two casts is a re-aggro.
RepeatsAcrossAggros(s) ==
  {i \in 1 .. Len(seen[s].casts) - 1 :
     ~ \E d \in Deaths(s) : Casts(s, i)[1] < d /\ d < Casts(s, i)[2]}

\* The consecutive casts, by the first, whose interval counts.
Repeats(s) ==
  {i \in 1 .. Len(seen[s].casts) - 1 :
     /\ ~ \E d \in Deaths(s) : Casts(s, i)[1] < d /\ d < Casts(s, i)[2]
     /\ ~ \E t \in Aggros(s) : Casts(s, i)[1] < t /\ t <= Casts(s, i)[2]}

\* The occurrences of a line, and how near to one its speaker's trigger n came.
Said(m) == {said \in Spawns \X (0 .. MaxTime) : said[2] \in Range(seen[said[1]].texts[m])}

Apart(a, b) == IF a < b THEN b - a ELSE a - b

Near(n, said) ==
  {Apart(t, said[2]) : t \in Range(seen[said[1]].triggers[n])} \intersect (0 .. Window)

\* The triggers that explain every occurrence.
Every(m) == {n \in Triggers : \A said \in Said(m) : Near(n, said) # {}}

\* Mutant: no trigger is closer.
NoneCloserEverywhere(every, m) ==
  {n \in every : \A other \in every \ {n} : \A said \in Said(m) :
     Min(Near(n, said)) <= Min(Near(other, said))}

\* _closest_everywhere: the one strictly closer to each than all the others.
ClosestEverywhere(every, m) ==
  {n \in every : \A other \in every \ {n} : \A said \in Said(m) :
     Min(Near(n, said)) < Min(Near(other, said))}

\* _text_triggers: the trigger a line is credited to.
Credited(m) == ClosestEverywhere(Every(m), m)

\* _sound_attribution: the lines a sound may go with, and the sounds a line gets,
\* of which the last is kept.
Candidates(t) == {m \in Triggers : \E said \in Said(m) : Apart(said[2], t) <= Window}

\* Mutant: any line near takes the sound.
SoundsNear(m) == {x[2] : x \in {y \in sounds : m \in Candidates(y[1])}}

SoundsFor(m) == {x[2] : x \in {y \in sounds : Candidates(y[1]) = {m}}}

-----------------------------------------------------------------------------
Times == 0 .. MaxTime

Uncast(f)   == f.first = Never
OneShot(f)  == f.how = "died" /\ f.over = f.start
BrokenOff(f) == f.how = "evaded"

\* A spawn the capture found fighting: its first aggro need not begin a fight.
FoundFighting(s) == fights[s] # <<>> /\ fights[s][1].start = Never

\* What _fresh_engagements promises of a delay: it runs from the start of a fight
\* to that fight's own first cast, never to one of a later life.  It holds but for
\* a fight that ended uncast by an evade or in the tick it began.
InitialDelaysAreTrue ==
  \A s \in Spawns : FoundFighting(s) \/ \A delay \in InitialDelays(s) :
    \E f \in Range(fights[s]) :
      /\ f.start = delay[1]
      /\ f.first = delay[2] \/ (Uncast(f) /\ (OneShot(f) \/ BrokenOff(f)))

\* An interval counts only between two casts of one fight, so of one run of the
\* spell's timer ("a gap spanning a death and respawn is not a repeat delay, nor is
\* one an aggro falls inside").
RepeatsAreOneTimer ==
  \A s \in Spawns : \A i \in Repeats(s) : \E f \in Range(fights[s]) :
    f.start <= Casts(s, i)[1] /\ Casts(s, i)[2] <= f.over

\* With a kill message for every death, a line is credited to its own trigger, over
\* all its speakers, and to nothing only if both triggers came with one occurrence
\* ("whichever was inserted first is not a reason").
LinesAreCreditedRight ==
  LET together(said) == \A n \in Triggers : said[2] \in Range(seen[said[1]].triggers[n])
  IN  (\A s \in Spawns : Deaths(s) = Range(seen[s].triggers["death"])) =>
        \A m \in {n \in Triggers : Said(n) # {}} :
          Credited(m) = {m} \/ (Credited(m) = {} /\ \E said \in Said(m) : together(said))

\* No line is given the sound of another, whichever spawns spoke within the window
\* ("a coin flip, not a fact").
SoundsAreTheirOwn == \A m \in Triggers : SoundsFor(m) \subseteq {m, "music"}

\* Stated by _fresh_engagements: "a creature that dies before casting a spell cannot
\* lend that engagement a cast from its next life".
NoCastFromTheNextLife ==
  \A s \in Spawns : \A delay \in InitialDelays(s) : \A f \in Range(fights[s]) :
    f.start = delay[1] /\ f.how = "died" => delay[2] <= f.over
=============================================================================
