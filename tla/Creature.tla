------------------------------ MODULE Creature ------------------------------
(***************************************************************************)
(* What is made of one creature's life, set against that life: by Lifeline, *)
(* and by the rules that rest on it, for respawn gaps (analyze/behaviour.py), *)
(* lives (author/stats.py) and the spawn's place and map (author/spawn.py). *)
(*                                                                         *)
(* The creature lives, dies and respawns on the server; the player goes in *)
(* and out of its sight, may or may not get the kill message, and the      *)
(* capture may lose any message.  The analyzers and rules see only the     *)
(* messages: a respawn gap or a spawn point rests on what Lifeline makes   *)
(* of them.                                                                *)
(***************************************************************************)
EXTENDS Stats

CONSTANTS
  MinRespawn,    \* the shortest respawn
  LateSlack,     \* LATE_SLACK: how late a CREATE may come after a respawn
  MaxTime,       \* bound: the capture's length
  MaxDeaths,     \* bound: deaths of the creature
  MaxSightings   \* bound: CREATE blocks of it

\* The mark a HEALTH-0 death leaves for its kill message outlives a revival
\* (_by_health), so a creature must not die twice within two coincidences.
ASSUME CreatureAssumption ==
  /\ MinRespawn \in Nat /\ 2 * Coincidence < MinRespawn
  /\ LateSlack \in Nat
  /\ MaxTime \in Nat /\ MaxDeaths \in Nat /\ MaxSightings \in Nat

VARIABLES
  now,                \* the capture's clock
  living, inSight,    \* the creature; whether the player's client shows it
  died, born,         \* when it died; born[k]: when it respawned after died[k]
  owed,               \* witnesses of the last death still to arrive
  witnessed,          \* which deaths were shown to the player as they happened
  lossy,              \* whether the capture has lost a message
  life,               \* its Lifeline
  creates,            \* the live CREATEs its owner keeps, by time
  stats,              \* what the stats rule keeps of a field rolled at each respawn
  place,              \* the map the player is on
  session,            \* _map_id: the last map message
  spawnMap            \* the map of its creature row

world == <<living, inSight, died, born, owed, witnessed>>
noted == <<life, creates, stats, spawnMap>>
maps  == <<place, session>>
vars  == <<now, world, lossy, noted, maps>>

Home == "home"                         \* the map it lives on
Places == {Home, "elsewhere"}
Unknown == "unknown"                   \* None

\* The capture has a message other than a CREATE, or has lost one.
Told(See(_, _)) ==
  /\ life' = See(life, now)
  /\ stats' = Witnessed(stats, life, life')
  /\ UNCHANGED <<lossy, creates, spawnMap>>

Lost == lossy' = TRUE /\ UNCHANGED noted

\* Spawn.handle: the session's map when it was first seen.
MapSeen == IF stats.firsts = <<>> THEN session ELSE spawnMap

\* A CREATE; is_corpse tells a corpse's.  What a respawn rolls is here the number
\* of lives before.
ToldOfCreate(stands, rolled) ==
  /\ life' = IF stands THEN SeeCreature(life, now) ELSE SeeCorpse(life, now)
  /\ creates' = IF stands THEN Append(creates, now) ELSE creates
  /\ stats' = SeenCreated(stats, rolled, ~stands, life, life')
  /\ spawnMap' = MapSeen
  /\ UNCHANGED lossy

-----------------------------------------------------------------------------
Init ==
  /\ now = 0
  /\ living \in BOOLEAN /\ inSight = FALSE
  /\ died = IF living THEN <<>> ELSE <<0>>
  /\ born = <<>>
  /\ owed = {} /\ witnessed = {} /\ lossy = FALSE
  /\ life = NewLife /\ creates = <<>> /\ stats = NewStats /\ spawnMap = Unknown
  /\ place = Home /\ session = Unknown

Tick ==
  /\ now < MaxTime
  /\ owed # {} => now - Last(died) < Coincidence
  /\ now' = now + 1
  /\ UNCHANGED <<world, lossy, noted, maps>>

\* The kill message goes to the group that tapped the creature, in sight or not;
\* the HEALTH block to whoever sees it.  They arrive in either order.
Die(tapped) ==
  /\ living
  /\ Len(died) < MaxDeaths
  /\ living' = FALSE
  /\ died' = Append(died, now)
  /\ owed' = (IF tapped THEN {"party_kill"} ELSE {}) \union (IF inSight THEN {"health"} ELSE {})
  /\ witnessed' = IF owed' # {} THEN witnessed \union {Len(died')} ELSE witnessed
  /\ UNCHANGED <<now, inSight, born, lossy, noted, maps>>

Witness(w) ==
  /\ w \in owed
  /\ owed' = owed \ {w}
  /\ \/ w = "health" /\ Told(SeeHealthZero)
     \/ w = "party_kill" /\ Told(SeePartyKill)
     \/ Lost
  /\ UNCHANGED <<now, living, inSight, died, born, witnessed, maps>>

Respawn ==
  /\ ~living
  /\ owed = {}
  /\ now >= Last(died) + MinRespawn
  /\ living' = TRUE
  /\ born' = Append(born, now)
  /\ UNCHANGED <<now, inSight, died, owed, witnessed, maps>>

RespawnUnseen == ~inSight /\ Respawn /\ UNCHANGED <<lossy, noted>>

\* In sight all along: a VALUES block, or a CREATE when the corpse was gone.
RespawnInSight ==
  /\ inSight
  /\ Respawn
  /\ \/ Told(SeeHealth)
     \/ Len(creates) < MaxSightings /\ ToldOfCreate(TRUE, Len(born'))
     \/ Lost

ComeInSight ==
  /\ ~inSight /\ place = Home
  /\ owed = {}
  /\ Len(creates) < MaxSightings
  /\ inSight' = TRUE
  /\ ToldOfCreate(living, Len(born)) \/ Lost
  /\ UNCHANGED <<now, living, died, born, owed, witnessed, maps>>

GoOutOfSight ==
  /\ inSight
  /\ owed = {}
  /\ inSight' = FALSE
  /\ UNCHANGED <<now, living, died, born, owed, witnessed, lossy, noted, maps>>

\* The player changes map: the capture has every map message once it has begun.
Transfer ==
  /\ ~inSight /\ owed = {}
  /\ \E map \in Places \ {place} : place' = map /\ session' = map
  /\ UNCHANGED <<now, world, lossy, noted>>

\* Its health moves without reaching zero.
Hurt ==
  /\ living /\ inSight
  /\ Told(SeeHealth)
  /\ UNCHANGED <<now, world, maps>>

Next ==
  \/ Tick
  \/ \E tapped \in BOOLEAN : Die(tapped)
  \/ \E w \in owed : Witness(w)
  \/ RespawnUnseen \/ RespawnInSight \/ ComeInSight \/ GoOutOfSight \/ Hurt \/ Transfer

Spec == Init /\ [][Next]_vars

-----------------------------------------------------------------------------
\* Mutant: gaps counted from every death known.
CountableDeaths == Range(life.deaths)

\* Behaviour._respawn: a respawn gap runs from a death whose time is known to the
\* next sign of life, a CREATE or a revival.
DatedDeaths == Range(life.timed)
SignsOfLife == Range(creates) \union Range(life.revivals)
RespawnGaps ==
  {<<d, Min({s \in SignsOfLife : s > d})>> :
     d \in {e \in DatedDeaths : \E s \in SignsOfLife : s > e}}

\* _Spawn.late_by: the gap to the chosen CREATE is more than LateSlack above the
\* timer.  In whole seconds the one timer that fits is the shortest gap, value_min.
Timer == Min({g[2] - g[1] : g \in RespawnGaps})

\* Mutant: the timer read off the CREATEs alone.
LateByCreates(d, c) ==
  LET gaps == {Min(After(creates, e)) - e : e \in {x \in DatedDeaths : After(creates, x) # {}}}
  IN  d \in DatedDeaths /\ gaps # {} /\ c - d > Min(gaps) + LateSlack

Late(d, c) == d \in DatedDeaths /\ RespawnGaps # {} /\ c - d > Timer + LateSlack

\* Mutant: the map the capture ends on.
MapAtTheEnd == session

\* The row's map.
Map == spawnMap

-----------------------------------------------------------------------------
Times == 0 .. MaxTime

TypeOK ==
  /\ now \in Times
  /\ living \in BOOLEAN /\ inSight \in BOOLEAN /\ lossy \in BOOLEAN
  /\ died \in Seq(Times) /\ born \in Seq(Times)
  /\ Len(died) = Len(born) + (IF living THEN 0 ELSE 1)
  /\ owed \subseteq {"party_kill", "health"}
  /\ witnessed \subseteq DOMAIN died
  /\ life \in Lives(Times) /\ Len(life.timed) <= Len(life.deaths)
  /\ creates \in Seq(Times)
  /\ stats.lifeNo \in 0 .. Len(born) /\ stats.dead \in BOOLEAN
  /\ place \in Places /\ {session, spawnMap} \subseteq Places \union {Unknown}

\* The k-th time it lay dead, and the k-th time it stood again.
LayDead(k, t) == died[k] <= t /\ (k <= Len(born) => t <= born[k])
Stood(k, t)   == k <= Len(born) /\ born[k] <= t /\ (k < Len(died) => t <= died[k + 1])

\* The moments of s are, one for one and in order, ones at which P(k, _) held for
\* distinct k.
OneForOne(s, P(_, _)) ==
  \E f \in [DOMAIN s -> DOMAIN died] :
    /\ \A n \in DOMAIN s : P(f[n], s[n])
    /\ \A m, n \in DOMAIN s : m < n => f[m] < f[n]

\* Whatever the capture lost, every recorded death is one the creature died, no
\* death is recorded twice, however many witnesses it had, and every revival is a
\* respawn, once: a death counted twice, or a corpse of an old death counted as a
\* new one, makes a respawn gap nobody observed.
TheRecordIsReal == OneForOne(life.deaths, LayDead) /\ OneForOne(life.revivals, Stood)

\* With nothing lost, every death the player was shown is recorded and timed
\* (Lifeline: "`deaths` holds every death the capture proves").
NoWitnessedDeathIsMissed ==
  ~lossy /\ owed = {} => Len(life.timed) = Cardinality(witnessed)

\* Whatever was lost or out of sight, a respawn gap never reads shorter than the
\* respawn it was counted over, but for the coincidence slack of its death (the
\* spawn rule: "a late sighting only lengthens" it).
GapsAreNeverShort ==
  \A g \in RespawnGaps : \E k \in DOMAIN born :
    /\ died[k] <= g[1] /\ g[1] <= born[k] /\ born[k] <= g[2]
    /\ g[2] - g[1] >= born[k] - died[k] - Coincidence

\* The CREATE taken for the spawn because it follows a death is of a later life
\* than the one that ended.  With a fixed respawn time, one called late came well after the creature was
\* back from the death it is counted from, and so does not show the spawn point; and
\* one not called late, where a prompt gap was seen, came about when the creature came
\* back from some death (the spawn rule: "it had time to walk on").
LateIsLate ==
  LET chosen == CreateAfterADeath(creates, life.deaths)
      back(k) == chosen[2] - born[k]
  IN  chosen # <<>> =>
        /\ \E k \in DOMAIN born : chosen[1] <= born[k] /\ born[k] <= chosen[2]
        /\ (\A k \in DOMAIN born : born[k] - died[k] = MinRespawn)
           => IF Late(chosen[1], chosen[2])
              THEN \E k \in DOMAIN born : LayDead(k, chosen[1]) /\ back(k) > LateSlack - Coincidence
              ELSE chosen[1] \in DatedDeaths /\ Timer <= MinRespawn
                   => \E k \in DOMAIN born : back(k) \in 0 .. LateSlack + Coincidence

\* Each life a spawn is given is a later one than the life before, and with nothing
\* lost no CREATE of it standing is reported to disagree with one before a death that
\* the player was shown (the stats rule: "one spawn before and after a death,
\* disagreeing is the template, not a modified creature").  A corpse's may be: it
\* starts no life, though the creature stood again, by a VALUES block, in between.
LivesAreToldApart ==
  /\ \A m, n \in DOMAIN stats.firsts : m < n => stats.firsts[m] < stats.firsts[n]
  /\ ~lossy => \A p \in stats.disagreed :
       p[3] \/ witnessed \intersect p[1] + 1 .. p[2] = {}

\* Whichever CREATEs were lost, a row's map is the one the creature stands on,
\* wherever the player went before and after (the spawn rule: "a dungeon entered later is not its
\* map").
MapIsWhereItStood == Map \in {Home, Unknown}
=============================================================================
