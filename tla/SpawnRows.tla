----------------------------- MODULE SpawnRows -----------------------------
(***************************************************************************)
(* The spawn rule (author/spawn.py): a creature row for each spawn, and the *)
(* creature_movement rows of the path it walks.                            *)
(***************************************************************************)
EXTENDS AuthorBase, Lifeline

CONSTANTS
  Spawns,      \* guids of the spawns of the entry
  LateSlack    \* LATE_SLACK

\* _Spawn.  creates, corpses: [t, at].  route: patrol.py's, [confident].  wander: the
\* area it wanders, [centre, radius].  waypoints: of the route, in order, [at, repeats,
\* still].  hops: whether any was broadcast.
NewSpawn == [creates |-> <<>>, corpses |-> <<>>, life |-> NewLife, hops |-> FALSE, summoned |-> FALSE,
             route |-> {}, wander |-> {}, waypoints |-> <<>>, map |-> {}]

\* session: the map the session is on, once told.
NewSpawns == [spawns |-> [g \in Spawns |-> NewSpawn], session |-> {}]

\* handle
Seen(s) == s.creates # <<>> \/ s.corpses # <<>>

SpawnCreated(r, g, t, at, corpse, summoned) ==
  LET s == r.spawns[g]
      sighting == [t |-> t, at |-> at]
  IN  [r EXCEPT !.spawns[g] =
        [s EXCEPT !.map = IF s.map = {} /\ ~Seen(s) THEN r.session ELSE @,
                  !.summoned = @ \/ summoned,
                  !.life = IF corpse THEN SeeCorpse(@, t) ELSE SeeCreature(@, t),
                  !.corpses = IF corpse THEN Append(@, sighting) ELSE @,
                  !.creates = IF corpse THEN @ ELSE Append(@, sighting)]]

SpawnLife(r, g, see(_, _), t) == [r EXCEPT !.spawns[g].life = see(@, t)]
SpawnMoved(r, g)       == [r EXCEPT !.spawns[g].hops = TRUE]
SessionMoved(r, map)   == [r EXCEPT !.session = {map}]
PatrolFound(r, g, confident, points) ==
  [r EXCEPT !.spawns[g].route = {[confident |-> confident]}, !.spawns[g].waypoints = points]
WanderFound(r, g, area) == [r EXCEPT !.spawns[g].wander = {area}]

-----------------------------------------------------------------------------
LiesDead(s)       == s.corpses # <<>> /\ s.creates = <<>> /\ s.life.deaths = <<>>
DiedOutOfSight(s) == s.corpses # <<>> /\ s.creates = <<>> /\ s.life.deaths # <<>>
Patrols(s)        == s.waypoints # <<>> /\ \A route \in s.route : route.confident
Moved(s)          == s.hops \/ s.waypoints # <<>>

\* behaviour.py's respawn_timer finding, its times whole seconds: one timer fits gaps
\* that are equal.
Gaps(s) ==
  LET signs(d) == {t \in {s.creates[i].t : i \in DOMAIN s.creates} \union Range(s.life.revivals) : t > d}
      dated == SelectSeq(s.life.timed, LAMBDA d : signs(d) # {})
  IN  [i \in DOMAIN dated |-> Min(signs(dated[i])) - dated[i]]

Confident(s) == Len(Gaps(s)) >= 2 /\ Cardinality(Range(Gaps(s))) = 1

\* sighting and late_by
Times(s)  == [i \in DOMAIN s.creates |-> s.creates[i].t]
Respawn(s) == CreateAfterADeath(Times(s), s.life.deaths)

LateBy(s) ==
  /\ Respawn(s) # <<>> /\ Gaps(s) # <<>>
  /\ Respawn(s)[1] \in Range(s.life.timed)
  /\ Respawn(s)[2] - Respawn(s)[1] > Min(Range(Gaps(s))) + LateSlack

AtSpawn(s) == Respawn(s) # <<>> /\ ~LateBy(s)

Position(s) ==
  IF LiesDead(s) THEN s.corpses[1].at
  ELSE IF Respawn(s) = <<>> THEN s.creates[1].at
  ELSE (CHOOSE c \in Range(s.creates) : c.t = Respawn(s)[2]).at

Wanders(s) == IF Patrols(s) THEN {} ELSE s.wander

\* _seen
ToAuthor(r) ==
  SetToSortSeq({g \in Spawns : /\ r.spawns[g].creates # <<>> \/ LiesDead(r.spawns[g])
                               /\ ~r.spawns[g].summoned}, <)

\* _spawn_rows: its creature row.
CreatureRow(w, g, s) ==
  LET placed(area) == <<"position", 0>> :> IF area = {} THEN Position(s) ELSE (CHOOSE a \in area : TRUE).centre
      area   == IF AtSpawn(s) THEN {} ELSE Wanders(s)
      late   == Respawn(s) # <<>> /\ LateBy(s)
      settled(type, distance) == (<<"movement_type", 0>> :> type) @@ (<<"wander_distance", 0>> :> distance)
      cells == Cells([
        wire |-> (<<"guid", 0>> :> g) @@ (<<"id", 0>> :> Entry) @@ [c \in {<<"map", 0>> : m \in s.map} |-> CHOOSE m \in s.map : TRUE]
                   @@ (IF area = {} /\ ~late THEN placed({}) ELSE <<>>),
        derived |-> (IF area # {} \/ late THEN placed(area) ELSE <<>>)
                   @@ (IF Confident(s) THEN <<"spawntimesecs", 0>> :> Gaps(s)[1] ELSE <<>>)
                   @@ (IF Patrols(s) THEN <<"movement_type", 0>> :> 2 ELSE <<>>)
                   @@ (IF Wanders(s) # {} THEN settled(1, (CHOOSE a \in s.wander : TRUE).radius) ELSE <<>>),
        convention |-> IF Patrols(s) \/ (Wanders(s) = {} /\ ~Moved(s)) THEN <<"wander_distance", 0>> :> 0 ELSE <<>>])
  IN  Insert("creature", FillSchemaDefaults(w, "creature", cells,
        {<<"map", 0>>} \union IF Confident(s) THEN {} ELSE {<<"spawntimesecs", 0>>}))

\* Mutant: the first point's second copy is left to the return.
PathWithoutReturn(s) ==
  FlattenSeq([i \in DOMAIN s.waypoints |->
    IF i > 1 /\ s.waypoints[i].repeats THEN <<i, i>> ELSE <<i>>])

\* The points a path's rows are of: a point held twice is written twice, the first
\* point's second copy last.
Path(s) ==
  FlattenSeq([i \in DOMAIN s.waypoints |->
    IF i > 1 /\ s.waypoints[i].repeats THEN <<i, i>> ELSE <<i>>])
  \o (IF s.waypoints[1].repeats THEN <<1>> ELSE <<>>)

MovementRow(w, g, s, n) ==
  Insert("creature_movement", FillSchemaDefaults(w, "creature_movement",
    Cells([wire    |-> <<"id", 0>> :> g,
           derived |-> (<<"point", 0>> :> n) @@ (<<"position", 0>> :> s.waypoints[Path(s)[n]].at)]), {}))

SpawnRowsOf(w, g, s) ==
  <<CreatureRow(w, g, s)>>
    \o (IF Patrols(s) THEN [n \in DOMAIN Path(s) |-> MovementRow(w, g, s, n)] ELSE <<>>)

AllSpawnRows(r, w) == FlattenSeq([i \in DOMAIN ToAuthor(r) |-> SpawnRowsOf(w, ToAuthor(r)[i], r.spawns[ToAuthor(r)[i]])])

SpawnGaps(r, w) ==
  LET gap(table, what, P(_)) == {<<table, what, g>> : g \in {h \in Spawns : P(r.spawns[h])}}
      of(table, what, P(_))  == {<<table, what, g>> : g \in {h \in Range(ToAuthor(r)) : P(r.spawns[h])}}
      whole(table, what, holds) == IF holds THEN {<<table, what, Entry>>} ELSE {}
      unsettled(s) == ~Patrols(s) /\ s.wander = {}
  IN  gap("creature", "summoned", LAMBDA s : s.summoned)
        \union gap("creature", "spawn_flags", LAMBDA s : LiesDead(s) /\ ~s.summoned)
        \union gap("creature", "corpse", DiedOutOfSight)
        \union IF ToAuthor(r) = <<>>
               THEN whole("creature", "nothing", \A g \in Spawns : ~Seen(r.spawns[g]))
               ELSE whole("creature", "map", r.session = {} \/ \E g \in Range(ToAuthor(r)) : r.spawns[g].map = {})
                    \union (IF \A g \in Range(ToAuthor(r)) : r.spawns[g].life.deaths = <<>>
                            THEN whole("creature", "spawntimesecs", TRUE)
                            ELSE of("creature", "spawntimesecs", LAMBDA s : ~Confident(s)))
                    \union of("creature_movement", "held", LAMBDA s :
                                Patrols(s) /\ \E p \in Range(s.waypoints) : p.still /\ ~p.repeats)
                    \union of("creature", "movement_type", LAMBDA s : unsettled(s) /\ Moved(s))
                    \union of("creature_movement", "route", LAMBDA s : unsettled(s))
=============================================================================
