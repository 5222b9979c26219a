------------------------------- MODULE Patrol -------------------------------
(***************************************************************************)
(* analyze/patrol.py: the route of one creature, from the hops its client  *)
(* was told of.                                                            *)
(*                                                                         *)
(* The creature walks its path on the server, is drawn into fights, chases, *)
(* evades, dies and respawns at its first point, and wanders while it      *)
(* pauses at some; hops may go unseen.  A point is a whole number, so far  *)
(* from every other that hops cluster by it; a draw near a point is of its *)
(* cluster.                                                                *)
(***************************************************************************)
EXTENDS Lifeline

CONSTANTS
  Paths,            \* the paths it may walk: [points, the first after the last; pausing
                    \* for a while, and wandering, at some]
  Afield,           \* points of no path, where a chase may lead
  MinWaypoints,     \* MIN_WAYPOINTS
  MinRepeats,       \* MIN_REPEATS
  MinRepeatShare,   \* MIN_REPEAT_SHARE, like the next two in percent
  MaxCombat,        \* MAX_COMBAT_HOP_FRACTION
  MinOrder,         \* MIN_TRANSITION_ORDER
  MinHops,          \* MIN_HOPS_FOR_ORDER
  MaxHops,          \* bound: hops made
  MaxOdd            \* bound: hops unseen, chases, draws, sightings and corpses together

ASSUME PatrolAssumption ==
  /\ \A p \in Paths : /\ p.points \in Seq(Int) /\ p.points # <<>>
                     /\ p.pausing \subseteq Range(p.points)
                     /\ Range(p.points) \intersect Afield = {}
  /\ MinWaypoints > 1 /\ MinRepeats > 0 /\ MinHops > 0
  /\ {MinRepeatShare, MaxCombat, MinOrder} \subseteq 0 .. 100

VARIABLES
  now,                  \* the capture's clock
  path, pausing,        \* the creature's path, and the points it wanders at
  leg,                  \* the place on its path it last made for
  mode, place,          \* what it is doing, and where it stands
  odd, made,            \* how much out of the way has happened, and the hops made
  draws, stray,         \* draws of this pause; still hops that no held point made
  chased,               \* which of the hops it made after somebody
  detours,              \* how often it went, or was seen to go, another way than its path's
  hops,                 \* hop_points with its parallel lists
  creates, engagements, life

server == <<path, pausing, leg, mode, place, odd, made, draws, stray, chased, detours>>
seen   == <<hops, creates, engagements, life>>
vars   == <<now, server, seen>>

-----------------------------------------------------------------------------
(***************************************************************************)
(* What the analyzer makes of hops, creates, engagements and life.         *)
(***************************************************************************)
Labels   == {hops[i].at : i \in DOMAIN hops}
Visits(p) == {i \in DOMAIN hops : hops[i].at = p}      \* clusters

\* The hops that left p for another point.
Leaving(p) == {i \in DOMAIN hops : i < Len(hops) /\ hops[i].at = p /\ hops[i + 1].at # p}
Edge(p, q) == {i \in Leaving(p) : hops[i + 1].at = q}
Successors(p) == {hops[i + 1].at : i \in Leaving(p)}

Count(S) == Cardinality(S)
LeftTwice == {p \in Labels : Count(Leaving(p)) >= 2}

\* most_common(1): of equals the one counted first.
Commonest(p) ==
  CHOOSE q \in Successors(p) : \A r \in Successors(p) \ {q} :
    \/ Count(Edge(p, q)) > Count(Edge(p, r))
    \/ Count(Edge(p, q)) = Count(Edge(p, r)) /\ Min(Edge(p, q)) < Min(Edge(p, r))

\* Mutant: a window ends short of its death.
InCombatBeforeTheDeath(t) ==
  \E start \in Range(engagements) :
    start <= t /\ \A d \in Range(life.deaths) : d > start => t < d

\* _in_combat: from an aggro to the next death.
InCombat(t) ==
  \E start \in Range(engagements) :
    start <= t /\ \A d \in Range(life.deaths) : d > start => t <= d

Calm == {i \in DOMAIN hops : ~InCombat(hops[i].t)}     \* calm_hops

\* transition_order, as a fraction.
Ordered == [of |-> SumFunction([p \in LeftTwice |-> Count(Leaving(p))]),
            best |-> SumFunction([p \in LeftTwice |-> Count(Edge(p, Commonest(p)))])]

Still(i) == hops[i].from # "elsewhere"
Moved(i) == hops[i].from # "there"

\* _wander_hops: each return of a second, and the draws of its pause behind it.
WanderHops ==
  {i \in DOMAIN hops : \E j \in i .. Len(hops) :
     /\ hops[j].second /\ Moved(j)
     /\ \A k \in i .. j - 1 : Still(k) /\ Moved(k) /\ hops[k].at = hops[j].at}

\* Mutant: the return alone is the wanderer's.
StillHopsButReturns(p) ==
  {i \in Visits(p) : i > 1 /\ hops[i - 1].at = p /\ Still(i) /\ ~hops[i].second}

\* still_hops, and those of them enough to call.
StillHops(p) ==
  {i \in Visits(p) : i > 1 /\ hops[i - 1].at = p /\ Still(i) /\ i \notin WanderHops}

Arrivals(p) == Count(Visits(p)) - Count(StillHops(p))

Repeated ==
  {p \in Labels : /\ Count(StillHops(p)) >= MinRepeats
                  /\ 100 * Count(StillHops(p)) >= MinRepeatShare * Arrivals(p)}

WalksALine ==
  /\ LeftTwice # {}
  /\ \A p \in LeftTwice : Count(Successors(p)) <= 2
  /\ \E p \in LeftTwice :
       Count(Successors(p)) = 2 /\ \A q \in Successors(p) : Count(Edge(p, q)) >= 2

Apart(p, q) == IF p < q THEN q - p ELSE p - q
First(p)    == Min(Visits(p))

\* spawn_sighting: where the respawn's CREATE, or the earliest, stood.
Sighting ==
  LET times  == [i \in DOMAIN creates |-> creates[i].t]
      chosen == CreateAfterADeath(times, life.deaths)
      t      == IF chosen = <<>> THEN times[1] ELSE chosen[2]
  IN  creates[SelectInSeq(creates, LAMBDA c : c.t = t)].at

\* _anchor: the point nearest the spawn, else the busiest; of equals the first seen.
Rank(p) == IF creates # <<>> THEN Apart(p, Sighting) ELSE -Count(Visits(p))
Anchor ==
  CHOOSE p \in Labels : \A q \in Labels \ {p} :
    Rank(p) < Rank(q) \/ (Rank(p) = Rank(q) /\ First(p) < First(q))

\* walk: on to each point's commonest successor until there is none or it is walked.
Walk ==
  LET on(order, n) ==
        IF Successors(Last(order)) = {} \/ Commonest(Last(order)) \in Range(order)
        THEN order ELSE Append(order, Commonest(Last(order)))
  IN  IF Count(Labels) < MinWaypoints THEN <<>>
      ELSE FoldLeft(on, <<Anchor>>, [n \in 1 .. Count(Labels) |-> n])

ReturnsToStart(order) == Successors(Last(order)) # {} /\ Commonest(Last(order)) = order[1]

ClosesElsewhere(order) ==
  /\ Successors(Last(order)) # {}
  /\ Commonest(Last(order)) # order[1]
  /\ Count(Edge(Last(order), order[1])) < 2

\* Mutant: a turn is no reason.
DropsVisited(order) ==
  \E p \in Labels \ Range(order) : Count(Visits(p) \intersect Calm) >= 2

DropsPoints(order) ==
  \/ ClosesElsewhere(order)
  \/ \E p \in Labels \ Range(order) : Count(Visits(p) \intersect Calm) >= 2

\* finish: why a route is not trusted, the first reason that holds.
Refusal(order) ==
  CASE 100 * (Len(hops) - Count(Calm)) > MaxCombat * Len(hops) -> "combat"
    [] OTHER ->
  CASE Len(hops) < MinHops -> "short"
    [] OTHER ->
  CASE LeftTwice = {} -> "unrevisited"
    [] OTHER ->
  CASE 100 * Ordered.best < MinOrder * Ordered.of ->
         IF WalksALine THEN "branching" ELSE "unordered"
    [] OTHER -> IF DropsPoints(order) THEN "branching" ELSE "none"

-----------------------------------------------------------------------------
(***************************************************************************)
(* The creature on the server, and feed for what the client is told of it. *)
(***************************************************************************)
Init ==
  /\ now = 0
  /\ \E p \in Paths : path = p.points /\ pausing = p.pausing
  /\ leg \in DOMAIN path /\ place = path[leg] /\ mode = "walking"
  /\ odd = 0 /\ made = 0 /\ draws = 0 /\ stray = 0 /\ chased = {} /\ detours = 0
  /\ hops = <<>> /\ creates = <<>> /\ engagements = <<>> /\ life = NewLife

Odd(n) == odd + n <= MaxOdd /\ odd' = odd + n

\* It moves to a point: a tick, and a hop unless it goes unseen.
Hop(p, from, second, isSeen) ==
  /\ made < MaxHops
  /\ made' = made + 1 /\ now' = now + 1
  /\ hops' = IF isSeen
             THEN Append(hops, [at |-> p, t |-> now', from |-> from, second |-> second])
             ELSE hops
  /\ place' = p
  /\ UNCHANGED <<path, pausing, creates, engagements, life>>

Post == IF leg = 0 THEN path[1] ELSE path[leg]

From(p) == IF place = p /\ mode # "astray" THEN "there" ELSE "elsewhere"

\* On to its next point, which after a respawn is where it stands.
Leg(isSeen) ==
  /\ mode \in {"walking", "pausing"}
  /\ leg' = (leg % Len(path)) + 1
  /\ Hop(path[leg'], From(path[leg']), FALSE, isSeen)
  /\ Odd(IF isSeen THEN 0 ELSE 1)
  /\ mode' = IF path[leg'] \in pausing THEN "pausing" ELSE "walking"
  /\ stray' = IF leg = 0 THEN stray + 1 ELSE stray
  /\ draws' = 0
  /\ detours' = IF isSeen THEN detours ELSE detours + 1
  /\ UNCHANGED chased

\* While it pauses, to a random point near; and back, in a second, when it ends.
Draw ==
  /\ mode \in {"pausing", "astray"}
  /\ Odd(1)
  /\ Hop(Post, "near", FALSE, TRUE)
  /\ mode' = "astray" /\ draws' = draws + 1
  /\ UNCHANGED <<leg, stray, chased, detours>>

Return(isSeen) ==
  /\ mode = "astray"
  /\ Odd(IF isSeen THEN 0 ELSE 1)
  /\ Hop(Post, "near", TRUE, isSeen)
  /\ mode' = "walking" /\ draws' = 0
  /\ stray' = IF isSeen THEN stray ELSE stray + draws
  /\ UNCHANGED <<leg, chased, detours>>

Aggro ==
  /\ mode \in {"walking", "pausing", "astray"}
  /\ Odd(1)
  /\ now' = now + 1
  /\ engagements' = Append(engagements, now')
  /\ mode' = "fighting"
  /\ stray' = stray + draws /\ draws' = 0
  /\ UNCHANGED <<path, pausing, leg, place, made, chased, detours, hops, creates, life>>

Chase(p) ==
  /\ mode = "fighting"
  /\ p # place
  /\ Odd(1)
  /\ Hop(p, "elsewhere", FALSE, TRUE)
  /\ chased' = chased \union {Len(hops')}
  /\ detours' = detours + 1
  /\ UNCHANGED <<leg, mode, draws, stray>>

\* Back to where it was drawn away.
Evade ==
  /\ mode = "fighting"
  /\ mode' = "walking"
  /\ \/ place # Post /\ Hop(Post, "elsewhere", FALSE, TRUE)
     \/ place = Post /\ UNCHANGED <<now, made, path, pausing, place, seen>>
  /\ UNCHANGED <<leg, odd, draws, stray, chased, detours>>

\* By the player, by somebody else, or out of sight.
Die ==
  /\ mode = "fighting"
  /\ now' \in {now, now + 1}
  /\ mode' = "dead"
  /\ \/ life' = SeeHealthZero(life, now') /\ odd' = odd
     \/ life' = SeePartyKill(SeeHealthZero(life, now'), now') /\ odd' = odd
     \/ life' = life /\ Odd(1)
  /\ UNCHANGED <<path, pausing, leg, place, made, draws, stray, chased, detours, hops, creates, engagements>>

Sighted(p) ==
  /\ creates' = Append(creates, [t |-> now', at |-> p])
  /\ life' = SeeCreature(life, now')

\* At its first point; in sight by a VALUES block or a CREATE, or out of it.
Respawn ==
  /\ mode = "dead"
  /\ now' = now + 1
  /\ mode' = "walking" /\ leg' = 0 /\ place' = path[1]
  /\ \/ creates' = creates /\ life' = SeeHealth(life, now')
     \/ Sighted(path[1])
     \/ creates' = creates /\ life' = life
  /\ detours' = detours + 1
  /\ UNCHANGED <<path, pausing, odd, made, draws, stray, chased, hops, engagements>>

Begun == hops # <<>> \/ creates # <<>> \/ engagements # <<>>

\* It comes in sight: a CREATE where it stands, or of its corpse.
ComeInSight ==
  /\ Odd(1)
  /\ now' = now + 1
  /\ \/ mode # "dead" /\ Sighted(place)
     \/ mode = "dead" /\ creates' = creates /\ life' = IF Begun THEN SeeCorpse(life, now') ELSE life
  /\ UNCHANGED <<path, pausing, leg, mode, place, made, draws, stray, chased, detours, hops, engagements>>

Next ==
  \/ \E isSeen \in BOOLEAN : Leg(isSeen) \/ Return(isSeen)
  \/ \E p \in Afield : Chase(p)
  \/ Draw \/ Aggro \/ Evade \/ Die \/ Respawn \/ ComeInSight

Spec == Init /\ [][Next]_vars

-----------------------------------------------------------------------------
Onward(i) == (i % Len(path)) + 1

Held == {p \in Range(path) : \E i \in DOMAIN path : path[i] = p /\ path[Onward(i)] = p}

Confident == Walk # <<>> /\ Refusal(Walk) = "none"

\* A hop made after somebody is never taken for the creature's own going: it counts in
\* combat_hop_fraction, and not for drops_points or the wander area (_in_combat "only
\* ever overcounts combat time").
NoChaseCountsAsCalm == chased \intersect Calm = {}

\* A point is said to be held twice in a row only if the path holds it, however the
\* creature wandered in its pauses, but for as many strays as make a repeat; and a
\* held point seen on enough laps is said to be.
RepeatsAreHeld ==
  /\ \A p \in Repeated : p \in Held \/ stray + draws >= MinRepeats
  /\ odd = 0 => \A p \in Held : Count(Visits(p)) >= 2 * MinRepeats + 1 => p \in Repeated

\* How often the creature was seen, out of fights, on a leg of its path.
LegSeen(i) ==
  Count({j \in Visits(path[i]) : j + 1 \in Calm /\ hops[j + 1].at = path[Onward(i)]})

\* A confident route is the creature's path, whole and in order, once each leg of it was
\* seen twice and more often than all detours together: chases, missed hops and deaths leave
\* no trace in it, and a path that turns back or comes to a point twice, which the walk
\* cannot show, is refused ("drops_points").
ConfidentRoutesAreThePath ==
  (\A i \in DOMAIN path : LegSeen(i) > Max({1, detours})) /\ Confident =>
    /\ Range(Walk) = Range(path)
    /\ \A i \in 1 .. Len(Walk) : \E k \in DOMAIN path :
         path[k] = Walk[i] /\ path[Onward(k)] = Walk[(i % Len(Walk)) + 1]
=============================================================================
