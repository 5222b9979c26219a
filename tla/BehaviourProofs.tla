-------------------------- MODULE BehaviourProofs --------------------------
(***************************************************************************)
(* Proofs about Behaviour, for any spawns, window, respawn time and        *)
(* capture.  The argument: a spawn's fights lie apart on the clock, and     *)
(* whatever the analyzer saw of it lies in one of them.                    *)
(***************************************************************************)
EXTENDS Behaviour, FiniteSetTheorems, WellFoundedInduction, TLAPS

-----------------------------------------------------------------------------
(* The inductive invariant. *)

Modes  == {"rest", "fighting", "evading", "dead"}
AFight == [start : Times \union {Never}, first : Times \union {Never},
           over : Times \union {Forever}, how : {"open", "evaded", "died"}]
ACreature == [triggers : [Triggers -> Seq(Times)], texts : [Triggers -> Seq(Times)],
              casts : Seq(Times), life : Lives(Times)]

Typed ==
  /\ now \in Times
  /\ mode \in [Spawns -> Modes]
  /\ fights \in [Spawns -> Seq(AFight)]
  /\ seen \in [Spawns -> ACreature]
  /\ sounds \subseteq Times \X (Triggers \union {"music"})

\* A spawn's fights F by the time t, when it is in mode m: apart, in order, and all over
\* but for the last of a spawn that is fighting.  One at rest has come there since.
Fought(F, m, t) ==
  /\ \A j \in DOMAIN F :
       /\ F[j].start <= t
       /\ F[j].how = "open" => j = Len(F) /\ m = "fighting" /\ F[j].over = Forever
       /\ F[j].how # "open" => F[j].start <= F[j].over /\ F[j].over <= t
  /\ \A j, k \in DOMAIN F : j < k => F[j].over < F[k].start
  /\ m # "rest" => F # <<>>
  /\ m = "fighting" => F[Len(F)].how = "open"
  /\ m = "dead" => F[Len(F)].how = "died"
  /\ m = "rest" => \A j \in DOMAIN F : F[j].over < t

\* What was seen of the fights F by the time t: each aggro of A and each cast of C in one
\* of them, its start and first cast among those, and in D the deaths that ended some.
Recorded(F, A, D, C, t) ==
  /\ A \subseteq 0 .. t /\ C \subseteq 0 .. t
  /\ \A j \in DOMAIN F : F[j].how = "died" => F[j].over \in D
  /\ \A d \in D : \E j \in DOMAIN F : F[j].how = "died" /\ F[j].over = d
  /\ \A a \in A : \E j \in DOMAIN F : F[j].start <= a /\ a <= F[j].over
  /\ \A j \in DOMAIN F : F[j].start # Never => F[j].start \in A
  /\ \A x \in C : \E j \in DOMAIN F :
       F[j].start <= x /\ x <= F[j].over /\ F[j].first # Never /\ F[j].first <= x
  /\ \A j \in DOMAIN F : F[j].first # Never =>
       F[j].first \in C /\ F[j].start <= F[j].first /\ F[j].first <= F[j].over

Cast(s) == Range(seen[s].casts)

\* What was seen of s: it is taken for dead while it is, a line came with each trigger, and
\* its casts are in the order they were cast in.
Watched(s) ==
  /\ seen[s].life.alive = (mode[s] # "dead")
  /\ Range(seen[s].texts["aggro"]) \subseteq Aggros(s)
  /\ Range(seen[s].texts["death"]) = Deaths(s)
  /\ \A i \in 1 .. Len(seen[s].casts) - 1 : seen[s].casts[i] <= seen[s].casts[i + 1]

\* A line's sound came with the line.
Sounded == \A x \in sounds : x[2] # "music" => \E s \in Spawns : x[1] \in Range(seen[s].texts[x[2]])

Story(s) ==
  /\ Fought(fights[s], mode[s], now)
  /\ Recorded(fights[s], Aggros(s), Deaths(s), Cast(s), now)
  /\ Watched(s)

Inv == Typed /\ Sounded /\ \A s \in Spawns : Story(s)

-----------------------------------------------------------------------------
(* Sequences and records. *)

LEMMA Assumed ==
  /\ Window \in Nat /\ MinRespawn \in Nat \ {0} /\ MaxTime \in Nat /\ Coincidence \in Nat
  /\ Times \subseteq Nat /\ Forever \in Nat /\ \A t \in Times : t < Forever
BY BehaviourAssumption, LifelineAssumption DEF Times, Forever

LEMMA Appended ==
  ASSUME NEW T, NEW s \in Seq(T), NEW t \in T, NEW r, r = Append(s, t)
  PROVE  /\ r \in Seq(T) /\ Len(s) \in Nat /\ Len(r) = Len(s) + 1
         /\ DOMAIN s = 1 .. Len(s) /\ DOMAIN r = 1 .. Len(r)
         /\ r[Len(r)] = t /\ \A n \in DOMAIN s : r[n] = s[n]
OBVIOUS

LEMMA TimeAppended ==
  ASSUME NEW s \in Seq(Times), NEW t \in Times, NEW r, r = Append(s, t)
  PROVE  r \in Seq(Times) /\ Range(r) = Range(s) \union {t}
<1>1. /\ r \in Seq(Times) /\ Len(s) \in Nat /\ Len(r) = Len(s) + 1
      /\ DOMAIN s = 1 .. Len(s) /\ DOMAIN r = 1 .. Len(r)
      /\ r[Len(r)] = t /\ \A n \in DOMAIN s : r[n] = s[n]
  BY Appended
<1>2. DOMAIN r = DOMAIN s \union {Len(r)}
  BY <1>1
<1>3. ASSUME NEW x PROVE x \in Range(r) <=> x \in Range(s) \union {t}
  <2>1. x \in Range(r) <=> \E n \in DOMAIN r : x = r[n]
    BY DEF Range
  <2>2. x \in Range(s) <=> \E n \in DOMAIN s : x = s[n]
    BY DEF Range
  <2>3. (\E n \in DOMAIN r : x = r[n]) <=> x = r[Len(r)] \/ \E n \in DOMAIN s : x = r[n]
    BY <1>2, Zenon
  <2>4. (\E n \in DOMAIN s : x = r[n]) <=> \E n \in DOMAIN s : x = s[n]
    BY <1>1, Zenon
  <2>5. QED
    BY <1>1, <2>1, <2>2, <2>3, <2>4
<1>4. QED
  BY <1>1, <1>3

LEMMA LastBecomes ==
  ASSUME NEW s \in Seq(AFight), s # <<>>, NEW t \in AFight, NEW r, r = Append(Front(s), t)
  PROVE  /\ r \in Seq(AFight) /\ Len(r) = Len(s) /\ Len(s) \in Nat /\ Len(s) \in DOMAIN s
         /\ DOMAIN s = 1 .. Len(s) /\ DOMAIN r = DOMAIN s
         /\ r[Len(s)] = t /\ \A n \in DOMAIN s : n # Len(s) => r[n] = s[n]
<1>1. Len(s) \in Nat \ {0} /\ DOMAIN s = 1 .. Len(s)
  OBVIOUS
<1>2. /\ Front(s) \in Seq(AFight) /\ Len(Front(s)) = Len(s) - 1
      /\ \A n \in 1 .. Len(s) - 1 : Front(s)[n] = s[n]
  BY <1>1 DEF Front
<1>3. PICK f \in Seq(AFight) : f = Front(s)
  BY <1>2
<1>4. PICK q : q = Append(f, t)
  OBVIOUS
<1>5. /\ q \in Seq(AFight) /\ Len(q) = Len(f) + 1
      /\ DOMAIN f = 1 .. Len(f) /\ DOMAIN q = 1 .. Len(q)
      /\ q[Len(q)] = t /\ \A n \in DOMAIN f : q[n] = f[n]
  BY <1>3, <1>4, Appended
<1>6. Len(q) = Len(s) /\ DOMAIN q = DOMAIN s
  BY <1>1, <1>2, <1>3, <1>5
<1>7. \A n \in 1 .. Len(s) - 1 : q[n] = s[n]
  BY <1>1, <1>2, <1>3, <1>5
<1>8. q[Len(s)] = t /\ \A n \in DOMAIN s : n # Len(s) => q[n] = s[n]
  <2>1. \A n \in DOMAIN s : n # Len(s) => n \in 1 .. Len(s) - 1
    BY <1>1
  <2>2. QED
    BY <1>5, <1>6, <1>7, <2>1, Zenon
<1>9. Len(s) \in DOMAIN s /\ r = q
  BY <1>1, <1>3, <1>4
<1>10. QED
  BY <1>1, <1>5, <1>6, <1>8, <1>9, Zenon

LEMMA LastSet ==
  ASSUME NEW T, NEW s \in Seq(T), NEW t \in T
  PROVE  [s EXCEPT ![Len(s)] = t] \in Seq(T)
<1> DEFINE r == [s EXCEPT ![Len(s)] = t]
<1>1. Len(s) \in Nat /\ DOMAIN s = 1 .. Len(s) /\ \A n \in DOMAIN s : s[n] \in T
  OBVIOUS
<1>2. r = [n \in 1 .. Len(s) |-> r[n]] /\ \A n \in 1 .. Len(s) : r[n] \in T
  BY <1>1
<1> HIDE DEF r
<1>3. r \in [1 .. Len(s) -> T]
  BY <1>2
<1>4. QED
  BY <1>1, <1>3 DEF r

\* A death that a HEALTH block of 0 tells of, and a kill message of the same moment.
LEMMA DeathGives ==
  ASSUME NEW l \in Lives(Times), l.alive, NEW t \in Times, NEW tapped \in BOOLEAN
  PROVE  LET m == SeeHealthZero(l, t)
             n == SeePartyKill(m, t)
         IN  /\ m \in Lives(Times) /\ m.alive = FALSE /\ m.deaths = Append(l.deaths, t)
             /\ n \in Lives(Times) /\ n.alive = FALSE /\ n.deaths = Append(l.deaths, t)
<1> DEFINE m == SeeHealthZero(l, t)
           D == Append(l.deaths, t)
<1>1. D \in Seq(Times) /\ Append(l.timed, t) \in Seq(Times)
  BY DEF Lives
<1>2. /\ m \in Lives(Times) /\ m.alive = FALSE /\ m.byHealth = t
      /\ m.deaths = D /\ m.timed = Append(l.timed, t)
  BY <1>1 DEF Lives, SeeHealthZero, TimedDeath
<1> HIDE DEF m
<1>3. D # <<>> /\ D[Len(D)] = t /\ [D EXCEPT ![Len(D)] = t] = D
  <2>1. l.deaths \in Seq(Times)
    BY DEF Lives
  <2>2. D # <<>> /\ D[Len(D)] = t /\ Len(D) \in Nat /\ DOMAIN D = 1 .. Len(D)
    BY <2>1
  <2>3. ASSUME NEW d \in Seq(Times), d[Len(d)] = t PROVE [d EXCEPT ![Len(d)] = t] = d
    BY <2>3
  <2>4. QED
    BY <1>1, <2>2, <2>3
<1>4. t - m.byHealth <= Coincidence
  BY <1>2, Assumed
<1>5. m.deaths # <<>> /\ Last(m.deaths) = m.byHealth
  BY <1>2, <1>3 DEF Last
<1>6. SeePartyKill(m, t) = [Redated(m, t) EXCEPT !.byHealth = Never, !.alive = FALSE]
  BY <1>4, <1>5 DEF SeePartyKill
<1>7. [m.timed EXCEPT ![Len(m.timed)] = t] \in Seq(Times)
  BY <1>1, <1>2, LastSet
<1>8. Redated(m, t) \in Lives(Times) /\ Redated(m, t).deaths = D
  BY <1>1, <1>2, <1>3, <1>7 DEF Redated, Lives
<1>9. PICK r \in Lives(Times) : r = Redated(m, t) /\ r.deaths = D
  BY <1>8
<1>10. PICK n : n = SeePartyKill(m, t)
  OBVIOUS
<1>11. n = [r EXCEPT !.byHealth = Never, !.alive = FALSE]
  BY <1>6, <1>9, <1>10
<1>12. n \in Lives(Times) /\ n.alive = FALSE /\ n.deaths = D
  BY <1>9, <1>11 DEF Lives
<1>13. QED
  BY <1>2, <1>10, <1>12 DEF m

LEMMA HealedGives ==
  ASSUME NEW l \in Lives(Times), NEW t \in Times
  PROVE  LET m == SeeHealth(l, t)
         IN  m \in Lives(Times) /\ m.alive = TRUE /\ m.deaths = l.deaths
<1>1. Append(l.revivals, t) \in Seq(Times)
  BY DEF Lives
<1>2. QED
  BY <1>1 DEF Lives, SeeHealth

LEMMA LeastOf ==
  ASSUME NEW S \in SUBSET Nat, S # {}
  PROVE  Min(S) \in S /\ \A y \in S : Min(S) <= y
<1>1. PICK x \in S : \A y \in S : ~(<<y, x>> \in OpToRel(<, Nat))
  BY WFMin, NatLessThanWellFounded
<1>2. ASSUME NEW y \in S PROVE x <= y
  <2>1. ~(<<y, x>> \in OpToRel(<, Nat))
    BY <1>1
  <2>2. x \in Nat /\ y \in Nat
    OBVIOUS
  <2>3. ~(y < x)
    BY <2>1, <2>2 DEF OpToRel
  <2>4. QED
    BY <2>2, <2>3
<1>3. QED
  BY <1>2 DEF Min

-----------------------------------------------------------------------------
(* What a step does to the fights, and to what is known of them. *)

LEMMA FightsAreTyped ==
  ASSUME NEW F \in Seq(AFight)
  PROVE  /\ Len(F) \in Nat /\ DOMAIN F = 1 .. Len(F)
         /\ \A j \in DOMAIN F :
              /\ F[j] \in AFight /\ F[j].start \in Int /\ F[j].first \in Int /\ F[j].over \in Nat
              /\ F[j].how \in {"open", "evaded", "died"}
<1>1. Len(F) \in Nat /\ DOMAIN F = 1 .. Len(F) /\ \A j \in DOMAIN F : F[j] \in AFight
  OBVIOUS
<1>2. ASSUME NEW f \in AFight
      PROVE  /\ f.start \in Int /\ f.first \in Int /\ f.over \in Nat
             /\ f.how \in {"open", "evaded", "died"}
  <2>1. /\ f.start \in Times \union {Never} /\ f.first \in Times \union {Never}
        /\ f.over \in Times \union {Forever} /\ f.how \in {"open", "evaded", "died"}
    BY DEF AFight
  <2>2. /\ Times \subseteq Int /\ Times \subseteq Nat
        /\ Never \in Int /\ Forever \in Int /\ Forever \in Nat
    BY Assumed DEF Never
  <2>3. QED
    BY <2>1, <2>2, Zenon
<1>3. QED
  BY <1>1, <1>2, Zenon

LEMMA FightIs ==
  ASSUME NEW t \in Times
  PROVE  /\ Fight(t) \in AFight
         /\ Fight(t).start = t /\ Fight(t).first = Never /\ Fight(t).over = Forever
         /\ Fight(t).how = "open"
BY DEF Fight, AFight

\* The clock ticks; whoever evaded is at rest.
LEMMA TimePasses ==
  ASSUME NEW F \in Seq(AFight), NEW m \in Modes, NEW t \in Times, t + 1 \in Times,
         NEW A, NEW D, NEW C, Fought(F, m, t), Recorded(F, A, D, C, t)
  PROVE  /\ Fought(F, IF m = "evading" THEN "rest" ELSE m, t + 1)
         /\ Recorded(F, A, D, C, t + 1)
<1>1. t \in Nat
  BY Assumed
<1>2. /\ \A j \in DOMAIN F :
           /\ F[j].start \in Int /\ F[j].over \in Nat /\ F[j].start <= t
           /\ F[j].how = "open" => j = Len(F) /\ m = "fighting" /\ F[j].over = Forever
           /\ F[j].how # "open" => F[j].start <= F[j].over /\ F[j].over <= t
      /\ m = "rest" => \A j \in DOMAIN F : F[j].over < t
  BY FightsAreTyped DEF Fought
<1>3. /\ \A j \in DOMAIN F : F[j].start <= t + 1 /\ (F[j].over <= t => F[j].over < t + 1)
      /\ \A j \in DOMAIN F : F[j].over < t => F[j].over < t + 1
  BY <1>1, <1>2
<1>4. Fought(F, IF m = "evading" THEN "rest" ELSE m, t + 1)
  <2>1. CASE m = "evading"
    <3>1. \A j \in DOMAIN F : F[j].how # "open"
      BY <1>2, <2>1
    <3>2. \A j \in DOMAIN F : F[j].over < t + 1
      BY <1>2, <1>3, <3>1
    <3>3. QED
      BY <1>1, <1>2, <1>3, <2>1, <3>1, <3>2 DEF Fought
  <2>2. CASE m # "evading"
    <3>1. \A j \in DOMAIN F : F[j].how # "open" => F[j].over <= t + 1
      BY <1>1, <1>2
    <3>2. QED
      BY <1>2, <1>3, <2>2, <3>1 DEF Fought
  <2>3. QED
    BY <2>1, <2>2
<1>5. Recorded(F, A, D, C, t + 1)
  <2>1. 0 .. t \subseteq 0 .. t + 1
    BY <1>1
  <2>2. QED
    BY <2>1 DEF Recorded
<1>6. QED
  BY <1>4, <1>5

\* A fight begins.
LEMMA FightBegins ==
  ASSUME NEW F \in Seq(AFight), NEW t \in Times, NEW A, NEW D, NEW C,
         Fought(F, "rest", t), Recorded(F, A, D, C, t)
  PROVE  LET G == Append(F, Fight(t))
         IN  G \in Seq(AFight) /\ Fought(G, "fighting", t) /\ Recorded(G, A \union {t}, D, C, t)
<1>1. t \in Nat /\ t < Forever /\ Forever \in Nat
  BY Assumed
<1>2. PICK g \in AFight : /\ g = Fight(t) /\ g.start = t /\ g.first = Never /\ g.over = Forever
                          /\ g.how = "open"
  BY FightIs
<1>2a. PICK G : G = Append(F, g)
  OBVIOUS
<1>3. /\ G \in Seq(AFight) /\ G = Append(F, g) /\ Len(F) \in Nat /\ Len(G) = Len(F) + 1
      /\ DOMAIN F = 1 .. Len(F) /\ DOMAIN G = 1 .. Len(G)
      /\ G[Len(G)] = g /\ \A n \in DOMAIN F : G[n] = F[n]
  BY <1>2a, Appended
<1>4. /\ DOMAIN F \subseteq DOMAIN G /\ Len(G) \in DOMAIN G
      /\ \A j \in DOMAIN G : j \in DOMAIN F \/ j = Len(G)
      /\ \A j \in DOMAIN F : j < Len(G) /\ ~(Len(G) < j) /\ j # Len(G)
  BY <1>3
<1>5. \A j \in DOMAIN F :
        F[j].start <= t /\ F[j].over < t /\ F[j].start \in Int /\ F[j].over \in Nat
  BY FightsAreTyped DEF Fought
<1>6. Fought(G, "fighting", t)
  <2>1. \A j \in DOMAIN F : F[j].how # "open" /\ F[j].start <= F[j].over /\ F[j].over <= t
    BY FightsAreTyped DEF Fought
  <2>2. \A j, k \in DOMAIN G : j < k => G[j].over < G[k].start
    <3>1. ASSUME NEW j \in DOMAIN G, NEW k \in DOMAIN G, j < k PROVE G[j].over < G[k].start
      <4>1. j \in DOMAIN F
        BY <1>3, <1>4, <3>1
      <4>2. CASE k = Len(G)
        BY <1>2, <1>3, <1>5, <4>1, <4>2
      <4>3. CASE k \in DOMAIN F
        BY <1>3, <3>1, <4>1, <4>3 DEF Fought
      <4>4. QED
        BY <1>4, <4>2, <4>3
    <3>2. QED
      BY <3>1
  <2>3. \A j \in DOMAIN G :
          /\ G[j].start <= t
          /\ G[j].how = "open" => j = Len(G) /\ G[j].over = Forever
          /\ G[j].how # "open" => G[j].start <= G[j].over /\ G[j].over <= t
    BY <1>1, <1>2, <1>3, <1>4, <1>5, <2>1
  <2>4. G # <<>>
    BY <1>3
  <2>5. QED
    BY <1>2, <1>3, <2>2, <2>3, <2>4 DEF Fought
<1>7. Recorded(G, A \union {t}, D, C, t)
  <2>1. A \union {t} \subseteq 0 .. t /\ C \subseteq 0 .. t
    BY <1>1 DEF Recorded
  <2>2. \A j \in DOMAIN G : G[j].how = "died" => G[j].over \in D
    BY <1>2, <1>3, <1>4 DEF Recorded
  <2>3. \A d \in D : \E j \in DOMAIN G : G[j].how = "died" /\ G[j].over = d
    BY <1>3, <1>4 DEF Recorded
  <2>4. \A a \in A \union {t} : \E j \in DOMAIN G : G[j].start <= a /\ a <= G[j].over
    <3>1. G[Len(G)].start <= t /\ t <= G[Len(G)].over
      BY <1>1, <1>2, <1>3
    <3>2. \A a \in A : \E j \in DOMAIN F : F[j].start <= a /\ a <= F[j].over
      BY DEF Recorded
    <3>3. QED
      BY <1>3, <1>4, <3>1, <3>2
  <2>5. \A j \in DOMAIN G : G[j].start # Never => G[j].start \in A \union {t}
    BY <1>2, <1>3, <1>4 DEF Recorded
  <2>6. \A x \in C : \E j \in DOMAIN G :
          G[j].start <= x /\ x <= G[j].over /\ G[j].first # Never /\ G[j].first <= x
    BY <1>3, <1>4 DEF Recorded
  <2>7. \A j \in DOMAIN G : G[j].first # Never =>
          G[j].first \in C /\ G[j].start <= G[j].first /\ G[j].first <= G[j].over
    BY <1>2, <1>3, <1>4 DEF Recorded
  <2>8. QED
    BY <2>1, <2>2, <2>3, <2>4, <2>5, <2>6, <2>7 DEF Recorded
<1>8. QED
  BY <1>2, <1>3, <1>6, <1>7

\* The fight going on, from its start.
LEMMA TheFightOn ==
  ASSUME NEW F \in Seq(AFight), NEW t \in Times, Fought(F, "fighting", t)
  PROVE  /\ F # <<>> /\ Len(F) \in DOMAIN F /\ F[Len(F)] \in AFight /\ Last(F) = F[Len(F)]
         /\ F[Len(F)].how = "open" /\ F[Len(F)].over = Forever /\ F[Len(F)].start <= t
         /\ \A j \in DOMAIN F : j # Len(F) => F[j].how # "open" /\ F[j].over <= t /\ j < Len(F)
<1>1. F # <<>> /\ F[Len(F)].how = "open"
  BY DEF Fought
<1>2. Len(F) \in DOMAIN F /\ Len(F) \in Nat /\ DOMAIN F = 1 .. Len(F) /\ F[Len(F)] \in AFight
  BY <1>1
<1>3. \A j \in DOMAIN F : j # Len(F) => F[j].how # "open" /\ F[j].over <= t /\ j < Len(F)
  BY <1>2 DEF Fought
<1>4. QED
  BY <1>1, <1>2, <1>3 DEF Fought, Last

\* Another aggro in a fight.
LEMMA AggroedAgain ==
  ASSUME NEW F \in Seq(AFight), NEW t \in Times, NEW A, NEW D, NEW C,
         Fought(F, "fighting", t), Recorded(F, A, D, C, t)
  PROVE  Recorded(F, A \union {t}, D, C, t)
<1>1. t \in Nat /\ t < Forever /\ Forever \in Nat
  BY Assumed
<1>2. A \union {t} \subseteq 0 .. t
  BY <1>1 DEF Recorded
<1>3. \A a \in A \union {t} : \E j \in DOMAIN F : F[j].start <= a /\ a <= F[j].over
  <2>1. F[Len(F)].start <= t /\ t <= F[Len(F)].over /\ Len(F) \in DOMAIN F
    BY <1>1, TheFightOn
  <2>2. \A a \in A : \E j \in DOMAIN F : F[j].start <= a /\ a <= F[j].over
    BY DEF Recorded
  <2>3. QED
    BY <2>1, <2>2
<1>4. \A j \in DOMAIN F : F[j].start # Never => F[j].start \in A \union {t}
  BY DEF Recorded
<1>5. QED
  BY <1>2, <1>3, <1>4 DEF Recorded

\* A cast in a fight, which is its first if there was none.
LEMMA FightCast ==
  ASSUME NEW F \in Seq(AFight), NEW t \in Times, NEW A, NEW D, NEW C,
         Fought(F, "fighting", t), Recorded(F, A, D, C, t)
  PROVE  LET G == Append(Front(F), [Last(F) EXCEPT !.first = IF @ = Never THEN t ELSE @])
         IN  G \in Seq(AFight) /\ Fought(G, "fighting", t) /\ Recorded(G, A, D, C \union {t}, t)
<1>1. t \in Nat /\ t < Forever /\ Forever \in Nat /\ t # Never
  BY Assumed DEF Never
<1>2. /\ F # <<>> /\ Len(F) \in DOMAIN F /\ F[Len(F)] \in AFight /\ Last(F) = F[Len(F)]
      /\ F[Len(F)].how = "open" /\ F[Len(F)].over = Forever /\ F[Len(F)].start <= t
      /\ \A j \in DOMAIN F : j # Len(F) => F[j].how # "open" /\ F[j].over <= t /\ j < Len(F)
  BY TheFightOn
<1>3. PICK f \in AFight : f = F[Len(F)]
  BY <1>2
<1>4. PICK g \in AFight :
        /\ g = [Last(F) EXCEPT !.first = IF @ = Never THEN t ELSE @]
        /\ g.start = f.start /\ g.over = f.over /\ g.how = f.how
        /\ g.first = IF f.first = Never THEN t ELSE f.first
  <2>1. PICK g : g = [f EXCEPT !.first = IF @ = Never THEN t ELSE @]
    OBVIOUS
  <2>2. (IF f.first = Never THEN t ELSE f.first) \in Times \union {Never}
    BY DEF AFight
  <2>3. g \in AFight
    BY <2>1, <2>2 DEF AFight
  <2>4. /\ g.start = f.start /\ g.over = f.over /\ g.how = f.how
        /\ g.first = IF f.first = Never THEN t ELSE f.first
    BY <2>1 DEF AFight
  <2>5. QED
    BY <1>2, <1>3, <2>1, <2>3, <2>4
<1>4a. PICK G : G = Append(Front(F), g)
  OBVIOUS
<1>5. /\ G \in Seq(AFight) /\ Len(G) = Len(F) /\ DOMAIN G = DOMAIN F
      /\ G[Len(F)] = g /\ \A n \in DOMAIN F : n # Len(F) => G[n] = F[n]
  <2>1. F # <<>>
    BY <1>2
  <2>2. G \in Seq(AFight) /\ Len(G) = Len(F) /\ DOMAIN G = DOMAIN F
    BY <1>4a, <2>1, LastBecomes
  <2>3. G[Len(F)] = g
    BY <1>4a, <2>1, LastBecomes
  <2>4. \A n \in DOMAIN F : n # Len(F) => G[n] = F[n]
    BY <1>4a, <2>1, LastBecomes
  <2>5. QED
    BY <2>2, <2>3, <2>4
<1>6. \A j \in DOMAIN F : /\ G[j].start = F[j].start /\ G[j].over = F[j].over
                          /\ G[j].how = F[j].how /\ (j # Len(F) => G[j].first = F[j].first)
  BY <1>3, <1>4, <1>5
<1>7. Fought(G, "fighting", t)
  BY <1>2, <1>5, <1>6 DEF Fought
<1>8. /\ G[Len(F)].first # Never
      /\ G[Len(F)].first = IF F[Len(F)].first = Never THEN t ELSE F[Len(F)].first
  BY <1>1, <1>2, <1>3, <1>4, <1>5
<1>9. G[Len(F)].first \in 0 .. t
  <2>1. CASE F[Len(F)].first = Never
    BY <1>1, <1>8, <2>1
  <2>2. CASE F[Len(F)].first # Never
    <3>1. F[Len(F)].first \in C /\ C \subseteq 0 .. t
      BY <1>2, <2>2, Zenon DEF Recorded
    <3>2. QED
      BY <1>1, <1>8, <2>2, <3>1
  <2>3. QED
    BY <2>1, <2>2
<1>10. Recorded(G, A, D, C \union {t}, t)
  <2>1. A \subseteq 0 .. t /\ C \union {t} \subseteq 0 .. t
    BY <1>1 DEF Recorded
  <2>2. /\ \A j \in DOMAIN G : G[j].how = "died" => G[j].over \in D
        /\ \A d \in D : \E j \in DOMAIN G : G[j].how = "died" /\ G[j].over = d
        /\ \A a \in A : \E j \in DOMAIN G : G[j].start <= a /\ a <= G[j].over
        /\ \A j \in DOMAIN G : G[j].start # Never => G[j].start \in A
    <3>1. /\ \A j \in DOMAIN F : F[j].how = "died" => F[j].over \in D
          /\ \A d \in D : \E j \in DOMAIN F : F[j].how = "died" /\ F[j].over = d
          /\ \A a \in A : \E j \in DOMAIN F : F[j].start <= a /\ a <= F[j].over
          /\ \A j \in DOMAIN F : F[j].start # Never => F[j].start \in A
      BY DEF Recorded
    <3>2. DOMAIN G = DOMAIN F
      BY <1>5
    <3>3. \A a \in A : \E j \in DOMAIN G : G[j].start <= a /\ a <= G[j].over
      <4>1. ASSUME NEW a \in A PROVE \E j \in DOMAIN G : G[j].start <= a /\ a <= G[j].over
        <5>1. PICK j \in DOMAIN F : F[j].start <= a /\ a <= F[j].over
          BY <3>1
        <5>2. G[j].start = F[j].start /\ G[j].over = F[j].over
          BY <1>6
        <5>3. QED
          BY <3>2, <5>1, <5>2
      <4>2. QED
        BY <4>1
    <3>4. /\ \A j \in DOMAIN G : G[j].how = "died" => G[j].over \in D
          /\ \A j \in DOMAIN G : G[j].start # Never => G[j].start \in A
      BY <1>6, <3>1, <3>2
    <3>5. \A d \in D : \E j \in DOMAIN G : G[j].how = "died" /\ G[j].over = d
      BY <1>6, <3>1, <3>2
    <3>6. QED
      BY <3>3, <3>4, <3>5
  <2>3. ASSUME NEW x \in C
        PROVE  \E j \in DOMAIN G :
                 G[j].start <= x /\ x <= G[j].over /\ G[j].first # Never /\ G[j].first <= x
    <3>1. PICK j \in DOMAIN F :
            F[j].start <= x /\ x <= F[j].over /\ F[j].first # Never /\ F[j].first <= x
      BY DEF Recorded
    <3>2. G[j].first = F[j].first
      BY <1>2, <1>6, <1>8, <3>1
    <3>3. QED
      BY <1>5, <1>6, <3>1, <3>2
  <2>4. \E j \in DOMAIN G :
          G[j].start <= t /\ t <= G[j].over /\ G[j].first # Never /\ G[j].first <= t
    BY <1>1, <1>2, <1>5, <1>6, <1>8, <1>9
  <2>5. ASSUME NEW j \in DOMAIN G, G[j].first # Never
        PROVE  G[j].first \in C \union {t} /\ G[j].start <= G[j].first /\ G[j].first <= G[j].over
    <3>1. CASE j = Len(F) /\ F[j].first = Never
      BY <1>1, <1>2, <1>6, <1>8, <3>1
    <3>2. CASE j # Len(F) \/ F[j].first # Never
      <4>1. G[j].first = F[j].first
        BY <1>5, <1>6, <1>8, <3>2
      <4>2. F[j].first \in C /\ F[j].start <= F[j].first /\ F[j].first <= F[j].over
        BY <1>5, <2>5, <4>1 DEF Recorded
      <4>3. QED
        BY <1>5, <1>6, <4>1, <4>2
    <3>3. QED
      BY <3>1, <3>2
  <2>6. QED
    BY <2>1, <2>2, <2>3, <2>4, <2>5 DEF Recorded
<1>11. QED
  BY <1>4, <1>4a, <1>5, <1>7, <1>10

\* The fight going on ends.
LEMMA FightEnds ==
  ASSUME NEW F \in Seq(AFight), NEW t \in Times, NEW A, NEW D, NEW C, NEW E,
         Fought(F, "fighting", t), Recorded(F, A, D, C, t),
         NEW how, NEW m, \/ how = "evaded" /\ m = "evading" /\ E = D
                         \/ how = "died" /\ m = "dead" /\ E = D \union {t}
  PROVE  LET G == Append(Front(F), [Last(F) EXCEPT !.over = t, !.how = how])
         IN  G \in Seq(AFight) /\ Fought(G, m, t) /\ Recorded(G, A, E, C, t)
<1>1. t \in Nat /\ t < Forever /\ Forever \in Nat /\ how # "open" /\ how \in {"evaded", "died"}
  BY Assumed
<1>2. /\ F # <<>> /\ Len(F) \in DOMAIN F /\ F[Len(F)] \in AFight /\ Last(F) = F[Len(F)]
      /\ F[Len(F)].how = "open" /\ F[Len(F)].over = Forever /\ F[Len(F)].start <= t
      /\ \A j \in DOMAIN F : j # Len(F) => F[j].how # "open" /\ F[j].over <= t /\ j < Len(F)
  BY TheFightOn
<1>3. PICK f \in AFight : f = F[Len(F)]
  BY <1>2
<1>4. PICK g \in AFight :
        /\ g = [Last(F) EXCEPT !.over = t, !.how = how]
        /\ g.start = f.start /\ g.first = f.first /\ g.how = how /\ g.over = t
  <2>1. PICK g : g = [f EXCEPT !.over = t, !.how = how]
    OBVIOUS
  <2>2. g \in AFight
    BY <1>1, <2>1 DEF AFight
  <2>3. g.start = f.start /\ g.first = f.first /\ g.how = how /\ g.over = t
    BY <2>1 DEF AFight
  <2>4. QED
    BY <1>2, <1>3, <2>1, <2>2, <2>3
<1>4a. PICK G : G = Append(Front(F), g)
  OBVIOUS
<1>5. /\ G \in Seq(AFight) /\ Len(G) = Len(F) /\ DOMAIN G = DOMAIN F
      /\ G[Len(F)] = g /\ \A n \in DOMAIN F : n # Len(F) => G[n] = F[n]
  <2>1. F # <<>>
    BY <1>2
  <2>2. G \in Seq(AFight) /\ Len(G) = Len(F) /\ DOMAIN G = DOMAIN F
    BY <1>4a, <2>1, LastBecomes
  <2>3. G[Len(F)] = g
    BY <1>4a, <2>1, LastBecomes
  <2>4. \A n \in DOMAIN F : n # Len(F) => G[n] = F[n]
    BY <1>4a, <2>1, LastBecomes
  <2>5. QED
    BY <2>2, <2>3, <2>4
<1>6. /\ \A j \in DOMAIN F : G[j].start = F[j].start /\ G[j].first = F[j].first
      /\ \A j \in DOMAIN F : j # Len(F) => G[j].over = F[j].over /\ G[j].how = F[j].how
      /\ G[Len(F)].over = t /\ G[Len(F)].how = how
  BY <1>2, <1>3, <1>4, <1>5
<1>7. Fought(G, m, t)
  <2>1. \A j \in DOMAIN G : /\ G[j].start <= t /\ G[j].how # "open"
                            /\ G[j].start <= G[j].over /\ G[j].over <= t
    <3>1. ASSUME NEW j \in DOMAIN F
          PROVE  /\ G[j].start <= t /\ G[j].how # "open"
                 /\ G[j].start <= G[j].over /\ G[j].over <= t
      <4>1. CASE j = Len(F)
        BY <1>1, <1>2, <1>6, <4>1
      <4>2. CASE j # Len(F)
        BY <1>2, <1>6, <4>2 DEF Fought
      <4>3. QED
        BY <4>1, <4>2
    <3>2. QED
      BY <1>5, <3>1
  <2>2. \A j, k \in DOMAIN G : j < k => G[j].over < G[k].start
    <3>1. ASSUME NEW j \in DOMAIN F, NEW k \in DOMAIN F, j < k
          PROVE  G[j].over < G[k].start
      <4>1. Len(F) \in Nat /\ DOMAIN F = 1 .. Len(F)
        OBVIOUS
      <4>2. j # Len(F)
        BY <3>1, <4>1
      <4>3. QED
        BY <1>6, <3>1, <4>2 DEF Fought
    <3>2. QED
      BY <1>5, <3>1
  <2>3. G # <<>> /\ G[Len(G)].how = how
    BY <1>2, <1>5, <1>6
  <2>4. m # "rest" /\ m # "fighting" /\ (m = "dead" => how = "died")
    OBVIOUS
  <2>5. QED
    BY <2>1, <2>2, <2>3, <2>4 DEF Fought
<1>8. \A x \in A \union C : x <= t /\ x \in Nat
  BY <1>1 DEF Recorded
<1>9. Recorded(G, A, E, C, t)
  <2>1. \A j \in DOMAIN G : G[j].how = "died" => G[j].over \in E
    BY <1>2, <1>5, <1>6 DEF Recorded
  <2>2. \A d \in E : \E j \in DOMAIN G : G[j].how = "died" /\ G[j].over = d
    <3>1. ASSUME NEW d \in D PROVE \E j \in DOMAIN G : G[j].how = "died" /\ G[j].over = d
      <4>1. PICK j \in DOMAIN F : F[j].how = "died" /\ F[j].over = d
        BY DEF Recorded
      <4>2. j # Len(F)
        BY <1>2, <4>1
      <4>3. QED
        BY <1>5, <1>6, <4>1, <4>2
    <3>2. QED
      BY <1>2, <1>5, <1>6, <3>1
  <2>3. \A a \in A : \E j \in DOMAIN G : G[j].start <= a /\ a <= G[j].over
    <3>1. ASSUME NEW a \in A PROVE \E j \in DOMAIN G : G[j].start <= a /\ a <= G[j].over
      <4>1. PICK j \in DOMAIN F : F[j].start <= a /\ a <= F[j].over
        BY DEF Recorded
      <4>2. a <= G[j].over
        BY <1>6, <1>8, <4>1
      <4>3. QED
        BY <1>5, <1>6, <4>1, <4>2
    <3>2. QED
      BY <3>1
  <2>4. \A x \in C : \E j \in DOMAIN G :
          G[j].start <= x /\ x <= G[j].over /\ G[j].first # Never /\ G[j].first <= x
    <3>1. ASSUME NEW x \in C
          PROVE  \E j \in DOMAIN G :
                   G[j].start <= x /\ x <= G[j].over /\ G[j].first # Never /\ G[j].first <= x
      <4>1. PICK j \in DOMAIN F :
              F[j].start <= x /\ x <= F[j].over /\ F[j].first # Never /\ F[j].first <= x
        BY DEF Recorded
      <4>2. x <= G[j].over
        BY <1>6, <1>8, <4>1
      <4>3. QED
        BY <1>5, <1>6, <4>1, <4>2
    <3>2. QED
      BY <3>1
  <2>5. \A j \in DOMAIN G : G[j].first # Never =>
          G[j].first \in C /\ G[j].start <= G[j].first /\ G[j].first <= G[j].over
    <3>1. ASSUME NEW j \in DOMAIN F, F[j].first # Never
          PROVE  F[j].first \in C /\ F[j].start <= F[j].first /\ F[j].first <= G[j].over
      <4>1. F[j].first \in C /\ F[j].start <= F[j].first /\ F[j].first <= F[j].over
        BY <3>1 DEF Recorded
      <4>2. F[j].first <= G[j].over
        BY <1>6, <1>8, <4>1
      <4>3. QED
        BY <4>1, <4>2
    <3>2. QED
      BY <1>5, <1>6, <3>1
  <2>6. QED
    <3>1. A \subseteq 0 .. t /\ C \subseteq 0 .. t
      BY DEF Recorded
    <3>2. \A j \in DOMAIN G : G[j].start # Never => G[j].start \in A
      BY <1>5, <1>6 DEF Recorded
    <3>3. QED
      BY <2>1, <2>2, <2>3, <2>4, <2>5, <3>1, <3>2, Zenon DEF Recorded
<1>10. QED
  BY <1>4, <1>4a, <1>5, <1>7, <1>9

\* It has come back from the death it lay in.
LEMMA FightForgotten ==
  ASSUME NEW F \in Seq(AFight), NEW t \in Times, Fought(F, "dead", t),
         t >= Last(F).over + MinRespawn
  PROVE  Fought(F, "rest", t)
<1>1. /\ Len(F) \in Nat /\ DOMAIN F = 1 .. Len(F) /\ F # <<>> /\ Last(F) = F[Len(F)]
      /\ \A j \in DOMAIN F : F[j].over \in Nat /\ F[j].start \in Int
  BY FightsAreTyped DEF Fought, Last
<1>2. \A j \in DOMAIN F : F[j].how # "open" /\ F[j].start <= F[j].over
  BY DEF Fought
<1>3. Len(F) \in DOMAIN F /\ t \in Nat
  BY <1>1, Assumed
<1>4. F[Len(F)].over < t
  BY <1>1, <1>3, Assumed
<1>5. ASSUME NEW j \in DOMAIN F PROVE F[j].over < t
  <2>1. CASE j = Len(F)
    BY <1>4, <2>1
  <2>2. CASE j # Len(F)
    <3>1. j < Len(F)
      BY <1>1, <2>2
    <3>2. F[j].over < F[Len(F)].start /\ F[Len(F)].start <= F[Len(F)].over
      BY <1>2, <1>3, <3>1 DEF Fought
    <3>3. QED
      BY <1>1, <1>3, <1>4, <3>2
  <2>3. QED
    BY <2>1, <2>2
<1>6. QED
  BY <1>1, <1>2, <1>5 DEF Fought

-----------------------------------------------------------------------------
(* What an event does to what was seen of a spawn. *)

LEMMA SeenIsTyped ==
  ASSUME NEW c \in ACreature
  PROVE  /\ \A n \in Triggers : c.triggers[n] \in Seq(Times) /\ c.texts[n] \in Seq(Times)
         /\ "aggro" \in Triggers /\ "death" \in Triggers
         /\ c.casts \in Seq(Times) /\ c.life \in Lives(Times)
         /\ c.life.deaths \in Seq(Times) /\ c.life.alive \in BOOLEAN
BY DEF ACreature, Lives, Triggers

LEMMA AggroedGives ==
  ASSUME NEW c \in ACreature, now \in Times, NEW d, d = Aggroed(c)
  PROVE  /\ d \in ACreature /\ Range(d.triggers["aggro"]) = Range(c.triggers["aggro"]) \union {now}
         /\ d.texts = c.texts /\ d.casts = c.casts /\ d.life = c.life
<1>1. PICK s : s = Append(c.triggers["aggro"], now)
  OBVIOUS
<1>2. s \in Seq(Times) /\ Range(s) = Range(c.triggers["aggro"]) \union {now}
  <2>1. c.triggers["aggro"] \in Seq(Times)
    BY SeenIsTyped
  <2>2. QED
    BY <1>1, <2>1, TimeAppended
<1>3. d = [c EXCEPT !.triggers = [c.triggers EXCEPT !["aggro"] = s]]
  BY <1>1 DEF Aggroed
<1>4. c.triggers \in [Triggers -> Seq(Times)] /\ "aggro" \in Triggers
  BY DEF ACreature, Triggers
<1>4a. PICK f : f = [c.triggers EXCEPT !["aggro"] = s]
  OBVIOUS
<1>5. f \in [Triggers -> Seq(Times)] /\ f["aggro"] = s
  BY <1>2, <1>4, <1>4a
<1>6. d = [c EXCEPT !.triggers = f]
  BY <1>3, <1>4a, <1>5
<1>7. /\ d \in ACreature /\ d.triggers = f
      /\ d.texts = c.texts /\ d.casts = c.casts /\ d.life = c.life
  BY <1>5, <1>6 DEF ACreature
<1>8. QED
  BY <1>2, <1>5, <1>7

LEMMA SpokeGives ==
  ASSUME NEW c \in ACreature, now \in Times, NEW m \in Triggers, NEW d, d = Spoke(c, m)
  PROVE  /\ d \in ACreature /\ Range(d.texts[m]) = Range(c.texts[m]) \union {now}
         /\ \A n \in Triggers : n # m => d.texts[n] = c.texts[n]
         /\ d.triggers = c.triggers /\ d.casts = c.casts /\ d.life = c.life
<1>1. PICK s : s = Append(c.texts[m], now)
  OBVIOUS
<1>2. s \in Seq(Times) /\ Range(s) = Range(c.texts[m]) \union {now}
  <2>1. c.texts[m] \in Seq(Times)
    BY SeenIsTyped
  <2>2. QED
    BY <1>1, <2>1, TimeAppended
<1>3. d = [c EXCEPT !.texts = [c.texts EXCEPT ![m] = s]]
  BY <1>1 DEF Spoke
<1>4. c.texts \in [Triggers -> Seq(Times)]
  BY DEF ACreature
<1>4a. PICK f : f = [c.texts EXCEPT ![m] = s]
  OBVIOUS
<1>5. /\ f \in [Triggers -> Seq(Times)] /\ f[m] = s
      /\ \A n \in Triggers : n # m => f[n] = c.texts[n]
  BY <1>2, <1>4, <1>4a
<1>6. d = [c EXCEPT !.texts = f]
  BY <1>3, <1>4a, <1>5
<1>7. /\ d \in ACreature /\ d.texts = f
      /\ d.triggers = c.triggers /\ d.casts = c.casts /\ d.life = c.life
  BY <1>5, <1>6 DEF ACreature
<1>8. QED
  BY <1>2, <1>5, <1>7

LEMMA CastedGives ==
  ASSUME NEW c \in ACreature, now \in Times, NEW d, d = Casted(c)
  PROVE  /\ d \in ACreature /\ Range(d.casts) = Range(c.casts) \union {now}
         /\ Len(c.casts) \in Nat /\ Len(d.casts) = Len(c.casts) + 1
         /\ d.casts[Len(c.casts) + 1] = now
         /\ \A i \in 1 .. Len(c.casts) : d.casts[i] = c.casts[i]
         /\ d.triggers = c.triggers /\ d.texts = c.texts /\ d.life = c.life
<1>1. PICK s : s = Append(c.casts, now)
  OBVIOUS
<1>2. /\ s \in Seq(Times) /\ Range(s) = Range(c.casts) \union {now}
      /\ Len(c.casts) \in Nat /\ Len(s) = Len(c.casts) + 1 /\ s[Len(c.casts) + 1] = now
      /\ \A i \in 1 .. Len(c.casts) : s[i] = c.casts[i]
  <2>1. c.casts \in Seq(Times)
    BY SeenIsTyped
  <2>2. s \in Seq(Times) /\ Range(s) = Range(c.casts) \union {now}
    BY <1>1, <2>1, TimeAppended
  <2>3. QED
    BY <1>1, <2>1, <2>2
<1>3. d = [c EXCEPT !.casts = s]
  BY <1>1 DEF Casted
<1>4. /\ d \in ACreature /\ d.casts = s
      /\ d.triggers = c.triggers /\ d.texts = c.texts /\ d.life = c.life
  BY <1>2, <1>3 DEF ACreature
<1>5. QED
  BY <1>2, <1>4

\* A death, with a kill message or without.
LEMMA KilledGives ==
  ASSUME NEW c \in ACreature, now \in Times, c.life.alive, NEW tapped \in BOOLEAN,
         NEW d, d = IF tapped THEN Killed(Drained(c)) ELSE Drained(c)
  PROVE  /\ d \in ACreature /\ d.life.alive = FALSE
         /\ Range(d.life.deaths) = Range(c.life.deaths) \union {now}
         /\ d.triggers["aggro"] = c.triggers["aggro"] /\ d.casts = c.casts /\ d.texts = c.texts
<1>1. PICK l : l = SeeHealthZero(c.life, now)
  OBVIOUS
<1>2. PICK k : k = SeePartyKill(l, now)
  OBVIOUS
<1>3. c.life \in Lives(Times) /\ c.life.deaths \in Seq(Times)
  BY SeenIsTyped
<1>4. /\ l \in Lives(Times) /\ l.alive = FALSE /\ l.deaths = Append(c.life.deaths, now)
      /\ k \in Lives(Times) /\ k.alive = FALSE /\ k.deaths = Append(c.life.deaths, now)
  BY <1>1, <1>2, <1>3, DeathGives
<1>5. Range(Append(c.life.deaths, now)) = Range(c.life.deaths) \union {now}
  BY <1>3, TimeAppended, Zenon
<1>6. PICK e : e = Drained(c)
  OBVIOUS
<1>7. /\ e \in ACreature /\ e.life = l
      /\ e.triggers = c.triggers /\ e.casts = c.casts /\ e.texts = c.texts
  BY <1>1, <1>4, <1>6 DEF ACreature, Drained
<1>8. CASE tapped
  <2>1. PICK s : s = Append(e.triggers["death"], now)
    OBVIOUS
  <2>2. s \in Seq(Times)
    BY <1>7, <2>1, SeenIsTyped, TimeAppended
  <2>3. e.triggers \in [Triggers -> Seq(Times)] /\ "aggro" \in Triggers
    BY <1>7 DEF ACreature, Triggers
  <2>4a. PICK f : f = [e.triggers EXCEPT !["death"] = s]
    OBVIOUS
  <2>4. f \in [Triggers -> Seq(Times)] /\ f["aggro"] = e.triggers["aggro"]
    BY <2>2, <2>3, <2>4a
  <2>5. d = [e EXCEPT !.triggers = f, !.life = k]
    BY <1>2, <1>6, <1>7, <1>8, <2>1, <2>4a DEF Killed
  <2>6. d \in ACreature /\ d.triggers = f /\ d.life = k /\ d.casts = e.casts /\ d.texts = e.texts
    BY <1>4, <1>7, <2>4, <2>5 DEF ACreature
  <2>7. QED
    BY <1>4, <1>5, <1>7, <2>4, <2>6
<1>9. CASE ~tapped
  <2>1. d = e
    BY <1>6, <1>9
  <2>2. QED
    BY <1>4, <1>5, <1>7, <2>1
<1>10. QED
  BY <1>8, <1>9

LEMMA RespawnedGives ==
  ASSUME NEW c \in ACreature, now \in Times, NEW d, d = Healed(c)
  PROVE  /\ d \in ACreature /\ d.life.alive = TRUE /\ d.life.deaths = c.life.deaths
         /\ d.triggers = c.triggers /\ d.casts = c.casts /\ d.texts = c.texts
<1>1. PICK l : l = SeeHealth(c.life, now)
  OBVIOUS
<1>2. l \in Lives(Times) /\ l.alive = TRUE /\ l.deaths = c.life.deaths
  BY <1>1, SeenIsTyped, HealedGives
<1>3. d = [c EXCEPT !.life = l]
  BY <1>1 DEF Healed
<1>4. QED
  BY <1>2, <1>3 DEF ACreature

-----------------------------------------------------------------------------
(* The invariant is kept. *)

\* A step of one spawn: it is enough to look at that spawn, and at a new sound.
LEMMA OneSpawn ==
  ASSUME Inv, NEW s \in Spawns, NEW c \in ACreature, NEW F \in Seq(AFight), NEW m \in Modes,
         now' = now, seen' = [seen EXCEPT ![s] = c], fights' = [fights EXCEPT ![s] = F],
         mode' = [mode EXCEPT ![s] = m],
         Fought(F, m, now),
         Recorded(F, Range(c.triggers["aggro"]), Range(c.life.deaths), Range(c.casts), now),
         c.life.alive = (m # "dead"),
         Range(c.texts["aggro"]) \subseteq Range(c.triggers["aggro"]),
         Range(c.texts["death"]) = Range(c.life.deaths),
         \A i \in 1 .. Len(c.casts) - 1 : c.casts[i] <= c.casts[i + 1],
         \A n \in Triggers : Range(seen[s].texts[n]) \subseteq Range(c.texts[n]),
         sounds' \subseteq Times \X (Triggers \union {"music"}),
         \A x \in sounds' : x \in sounds \/ x[1] \in Range(c.texts[x[2]])
  PROVE  Inv'
<1>1. Typed /\ Sounded /\ \A u \in Spawns : Story(u)
  BY DEF Inv
<1>2. /\ mode \in [Spawns -> Modes] /\ fights \in [Spawns -> Seq(AFight)]
      /\ seen \in [Spawns -> ACreature] /\ now \in Times
  BY <1>1 DEF Typed
<1>3. Typed'
  BY <1>2 DEF Typed
<1>4. /\ seen'[s] = c /\ fights'[s] = F /\ mode'[s] = m
      /\ \A u \in Spawns : u # s =>
           seen'[u] = seen[u] /\ fights'[u] = fights[u] /\ mode'[u] = mode[u]
  BY <1>2
<1>5. Story(s)'
  <2>1. Fought(fights'[s], mode'[s], now')
    BY <1>4
  <2>2. Recorded(fights'[s], Aggros(s)', Deaths(s)', Cast(s)', now')
    BY <1>4 DEF Aggros, Deaths, Cast
  <2>3. Watched(s)'
    BY <1>4 DEF Aggros, Deaths, Watched
  <2>4. QED
    BY <2>1, <2>2, <2>3 DEF Story
<1>6. ASSUME NEW u \in Spawns, u # s PROVE Story(u)'
  <2>1. seen'[u] = seen[u] /\ fights'[u] = fights[u] /\ mode'[u] = mode[u]
    BY <1>4, <1>6
  <2>2. Story(u)
    BY <1>1
  <2>3. /\ Fought(fights[u], mode[u], now) /\ Watched(u)
        /\ Recorded(fights[u], Aggros(u), Deaths(u), Cast(u), now)
    BY <2>2 DEF Story
  <2>4. Fought(fights'[u], mode'[u], now')
    BY <2>1, <2>3
  <2>5. Aggros(u)' = Aggros(u) /\ Deaths(u)' = Deaths(u) /\ Cast(u)' = Cast(u)
    BY <2>1 DEF Aggros, Deaths, Cast
  <2>6. Recorded(fights'[u], Aggros(u)', Deaths(u)', Cast(u)', now')
    BY <2>1, <2>3, <2>5
  <2>7. Watched(u)'
    BY <2>1, <2>3, <2>5 DEF Watched
  <2>8. QED
    BY <2>4, <2>6, <2>7 DEF Story
<1>7. Sounded'
  <2>1. ASSUME NEW x \in sounds', x[2] # "music"
        PROVE  \E u \in Spawns : x[1] \in Range(seen'[u].texts[x[2]])
    <3>1. x[2] \in Triggers
      BY <2>1
    <3>2. CASE x \in sounds
      <4>1. PICK u \in Spawns : x[1] \in Range(seen[u].texts[x[2]])
        BY <1>1, <2>1, <3>2 DEF Sounded
      <4>2. CASE u = s
        BY <1>4, <3>1, <4>1, <4>2
      <4>3. CASE u # s
        BY <1>4, <4>1, <4>3
      <4>4. QED
        BY <4>2, <4>3
    <3>3. CASE x[1] \in Range(c.texts[x[2]])
      BY <1>4, <3>3
    <3>4. QED
      BY <3>2, <3>3
  <2>2. QED
    BY <2>1 DEF Sounded
<1>8. QED
  BY <1>3, <1>5, <1>6, <1>7 DEF Inv

LEMMA StoriesAre ==
  ASSUME Inv, NEW s \in Spawns
  PROVE  /\ Fought(fights[s], mode[s], now)
         /\ Recorded(fights[s], Range(seen[s].triggers["aggro"]), Range(seen[s].life.deaths),
                     Range(seen[s].casts), now)
         /\ seen[s].life.alive = (mode[s] # "dead")
         /\ Range(seen[s].texts["aggro"]) \subseteq Range(seen[s].triggers["aggro"])
         /\ Range(seen[s].texts["death"]) = Range(seen[s].life.deaths)
         /\ \A i \in 1 .. Len(seen[s].casts) - 1 : seen[s].casts[i] <= seen[s].casts[i + 1]
<1>1. Story(s)
  BY DEF Inv
<1>2. Fought(fights[s], mode[s], now)
  BY <1>1 DEF Story
<1>3. Recorded(fights[s], Aggros(s), Deaths(s), Cast(s), now)
  BY <1>1 DEF Story
<1>4. Watched(s)
  BY <1>1 DEF Story
<1>5. QED
  BY <1>2, <1>3, <1>4 DEF Aggros, Deaths, Cast, Watched

\* The invariant, of one spawn.
LEMMA SpawnIsTyped ==
  ASSUME Inv, NEW s \in Spawns
  PROVE  /\ fights[s] \in Seq(AFight) /\ mode[s] \in Modes /\ seen[s] \in ACreature
         /\ now \in Times /\ sounds \subseteq Times \X (Triggers \union {"music"})
         /\ mode = [mode EXCEPT ![s] = mode[s]] /\ fights = [fights EXCEPT ![s] = fights[s]]
         /\ seen = [seen EXCEPT ![s] = seen[s]]
BY DEF Inv, Typed

LEMMA EngageKeeps == ASSUME Inv, NEW s \in Spawns, Engage(s) PROVE Inv'
<1>1. /\ fights[s] \in Seq(AFight) /\ seen[s] \in ACreature
      /\ now \in Times /\ sounds \subseteq Times \X (Triggers \union {"music"})
  BY SpawnIsTyped
<1>2. mode[s] = "rest"
  BY DEF Engage
<1>3. PICK b : b = Aggroed(seen[s])
  OBVIOUS
<1>4. PICK c : c = Spoke(b, "aggro")
  OBVIOUS
<1>5. "aggro" \in Triggers /\ "death" \in Triggers /\ Triggers = {"aggro", "death"}
  BY DEF Triggers
<1>6. /\ b \in ACreature
      /\ Range(b.triggers["aggro"]) = Range(seen[s].triggers["aggro"]) \union {now}
      /\ b.texts = seen[s].texts /\ b.casts = seen[s].casts /\ b.life = seen[s].life
  BY <1>1, <1>3, AggroedGives
<1>7. /\ c \in ACreature /\ Range(c.texts["aggro"]) = Range(b.texts["aggro"]) \union {now}
      /\ c.texts["death"] = b.texts["death"]
      /\ c.triggers = b.triggers /\ c.casts = b.casts /\ c.life = b.life
  BY <1>1, <1>4, <1>5, <1>6, SpokeGives
<1>8. PICK F : F = Append(fights[s], Fight(now))
  OBVIOUS
<1>9. /\ F \in Seq(AFight) /\ Fought(F, "fighting", now)
      /\ Recorded(F, Range(seen[s].triggers["aggro"]) \union {now}, Range(seen[s].life.deaths),
                  Range(seen[s].casts), now)
  BY <1>1, <1>2, <1>8, StoriesAre, FightBegins
<1>10. /\ now' = now /\ mode' = [mode EXCEPT ![s] = "fighting"]
       /\ fights' = [fights EXCEPT ![s] = F] /\ seen' = [seen EXCEPT ![s] = c]
       /\ sounds' = sounds \union {<<now, "aggro">>}
  BY <1>3, <1>4, <1>8 DEF Engage, Speaking
<1>11. Recorded(F, Range(c.triggers["aggro"]), Range(c.life.deaths), Range(c.casts), now)
  BY <1>6, <1>7, <1>9
<1>12. c.life.alive = ("fighting" # "dead")
  <2>1. seen[s].life.alive = (mode[s] # "dead")
    BY StoriesAre
  <2>2. QED
    BY <1>2, <1>6, <1>7, <2>1
<1>13. /\ Range(c.texts["aggro"]) \subseteq Range(c.triggers["aggro"])
       /\ Range(c.texts["death"]) = Range(c.life.deaths)
       /\ \A i \in 1 .. Len(c.casts) - 1 : c.casts[i] <= c.casts[i + 1]
  BY <1>6, <1>7, StoriesAre
<1>14. \A n \in Triggers : Range(seen[s].texts[n]) \subseteq Range(c.texts[n])
  BY <1>5, <1>6, <1>7
<1>15. sounds' \subseteq Times \X (Triggers \union {"music"})
  BY <1>1, <1>5, <1>10
<1>16. \A x \in sounds' : x \in sounds \/ x[1] \in Range(c.texts[x[2]])
  BY <1>7, <1>10
<1>17. "fighting" \in Modes
  BY DEF Modes
<1>18. QED
  BY <1>7, <1>9, <1>10, <1>11, <1>12, <1>13, <1>14, <1>15, <1>16, <1>17, OneSpawn

LEMMA AggroAgainKeeps == ASSUME Inv, NEW s \in Spawns, AggroAgain(s) PROVE Inv'
<1>1. /\ fights[s] \in Seq(AFight) /\ seen[s] \in ACreature /\ mode[s] \in Modes
      /\ now \in Times /\ sounds \subseteq Times \X (Triggers \union {"music"})
      /\ mode = [mode EXCEPT ![s] = mode[s]] /\ fights = [fights EXCEPT ![s] = fights[s]]
  BY SpawnIsTyped
<1>2. mode[s] = "fighting"
  BY DEF AggroAgain
<1>3. PICK c : c = Aggroed(seen[s])
  OBVIOUS
<1>4. /\ c \in ACreature
      /\ Range(c.triggers["aggro"]) = Range(seen[s].triggers["aggro"]) \union {now}
      /\ c.texts = seen[s].texts /\ c.casts = seen[s].casts /\ c.life = seen[s].life
  BY <1>1, <1>3, AggroedGives
<1>5. /\ Fought(fights[s], mode[s], now)
      /\ Recorded(fights[s], Range(c.triggers["aggro"]), Range(c.life.deaths), Range(c.casts), now)
  BY <1>1, <1>2, <1>4, StoriesAre, AggroedAgain
<1>6. /\ now' = now /\ mode' = mode /\ fights' = fights /\ seen' = [seen EXCEPT ![s] = c]
      /\ sounds' = sounds
  BY <1>3 DEF AggroAgain
<1>7. /\ c.life.alive = (mode[s] # "dead")
      /\ Range(c.texts["aggro"]) \subseteq Range(c.triggers["aggro"])
      /\ Range(c.texts["death"]) = Range(c.life.deaths)
      /\ \A i \in 1 .. Len(c.casts) - 1 : c.casts[i] <= c.casts[i + 1]
      /\ \A n \in Triggers : Range(seen[s].texts[n]) \subseteq Range(c.texts[n])
  BY <1>4, StoriesAre
<1>8. mode' = [mode EXCEPT ![s] = mode[s]] /\ fights' = [fights EXCEPT ![s] = fights[s]]
  BY <1>1, <1>6
<1>9. /\ sounds' \subseteq Times \X (Triggers \union {"music"})
      /\ \A x \in sounds' : x \in sounds \/ x[1] \in Range(c.texts[x[2]])
  BY <1>1, <1>6
<1>10. QED
  BY <1>1, <1>4, <1>5, <1>6, <1>7, <1>8, <1>9, OneSpawn

LEMMA CastKeeps == ASSUME Inv, NEW s \in Spawns, CastSpell(s) PROVE Inv'
<1>1. /\ fights[s] \in Seq(AFight) /\ seen[s] \in ACreature /\ mode[s] \in Modes
      /\ now \in Times /\ sounds \subseteq Times \X (Triggers \union {"music"})
      /\ mode = [mode EXCEPT ![s] = mode[s]]
  BY SpawnIsTyped
<1>2. mode[s] = "fighting"
  BY DEF CastSpell
<1>3. PICK c : c = Casted(seen[s])
  OBVIOUS
<1>4. /\ c \in ACreature /\ Range(c.casts) = Range(seen[s].casts) \union {now}
      /\ Len(seen[s].casts) \in Nat /\ Len(c.casts) = Len(seen[s].casts) + 1
      /\ c.casts[Len(seen[s].casts) + 1] = now
      /\ \A i \in 1 .. Len(seen[s].casts) : c.casts[i] = seen[s].casts[i]
      /\ c.triggers = seen[s].triggers /\ c.texts = seen[s].texts /\ c.life = seen[s].life
  <2>1. PICK o \in ACreature : o = seen[s]
    BY <1>1
  <2>2. c = Casted(o)
    BY <1>3, <2>1
  <2>3. c \in ACreature /\ Range(c.casts) = Range(o.casts) \union {now}
    BY <1>1, <2>2, CastedGives
  <2>4. c.triggers = o.triggers /\ c.texts = o.texts /\ c.life = o.life
    BY <1>1, <2>2, CastedGives
  <2>5. /\ Len(o.casts) \in Nat /\ Len(c.casts) = Len(o.casts) + 1
        /\ c.casts[Len(o.casts) + 1] = now
    BY <1>1, <2>2, CastedGives
  <2>6. \A i \in 1 .. Len(o.casts) : c.casts[i] = o.casts[i]
    BY <1>1, <2>2, CastedGives
  <2>7. QED
    BY <2>1, <2>3, <2>4, <2>5, <2>6
<1>5. PICK F : F = Append(Front(fights[s]),
                     [Last(fights[s]) EXCEPT !.first = IF @ = Never THEN now ELSE @])
  OBVIOUS
<1>6. /\ F \in Seq(AFight) /\ Fought(F, "fighting", now)
      /\ Recorded(F, Range(seen[s].triggers["aggro"]), Range(seen[s].life.deaths),
                  Range(seen[s].casts) \union {now}, now)
  BY <1>1, <1>2, <1>5, StoriesAre, FightCast
<1>7. Recorded(F, Range(c.triggers["aggro"]), Range(c.life.deaths), Range(c.casts), now)
  BY <1>4, <1>6
<1>8. /\ now' = now /\ mode' = mode /\ fights' = [fights EXCEPT ![s] = F]
      /\ seen' = [seen EXCEPT ![s] = c] /\ sounds' = sounds
  BY <1>3, <1>5 DEF CastSpell, BringTo
<1>9. mode' = [mode EXCEPT ![s] = mode[s]] /\ Fought(F, mode[s], now)
  BY <1>1, <1>2, <1>6, <1>8
<1>10. /\ c.life.alive = (mode[s] # "dead")
       /\ Range(c.texts["aggro"]) \subseteq Range(c.triggers["aggro"])
       /\ Range(c.texts["death"]) = Range(c.life.deaths)
       /\ \A n \in Triggers : Range(seen[s].texts[n]) \subseteq Range(c.texts[n])
  BY <1>4, StoriesAre
<1>11. \A i \in 1 .. Len(c.casts) - 1 : c.casts[i] <= c.casts[i + 1]
  <2>1. PICK k \in Nat : k = Len(seen[s].casts)
    BY <1>4
  <2>2. \A i \in 1 .. k - 1 : seen[s].casts[i] <= seen[s].casts[i + 1]
    BY <2>1, StoriesAre
  <2>3. ASSUME NEW i \in 1 .. k PROVE c.casts[i] <= c.casts[i + 1]
    <3>1. CASE i = k
      <4>1. c.casts[k] \in Range(seen[s].casts) /\ Range(seen[s].casts) \subseteq 0 .. now
        <5>1. seen[s].casts \in Seq(Times)
          BY <1>1, SeenIsTyped
        <5>2. k \in DOMAIN seen[s].casts
          BY <2>1, <2>3, <3>1, <5>1
        <5>3. c.casts[k] = seen[s].casts[k]
          BY <1>4, <2>1, <2>3, <3>1
        <5>4. Range(seen[s].casts) \subseteq 0 .. now
          BY StoriesAre DEF Recorded
        <5>5. QED
          BY <5>2, <5>3, <5>4 DEF Range
      <4>2. c.casts[k + 1] = now
        BY <1>4, <2>1
      <4>3. c.casts[k] <= now
        BY <1>1, <4>1, Assumed
      <4>4. QED
        BY <3>1, <4>2, <4>3
    <3>2. CASE i # k
      <4>1. i \in 1 .. k - 1 /\ i + 1 \in 1 .. k
        BY <2>3, <3>2
      <4>2. QED
        BY <1>4, <2>1, <2>2, <4>1
    <3>3. QED
      BY <3>1, <3>2
  <2>4. 1 .. Len(c.casts) - 1 = 1 .. k
    BY <1>4, <2>1
  <2>5. QED
    BY <2>3, <2>4
<1>12. /\ sounds' \subseteq Times \X (Triggers \union {"music"})
       /\ \A x \in sounds' : x \in sounds \/ x[1] \in Range(c.texts[x[2]])
  BY <1>1, <1>8
<1>13. QED
  BY <1>1, <1>4, <1>6, <1>7, <1>8, <1>9, <1>10, <1>11, <1>12, OneSpawn

LEMMA EvadeKeeps == ASSUME Inv, NEW s \in Spawns, Evade(s) PROVE Inv'
<1>1. /\ fights[s] \in Seq(AFight) /\ seen[s] \in ACreature
      /\ now \in Times /\ sounds \subseteq Times \X (Triggers \union {"music"})
      /\ seen = [seen EXCEPT ![s] = seen[s]]
  BY SpawnIsTyped
<1>2. mode[s] = "fighting"
  BY DEF Evade
<1>3. PICK F : F = Append(Front(fights[s]), [Last(fights[s]) EXCEPT !.over = now, !.how = "evaded"])
  OBVIOUS
<1>4. /\ F \in Seq(AFight) /\ Fought(F, "evading", now)
      /\ Recorded(F, Range(seen[s].triggers["aggro"]), Range(seen[s].life.deaths),
                  Range(seen[s].casts), now)
  BY <1>1, <1>2, <1>3, StoriesAre, FightEnds
<1>5. /\ now' = now /\ mode' = [mode EXCEPT ![s] = "evading"] /\ fights' = [fights EXCEPT ![s] = F]
      /\ seen' = seen /\ sounds' = sounds
  BY <1>3 DEF Evade, Over, BringTo
<1>6. /\ seen[s].life.alive = ("evading" # "dead")
      /\ Range(seen[s].texts["aggro"]) \subseteq Range(seen[s].triggers["aggro"])
      /\ Range(seen[s].texts["death"]) = Range(seen[s].life.deaths)
      /\ \A i \in 1 .. Len(seen[s].casts) - 1 : seen[s].casts[i] <= seen[s].casts[i + 1]
      /\ \A n \in Triggers : Range(seen[s].texts[n]) \subseteq Range(seen[s].texts[n])
  BY <1>2, StoriesAre
<1>7. /\ sounds' \subseteq Times \X (Triggers \union {"music"})
      /\ \A x \in sounds' : x \in sounds \/ x[1] \in Range(seen[s].texts[x[2]])
      /\ "evading" \in Modes /\ seen' = [seen EXCEPT ![s] = seen[s]]
  BY <1>1, <1>5 DEF Modes
<1>8. QED
  BY <1>1, <1>4, <1>5, <1>6, <1>7, OneSpawn

LEMMA DieKeeps == ASSUME Inv, NEW s \in Spawns, NEW tapped \in BOOLEAN, Die(s, tapped) PROVE Inv'
<1>1. /\ fights[s] \in Seq(AFight) /\ seen[s] \in ACreature
      /\ now \in Times /\ sounds \subseteq Times \X (Triggers \union {"music"})
  BY SpawnIsTyped
<1>2. mode[s] = "fighting"
  BY DEF Die
<1>3. PICK b : b = IF tapped THEN Killed(Drained(seen[s])) ELSE Drained(seen[s])
  OBVIOUS
<1>4. PICK c : c = Spoke(b, "death")
  OBVIOUS
<1>5. "aggro" \in Triggers /\ "death" \in Triggers /\ Triggers = {"aggro", "death"}
  BY DEF Triggers
<1>6. seen[s].life.alive
  BY <1>2, StoriesAre
<1>7. /\ b \in ACreature /\ b.life.alive = FALSE
      /\ Range(b.life.deaths) = Range(seen[s].life.deaths) \union {now}
      /\ b.triggers["aggro"] = seen[s].triggers["aggro"] /\ b.casts = seen[s].casts
      /\ b.texts = seen[s].texts
  BY <1>1, <1>3, <1>6, KilledGives
<1>8. /\ c \in ACreature /\ Range(c.texts["death"]) = Range(b.texts["death"]) \union {now}
      /\ c.texts["aggro"] = b.texts["aggro"]
      /\ c.triggers = b.triggers /\ c.casts = b.casts /\ c.life = b.life
  BY <1>1, <1>4, <1>5, <1>7, SpokeGives
<1>9. PICK F : F = Append(Front(fights[s]), [Last(fights[s]) EXCEPT !.over = now, !.how = "died"])
  OBVIOUS
<1>10. /\ F \in Seq(AFight) /\ Fought(F, "dead", now)
       /\ Recorded(F, Range(seen[s].triggers["aggro"]), Range(seen[s].life.deaths) \union {now},
                   Range(seen[s].casts), now)
  BY <1>1, <1>2, <1>9, StoriesAre, FightEnds
<1>11. Recorded(F, Range(c.triggers["aggro"]), Range(c.life.deaths), Range(c.casts), now)
  BY <1>7, <1>8, <1>10
<1>12. /\ now' = now /\ mode' = [mode EXCEPT ![s] = "dead"] /\ fights' = [fights EXCEPT ![s] = F]
       /\ seen' = [seen EXCEPT ![s] = c] /\ sounds' = sounds \union {<<now, "death">>}
  BY <1>3, <1>4, <1>9 DEF Die, Over, BringTo, Speaking
<1>13. /\ c.life.alive = ("dead" # "dead")
       /\ Range(c.texts["aggro"]) \subseteq Range(c.triggers["aggro"])
       /\ Range(c.texts["death"]) = Range(c.life.deaths)
       /\ \A i \in 1 .. Len(c.casts) - 1 : c.casts[i] <= c.casts[i + 1]
  BY <1>7, <1>8, StoriesAre
<1>14. \A n \in Triggers : Range(seen[s].texts[n]) \subseteq Range(c.texts[n])
  BY <1>5, <1>7, <1>8
<1>15. /\ sounds' \subseteq Times \X (Triggers \union {"music"})
       /\ \A x \in sounds' : x \in sounds \/ x[1] \in Range(c.texts[x[2]])
  BY <1>1, <1>5, <1>8, <1>12
<1>16. "dead" \in Modes
  BY DEF Modes
<1>17. QED
  BY <1>8, <1>10, <1>11, <1>12, <1>13, <1>14, <1>15, <1>16, OneSpawn

LEMMA RespawnKeeps == ASSUME Inv, NEW s \in Spawns, Respawn(s) PROVE Inv'
<1>1. /\ fights[s] \in Seq(AFight) /\ seen[s] \in ACreature
      /\ now \in Times /\ sounds \subseteq Times \X (Triggers \union {"music"})
      /\ fights = [fights EXCEPT ![s] = fights[s]]
  BY SpawnIsTyped
<1>2. mode[s] = "dead" /\ now >= Last(fights[s]).over + MinRespawn
  BY DEF Respawn
<1>3. PICK c : c = Healed(seen[s])
  OBVIOUS
<1>4. /\ c \in ACreature /\ c.life.alive = TRUE /\ c.life.deaths = seen[s].life.deaths
      /\ c.triggers = seen[s].triggers /\ c.casts = seen[s].casts /\ c.texts = seen[s].texts
  BY <1>1, <1>3, RespawnedGives
<1>5. Fought(fights[s], "rest", now)
  BY <1>1, <1>2, StoriesAre, FightForgotten
<1>6. /\ now' = now /\ mode' = [mode EXCEPT ![s] = "rest"] /\ fights' = fights
      /\ seen' = [seen EXCEPT ![s] = c] /\ sounds' = sounds
  BY <1>3 DEF Respawn
<1>7. /\ Recorded(fights[s], Range(c.triggers["aggro"]), Range(c.life.deaths), Range(c.casts), now)
      /\ Range(c.texts["aggro"]) \subseteq Range(c.triggers["aggro"])
      /\ Range(c.texts["death"]) = Range(c.life.deaths)
      /\ \A i \in 1 .. Len(c.casts) - 1 : c.casts[i] <= c.casts[i + 1]
      /\ \A n \in Triggers : Range(seen[s].texts[n]) \subseteq Range(c.texts[n])
  BY <1>4, StoriesAre
<1>8. /\ c.life.alive = ("rest" # "dead") /\ "rest" \in Modes
      /\ fights' = [fights EXCEPT ![s] = fights[s]]
      /\ sounds' \subseteq Times \X (Triggers \union {"music"})
      /\ \A x \in sounds' : x \in sounds \/ x[1] \in Range(c.texts[x[2]])
  BY <1>1, <1>4, <1>6 DEF Modes
<1>9. QED
  BY <1>1, <1>4, <1>5, <1>6, <1>7, <1>8, OneSpawn


LEMMA TickKeeps == ASSUME Inv, Tick PROVE Inv'
<1>1. Typed /\ Sounded /\ \A s \in Spawns : Story(s)
  BY DEF Inv
<1>2. /\ now \in Times /\ now + 1 \in Times /\ now' = now + 1
      /\ mode' = [s \in Spawns |-> IF mode[s] = "evading" THEN "rest" ELSE mode[s]]
      /\ fights' = fights /\ seen' = seen /\ sounds' = sounds
  BY <1>1, Assumed DEF Typed, Tick, Times
<1>3. mode \in [Spawns -> Modes] /\ fights \in [Spawns -> Seq(AFight)]
  BY <1>1 DEF Typed
<1>4. Typed'
  <2>1. \A s \in Spawns : (IF mode[s] = "evading" THEN "rest" ELSE mode[s]) \in Modes
    BY <1>3 DEF Modes
  <2>2. mode' \in [Spawns -> Modes]
    BY <1>2, <2>1
  <2>3. QED
    BY <1>1, <1>2, <2>2 DEF Typed
<1>5. ASSUME NEW s \in Spawns PROVE Story(s)'
  <2>1. Fought(fights[s], mode[s], now) /\ Recorded(fights[s], Aggros(s), Deaths(s), Cast(s), now)
    BY <1>1 DEF Story
  <2>2. Watched(s)
    BY <1>1 DEF Story
  <2>3. mode'[s] = IF mode[s] = "evading" THEN "rest" ELSE mode[s]
    BY <1>2
  <2>4. fights[s] \in Seq(AFight) /\ mode[s] \in Modes
    BY <1>3
  <2>5. /\ Fought(fights[s], IF mode[s] = "evading" THEN "rest" ELSE mode[s], now + 1)
        /\ Recorded(fights[s], Aggros(s), Deaths(s), Cast(s), now + 1)
    BY <1>2, <2>1, <2>4, TimePasses
  <2>6. Aggros(s)' = Aggros(s) /\ Deaths(s)' = Deaths(s) /\ Cast(s)' = Cast(s)
    BY <1>2 DEF Aggros, Deaths, Cast
  <2>7. Fought(fights'[s], mode'[s], now')
    BY <1>2, <2>3, <2>5
  <2>8. Recorded(fights'[s], Aggros(s)', Deaths(s)', Cast(s)', now')
    BY <1>2, <2>5, <2>6
  <2>9. (mode'[s] # "dead") = (mode[s] # "dead")
    BY <2>3
  <2>10. Watched(s)'
    BY <1>2, <2>2, <2>6, <2>9 DEF Watched
  <2>11. QED
    BY <2>7, <2>8, <2>10 DEF Story
<1>6. Sounded'
  BY <1>1, <1>2 DEF Sounded
<1>7. QED
  BY <1>4, <1>5, <1>6 DEF Inv

LEMMA MusicKeeps == ASSUME Inv, Music PROVE Inv'
<1>1. Typed /\ Sounded /\ \A s \in Spawns : Story(s)
  BY DEF Inv
<1>2. /\ now' = now /\ mode' = mode /\ fights' = fights /\ seen' = seen
      /\ sounds' = sounds \union {<<now, "music">>}
  BY DEF Music
<1>3. Typed'
  BY <1>1, <1>2 DEF Typed
<1>4. Sounded'
  BY <1>1, <1>2 DEF Sounded
<1>5. ASSUME NEW s \in Spawns PROVE Story(s)'
  <2>1. Story(s)
    BY <1>1
  <2>2. Aggros(s)' = Aggros(s) /\ Deaths(s)' = Deaths(s) /\ Cast(s)' = Cast(s)
    BY <1>2 DEF Aggros, Deaths, Cast
  <2>3. Watched(s)'
    BY <1>2, <2>1, <2>2 DEF Story, Watched
  <2>4. QED
    BY <1>2, <2>1, <2>2, <2>3 DEF Story
<1>6. QED
  BY <1>3, <1>4, <1>5 DEF Inv

\* The fight that a spawn may be in when the capture begins.
LEMMA FightBefore ==
  /\ Fight(Never) \in AFight /\ Fight(Never).start = Never /\ Fight(Never).first = Never
  /\ Fight(Never).over = Forever /\ Fight(Never).how = "open"
BY DEF Fight, AFight

LEMMA Initially == Init => Inv
<1> SUFFICES ASSUME Init PROVE Inv
  OBVIOUS
<1>1. /\ now = 0 /\ mode \in [Spawns -> {"rest", "fighting"}] /\ sounds = {}
      /\ fights = [s \in Spawns |-> IF mode[s] = "rest" THEN <<>> ELSE <<Fight(Never)>>]
      /\ seen = [s \in Spawns |-> NewCreature]
  BY DEF Init
<1>2. now \in Times
  BY <1>1, Assumed DEF Times
<1>3. PICK c : c = NewCreature
  OBVIOUS
<1>4. NewLife \in Lives(Times) /\ NewLife.alive = TRUE /\ NewLife.deaths = <<>>
  BY DEF NewLife, Lives
<1>5. /\ c \in ACreature /\ c.casts = <<>> /\ c.life = NewLife
      /\ c.triggers = [n \in Triggers |-> <<>>] /\ c.texts = [n \in Triggers |-> <<>>]
  <2>1. [n \in Triggers |-> <<>>] \in [Triggers -> Seq(Times)] /\ <<>> \in Seq(Times)
    OBVIOUS
  <2>2. QED
    BY <1>3, <1>4, <2>1 DEF NewCreature, ACreature
<1>6. Range(<<>>) = {}
  BY DEF Range
<1>7. ASSUME NEW s \in Spawns
      PROVE  /\ fights[s] \in Seq(AFight) /\ mode[s] \in Modes /\ seen[s] = c
             /\ Fought(fights[s], mode[s], now)
             /\ Recorded(fights[s], {}, {}, {}, now)
  <2>1. mode[s] \in {"rest", "fighting"} /\ mode[s] \in Modes /\ seen[s] = c
    BY <1>1, <1>3 DEF Modes
  <2>2. CASE mode[s] = "rest"
    <3>1. fights[s] = <<>>
      BY <1>1, <2>2
    <3>2. PICK F : F = fights[s]
      OBVIOUS
    <3>3. F = <<>> /\ F \in Seq(AFight) /\ DOMAIN F = {}
      BY <3>1, <3>2
    <3>4. Fought(F, "rest", now) /\ Recorded(F, {}, {}, {}, now)
      BY <3>3 DEF Fought, Recorded
    <3>5. QED
      BY <2>1, <2>2, <3>2, <3>3, <3>4
  <2>3. CASE mode[s] = "fighting"
    <3>1. PICK f \in AFight : /\ f = Fight(Never) /\ f.start = Never /\ f.first = Never
                              /\ f.over = Forever /\ f.how = "open"
      BY FightBefore
    <3>2. PICK F : F = <<f>>
      OBVIOUS
    <3>3. F = fights[s]
      BY <1>1, <2>3, <3>1, <3>2
    <3>4. F \in Seq(AFight) /\ F # <<>> /\ Len(F) = 1 /\ DOMAIN F = {1} /\ F[1] = f
      BY <3>2
    <3>5. Fought(F, "fighting", now)
      BY <1>1, <3>1, <3>4 DEF Fought, Never
    <3>6. Recorded(F, {}, {}, {}, now)
      BY <3>1, <3>4 DEF Recorded
    <3>7. QED
      BY <2>1, <2>3, <3>3, <3>4, <3>5, <3>6
  <2>4. QED
    BY <2>1, <2>2, <2>3
<1>8. Typed
  <2>1. mode \in [Spawns -> Modes] /\ fights \in [Spawns -> Seq(AFight)]
    BY <1>1, <1>7
  <2>2. seen \in [Spawns -> ACreature]
    BY <1>1, <1>3, <1>5
  <2>3. QED
    BY <1>1, <1>2, <2>1, <2>2 DEF Typed
<1>9. ASSUME NEW s \in Spawns PROVE Story(s)
  <2>1. Aggros(s) = {} /\ Deaths(s) = {} /\ Cast(s) = {}
    BY <1>4, <1>5, <1>6, <1>7 DEF Aggros, Deaths, Cast, Triggers
  <2>2. seen[s].texts["aggro"] = <<>> /\ seen[s].texts["death"] = <<>> /\ seen[s].casts = <<>>
    BY <1>5, <1>7 DEF Triggers
  <2>3. seen[s].life.alive = (mode[s] # "dead")
    BY <1>1, <1>4, <1>5, <1>7
  <2>4. Watched(s)
    BY <1>6, <2>1, <2>2, <2>3 DEF Watched
  <2>5. QED
    BY <1>7, <2>1, <2>4 DEF Story
<1>10. Sounded
  BY <1>1 DEF Sounded
<1>11. QED
  BY <1>8, <1>9, <1>10 DEF Inv

LEMMA NextKeepsInv == Inv /\ [Next]_vars => Inv'
<1> SUFFICES ASSUME Inv, [Next]_vars PROVE Inv'
  OBVIOUS
<1>1. CASE Tick
  BY <1>1, TickKeeps
<1>2. CASE Music
  BY <1>2, MusicKeeps
<1>3. ASSUME NEW s \in Spawns, Engage(s) PROVE Inv'
  BY <1>3, EngageKeeps
<1>4. ASSUME NEW s \in Spawns, AggroAgain(s) PROVE Inv'
  BY <1>4, AggroAgainKeeps
<1>5. ASSUME NEW s \in Spawns, CastSpell(s) PROVE Inv'
  BY <1>5, CastKeeps
<1>6. ASSUME NEW s \in Spawns, Evade(s) PROVE Inv'
  BY <1>6, EvadeKeeps
<1>7. ASSUME NEW s \in Spawns, Respawn(s) PROVE Inv'
  BY <1>7, RespawnKeeps
<1>8. ASSUME NEW s \in Spawns, NEW tapped \in BOOLEAN, Die(s, tapped) PROVE Inv'
  BY <1>8, DieKeeps
<1>9. CASE UNCHANGED vars
  <2>1. now' = now /\ mode' = mode /\ fights' = fights /\ seen' = seen /\ sounds' = sounds
    BY <1>9 DEF vars
  <2>2. Typed' /\ Sounded'
    BY <2>1 DEF Inv, Typed, Sounded
  <2>3. \A s \in Spawns : Story(s)'
    BY <2>1 DEF Inv, Story, Watched, Aggros, Deaths, Cast
  <2>4. QED
    BY <2>2, <2>3 DEF Inv
<1>10. QED
  BY <1>1, <1>2, <1>3, <1>4, <1>5, <1>6, <1>7, <1>8, <1>9, Zenon DEF Next

\* Each spawn's fights lie apart, and all that was seen of it lies in one of them.
THEOREM TheInvariantHolds == Spec => []Inv
BY Initially, NextKeepsInv, PTL DEF Spec

-----------------------------------------------------------------------------
(* What the analyzer may conclude. *)

\* What is known of the times the analyzer holds, and of the fights.
LEMMA InOneFight ==
  ASSUME Inv, NEW s \in Spawns
  PROVE  /\ Aggros(s) \subseteq Nat /\ Deaths(s) \subseteq Nat /\ Cast(s) \subseteq Nat
         /\ \A x \in Cast(s) : x < Forever
         /\ \A a \in Aggros(s) : \E j \in DOMAIN fights[s] :
              fights[s][j].start <= a /\ a <= fights[s][j].over
         /\ \A d \in Deaths(s) : \E j \in DOMAIN fights[s] :
              fights[s][j].how = "died" /\ fights[s][j].over = d
         /\ \A x \in Cast(s) : \E j \in DOMAIN fights[s] :
              /\ fights[s][j].start <= x /\ x <= fights[s][j].over
              /\ fights[s][j].first # Never /\ fights[s][j].first <= x
<1>1. Recorded(fights[s], Aggros(s), Deaths(s), Cast(s), now)
  BY DEF Inv, Story
<1>2. now \in Nat /\ now < Forever
  BY Assumed DEF Inv, Typed
<1>3. Aggros(s) \subseteq 0 .. now /\ Cast(s) \subseteq 0 .. now
  BY <1>1 DEF Recorded
<1>4. \A d \in Deaths(s) : \E j \in DOMAIN fights[s] :
        fights[s][j].how = "died" /\ fights[s][j].over = d
  BY <1>1 DEF Recorded
<1>5. Deaths(s) \subseteq Nat
  <2>1. fights[s] \in Seq(AFight)
    BY SpawnIsTyped
  <2>2. \A j \in DOMAIN fights[s] : fights[s][j].over \in Nat
    BY <2>1, FightsAreTyped
  <2>3. QED
    BY <1>4, <2>2
<1>6. \A x \in Cast(s) : x \in Nat /\ x < Forever
  BY <1>2, <1>3, Assumed
<1>7. Aggros(s) \subseteq Nat
  BY <1>2, <1>3
<1>8. \A a \in Aggros(s) : \E j \in DOMAIN fights[s] :
        fights[s][j].start <= a /\ a <= fights[s][j].over
  BY <1>1 DEF Recorded
<1>9. \A x \in Cast(s) : \E j \in DOMAIN fights[s] :
        /\ fights[s][j].start <= x /\ x <= fights[s][j].over
        /\ fights[s][j].first # Never /\ fights[s][j].first <= x
  BY <1>1 DEF Recorded
<1>10. QED
  BY <1>4, <1>5, <1>6, <1>7, <1>8, <1>9

LEMMA FightsLieApart ==
  ASSUME Inv, NEW s \in Spawns
  PROVE  /\ fights[s] \in Seq(AFight)
         /\ \A j \in DOMAIN fights[s] :
              /\ j \in Int /\ fights[s][j].start \in Int /\ fights[s][j].over \in Nat
              /\ fights[s][j].first \in Int
              /\ fights[s][j].how \in {"open", "evaded", "died"}
              /\ fights[s][j].how = "open" => fights[s][j].over = Forever
              /\ fights[s][j].how # "open" => fights[s][j].start <= fights[s][j].over
              /\ fights[s][j].how = "died" => fights[s][j].over \in Deaths(s)
              /\ fights[s][j].start # Never => fights[s][j].start \in Aggros(s)
         /\ \A j, k \in DOMAIN fights[s] : j < k => fights[s][j].over < fights[s][k].start
<1>1. fights[s] \in Seq(AFight)
  BY SpawnIsTyped
<1>2. PICK F \in Seq(AFight) : F = fights[s]
  BY <1>1
<1>3. \A j \in DOMAIN F : /\ j \in Int /\ F[j].start \in Int /\ F[j].over \in Nat
                          /\ F[j].first \in Int
                          /\ F[j].how \in {"open", "evaded", "died"}
  BY FightsAreTyped
<1>4. Fought(F, mode[s], now) /\ Recorded(F, Aggros(s), Deaths(s), Cast(s), now)
  BY <1>2 DEF Inv, Story
<1>5. \A j \in DOMAIN F : /\ F[j].how = "open" => F[j].over = Forever
                          /\ F[j].how # "open" => F[j].start <= F[j].over
  BY <1>4 DEF Fought
<1>6. \A j \in DOMAIN F : /\ F[j].how = "died" => F[j].over \in Deaths(s)
                          /\ F[j].start # Never => F[j].start \in Aggros(s)
  BY <1>4 DEF Recorded
<1>7. \A j, k \in DOMAIN F : j < k => F[j].over < F[k].start
  BY <1>4 DEF Fought
<1>8. QED
  BY <1>2, <1>3, <1>5, <1>6, <1>7

\* Of two fights the later begins with an aggro, after what lies in the other.
LEMMA OneTimer == Inv => RepeatsAreOneTimer
<1> SUFFICES ASSUME Inv, NEW s \in Spawns, NEW i \in Repeats(s)
             PROVE  \E f \in Range(fights[s]) :
                      f.start <= Casts(s, i)[1] /\ Casts(s, i)[2] <= f.over
  BY DEF RepeatsAreOneTimer
<1>1. seen[s].casts \in Seq(Times)
  BY SpawnIsTyped, SeenIsTyped
<1>2. PICK F : F = fights[s]
  OBVIOUS
<1>3. PICK C : C = seen[s].casts
  OBVIOUS
<1>4. i \in 1 .. Len(C) - 1 /\ C \in Seq(Times)
  BY <1>1, <1>3 DEF Repeats
<1>5. i \in DOMAIN C /\ i + 1 \in DOMAIN C
  BY <1>4
<1>6. PICK a : a = C[i]
  OBVIOUS
<1>7. PICK b : b = C[i + 1]
  OBVIOUS
<1>8. Casts(s, i)[1] = a /\ Casts(s, i)[2] = b
  BY <1>3, <1>6, <1>7 DEF Casts
<1>9. a \in Cast(s) /\ b \in Cast(s)
  BY <1>3, <1>5, <1>6, <1>7 DEF Cast, Range
<1>10. a <= b
  BY <1>3, <1>4, <1>6, <1>7, StoriesAre
<1>11. ~ \E t \in Aggros(s) : a < t /\ t <= b
  BY <1>8 DEF Repeats
<1>12. PICK j \in DOMAIN F : F[j].start <= a /\ a <= F[j].over
  BY <1>2, <1>9, InOneFight
<1>13. PICK k \in DOMAIN F : F[k].start <= b /\ b <= F[k].over
  BY <1>2, <1>9, InOneFight
<1>14. a \in Nat /\ b \in Nat
  BY <1>9, InOneFight
<1>15. /\ j \in Int /\ F[j].start \in Int /\ F[j].over \in Nat
       /\ k \in Int /\ F[k].start \in Int /\ F[k].over \in Nat
       /\ F[k].start # Never => F[k].start \in Aggros(s)
  BY <1>2, FightsLieApart
<1>16. (j < k => F[j].over < F[k].start) /\ (k < j => F[k].over < F[j].start)
  BY <1>2, FightsLieApart
<1>17. ~(k < j)
  BY <1>10, <1>12, <1>13, <1>14, <1>15, <1>16
<1>18. ~(j < k)
  <2>1. SUFFICES ASSUME j < k PROVE FALSE
    OBVIOUS
  <2>2. a < F[k].start /\ F[k].start <= b /\ F[k].start # Never
    BY <1>12, <1>13, <1>14, <1>15, <1>16, <2>1 DEF Never
  <2>3. QED
    BY <1>11, <1>15, <2>2
<1>19. j = k
  BY <1>15, <1>17, <1>18
<1>20. F[j] \in Range(F)
  BY DEF Range
<1>21. QED
  BY <1>2, <1>8, <1>12, <1>13, <1>19, <1>20

\* The fight a start begins.
LEMMA StartBegins ==
  ASSUME Inv, NEW s \in Spawns, ~FoundFighting(s), NEW start \in Starts(s)
  PROVE  \E j \in DOMAIN fights[s] : fights[s][j].start = start /\ start \in Aggros(s)
<1>1. PICK b \in {d \in Deaths(s) \union {Never} : \E t \in Aggros(s) : t > d} :
        start = Min({t \in Aggros(s) : t > b})
  BY DEF Starts
<1>2. PICK S : S = {t \in Aggros(s) : t > b}
  OBVIOUS
<1>3. S \in SUBSET Nat /\ S # {} /\ start = Min(S)
  BY <1>1, <1>2, InOneFight
<1>4. start \in S /\ \A t \in S : start <= t
  BY <1>3, LeastOf
<1>5. start \in Aggros(s) /\ start \in Nat /\ start > b
  BY <1>2, <1>3, <1>4
<1>6. PICK F \in Seq(AFight) : F = fights[s]
  BY FightsLieApart
<1>7. PICK j \in DOMAIN F : F[j].start <= start /\ start <= F[j].over
  BY <1>5, <1>6, InOneFight
<1>8. \A k \in DOMAIN F : /\ k \in Int /\ F[k].start \in Int /\ F[k].over \in Nat
                          /\ F[k].how # "open" => F[k].start <= F[k].over
                          /\ F[k].start # Never => F[k].start \in Aggros(s)
  BY <1>6, FightsLieApart
<1>9. \A k, m \in DOMAIN F : k < m => F[k].over < F[m].start
  BY <1>6, FightsLieApart
<1>10. F[j].start \in Aggros(s) /\ F[j].start \in Nat
  <2>1. F # <<>> /\ 1 \in DOMAIN F /\ F[1].start # Never /\ j >= 1
    BY <1>6, <1>7 DEF FoundFighting
  <2>2. CASE j = 1
    BY <1>7, <1>8, <2>1, <2>2, InOneFight
  <2>3. CASE j # 1
    <3>1. F[1].over < F[j].start
      BY <1>8, <1>9, <2>1, <2>3
    <3>2. F[j].start # Never
      BY <1>8, <2>1, <3>1 DEF Never
    <3>3. QED
      BY <1>7, <1>8, <3>2, InOneFight
  <2>4. QED
    BY <2>2, <2>3
<1>11. F[j].start > b
  <2>1. SUFFICES ASSUME ~(F[j].start > b) PROVE FALSE
    OBVIOUS
  <2>2. b # Never
    BY <1>10, <2>1 DEF Never
  <2>3. b \in Deaths(s) /\ b \in Nat
    BY <1>1, <2>2, InOneFight
  <2>4. PICK k \in DOMAIN F : F[k].how = "died" /\ F[k].over = b
    BY <1>6, <2>3, InOneFight
  <2>5. F[k].start <= b
    BY <1>8, <2>4
  <2>6. CASE k = j
    BY <1>5, <1>7, <2>3, <2>4, <2>6
  <2>7. CASE k < j
    BY <1>9, <1>10, <2>1, <2>3, <2>4, <2>7
  <2>8. CASE j < k
    <3>1. F[j].over < F[k].start
      BY <1>9, <2>8
    <3>2. QED
      BY <1>5, <1>7, <1>8, <2>3, <2>5, <3>1
  <2>9. QED
    BY <1>8, <2>6, <2>7, <2>8
<1>12. start <= F[j].start
  BY <1>2, <1>4, <1>10, <1>11
<1>13. F[j].start = start
  BY <1>5, <1>7, <1>10, <1>12
<1>14. QED
  BY <1>5, <1>6, <1>13

\* The first cast inside is of the fight that the start begins, or that fight was over.
LEMMA DelaysAreTrue == Inv => InitialDelaysAreTrue
<1> SUFFICES ASSUME Inv, NEW s \in Spawns, ~FoundFighting(s), NEW delay \in InitialDelays(s)
             PROVE  \E f \in Range(fights[s]) :
                      /\ f.start = delay[1]
                      /\ f.first = delay[2] \/ (Uncast(f) /\ (OneShot(f) \/ BrokenOff(f)))
  BY DEF InitialDelaysAreTrue
<1>1. PICK g \in FreshEngagements(s) : Inside(s, g) # {} /\ delay = <<g[1], Min(Inside(s, g))>>
  BY DEF InitialDelays
<1>2. PICK start \in Starts(s) :
        g = <<start, Min({d \in Deaths(s) : d > start} \union {Forever})>>
  BY <1>1 DEF FreshEngagements
<1>3. PICK F \in Seq(AFight) : F = fights[s]
  BY FightsLieApart
<1>4. PICK j \in DOMAIN F : F[j].start = start /\ start \in Aggros(s)
  BY <1>3, StartBegins
<1>5. PICK E : E = {d \in Deaths(s) : d > start} \union {Forever}
  OBVIOUS
<1>6. PICK end : end = Min(E)
  OBVIOUS
<1>7. end \in Nat /\ \A d \in Deaths(s) : d > start => end <= d
  <2>1. E \in SUBSET Nat /\ E # {}
    BY <1>5, InOneFight, Assumed
  <2>2. end \in E /\ \A d \in E : end <= d
    BY <1>6, <2>1, LeastOf
  <2>3. QED
    BY <1>5, <2>1, <2>2
<1>8. g = <<start, end>>
  BY <1>2, <1>5, <1>6
<1>9. PICK S : S = Inside(s, g)
  OBVIOUS
<1>10. S = {x \in Cast(s) : start <= x /\ x < end}
  BY <1>8, <1>9 DEF Inside, Cast
<1>11. PICK c : c = Min(S)
  OBVIOUS
<1>12. S \in SUBSET Nat /\ S # {}
  BY <1>1, <1>9, <1>10, InOneFight
<1>13. c \in S /\ \A x \in S : c <= x
  BY <1>11, <1>12, LeastOf
<1>14. c \in Cast(s) /\ c \in Nat /\ start <= c /\ c < end
  BY <1>10, <1>12, <1>13
<1>15. delay[1] = start /\ delay[2] = c
  BY <1>1, <1>8, <1>9, <1>11
<1>16. PICK k \in DOMAIN F :
         F[k].start <= c /\ c <= F[k].over /\ F[k].first # Never /\ F[k].first <= c
  BY <1>3, <1>14, InOneFight
<1>17. \A n \in DOMAIN F : /\ n \in Int /\ F[n].start \in Int /\ F[n].over \in Nat
                           /\ F[n].first \in Int
                           /\ F[n].how \in {"open", "evaded", "died"}
                           /\ F[n].how = "open" => F[n].over = Forever
                           /\ F[n].how # "open" => F[n].start <= F[n].over
                           /\ F[n].how = "died" => F[n].over \in Deaths(s)
  BY <1>3, FightsLieApart
<1>18. \A n, m \in DOMAIN F : n < m => F[n].over < F[m].start
  BY <1>3, FightsLieApart
<1>19. c <= F[j].over => k = j
  <2>1. SUFFICES ASSUME c <= F[j].over, k # j PROVE FALSE
    OBVIOUS
  <2>2. CASE k < j
    BY <1>4, <1>14, <1>16, <1>17, <1>18, <2>2
  <2>3. CASE j < k
    BY <1>14, <1>16, <1>17, <1>18, <2>1, <2>3
  <2>4. QED
    BY <1>17, <2>1, <2>2, <2>3
<1>20. start \in Nat
  BY <1>4, InOneFight
<1>21. F[j].first # Never =>
         F[j].first \in Cast(s) /\ F[j].start <= F[j].first /\ F[j].first <= F[j].over
  <2>1. Recorded(F, Aggros(s), Deaths(s), Cast(s), now)
    BY <1>3 DEF Inv, Story
  <2>2. QED
    BY <2>1 DEF Recorded
<1>22. CASE F[j].first # Never
  <2>1. F[j].first <= c
    <3>1. CASE c <= F[j].over
      BY <1>16, <1>19, <3>1
    <3>2. CASE ~(c <= F[j].over)
      BY <1>14, <1>17, <1>21, <1>22, <3>2
    <3>3. QED
      BY <3>1, <3>2
  <2>2. F[j].first \in S
    <3>1. F[j].first \in Cast(s) /\ start <= F[j].first /\ F[j].first \in Int
      BY <1>4, <1>17, <1>21, <1>22
    <3>2. F[j].first < end
      BY <1>7, <1>14, <2>1, <3>1
    <3>3. QED
      BY <1>10, <3>1, <3>2
  <2>3. F[j].first = c
    BY <1>13, <1>14, <1>17, <2>1, <2>2
  <2>4. F[j] \in Range(F)
    BY DEF Range
  <2>5. QED
    BY <1>3, <1>4, <1>15, <2>3, <2>4
<1>23. CASE F[j].first = Never
  <2>1. ~(c <= F[j].over)
    BY <1>16, <1>19, <1>23
  <2>2. F[j].over < c /\ c < Forever
    BY <1>14, <1>17, <2>1, InOneFight
  <2>3. F[j].how # "open"
    BY <1>14, <1>17, <2>2, Assumed
  <2>4. F[j].how = "died" => F[j].over = F[j].start
    <3>1. SUFFICES ASSUME F[j].how = "died", F[j].over # F[j].start PROVE FALSE
      OBVIOUS
    <3>2. F[j].over \in Deaths(s) /\ F[j].over > start
      BY <1>4, <1>17, <3>1
    <3>3. end <= F[j].over
      BY <1>7, <3>2
    <3>4. QED
      BY <1>7, <1>14, <1>17, <2>2, <3>3
  <2>5. Uncast(F[j]) /\ (OneShot(F[j]) \/ BrokenOff(F[j]))
    BY <1>17, <1>23, <2>3, <2>4 DEF Uncast, OneShot, BrokenOff
  <2>6. F[j] \in Range(F)
    BY DEF Range
  <2>7. QED
    BY <1>3, <1>4, <1>15, <2>5, <2>6
<1>24. QED
  BY <1>22, <1>23

LEMMA HowFarApart ==
  ASSUME NEW a \in Nat, NEW b \in Nat
  PROVE  Apart(a, b) \in Nat /\ (Apart(a, b) = 0 <=> a = b)
BY DEF Apart

LEMMA SaidIs ==
  ASSUME Inv, NEW m \in Triggers, NEW said
  PROVE  said \in Said(m) => /\ said[1] \in Spawns /\ said[2] \in Nat /\ said[2] \in Times
                             /\ said[2] \in Range(seen[said[1]].texts[m])
BY Assumed DEF Said, Times

\* A sound's own line was said with it, so is a candidate for it.
LEMMA SoundsAreOwn == Inv => SoundsAreTheirOwn
<1> SUFFICES ASSUME Inv, NEW m \in Triggers, NEW id \in SoundsFor(m) PROVE id \in {m, "music"}
  BY DEF SoundsAreTheirOwn
<1>1. PICK x \in sounds : Candidates(x[1]) = {m} /\ id = x[2]
  BY DEF SoundsFor
<1>2. SUFFICES ASSUME id # "music" PROVE id = m
  OBVIOUS
<1>3. sounds \subseteq Times \X (Triggers \union {"music"})
  BY DEF Inv, Typed
<1>4. x[1] \in Times /\ x[1] \in Nat /\ id \in Triggers
  BY <1>1, <1>2, <1>3, Assumed
<1>5. PICK s \in Spawns : x[1] \in Range(seen[s].texts[id])
  BY <1>1, <1>2 DEF Inv, Sounded
<1>6. PICK said : said = <<s, x[1]>>
  OBVIOUS
<1>7. said \in Said(id) /\ said[2] = x[1]
  BY <1>4, <1>5, <1>6 DEF Said, Times
<1>8. Apart(said[2], x[1]) <= Window
  <2>1. Apart(x[1], x[1]) = 0
    BY <1>4, HowFarApart
  <2>2. QED
    BY <1>7, <2>1, Assumed
<1>9. id \in Candidates(x[1])
  BY <1>4, <1>7, <1>8 DEF Candidates
<1>10. QED
  BY <1>1, <1>9

\* How near a trigger came is a set of numbers, with 0 for one that came with the line.
LEMMA NearIs ==
  ASSUME Inv, NEW m \in Triggers, NEW said \in Said(m), NEW n \in Triggers
  PROVE  /\ Near(n, said) \in SUBSET Nat
         /\ 0 \in Near(n, said) <=> said[2] \in Range(seen[said[1]].triggers[n])
<1>1. said[1] \in Spawns /\ said[2] \in Nat
  BY SaidIs
<1>2. PICK R : R = Range(seen[said[1]].triggers[n])
  OBVIOUS
<1>3. R \subseteq Nat
  <2>1. seen[said[1]] \in ACreature
    BY <1>1, SpawnIsTyped
  <2>2. seen[said[1]].triggers[n] \in Seq(Times)
    BY <2>1, SeenIsTyped
  <2>3. PICK q \in Seq(Times) : q = seen[said[1]].triggers[n]
    BY <2>2
  <2>4. \A i \in DOMAIN q : q[i] \in Times
    BY <2>3
  <2>5. R = Range(q)
    BY <1>2, <2>3
  <2>6. QED
    BY <2>4, <2>5, Assumed DEF Range
<1>4. Near(n, said) = {Apart(t, said[2]) : t \in R} \intersect (0 .. Window)
  BY <1>2 DEF Near
<1>5. 0 \in 0 .. Window
  BY Assumed
<1>6. (\E t \in R : Apart(t, said[2]) = 0) <=> said[2] \in R
  BY <1>1, <1>3, HowFarApart
<1>7. QED
  BY <1>2, <1>4, <1>5, <1>6

\* Its own trigger comes with every occurrence, so only one that does too can tie with it.
LEMMA CreditedRight == Inv => LinesAreCreditedRight
<1> SUFFICES ASSUME Inv, \A s \in Spawns : Deaths(s) = Range(seen[s].triggers["death"]),
                    NEW m \in Triggers, Said(m) # {}
             PROVE  \/ Credited(m) = {m}
                    \/ /\ Credited(m) = {}
                       /\ \E said \in Said(m) : \A n \in Triggers :
                            said[2] \in Range(seen[said[1]].triggers[n])
  BY DEF LinesAreCreditedRight
<1>1. \A said \in Said(m) : 0 \in Near(m, said)
  <2>1. ASSUME NEW said \in Said(m) PROVE 0 \in Near(m, said)
    <3>1. PICK s \in Spawns : s = said[1]
      BY SaidIs
    <3>2. said[2] \in Range(seen[s].texts[m])
      BY <3>1, SaidIs
    <3>3. /\ Range(seen[s].texts["aggro"]) \subseteq Range(seen[s].triggers["aggro"])
          /\ Range(seen[s].texts["death"]) = Deaths(s)
      BY StoriesAre DEF Deaths
    <3>4. said[2] \in Range(seen[s].triggers[m])
      BY <3>2, <3>3 DEF Triggers
    <3>5. QED
      BY <3>1, <3>4, NearIs
  <2>2. QED
    BY <2>1
<1>2. m \in Every(m)
  BY <1>1 DEF Every
<1>3. \A said \in Said(m) : Min(Near(m, said)) = 0
  <2>1. ASSUME NEW said \in Said(m) PROVE Min(Near(m, said)) = 0
    <3>1. Near(m, said) \in SUBSET Nat /\ 0 \in Near(m, said)
      BY <1>1, NearIs
    <3>2. Min(Near(m, said)) \in Near(m, said) /\ Min(Near(m, said)) <= 0
      BY <3>1, LeastOf
    <3>3. QED
      BY <3>1, <3>2
  <2>2. QED
    BY <2>1
<1>4. \A n \in Every(m) : \A said \in Said(m) :
        Near(n, said) \in SUBSET Nat /\ Min(Near(n, said)) \in Near(n, said)
                                     /\ Min(Near(n, said)) \in Nat
  <2>1. ASSUME NEW n \in Every(m), NEW said \in Said(m)
        PROVE  Near(n, said) \in SUBSET Nat /\ Min(Near(n, said)) \in Near(n, said)
                                            /\ Min(Near(n, said)) \in Nat
    <3>1. n \in Triggers /\ Near(n, said) # {}
      BY DEF Every
    <3>2. Near(n, said) \in SUBSET Nat
      BY <3>1, NearIs
    <3>3. Min(Near(n, said)) \in Near(n, said)
      BY <3>1, <3>2, LeastOf
    <3>4. QED
      BY <3>2, <3>3
  <2>2. QED
    BY <2>1
<1>5. Credited(m) \subseteq {m}
  <2>1. ASSUME NEW n \in Credited(m), n # m PROVE FALSE
    <3>1. n \in Every(m) /\ \A said \in Said(m) : Min(Near(n, said)) < Min(Near(m, said))
      BY <1>2, <2>1 DEF Credited, ClosestEverywhere
    <3>2. PICK said \in Said(m) : TRUE
      OBVIOUS
    <3>3. Min(Near(n, said)) < 0 /\ Min(Near(n, said)) \in Nat
      BY <1>3, <1>4, <3>1
    <3>4. QED
      BY <3>3
  <2>2. QED
    BY <2>1
<1>6. SUFFICES ASSUME m \notin Credited(m)
               PROVE  \E said \in Said(m) : \A n \in Triggers :
                        said[2] \in Range(seen[said[1]].triggers[n])
  BY <1>5
<1>7. PICK n \in Every(m) \ {m}, said \in Said(m) : ~(Min(Near(m, said)) < Min(Near(n, said)))
  BY <1>2, <1>6 DEF Credited, ClosestEverywhere
<1>8. Min(Near(n, said)) = 0 /\ n \in Triggers
  BY <1>3, <1>4, <1>7 DEF Every
<1>9. 0 \in Near(n, said) /\ 0 \in Near(m, said)
  BY <1>1, <1>4, <1>7, <1>8
<1>10. /\ said[2] \in Range(seen[said[1]].triggers[n])
       /\ said[2] \in Range(seen[said[1]].triggers[m])
  BY <1>7, <1>8, <1>9, NearIs
<1>11. \A o \in Triggers : o = n \/ o = m
  BY <1>7, <1>8 DEF Triggers
<1>12. QED
  BY <1>7, <1>10, <1>11

\* With no fight older than the capture, an initial delay runs from the start of a fight to
\* that fight's own first cast, unless the fight ended uncast, broken off or at once.
THEOREM DelaysAreOfOneFight == Spec => []InitialDelaysAreTrue
BY TheInvariantHolds, DelaysAreTrue, PTL

\* An interval counts as a repeat only between two casts of one fight.
THEOREM IntervalsAreOfOneFight == Spec => []RepeatsAreOneTimer
BY TheInvariantHolds, OneTimer, PTL

\* With a kill message for each death, a line is credited to its own trigger or, when both
\* came with it at once, to none.
THEOREM LinesAnswerTheirTrigger == Spec => []LinesAreCreditedRight
BY TheInvariantHolds, CreditedRight, PTL

\* A sound that one line alone may go with is that line's, or goes with none.
THEOREM SoundsGoWithTheirLine == Spec => []SoundsAreTheirOwn
BY TheInvariantHolds, SoundsAreOwn, PTL
=============================================================================
