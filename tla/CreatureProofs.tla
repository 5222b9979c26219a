--------------------------- MODULE CreatureProofs ---------------------------
(***************************************************************************)
(* Proofs about Creature, for every respawn time, capture and slack.  The   *)
(* argument: each death on record is matched with one the creature died,   *)
(* in order, and a death message is either the second witness of the death *)
(* matched last, which it dates anew, or tells of the next one; which of   *)
(* the two, the coincidence and the least respawn time decide.             *)
(***************************************************************************)
EXTENDS Creature, FiniteSetTheorems, WellFoundedInduction, TLAPS

-----------------------------------------------------------------------------
(* The inductive invariant. *)

\* The creature's own life: it dies and respawns in turn, and a witness still to
\* arrive is of the death it lies in.
History ==
  /\ \A k \in DOMAIN died : died[k] <= now
  /\ \A k \in DOMAIN born : died[k] + MinRespawn <= born[k] /\ born[k] <= now
  /\ \A j, k \in DOMAIN died : j < k => born[j] <= died[k]
  /\ owed # {} => ~living /\ now - died[Len(died)] <= Coincidence
  /\ life.alive \/ died # <<>>

\* f[n]: which death the n-th recorded one is.
Deaths(f) ==
  /\ f \in [DOMAIN life.deaths -> DOMAIN died]
  /\ \A n \in DOMAIN life.deaths : LayDead(f[n], life.deaths[n]) /\ life.deaths[n] <= now
  /\ \A m, n \in DOMAIN life.deaths : m < n => f[m] < f[n]
  /\ \A n \in DOMAIN life.deaths : ~living /\ f[n] = Len(died) =>
       ~life.alive /\ ("party_kill" \in owed => life.byHealth = life.deaths[n])
  /\ life.byHealth # Never => \E n \in DOMAIN life.deaths :
       life.deaths[n] = life.byHealth /\ life.byHealth <= died[f[n]] + Coincidence

\* g[n]: which respawn the n-th recorded revival is.
Revivals(g) ==
  /\ g \in [DOMAIN life.revivals -> DOMAIN died]
  /\ \A n \in DOMAIN life.revivals : Stood(g[n], life.revivals[n]) /\ life.revivals[n] <= now
  /\ \A m, n \in DOMAIN life.revivals : m < n => g[m] < g[n]
  /\ \A n \in DOMAIN life.revivals : living /\ g[n] = Len(born) => life.alive

\* A sign of life after a death is after the respawn too; and a timed death is one,
\* dated no later than its second witness.
Signs ==
  /\ \A s \in SignsOfLife : s <= now /\
       \A k \in DOMAIN died : died[k] < s => k <= Len(born) /\ born[k] <= s
  /\ \A t \in DatedDeaths : \E k \in DOMAIN died : died[k] <= t /\ t <= died[k] + Coincidence

\* A death the player is being shown, of which no witness has arrived.
Pending(f) == owed # {} /\ \A n \in DOMAIN life.deaths : f[n] # Len(died)

\* With nothing lost: the deaths shown are the timed ones and the one pending, and the
\* stats rule knows of each, but that one, since the life it is reading.
Counted(f) ==
  ~lossy =>
    /\ Cardinality(witnessed) = Len(life.timed) + (IF Pending(f) THEN 1 ELSE 0)
    /\ living /\ inSight => life.alive
    /\ Pending(f) /\ "health" \in owed => life.alive
    /\ ~living /\ Len(died) \in witnessed /\ ~Pending(f) => stats.dead
    /\ stats.lifeNo \in DOMAIN stats.firsts => \A k \in witnessed :
         stats.firsts[stats.lifeNo] < k => stats.dead \/ (k = Len(died) /\ Pending(f))
    /\ \A p \in stats.disagreed : p[3] \/ witnessed \intersect p[1] + 1 .. p[2] = {}

AllStats == [lifeNo : Nat, dead : BOOLEAN, firsts : UNION {[S -> Nat] : S \in SUBSET Nat},
             disagreed : SUBSET (Nat \X Nat \X BOOLEAN)]

\* The lives told apart after b respawns and d deaths: in order, none that has yet to
\* come, and a spawn left dead died since it was last read.
LivesIn(st, b, d) ==
  /\ st \in AllStats
  /\ st.lifeNo <= b /\ (st.dead => st.lifeNo < d)
  /\ \A m \in DOMAIN st.firsts :
       m <= st.lifeNo /\ st.firsts[m] <= b /\ (st.dead => st.firsts[m] < d)
  /\ DOMAIN st.firsts = {} \/ st.lifeNo \in DOMAIN st.firsts
  /\ \A m, n \in DOMAIN st.firsts : m < n => st.firsts[m] < st.firsts[n]
  /\ \A p \in st.disagreed : p[2] <= b

\* Whoever sees the creature is on its map, and the map a packet gives is the player's.
OnItsMap ==
  /\ inSight => place = Home
  /\ session \in {place, Unknown}
  /\ spawnMap \in {Home, Unknown}

Inv ==
  /\ TypeOK /\ History
  /\ \E f \in [DOMAIN life.deaths -> DOMAIN died] : Deaths(f) /\ Counted(f)
  /\ \E g \in [DOMAIN life.revivals -> DOMAIN died] : Revivals(g)
  /\ Signs /\ LivesIn(stats, Len(born), Len(died)) /\ OnItsMap

-----------------------------------------------------------------------------
(* What the messages do to a Lifeline, and a step to the creature. *)

LEMMA Assumed ==
  /\ MinRespawn \in Nat /\ Coincidence \in Nat /\ 2 * Coincidence < MinRespawn
  /\ LateSlack \in Nat /\ MaxTime \in Nat /\ Times \subseteq Nat
BY CreatureAssumption, LifelineAssumption DEF Times

LEMMA LastSet ==
  ASSUME NEW T, NEW s \in Seq(T), NEW t \in T
  PROVE  LET r == [s EXCEPT ![Len(s)] = t]
         IN  /\ r \in Seq(T) /\ Len(r) = Len(s) /\ DOMAIN r = DOMAIN s
             /\ \A n \in DOMAIN s : r[n] = IF n = Len(s) THEN t ELSE s[n]
<1> DEFINE r == [s EXCEPT ![Len(s)] = t]
<1>1. Len(s) \in Nat /\ DOMAIN s = 1 .. Len(s) /\ \A n \in DOMAIN s : s[n] \in T
  OBVIOUS
<1>2. DOMAIN r = DOMAIN s /\ \A n \in DOMAIN s : r[n] = IF n = Len(s) THEN t ELSE s[n]
  OBVIOUS
<1>3. r = [n \in 1 .. Len(s) |-> r[n]] /\ \A n \in 1 .. Len(s) : r[n] \in T
  BY <1>1, <1>2
<1> HIDE DEF r
<1>4. r \in [1 .. Len(s) -> T]
  BY <1>3
<1>5. r \in Seq(T)
  BY <1>1, <1>4
<1>6. Len(r) = Len(s)
  BY <1>1, <1>4, <1>5
<1>7. QED
  BY <1>2, <1>5, <1>6 DEF r

LEMMA HealthZeroGives ==
  ASSUME NEW l \in Lives(Times), NEW t \in Times
  PROVE  LET m == SeeHealthZero(l, t)
         IN  /\ m \in Lives(Times) /\ m.alive = FALSE /\ m.revivals = l.revivals
             /\ IF l.alive
                THEN /\ m.deaths = Append(l.deaths, t) /\ m.timed = Append(l.timed, t)
                     /\ m.byHealth = t
                ELSE m = l
<1>1. Append(l.deaths, t) \in Seq(Times) /\ Append(l.timed, t) \in Seq(Times)
  BY DEF Lives
<1>2. CASE l.alive
  BY <1>1, <1>2 DEF Lives, SeeHealthZero, TimedDeath
<1>3. CASE l.alive = FALSE
  BY <1>3 DEF SeeHealthZero
<1>4. QED
  BY <1>2, <1>3 DEF Lives

LEMMA PartyKillGives ==
  ASSUME NEW l \in Lives(Times), NEW t \in Times, Len(l.timed) <= Len(l.deaths)
  PROVE  LET m == SeePartyKill(l, t)
         IN  /\ m \in Lives(Times) /\ m.alive = FALSE /\ m.revivals = l.revivals
             /\ m.byHealth = Never
             /\ IF l.deaths # <<>> /\ l.deaths[Len(l.deaths)] = l.byHealth
                   /\ t - l.byHealth <= Coincidence
                THEN /\ m.deaths = [l.deaths EXCEPT ![Len(l.deaths)] = t]
                     /\ m.timed = [l.timed EXCEPT ![Len(l.timed)] = t]
                ELSE m.deaths = Append(l.deaths, t) /\ m.timed = Append(l.timed, t)
<1>1. l.deaths \in Seq(Times) /\ l.timed \in Seq(Times)
  BY DEF Lives
<1>2. [l.deaths EXCEPT ![Len(l.deaths)] = t] \in Seq(Times)
  BY <1>1, LastSet
<1>3. [l.timed EXCEPT ![Len(l.timed)] = t] \in Seq(Times)
  BY <1>1, LastSet
<1>4. Append(l.deaths, t) \in Seq(Times) /\ Append(l.timed, t) \in Seq(Times)
  BY <1>1
<1>5. QED
  BY <1>2, <1>3, <1>4 DEF Lives, SeePartyKill, Redated, TimedDeath, Last

LEMMA HealthGives ==
  ASSUME NEW l \in Lives(Times), NEW t \in Times
  PROVE  LET m == SeeHealth(l, t)
         IN  /\ m \in Lives(Times) /\ m.alive = TRUE
             /\ m.deaths = l.deaths /\ m.timed = l.timed /\ m.byHealth = l.byHealth
             /\ m.revivals = IF l.alive THEN l.revivals ELSE Append(l.revivals, t)
<1>1. Append(l.revivals, t) \in Seq(Times)
  BY DEF Lives
<1>2. QED
  BY <1>1 DEF Lives, SeeHealth

LEMMA CreatureGives ==
  ASSUME NEW l \in Lives(Times), NEW t \in Times
  PROVE  LET m == SeeCreature(l, t)
         IN  /\ m \in Lives(Times) /\ m.alive = TRUE
             /\ m.deaths = l.deaths /\ m.timed = l.timed /\ m.byHealth = l.byHealth
             /\ m.revivals = l.revivals
BY DEF Lives, SeeCreature

LEMMA CorpseGives ==
  ASSUME NEW l \in Lives(Times), NEW t \in Times
  PROVE  LET m == SeeCorpse(l, t)
         IN  /\ m \in Lives(Times) /\ m.alive = FALSE
             /\ m.timed = l.timed /\ m.byHealth = l.byHealth /\ m.revivals = l.revivals
             /\ m.deaths = IF l.alive /\ l.seenAlive THEN Append(l.deaths, t) ELSE l.deaths
<1>1. Append(l.deaths, t) \in Seq(Times)
  BY DEF Lives
<1>2. QED
  BY <1>1 DEF Lives, SeeCorpse

LEMMA Turns ==
  ASSUME [Next]_vars
  PROVE  \/ UNCHANGED <<living, died, born, witnessed>> /\ owed' \subseteq owed
         \/ \E tapped \in BOOLEAN : Die(tapped)
         \/ Respawn
BY DEF Next, vars, world, Tick, Witness, RespawnUnseen, RespawnInSight, ComeInSight, GoOutOfSight,
       Transfer, Hurt

LEMMA Messages ==
  ASSUME [Next]_vars, living \in BOOLEAN
  PROVE  \/ UNCHANGED <<life, creates, stats>>
         \/ /\ "health" \in owed /\ owed' = owed \ {"health"} /\ Told(SeeHealthZero)
            /\ UNCHANGED <<now, living, inSight, died, born, witnessed>>
         \/ /\ "party_kill" \in owed /\ owed' = owed \ {"party_kill"} /\ Told(SeePartyKill)
            /\ UNCHANGED <<now, living, inSight, died, born, witnessed>>
         \/ living' /\ Told(SeeHealth) /\ UNCHANGED <<now, died, owed, witnessed, inSight>>
         \/ /\ living' /\ ToldOfCreate(TRUE, Len(born'))
            /\ UNCHANGED <<now, died, owed, witnessed>> /\ owed = {}
         \/ /\ ~living /\ ToldOfCreate(FALSE, Len(born)) /\ owed = {}
            /\ UNCHANGED <<now, living, died, born, owed, witnessed>>
<1>1. CASE Tick \/ GoOutOfSight \/ Transfer \/ RespawnUnseen \/ UNCHANGED vars
  BY <1>1 DEF Tick, GoOutOfSight, Transfer, RespawnUnseen, noted, vars
<1>2. ASSUME NEW tapped \in BOOLEAN, Die(tapped)
      PROVE  UNCHANGED <<life, creates, stats>>
  BY <1>2 DEF Die, noted
<1>3. ASSUME NEW w \in owed, Witness(w)
      PROVE  \/ UNCHANGED <<life, creates, stats>>
             \/ w = "health" /\ Told(SeeHealthZero)
             \/ w = "party_kill" /\ Told(SeePartyKill)
  BY <1>3 DEF Witness, Lost, noted
<1>4. ASSUME NEW w \in owed, Witness(w)
      PROVE  owed' = owed \ {w} /\ UNCHANGED <<now, living, inSight, died, born, witnessed>>
  BY <1>4 DEF Witness
<1>5. CASE RespawnInSight
  BY <1>5 DEF RespawnInSight, Respawn, Lost, noted
<1>6. CASE ComeInSight
  <2>1. CASE living = TRUE
    BY <1>6, <2>1 DEF ComeInSight, Lost, noted
  <2>2. CASE living # TRUE
    <3>1. living = FALSE
      BY <2>2
    <3>2. QED
      BY <1>6, <3>1 DEF ComeInSight, Lost, noted
  <2>3. QED
    BY <2>1, <2>2
<1>7. CASE Hurt
  BY <1>7 DEF Hurt, world
<1>8. QED
  BY <1>1, <1>2, <1>3, <1>4, <1>5, <1>6, <1>7 DEF Next

-----------------------------------------------------------------------------
(* Types and the creature's own life. *)

LEMMA LifeIsTyped ==
  ASSUME TypeOK, [Next]_vars
  PROVE  /\ now' \in Times /\ now <= now'
         /\ life' \in Lives(Times) /\ Len(life'.timed) <= Len(life'.deaths)
         /\ creates' \in Seq(Times)
<1>1. now' \in Times /\ now <= now'
  <2>1. now' = now \/ (now < MaxTime /\ now' = now + 1)
    BY DEF Next, vars, Tick, Die, Witness, RespawnUnseen, RespawnInSight, Respawn, ComeInSight,
           GoOutOfSight, Transfer, Hurt
  <2>2. now \in 0 .. MaxTime /\ MaxTime \in Nat
    BY Assumed DEF TypeOK, Times
  <2>3. QED
    BY <2>1, <2>2 DEF Times
<1>2. /\ now \in Times /\ life \in Lives(Times) /\ Len(life.timed) <= Len(life.deaths)
      /\ creates \in Seq(Times) /\ living \in BOOLEAN
  BY DEF TypeOK
<1>3. life.deaths \in Seq(Times) /\ life.timed \in Seq(Times)
  BY <1>2 DEF Lives
<1>4. Append(creates, now) \in Seq(Times)
  BY <1>2
<1>5. CASE UNCHANGED <<life, creates, stats>>
  BY <1>1, <1>2, <1>5
<1>6. CASE Told(SeeHealthZero)
  <2>1. life' = SeeHealthZero(life, now) /\ creates' = creates
    BY <1>6 DEF Told
  <2>2. /\ Len(Append(life.deaths, now)) = Len(life.deaths) + 1
        /\ Len(Append(life.timed, now)) = Len(life.timed) + 1
        /\ Len(life.deaths) \in Nat /\ Len(life.timed) \in Nat
    BY <1>3
  <2>3. /\ life' \in Lives(Times)
        /\ \/ life'.deaths = Append(life.deaths, now) /\ life'.timed = Append(life.timed, now)
           \/ life' = life
    BY <1>2, <2>1, HealthZeroGives
  <2>4. Len(life'.timed) <= Len(life'.deaths)
    BY <1>2, <2>2, <2>3
  <2>5. QED
    BY <1>1, <1>2, <2>1, <2>3, <2>4
<1>7. CASE Told(SeePartyKill)
  <2>1. life' = SeePartyKill(life, now) /\ creates' = creates
    BY <1>7 DEF Told
  <2>2. /\ Len([life.deaths EXCEPT ![Len(life.deaths)] = now]) = Len(life.deaths)
        /\ Len([life.timed EXCEPT ![Len(life.timed)] = now]) = Len(life.timed)
        /\ Len(Append(life.deaths, now)) = Len(life.deaths) + 1
        /\ Len(Append(life.timed, now)) = Len(life.timed) + 1
        /\ Len(life.deaths) \in Nat /\ Len(life.timed) \in Nat
    BY <1>2, <1>3, LastSet
  <2>3. /\ life' \in Lives(Times)
        /\ \/ life'.deaths = Append(life.deaths, now) /\ life'.timed = Append(life.timed, now)
           \/ /\ life'.deaths = [life.deaths EXCEPT ![Len(life.deaths)] = now]
              /\ life'.timed = [life.timed EXCEPT ![Len(life.timed)] = now]
    BY <1>2, <2>1, PartyKillGives
  <2>4. Len(life'.timed) <= Len(life'.deaths)
    BY <1>2, <2>2, <2>3
  <2>5. QED
    BY <1>1, <1>2, <2>1, <2>3, <2>4
<1>8. CASE Told(SeeHealth)
  <2>1. life' = SeeHealth(life, now) /\ creates' = creates
    BY <1>8 DEF Told
  <2>2. life' \in Lives(Times) /\ life'.timed = life.timed /\ life'.deaths = life.deaths
    BY <1>2, <2>1, HealthGives
  <2>3. QED
    BY <1>1, <1>2, <2>1, <2>2
<1>9. CASE ToldOfCreate(TRUE, Len(born'))
  <2>1. life' = SeeCreature(life, now) /\ creates' = Append(creates, now)
    BY <1>9 DEF ToldOfCreate
  <2>2. QED
    BY <1>1, <1>2, <1>4, <2>1, CreatureGives
<1>10. CASE ToldOfCreate(FALSE, Len(born))
  <2>1. life' = SeeCorpse(life, now) /\ creates' = creates
    BY <1>10 DEF ToldOfCreate
  <2>2. /\ Len(Append(life.deaths, now)) = Len(life.deaths) + 1
        /\ Len(life.deaths) \in Nat /\ Len(life.timed) \in Nat
    BY <1>3
  <2>3. /\ life' \in Lives(Times) /\ life'.timed = life.timed
        /\ life'.deaths = Append(life.deaths, now) \/ life'.deaths = life.deaths
    BY <1>2, <2>1, CorpseGives
  <2>4. Len(life'.timed) <= Len(life'.deaths)
    BY <1>2, <2>2, <2>3
  <2>5. QED
    BY <1>1, <1>2, <1>4, <2>1, <2>3, <2>4
<1>11. QED
  BY <1>2, <1>5, <1>6, <1>7, <1>8, <1>9, <1>10, Messages

LEMMA WorldIsTyped ==
  ASSUME TypeOK, [Next]_vars
  PROVE  /\ living' \in BOOLEAN
         /\ died' \in Seq(Times) /\ born' \in Seq(Times)
         /\ Len(died') = Len(born') + (IF living' THEN 0 ELSE 1)
         /\ owed' \subseteq {"party_kill", "health"}
         /\ witnessed' \subseteq DOMAIN died'
<1>1. /\ living \in BOOLEAN /\ died \in Seq(Times) /\ born \in Seq(Times) /\ now \in Times
      /\ Len(died) = Len(born) + (IF living THEN 0 ELSE 1)
      /\ owed \subseteq {"party_kill", "health"} /\ witnessed \subseteq DOMAIN died
  BY DEF TypeOK
<1>2. CASE UNCHANGED <<living, died, born, witnessed>> /\ owed' \subseteq owed
  BY <1>1, <1>2
<1>3. ASSUME NEW tapped \in BOOLEAN, Die(tapped)
      PROVE  /\ living = TRUE /\ living' = FALSE /\ born' = born
             /\ died' \in Seq(Times) /\ Len(died') = Len(died) + 1
             /\ owed' \subseteq {"party_kill", "health"} /\ witnessed' \subseteq DOMAIN died'
  <2>1. /\ living = TRUE /\ living' = FALSE /\ born' = born /\ died' = Append(died, now)
        /\ owed' \subseteq {"party_kill", "health"}
        /\ witnessed' \subseteq witnessed \union {Len(died')}
    BY <1>1, <1>3 DEF Die
  <2>2. /\ died' \in Seq(Times) /\ Len(died') = Len(died) + 1 /\ Len(died) \in Nat
        /\ DOMAIN died' = 1 .. Len(died') /\ DOMAIN died = 1 .. Len(died)
    BY <1>1, <2>1
  <2>3. QED
    BY <1>1, <2>1, <2>2
<1>4. CASE Respawn
  <2>1. /\ living = FALSE /\ living' = TRUE /\ born' = Append(born, now)
        /\ UNCHANGED <<died, owed, witnessed>>
    BY <1>1, <1>4 DEF Respawn
  <2>2. born' \in Seq(Times) /\ Len(born') = Len(born) + 1 /\ Len(born) \in Nat
    BY <1>1, <2>1
  <2>3. QED
    BY <1>1, <2>1, <2>2
<1>5. CASE \E tapped \in BOOLEAN : Die(tapped)
  <2>1. /\ living = TRUE /\ living' = FALSE /\ born' = born
        /\ died' \in Seq(Times) /\ Len(died') = Len(died) + 1
        /\ owed' \subseteq {"party_kill", "health"} /\ witnessed' \subseteq DOMAIN died'
    BY <1>3, <1>5
  <2>2. Len(born') = Len(born) /\ born' \in Seq(Times) /\ Len(born) \in Nat
    BY <1>1, <2>1
  <2>3. Len(died) = Len(born)
    BY <1>1, <2>1, <2>2
  <2>4. Len(died') = Len(born') + 1
    BY <2>1, <2>2, <2>3
  <2>5. QED
    BY <2>1, <2>2, <2>4
<1>6. QED
  BY <1>2, <1>4, <1>5, Turns, Zenon

LEMMA LongHistory ==
  ASSUME TypeOK
  PROVE  /\ Len(died) \in Nat /\ Len(born) \in Nat
         /\ DOMAIN died = 1 .. Len(died) /\ DOMAIN born = 1 .. Len(born)
         /\ \A k \in DOMAIN died : died[k] \in Nat
         /\ \A k \in DOMAIN born : born[k] \in Nat
         /\ now \in Nat /\ living \in BOOLEAN
         /\ living => Len(died) = Len(born)
         /\ ~living => Len(died) = Len(born) + 1
<1>1. /\ now \in Times /\ living \in BOOLEAN /\ died \in Seq(Times) /\ born \in Seq(Times)
      /\ Len(died) = Len(born) + (IF living THEN 0 ELSE 1)
  BY DEF TypeOK
<1>2. /\ Len(died) \in Nat /\ Len(born) \in Nat
      /\ DOMAIN died = 1 .. Len(died) /\ DOMAIN born = 1 .. Len(born)
      /\ \A k \in DOMAIN died : died[k] \in Times
      /\ \A k \in DOMAIN born : born[k] \in Times
  BY <1>1
<1>3. /\ \A k \in DOMAIN died : died[k] \in Nat
      /\ \A k \in DOMAIN born : born[k] \in Nat
      /\ now \in Nat
  BY <1>1, <1>2, Assumed, Zenon
<1>4. (living => Len(died) = Len(born)) /\ (~living => Len(died) = Len(born) + 1)
  <2>1. \A a, b \in Nat, p \in BOOLEAN :
          a = b + (IF p THEN 0 ELSE 1) => (p => a = b) /\ (~p => a = b + 1)
    OBVIOUS
  <2>2. QED
    BY <1>1, <1>2, <2>1, Zenon
<1>5. QED
  BY <1>1, <1>2, <1>3, <1>4, Zenon

\* What a death and a respawn leave of the record of them.
LEMMA DyingGrows ==
  ASSUME TypeOK, NEW tapped \in BOOLEAN, Die(tapped)
  PROVE  /\ living = TRUE /\ living' = FALSE
         /\ UNCHANGED <<now, born, life, creates, stats, lossy, inSight>>
         /\ Len(died) = Len(born) /\ Len(died') = Len(died) + 1 /\ Len(born) \in Nat
         /\ DOMAIN died = 1 .. Len(died) /\ DOMAIN died' = 1 .. Len(died')
         /\ DOMAIN born = 1 .. Len(born)
         /\ died'[Len(died')] = now
         /\ \A k \in DOMAIN died : k \in DOMAIN died' /\ died'[k] = died[k]
<1>1. /\ living = TRUE /\ living' = FALSE /\ died' = Append(died, now)
      /\ UNCHANGED <<now, born, life, creates, stats, lossy, inSight>>
  BY DEF Die, TypeOK, noted
<1>2. died \in Seq(Times) /\ now \in Times
  BY DEF TypeOK
<1>3. /\ Len(died') = Len(died) + 1 /\ Len(died) \in Nat
      /\ DOMAIN died = 1 .. Len(died) /\ DOMAIN died' = 1 .. Len(died')
      /\ died'[Len(died')] = now
      /\ \A k \in DOMAIN died : k \in DOMAIN died' /\ died'[k] = died[k]
  BY <1>1, <1>2
<1>4. QED
  BY <1>1, <1>3, LongHistory

LEMMA RespawningGrows ==
  ASSUME TypeOK, Respawn
  PROVE  /\ living = FALSE /\ living' = TRUE /\ owed = {}
         /\ UNCHANGED <<now, died, owed, witnessed, inSight>>
         /\ Len(died) = Len(born) + 1 /\ Len(born') = Len(born) + 1 /\ Len(born) \in Nat
         /\ DOMAIN died = 1 .. Len(died) /\ DOMAIN born = 1 .. Len(born)
         /\ DOMAIN born' = 1 .. Len(born')
         /\ born'[Len(born')] = now /\ died[Len(died)] + MinRespawn <= now
         /\ \A k \in DOMAIN born : k \in DOMAIN born' /\ born'[k] = born[k]
<1>1. /\ living = FALSE /\ living' = TRUE /\ owed = {} /\ born' = Append(born, now)
      /\ UNCHANGED <<now, died, owed, witnessed, inSight>>
      /\ now >= died[Len(died)] + MinRespawn
  BY DEF Respawn, TypeOK, Last
<1>2. born \in Seq(Times) /\ now \in Times
  BY DEF TypeOK
<1>3. /\ Len(born') = Len(born) + 1 /\ Len(born) \in Nat
      /\ DOMAIN born = 1 .. Len(born) /\ DOMAIN born' = 1 .. Len(born')
      /\ born'[Len(born')] = now
      /\ \A k \in DOMAIN born : k \in DOMAIN born' /\ born'[k] = born[k]
  BY <1>1, <1>2
<1>4. /\ Len(died) = Len(born) + 1 /\ DOMAIN died = 1 .. Len(died)
      /\ died[Len(died)] \in Nat /\ now \in Nat
  <2>1. /\ Len(died) = Len(born) + 1 /\ DOMAIN died = 1 .. Len(died)
        /\ \A k \in DOMAIN died : died[k] \in Nat
        /\ now \in Nat
    BY <1>1, LongHistory, Zenon
  <2>2. Len(died) \in DOMAIN died
    BY <1>3, <2>1
  <2>3. QED
    BY <2>1, <2>2
<1>5. died[Len(died)] + MinRespawn <= now
  BY <1>1, <1>4, Assumed
<1>6. QED
  BY <1>1, <1>3, <1>4, <1>5

LEMMA HistoryInitially == ASSUME Init PROVE History
BY Assumed DEF Init, History, NewLife

\* Only what is seen while it lies dead makes its Lifeline not alive.
LEMMA OnlyTheDeadLookDead ==
  ASSUME TypeOK, History, [Next]_vars
  PROVE  life'.alive \/ died' # <<>>
<1>1. life \in Lives(Times) /\ now \in Times /\ living \in BOOLEAN
  BY DEF TypeOK
<1>2. life.alive \/ died # <<>>
  BY DEF History
<1>3. ~living \/ owed # {} => died # <<>>
  <2>1. ~living => Len(died) # 0
    <3>1. Len(born) \in Nat /\ (~living => Len(died) = Len(born) + 1)
      BY LongHistory, Zenon
    <3>2. QED
      BY <3>1
  <2>2. owed # {} => ~living
    BY DEF History
  <2>3. QED
    BY <2>1, <2>2
<1>4. died # <<>> => died' # <<>>
  <2>1. ASSUME NEW tapped \in BOOLEAN, Die(tapped) PROVE died' # <<>>
    <3>1. Len(died') = Len(born) + 1 /\ Len(born) \in Nat
      BY <2>1, DyingGrows
    <3>2. Len(died') # 0
      BY <3>1
    <3>3. QED
      BY <3>2
  <2>2. CASE UNCHANGED died
    BY <2>2
  <2>3. QED
    BY <2>1, <2>2, Turns DEF Respawn
<1>5. CASE UNCHANGED <<life, creates, stats>>
  BY <1>2, <1>4, <1>5
<1>6. CASE owed # {} \/ ~living
  BY <1>3, <1>4, <1>6
<1>7. CASE Told(SeeHealth)
  BY <1>1, <1>7, HealthGives DEF Told
<1>8. CASE ToldOfCreate(TRUE, Len(born'))
  BY <1>1, <1>8, CreatureGives DEF ToldOfCreate
<1>9. QED
  BY <1>1, <1>5, <1>6, <1>7, <1>8, Messages

LEMMA HistoryKept ==
  ASSUME TypeOK, History, [Next]_vars
  PROVE  History'
<1>1. now \in Nat /\ now' \in Nat /\ now <= now'
  BY LongHistory, LifeIsTyped, Assumed
<1>2. life'.alive \/ died' # <<>>
  BY OnlyTheDeadLookDead
<1>3. CASE UNCHANGED <<living, died, born, witnessed>> /\ owed' \subseteq owed
  <2>1. owed' # {} => now' - died[Len(died)] <= Coincidence
    <3>1. CASE now' = now
      BY <1>3, <3>1 DEF History
    <3>2. CASE Tick
      <4>1. owed # {} => ~living /\ now - died[Len(died)] < Coincidence /\ now' = now + 1
        BY <3>2 DEF Tick, Last, History
      <4>2. owed # {} => died[Len(died)] \in Nat
        <5>1. /\ Len(born) \in Nat /\ (~living => Len(died) = Len(born) + 1)
              /\ DOMAIN died = 1 .. Len(died) /\ \A k \in DOMAIN died : died[k] \in Nat
          BY LongHistory, Zenon
        <5>2. owed # {} => Len(died) = Len(born) + 1
          BY <4>1, <5>1, Zenon
        <5>3. Len(died) = Len(born) + 1 => Len(died) \in DOMAIN died
          BY <5>1
        <5>4. QED
          BY <5>1, <5>2, <5>3
      <4>3. QED
        BY <1>1, <1>3, <4>1, <4>2, Assumed
    <3>3. QED
      BY <3>1, <3>2 DEF Next, vars, Die, Witness, RespawnUnseen, RespawnInSight, Respawn,
           ComeInSight, GoOutOfSight, Transfer, Hurt
  <2>2. ASSUME NEW k \in DOMAIN died PROVE died[k] <= now'
    <3>1. died[k] \in Nat /\ died[k] <= now
      BY LongHistory DEF History
    <3>2. QED
      BY <1>1, <3>1
  <2>3. ASSUME NEW k \in DOMAIN born
        PROVE  died[k] + MinRespawn <= born[k] /\ born[k] <= now'
    <3>1. born[k] \in Nat /\ died[k] + MinRespawn <= born[k] /\ born[k] <= now
      BY LongHistory DEF History
    <3>2. QED
      BY <1>1, <3>1
  <2>4. QED
    BY <1>2, <1>3, <2>1, <2>2, <2>3 DEF History
<1>4. ASSUME NEW tapped \in BOOLEAN, Die(tapped) PROVE History'
  <2>1. /\ living = TRUE /\ living' = FALSE /\ UNCHANGED <<now, born>>
        /\ Len(died) = Len(born) /\ Len(died') = Len(died) + 1 /\ Len(born) \in Nat
        /\ DOMAIN died = 1 .. Len(died) /\ DOMAIN died' = 1 .. Len(died')
        /\ DOMAIN born = 1 .. Len(born)
        /\ died'[Len(died')] = now
        /\ \A k \in DOMAIN died : died'[k] = died[k]
    BY <1>4, DyingGrows
  <2>2. \A k \in DOMAIN died' : k \in DOMAIN died \/ k = Len(died')
    BY <2>1
  <2>3. \A k \in DOMAIN died' : died'[k] <= now
    BY <1>1, <2>1, <2>2 DEF History
  <2>4. \A j, k \in DOMAIN died' : j < k => born[j] <= died'[k]
    <3>1. ASSUME NEW j \in DOMAIN died', NEW k \in DOMAIN died', j < k
          PROVE  born[j] <= died'[k]
      <4>1. j \in DOMAIN died /\ j \in DOMAIN born
        BY <2>1, <3>1
      <4>2. CASE k \in DOMAIN died
        BY <2>1, <3>1, <4>1, <4>2 DEF History
      <4>3. CASE k = Len(died')
        BY <2>1, <4>1, <4>3 DEF History
      <4>4. QED
        BY <2>2, <4>2, <4>3
    <3>2. QED
      BY <3>1
  <2>5. \A k \in DOMAIN born' : died'[k] + MinRespawn <= born'[k] /\ born'[k] <= now'
    <3>1. DOMAIN born = DOMAIN died
      BY <2>1
    <3>2. QED
      BY <2>1, <3>1 DEF History
  <2>6. now' - died'[Len(died')] <= Coincidence
    BY <1>1, <2>1, Assumed
  <2>7. QED
    BY <1>2, <2>1, <2>3, <2>4, <2>5, <2>6 DEF History
<1>5. CASE Respawn
  <2>1. /\ living = FALSE /\ living' = TRUE /\ UNCHANGED <<now, died>> /\ owed' = {}
        /\ Len(died) = Len(born) + 1 /\ Len(born') = Len(born) + 1 /\ Len(born) \in Nat
        /\ DOMAIN died = 1 .. Len(died) /\ DOMAIN born = 1 .. Len(born)
        /\ DOMAIN born' = 1 .. Len(born')
        /\ born'[Len(born')] = now /\ died[Len(died)] + MinRespawn <= now
        /\ \A k \in DOMAIN born : born'[k] = born[k]
    BY <1>5, RespawningGrows
  <2>2. \A k \in DOMAIN born' : k \in DOMAIN born \/ (k = Len(born') /\ k = Len(died))
    BY <2>1
  <2>3. \A k \in DOMAIN born' : died'[k] + MinRespawn <= born'[k] /\ born'[k] <= now'
    BY <1>1, <2>1, <2>2 DEF History
  <2>4. \A j, k \in DOMAIN died' : j < k => born'[j] <= died'[k]
    <3>1. ASSUME NEW j \in DOMAIN died, NEW k \in DOMAIN died, j < k
          PROVE  born'[j] <= died[k]
      <4>1. j \in DOMAIN born
        BY <2>1, <3>1
      <4>2. QED
        BY <2>1, <3>1, <4>1 DEF History
    <3>2. QED
      BY <2>1, <3>1
  <2>5. QED
    BY <1>2, <2>1, <2>3, <2>4 DEF History
<1>6. QED
  BY <1>3, <1>4, <1>5, Turns, Zenon

-----------------------------------------------------------------------------
(* The record of its deaths. *)

LEMMA TypedSeq ==
  ASSUME NEW s \in Seq(Times)
  PROVE  /\ Len(s) \in Nat /\ DOMAIN s = 1 .. Len(s)
         /\ \A n \in DOMAIN s : s[n] \in Nat /\ s[n] \in Times
<1>1. Len(s) \in Nat /\ DOMAIN s = 1 .. Len(s) /\ \A n \in DOMAIN s : s[n] \in Times
  OBVIOUS
<1>2. QED
  BY <1>1, Assumed, Zenon

LEMMA RecordIsTyped ==
  ASSUME TypeOK
  PROVE  /\ life.deaths \in Seq(Times) /\ life.timed \in Seq(Times)
         /\ life.revivals \in Seq(Times) /\ creates \in Seq(Times)
         /\ life.alive \in BOOLEAN /\ life.seenAlive \in BOOLEAN
         /\ life.byHealth \in Times \union {Never}
         /\ life \in Lives(Times) /\ now \in Times /\ living \in BOOLEAN
         /\ Len(life.timed) <= Len(life.deaths)
BY DEF TypeOK, Lives

\* Where the world moves on and the record does not.
LEMMA DeathsStay ==
  ASSUME TypeOK, History, [Next]_vars, NEW f, Deaths(f),
         life'.deaths = life.deaths, life'.byHealth = life.byHealth,
         life'.alive => life.alive \/ living'
  PROVE  Deaths(f)'
<1> DEFINE D == life.deaths
<1>1. /\ f \in [DOMAIN D -> DOMAIN died]
      /\ \A n \in DOMAIN D : f[n] \in DOMAIN died /\ LayDead(f[n], D[n]) /\ D[n] <= now
      /\ \A n \in DOMAIN D : ~living /\ f[n] = Len(died) =>
           ~life.alive /\ ("party_kill" \in owed => life.byHealth = D[n])
      /\ life.byHealth # Never => \E n \in DOMAIN D :
           D[n] = life.byHealth /\ life.byHealth <= died[f[n]] + Coincidence
  BY DEF Deaths
<1>2. \A n \in DOMAIN D : D[n] \in Nat
  BY RecordIsTyped, TypedSeq, Zenon
<1>3. now \in Nat /\ now' \in Nat /\ now <= now'
  BY LongHistory, LifeIsTyped, Assumed
<1>4. \A n \in DOMAIN D : D[n] <= now'
  <2>1. ASSUME NEW n \in DOMAIN D PROVE D[n] <= now'
    <3>1. D[n] \in Nat /\ D[n] <= now
      BY <1>1, <1>2
    <3>2. QED
      BY <1>3, <3>1
  <2>2. QED
    BY <2>1
<1>5. CASE UNCHANGED <<living, died, born, witnessed>> /\ owed' \subseteq owed
  <2>1. \A n \in DOMAIN D : LayDead(f[n], D[n])'
    BY <1>1, <1>5 DEF LayDead
  <2>2. \A n \in DOMAIN D : ~living' /\ f[n] = Len(died') =>
           ~life'.alive /\ ("party_kill" \in owed' => life'.byHealth = D[n])
    BY <1>1, <1>5
  <2>3. QED
    BY <1>1, <1>4, <1>5, <2>1, <2>2 DEF Deaths
<1>6. ASSUME NEW tapped \in BOOLEAN, Die(tapped) PROVE Deaths(f)'
  <2>1. /\ UNCHANGED born
        /\ Len(died) = Len(born) /\ Len(died') = Len(died) + 1 /\ Len(born) \in Nat
        /\ DOMAIN died = 1 .. Len(died)
        /\ \A k \in DOMAIN died : k \in DOMAIN died' /\ died'[k] = died[k]
    BY <1>6, DyingGrows
  <2>2. f \in [DOMAIN D -> DOMAIN died']
    BY <1>1, <2>1
  <2>3. \A n \in DOMAIN D : f[n] # Len(died')
    <3>1. \A k \in DOMAIN died : k # Len(died')
      BY <2>1
    <3>2. QED
      BY <1>1, <3>1
  <2>4. \A n \in DOMAIN D : LayDead(f[n], D[n])'
    BY <1>1, <2>1 DEF LayDead
  <2>5. life'.byHealth # Never => \E n \in DOMAIN D :
           D[n] = life'.byHealth /\ life'.byHealth <= died'[f[n]] + Coincidence
    BY <1>1, <2>1
  <2>6. QED
    BY <1>1, <1>4, <2>2, <2>3, <2>4, <2>5 DEF Deaths
<1>7. CASE Respawn
  <2>1. /\ living' = TRUE /\ UNCHANGED <<now, died>>
        /\ Len(died) = Len(born) + 1 /\ Len(born') = Len(born) + 1 /\ Len(born) \in Nat
        /\ DOMAIN died = 1 .. Len(died) /\ DOMAIN born = 1 .. Len(born)
        /\ born'[Len(born')] = now
        /\ \A k \in DOMAIN born : k \in DOMAIN born' /\ born'[k] = born[k]
    BY <1>7, RespawningGrows
  <2>2. ASSUME NEW n \in DOMAIN D PROVE LayDead(f[n], D[n])'
    <3>1. f[n] \in 1 .. Len(died) /\ died[f[n]] <= D[n] /\ D[n] <= now
          /\ (f[n] <= Len(born) => D[n] <= born[f[n]])
      BY <1>1, <2>1 DEF LayDead
    <3>2. CASE f[n] <= Len(born)
      <4>1. f[n] \in DOMAIN born
        BY <2>1, <3>1, <3>2
      <4>2. D[n] <= born'[f[n]]
        BY <2>1, <3>1, <3>2, <4>1
      <4>3. QED
        BY <2>1, <3>1, <4>2 DEF LayDead
    <3>3. CASE ~(f[n] <= Len(born))
      <4>1. f[n] = Len(born')
        BY <2>1, <3>1, <3>3
      <4>2. D[n] <= born'[f[n]]
        BY <2>1, <3>1, <4>1
      <4>3. QED
        BY <2>1, <3>1, <4>2 DEF LayDead
    <3>4. QED
      BY <3>2, <3>3
  <2>3. QED
    BY <1>1, <1>4, <2>1, <2>2 DEF Deaths
<1>8. QED
  BY <1>5, <1>6, <1>7, Turns, Zenon

\* A death recorded anew is of the one it lies in, when none recorded is.
LEMMA DeathsGrow ==
  ASSUME TypeOK, History, NEW f, Deaths(f),
         UNCHANGED <<now, living, died, born>>, ~living,
         life'.deaths = Append(life.deaths, now), life'.alive = FALSE,
         \A n \in DOMAIN life.deaths : f[n] # Len(died),
         "party_kill" \in owed' => life'.byHealth = now,
         \/ life'.byHealth = now /\ now - died[Len(died)] <= Coincidence
         \/ life'.byHealth \in {life.byHealth, Never}
  PROVE  \E h : Deaths(h)' /\ \E n \in DOMAIN life'.deaths : h[n] = Len(died')
<1> DEFINE D == life.deaths
           last == Len(D) + 1
<1>e. PICK E : E = life'.deaths
  OBVIOUS
<1>h. PICK h : h = [n \in 1 .. last |-> IF n \in DOMAIN D THEN f[n] ELSE Len(died)]
  OBVIOUS
<1>1. /\ f \in [DOMAIN D -> DOMAIN died]
      /\ \A n \in DOMAIN D : f[n] \in DOMAIN died /\ LayDead(f[n], D[n]) /\ D[n] <= now
      /\ \A m, n \in DOMAIN D : m < n => f[m] < f[n]
      /\ life.byHealth # Never => \E n \in DOMAIN D :
           D[n] = life.byHealth /\ life.byHealth <= died[f[n]] + Coincidence
  BY DEF Deaths
<1>2. /\ Len(D) \in Nat /\ DOMAIN D = 1 .. Len(D) /\ DOMAIN E = 1 .. last /\ E[last] = now
      /\ \A n \in DOMAIN D : E[n] = D[n]
  <2>1. D \in Seq(Times) /\ now \in Times /\ E = Append(D, now)
    BY <1>e, RecordIsTyped
  <2>2. QED
    BY <2>1
<1>3. /\ Len(died) \in DOMAIN died /\ Len(died) = Len(born) + 1 /\ Len(born) \in Nat
      /\ died[Len(died)] <= now /\ DOMAIN died = 1 .. Len(died) /\ now \in Nat
      /\ died[Len(died)] \in Nat
  <2>1. /\ Len(born) \in Nat /\ Len(died) = Len(born) + 1 /\ DOMAIN died = 1 .. Len(died)
        /\ now \in Nat /\ \A k \in DOMAIN died : died[k] \in Nat
    BY LongHistory, Zenon
  <2>2. Len(died) \in DOMAIN died
    BY <2>1
  <2>3. QED
    BY <2>1, <2>2 DEF History
<1> HIDE DEF D
<1>4. /\ \A n \in DOMAIN D : n \in DOMAIN E /\ h[n] = f[n] /\ n < last
      /\ h[last] = Len(died) /\ last \in DOMAIN E /\ last \notin DOMAIN D
      /\ \A n \in DOMAIN E : n \in DOMAIN D \/ n = last
  BY <1>2, <1>h
<1>5. h \in [DOMAIN E -> DOMAIN died]
  BY <1>1, <1>2, <1>3, <1>h
<1> HIDE DEF last
<1>6. \A n \in DOMAIN E : LayDead(h[n], E[n]) /\ E[n] <= now
  <2>1. ASSUME NEW n \in DOMAIN D PROVE LayDead(h[n], E[n]) /\ E[n] <= now
    BY <1>1, <1>2, <1>4
  <2>2. LayDead(h[last], E[last])
    BY <1>2, <1>3, <1>4 DEF LayDead
  <2>3. QED
    BY <1>2, <1>3, <1>4, <2>1, <2>2
<1>7. \A m, n \in DOMAIN E : m < n => h[m] < h[n]
  <2>1. ASSUME NEW m \in DOMAIN E, NEW n \in DOMAIN E, m < n PROVE h[m] < h[n]
    <3>1. m \in DOMAIN D
      <4>1. last \in Nat /\ n \in Nat /\ n <= last /\ m \in Nat
        BY <1>2 DEF last
      <4>2. m # last
        BY <2>1, <4>1
      <4>3. QED
        BY <1>4, <4>2
    <3>2. CASE n \in DOMAIN D
      BY <1>1, <1>4, <2>1, <3>1, <3>2
    <3>3. CASE n = last
      <4>1. f[m] \in 1 .. Len(died) /\ f[m] # Len(died)
        BY <1>1, <1>3, <3>1 DEF D
      <4>2. QED
        BY <1>3, <1>4, <3>1, <3>3, <4>1
    <3>4. QED
      BY <1>4, <3>2, <3>3
  <2>2. QED
    BY <2>1
<1>8. \A n \in DOMAIN E : h[n] = Len(died) => E[n] = now
  BY <1>2, <1>4 DEF D
<1>9. life'.byHealth # Never => \E n \in DOMAIN E :
        E[n] = life'.byHealth /\ life'.byHealth <= died[h[n]] + Coincidence
  <2>1. CASE life'.byHealth = now /\ now - died[Len(died)] <= Coincidence
    <3>1. now <= died[h[last]] + Coincidence
      BY <1>3, <1>4, <2>1, Assumed
    <3>2. QED
      BY <1>2, <1>4, <2>1, <3>1
  <2>2. CASE life'.byHealth = life.byHealth
    BY <1>1, <1>2, <1>4, <2>2
  <2>3. QED
    BY <2>1, <2>2
<1>10. \A n \in DOMAIN E : ~living' /\ h[n] = Len(died') =>
         ~life'.alive /\ ("party_kill" \in owed' => life'.byHealth = E[n])
  BY <1>8
<1>11. \A n \in DOMAIN E : LayDead(h[n], E[n])'
  BY <1>6 DEF LayDead
<1>12. Deaths(h)'
  BY <1>5, <1>6, <1>7, <1>9, <1>10, <1>11, <1>e DEF Deaths
<1>13. \E n \in DOMAIN E : h[n] = Len(died')
  BY <1>4
<1>14. QED
  BY <1>12, <1>13, <1>e

\* While a kill message is owed, the death on record last is the one byHealth marks
\* and within the coincidence exactly when it is the death the creature lies in: an
\* older one is a whole respawn away.
LEMMA TheKillIsOfItsDeath ==
  ASSUME TypeOK, History, NEW f, Deaths(f), "party_kill" \in owed
  PROVE  (\E n \in DOMAIN life.deaths : f[n] = Len(died)) <=>
           /\ life.deaths # <<>> /\ life.deaths[Len(life.deaths)] = life.byHealth
           /\ now - life.byHealth <= Coincidence
<1> DEFINE D == life.deaths
           last == Len(D)
           N == Len(died)
<1>1. /\ \A n \in DOMAIN D : f[n] \in DOMAIN died /\ died[f[n]] <= D[n] /\ D[n] <= now
      /\ \A m, n \in DOMAIN D : m < n => f[m] < f[n]
      /\ \A n \in DOMAIN D : f[n] = N => life.byHealth = D[n]
      /\ life.byHealth # Never => \E n \in DOMAIN D :
           D[n] = life.byHealth /\ life.byHealth <= died[f[n]] + Coincidence
  BY DEF Deaths, LayDead, History
<1>2. /\ Len(D) \in Nat /\ DOMAIN D = 1 .. last /\ \A n \in DOMAIN D : D[n] \in Nat
      /\ D \in Seq(Times)
  BY RecordIsTyped, TypedSeq, Zenon
<1>3. /\ DOMAIN died = 1 .. N /\ \A k \in DOMAIN died : died[k] \in Nat
      /\ DOMAIN born = 1 .. Len(born) /\ \A k \in DOMAIN born : born[k] \in Nat
      /\ now \in Nat /\ ~living /\ N = Len(born) + 1 /\ Len(born) \in Nat
  BY LongHistory, Zenon DEF History
<1>4. /\ \A k \in DOMAIN born : died[k] + MinRespawn <= born[k]
      /\ \A j, k \in DOMAIN died : j < k => born[j] <= died[k]
      /\ N \in DOMAIN died /\ died[N] <= now /\ now - died[N] <= Coincidence
  BY <1>3 DEF History
<1> HIDE DEF D, N
<1>5. \A j, k \in DOMAIN died : j < k => died[j] + MinRespawn <= died[k]
  <2>1. ASSUME NEW j \in DOMAIN died, NEW k \in DOMAIN died, j < k
        PROVE  died[j] + MinRespawn <= died[k]
    <3>1. j \in DOMAIN born
      BY <1>3, <2>1
    <3>2. died[j] + MinRespawn <= born[j] /\ born[j] <= died[k]
      BY <1>4, <2>1, <3>1
    <3>3. died[j] \in Nat /\ died[k] \in Nat /\ born[j] \in Nat
      BY <1>3, <2>1, <3>1
    <3>4. QED
      BY <3>2, <3>3, Assumed
  <2>2. QED
    BY <2>1
<1>6. ASSUME NEW n \in DOMAIN D, f[n] = N
      PROVE  D # <<>> /\ D[last] = life.byHealth /\ now - life.byHealth <= Coincidence
  <2>1. last \in DOMAIN D /\ n \in Nat /\ n <= last /\ D # <<>>
    BY <1>2, <1>6
  <2>2. n = last
    <3>1. f[last] \in 1 .. N /\ (n < last => f[n] < f[last])
      BY <1>1, <1>3, <1>6, <2>1
    <3>2. QED
      BY <1>2, <1>3, <1>6, <2>1, <3>1
  <2>3. D[n] = life.byHealth /\ died[N] <= D[n]
    BY <1>1, <1>6
  <2>4. now - D[n] <= Coincidence
    <3>1. D[n] \in Nat /\ died[N] \in Nat
      BY <1>2, <1>3, <1>4, <1>6
    <3>2. QED
      BY <1>3, <1>4, <2>3, <3>1, Assumed
  <2>5. QED
    BY <2>1, <2>2, <2>3, <2>4
<1>7. ASSUME D # <<>>, D[last] = life.byHealth, now - life.byHealth <= Coincidence
      PROVE  last \in DOMAIN D /\ f[last] = N
  <2>1. last \in DOMAIN D
    BY <1>2, <1>7
  <2>2. D[last] \in Nat /\ life.byHealth # Never
    <3>1. D[last] \in Nat
      BY <1>2, <2>1
    <3>2. QED
      BY <1>7, <3>1 DEF Never
  <2>3. PICK n \in DOMAIN D : D[n] = D[last] /\ D[last] <= died[f[n]] + Coincidence
    BY <1>1, <1>7, <2>2
  <2>4. /\ f[n] \in DOMAIN died /\ died[f[n]] <= D[n]
        /\ f[last] \in DOMAIN died /\ died[f[last]] <= D[last]
    BY <1>1, <2>1, <2>3
  <2>5. PICK at \in Nat : at = D[last]
    BY <2>2
  <2>6. died[f[n]] <= at /\ at <= died[f[n]] + Coincidence /\ died[f[last]] <= at
        /\ now - at <= Coincidence
    BY <1>7, <2>3, <2>4, <2>5
  <2>7. \A k \in DOMAIN died : died[k] <= now => ~(f[n] < k)
    <3>1. ASSUME NEW k \in DOMAIN died, died[k] <= now, f[n] < k PROVE FALSE
      <4>1. died[f[n]] + MinRespawn <= died[k]
        BY <1>5, <2>4, <3>1
      <4>2. PICK a \in Nat, b \in Nat : a = died[f[n]] /\ b = died[k]
        BY <1>3, <2>4
      <4>3. /\ a + MinRespawn <= b /\ b <= now /\ at <= a + Coincidence
            /\ now - at <= Coincidence
        BY <2>6, <3>1, <4>1, <4>2
      <4>4. QED
        BY <1>3, <4>3, Assumed
    <3>2. QED
      BY <3>1
  <2>8. f[n] = N
    BY <1>3, <1>4, <2>4, <2>7
  <2>9. n = last
    <3>1. n < last => f[n] < f[last]
      BY <1>1, <2>1
    <3>2. f[last] <= N /\ f[last] \in Nat /\ N \in Nat
      BY <1>3, <2>4
    <3>3. n \in Nat /\ n <= last
      BY <1>2
    <3>4. QED
      BY <1>2, <2>8, <3>1, <3>2, <3>3
  <2>10. QED
    BY <2>1, <2>8, <2>9
<1>8. QED
  BY <1>6, <1>7 DEF D, N

LEMMA DeathsRedated ==
  ASSUME TypeOK, History, NEW f, Deaths(f), "party_kill" \in owed,
         UNCHANGED <<now, living, died, born>>, "party_kill" \notin owed',
         life'.deaths = [life.deaths EXCEPT ![Len(life.deaths)] = now],
         life'.alive = FALSE, life'.byHealth = Never,
         \E n \in DOMAIN life.deaths : f[n] = Len(died)
  PROVE  Deaths(f)'
<1> DEFINE D == life.deaths
           N == Len(died)
<1>1. /\ f \in [DOMAIN D -> DOMAIN died]
      /\ \A n \in DOMAIN D : LayDead(f[n], D[n]) /\ D[n] <= now
      /\ \A m, n \in DOMAIN D : m < n => f[m] < f[n]
  BY DEF Deaths
<1>2. PICK E : E = life'.deaths
  OBVIOUS
<1>3. DOMAIN E = DOMAIN D /\ \A n \in DOMAIN D : E[n] = IF n = Len(D) THEN now ELSE D[n]
  <2>1. D \in Seq(Times) /\ now \in Times /\ E = [D EXCEPT ![Len(D)] = now]
    BY <1>2, RecordIsTyped
  <2>2. QED
    BY <2>1, LastSet
<1>4. DOMAIN D = 1 .. Len(D) /\ Len(D) \in Nat
  BY RecordIsTyped, TypedSeq
<1>5. /\ DOMAIN died = 1 .. N /\ \A k \in DOMAIN died : died[k] \in Nat
      /\ now \in Nat /\ ~living /\ N = Len(born) + 1 /\ Len(born) \in Nat
  BY LongHistory, Zenon DEF History
<1>6. f[Len(D)] = N /\ Len(D) \in DOMAIN D
  <2>1. PICK n \in DOMAIN D : f[n] = N
    OBVIOUS
  <2>2. Len(D) \in DOMAIN D /\ n <= Len(D) /\ n \in Nat
    BY <1>4
  <2>3. f[Len(D)] \in 1 .. N /\ (n < Len(D) => f[n] < f[Len(D)])
    BY <1>1, <1>5, <2>2
  <2>4. QED
    BY <1>4, <1>5, <2>1, <2>2, <2>3
<1>7. died[N] <= now
  BY <1>5 DEF History
<1> HIDE DEF D, N
<1>8. \A n \in DOMAIN D : LayDead(f[n], E[n]) /\ E[n] <= now
  <2>1. LayDead(N, now) /\ now <= now
    BY <1>5, <1>7 DEF LayDead
  <2>2. QED
    BY <1>1, <1>3, <1>6, <2>1
<1>9. \A n \in DOMAIN D : LayDead(f[n], E[n])'
  BY <1>8 DEF LayDead, D
<1>10. QED
  BY <1>1, <1>2, <1>3, <1>8, <1>9 DEF Deaths, D

LEMMA DeathsKept ==
  ASSUME TypeOK, History, [Next]_vars, NEW f, Deaths(f)
  PROVE  \E h : /\ Deaths(h)'
                /\ \/ Len(life'.deaths) = Len(life.deaths) /\ h = f
                   \/ /\ Len(life'.deaths) = Len(life.deaths) + 1
                      /\ \E n \in DOMAIN life'.deaths : h[n] = Len(died')
                      /\ \A n \in DOMAIN life.deaths : f[n] # Len(died)
<1>1. /\ life \in Lives(Times) /\ now \in Times /\ living \in BOOLEAN
      /\ Len(life.timed) <= Len(life.deaths)
      /\ life.deaths \in Seq(Times) /\ life.alive \in BOOLEAN
  BY RecordIsTyped
<1>2. Len(Append(life.deaths, now)) = Len(life.deaths) + 1
  BY <1>1
<1>3. CASE /\ life'.deaths = life.deaths /\ life'.byHealth = life.byHealth
           /\ life'.alive => life.alive \/ living'
  BY <1>3, DeathsStay
<1>4. \A n \in DOMAIN life.deaths : ~living /\ f[n] = Len(died) => ~life.alive
  BY DEF Deaths
<1>5. CASE UNCHANGED <<life, creates, stats>>
  BY <1>3, <1>5
<1>6. CASE /\ "health" \in owed /\ owed' = owed \ {"health"} /\ Told(SeeHealthZero)
           /\ UNCHANGED <<now, living, inSight, died, born, witnessed>>
  <2>1. life' = SeeHealthZero(life, now)
    BY <1>6 DEF Told
  <2>2. CASE life.alive
    <3>1. /\ life'.deaths = Append(life.deaths, now) /\ life'.byHealth = now
          /\ life'.alive = FALSE
      BY <1>1, <2>1, <2>2, HealthZeroGives
    <3>2. ~living /\ now - died[Len(died)] <= Coincidence
      BY <1>6 DEF History
    <3>3. \A n \in DOMAIN life.deaths : f[n] # Len(died)
      BY <1>4, <2>2, <3>2
    <3>4. \E h : Deaths(h)' /\ \E n \in DOMAIN life'.deaths : h[n] = Len(died')
      BY <1>6, <3>1, <3>2, <3>3, DeathsGrow
    <3>5. QED
      BY <1>2, <3>1, <3>3, <3>4
  <2>3. CASE ~life.alive
    BY <1>1, <1>3, <2>1, <2>3, HealthZeroGives
  <2>4. QED
    BY <2>2, <2>3
<1>7. CASE /\ "party_kill" \in owed /\ owed' = owed \ {"party_kill"} /\ Told(SeePartyKill)
           /\ UNCHANGED <<now, living, inSight, died, born, witnessed>>
  <2>1. life' = SeePartyKill(life, now) /\ ~living
    BY <1>7 DEF Told, History
  <2>2. CASE \E n \in DOMAIN life.deaths : f[n] = Len(died)
    <3>1. /\ life'.deaths = [life.deaths EXCEPT ![Len(life.deaths)] = now]
          /\ life'.alive = FALSE /\ life'.byHealth = Never
      BY <1>1, <1>7, <2>1, <2>2, PartyKillGives, TheKillIsOfItsDeath
    <3>2. Deaths(f)'
      BY <1>7, <2>2, <3>1, DeathsRedated
    <3>3. Len(life'.deaths) = Len(life.deaths)
      BY <1>1, <3>1, LastSet
    <3>4. QED
      BY <3>2, <3>3
  <2>3. CASE \A n \in DOMAIN life.deaths : f[n] # Len(died)
    <3>1. /\ life'.deaths = Append(life.deaths, now)
          /\ life'.alive = FALSE /\ life'.byHealth = Never
      BY <1>1, <1>7, <2>1, <2>3, PartyKillGives, TheKillIsOfItsDeath
    <3>2. \E h : Deaths(h)' /\ \E n \in DOMAIN life'.deaths : h[n] = Len(died')
      BY <1>7, <2>1, <2>3, <3>1, DeathsGrow
    <3>3. QED
      BY <1>2, <2>3, <3>1, <3>2
  <2>4. QED
    BY <2>2, <2>3
<1>8. CASE living' /\ Told(SeeHealth)
  <2>1. life' = SeeHealth(life, now)
    BY <1>8 DEF Told
  <2>2. QED
    BY <1>1, <1>3, <1>8, <2>1, HealthGives
<1>9. CASE living' /\ ToldOfCreate(TRUE, Len(born'))
  <2>1. life' = SeeCreature(life, now)
    BY <1>9 DEF ToldOfCreate
  <2>2. QED
    BY <1>1, <1>3, <1>9, <2>1, CreatureGives
<1>10. CASE /\ ~living /\ ToldOfCreate(FALSE, Len(born)) /\ owed = {}
            /\ UNCHANGED <<now, living, died, born, owed, witnessed>>
  <2>1. life' = SeeCorpse(life, now)
    BY <1>10 DEF ToldOfCreate
  <2>2. life'.alive = FALSE /\ life'.byHealth = life.byHealth
    BY <1>1, <2>1, CorpseGives
  <2>3. CASE life.alive /\ life.seenAlive
    <3>1. life'.deaths = Append(life.deaths, now)
      BY <1>1, <2>1, <2>3, CorpseGives
    <3>2. \A n \in DOMAIN life.deaths : f[n] # Len(died)
      BY <1>4, <1>10, <2>3
    <3>3. \E h : Deaths(h)' /\ \E n \in DOMAIN life'.deaths : h[n] = Len(died')
      BY <1>10, <2>2, <3>1, <3>2, DeathsGrow
    <3>4. QED
      BY <1>2, <3>1, <3>2, <3>3
  <2>4. CASE ~(life.alive /\ life.seenAlive)
    <3>1. life'.deaths = life.deaths
      BY <1>1, <2>1, <2>4, CorpseGives
    <3>2. QED
      BY <1>3, <2>2, <3>1
  <2>5. QED
    BY <2>3, <2>4
<1>11. QED
  BY <1>1, <1>5, <1>6, <1>7, <1>8, <1>9, <1>10, Messages

-----------------------------------------------------------------------------
(* Its revivals and other signs of life. *)

LEMMA StoodStays ==
  ASSUME TypeOK, [Next]_vars, NEW k \in DOMAIN died, NEW t \in Nat, Stood(k, t), t <= now
  PROVE  Stood(k, t)' /\ k \in DOMAIN died' /\ (k = Len(born') => k = Len(born))
<1>1. k <= Len(born) /\ born[k] <= t /\ (k < Len(died) => t <= died[k + 1])
  BY DEF Stood
<1>2. CASE UNCHANGED <<living, died, born, witnessed>> /\ owed' \subseteq owed
  BY <1>1, <1>2 DEF Stood
<1>3. ASSUME NEW tapped \in BOOLEAN, Die(tapped)
      PROVE  Stood(k, t)' /\ k \in DOMAIN died' /\ (k = Len(born') => k = Len(born))
  <2>1. /\ UNCHANGED born /\ Len(died') = Len(died) + 1 /\ Len(died) \in Nat
        /\ DOMAIN died = 1 .. Len(died) /\ DOMAIN died' = 1 .. Len(died')
        /\ died'[Len(died')] = now
        /\ \A j \in DOMAIN died : died'[j] = died[j]
    BY <1>3, DyingGrows
  <2>2. CASE k < Len(died)
    <3>1. k + 1 \in DOMAIN died /\ k \in DOMAIN died'
      BY <2>1, <2>2
    <3>2. QED
      BY <1>1, <2>1, <2>2, <3>1 DEF Stood
  <2>3. CASE ~(k < Len(died))
    <3>1. k + 1 = Len(died') /\ k \in DOMAIN died'
      BY <2>1, <2>3
    <3>2. QED
      BY <1>1, <2>1, <3>1 DEF Stood
  <2>4. QED
    BY <2>2, <2>3
<1>4. CASE Respawn
  <2>1. /\ UNCHANGED died /\ Len(born') = Len(born) + 1 /\ Len(born) \in Nat
        /\ DOMAIN born = 1 .. Len(born) /\ DOMAIN died = 1 .. Len(died)
        /\ \A j \in DOMAIN born : born'[j] = born[j]
    BY <1>4, RespawningGrows
  <2>2. k \in DOMAIN born /\ k <= Len(born') /\ k # Len(born')
    BY <1>1, <2>1
  <2>3. QED
    BY <1>1, <2>1, <2>2 DEF Stood
<1>5. QED
  BY <1>2, <1>3, <1>4, Turns, Zenon

\* Where no revival is recorded.
LEMMA RevivalsStay ==
  ASSUME TypeOK, [Next]_vars, NEW g, Revivals(g),
         life'.revivals = life.revivals, living' /\ life.alive => life'.alive
  PROVE  Revivals(g)'
<1> DEFINE R == life.revivals
<1>1. /\ g \in [DOMAIN R -> DOMAIN died]
      /\ \A n \in DOMAIN R : g[n] \in DOMAIN died /\ Stood(g[n], R[n]) /\ R[n] <= now
      /\ \A m, n \in DOMAIN R : m < n => g[m] < g[n]
      /\ \A n \in DOMAIN R : living /\ g[n] = Len(born) => life.alive
  BY DEF Revivals
<1>2. \A n \in DOMAIN R : R[n] \in Nat
  BY RecordIsTyped, TypedSeq, Zenon
<1>3. now \in Nat /\ now' \in Nat /\ now <= now'
  BY LongHistory, LifeIsTyped, Assumed
<1>4. ASSUME NEW n \in DOMAIN R
      PROVE  /\ Stood(g[n], R[n])' /\ g[n] \in DOMAIN died' /\ R[n] <= now'
             /\ g[n] = Len(born') => g[n] = Len(born)
  <2>1. PICK k, t : k = g[n] /\ t = R[n]
    OBVIOUS
  <2>2. k \in DOMAIN died /\ t \in Nat /\ Stood(k, t) /\ t <= now
    BY <1>1, <1>2, <2>1
  <2>3. Stood(k, t)' /\ k \in DOMAIN died' /\ (k = Len(born') => k = Len(born))
    BY <2>2, StoodStays
  <2>4. Stood(g[n], R[n])'
    BY <2>1, <2>3 DEF Stood
  <2>5. QED
    BY <1>3, <2>1, <2>2, <2>3, <2>4
<1>5. ASSUME NEW n \in DOMAIN R, living', g[n] = Len(born') PROVE life'.alive
  <2>1. g[n] = Len(born)
    BY <1>4, <1>5
  <2>2. CASE living
    BY <1>1, <1>5, <2>1, <2>2
  <2>3. CASE ~living
    <3>1. Respawn
      BY <1>5, <2>3, Turns DEF Die
    <3>2. Len(born') = Len(born) + 1 /\ Len(born) \in Nat
      BY <3>1, RespawningGrows
    <3>3. Len(born') = Len(born)
      BY <1>5, <2>1
    <3>4. QED
      BY <3>2, <3>3
  <2>4. QED
    BY <2>2, <2>3
<1>6. g \in [DOMAIN R -> DOMAIN died']
  BY <1>1, <1>4
<1>7. QED
  BY <1>1, <1>4, <1>5, <1>6 DEF Revivals

\* A revival is recorded once for each respawn: of the one before it, its
\* Lifeline would be alive.
LEMMA RevivalsGrow ==
  ASSUME TypeOK, History, [Next]_vars, NEW g, Revivals(g),
         ~life.alive, living', UNCHANGED <<now, died>>,
         life'.revivals = Append(life.revivals, now), life'.alive
  PROVE  \E h : Revivals(h)'
<1> DEFINE R == life.revivals
<1>1. PICK E : E = life'.revivals
  OBVIOUS
<1>2. PICK N, last : N = Len(born') /\ last = Len(R) + 1
  OBVIOUS
<1>3. PICK h : h = [n \in 1 .. last |-> IF n \in DOMAIN R THEN g[n] ELSE N]
  OBVIOUS
<1>4. /\ g \in [DOMAIN R -> DOMAIN died]
      /\ \A n \in DOMAIN R : g[n] \in DOMAIN died /\ Stood(g[n], R[n]) /\ R[n] <= now
      /\ \A m, n \in DOMAIN R : m < n => g[m] < g[n]
      /\ \A n \in DOMAIN R : living /\ g[n] = Len(born) => life.alive
  BY DEF Revivals
<1>5. /\ Len(R) \in Nat /\ DOMAIN R = 1 .. Len(R) /\ DOMAIN E = 1 .. last /\ E[last] = now
      /\ last = Len(R) + 1
      /\ \A n \in DOMAIN R : E[n] = R[n] /\ R[n] \in Nat
  <2>1. R \in Seq(Times) /\ now \in Times /\ E = Append(R, now)
    BY <1>1, RecordIsTyped
  <2>2. \A n \in DOMAIN R : R[n] \in Nat
    BY <2>1, TypedSeq
  <2>3. QED
    BY <1>2, <2>1, <2>2
<1>6. /\ Len(born) \in Nat /\ DOMAIN died = 1 .. Len(died) /\ Len(died) \in Nat
      /\ now \in Nat
  BY LongHistory, Zenon
<1>7. N = Len(died') /\ N \in Nat /\ DOMAIN born' = 1 .. N
  <2>1. /\ born' \in Seq(Times) /\ living' \in BOOLEAN
        /\ Len(died') = Len(born') + (IF living' THEN 0 ELSE 1)
    BY WorldIsTyped
  <2>2. Len(born') \in Nat /\ DOMAIN born' = 1 .. Len(born')
    BY <2>1
  <2>3. Len(died') = Len(born')
    BY <2>1, <2>2
  <2>4. QED
    BY <1>2, <2>2, <2>3
<1>8. N \in DOMAIN died /\ N \in DOMAIN born'
  <2>1. died # <<>>
    BY DEF History
  <2>2. Len(died) # 0
    <3>1. died \in Seq(Times)
      BY DEF TypeOK
    <3>2. QED
      BY <2>1, <3>1
  <2>3. QED
    BY <1>6, <1>7, <2>2
<1>9. \A n \in DOMAIN R : g[n] < N
  <2>1. ASSUME NEW n \in DOMAIN R PROVE g[n] < N
    <3>1. g[n] <= Len(born) /\ g[n] \in Nat /\ ~(living /\ g[n] = Len(born))
      BY <1>4, <1>6, <2>1 DEF Stood
    <3>2. CASE living
      <4>1. N = Len(born)
        BY <1>2, <3>2, Turns DEF Die, Respawn
      <4>2. QED
        BY <1>6, <3>1, <3>2, <4>1
    <3>3. CASE ~living
      <4>1. Respawn
        BY <3>3, Turns DEF Die
      <4>2. N = Len(born) + 1
        BY <1>2, <4>1, RespawningGrows
      <4>3. QED
        BY <1>6, <3>1, <4>2
    <3>4. QED
      BY <3>2, <3>3
  <2>2. QED
    BY <2>1
<1> HIDE DEF R
<1>10. /\ \A n \in DOMAIN R : n \in DOMAIN E /\ h[n] = g[n] /\ n < last
       /\ h[last] = N /\ last \in DOMAIN E /\ last \notin DOMAIN R
       /\ \A n \in DOMAIN E : n \in DOMAIN R \/ n = last
  BY <1>3, <1>5
<1>11. h \in [DOMAIN E -> DOMAIN died']
  BY <1>3, <1>4, <1>5, <1>8
<1>12. \A n \in DOMAIN E : Stood(h[n], E[n])' /\ E[n] <= now'
  <2>1. ASSUME NEW n \in DOMAIN R PROVE Stood(h[n], E[n])' /\ E[n] <= now'
    <3>1. PICK k, t : k = h[n] /\ t = E[n]
      OBVIOUS
    <3>2. k \in DOMAIN died /\ t \in Nat /\ Stood(k, t) /\ t <= now
      BY <1>4, <1>5, <1>10, <2>1, <3>1
    <3>3. Stood(k, t)'
      BY <3>2, StoodStays
    <3>4. Stood(h[n], E[n])'
      BY <3>1, <3>3 DEF Stood
    <3>5. QED
      BY <3>1, <3>2, <3>4
  <2>2. Stood(h[last], E[last])' /\ E[last] <= now'
    <3>1. born'[N] <= now' /\ now' = now
      BY <1>8, HistoryKept DEF History
    <3>2. ~(N < Len(died')) /\ N <= Len(born')
      BY <1>2, <1>7
    <3>3. h[last] = N /\ E[last] = now
      BY <1>5, <1>10
    <3>4. Stood(h[last], E[last])'
      BY <3>1, <3>2, <3>3 DEF Stood
    <3>5. QED
      BY <1>6, <3>1, <3>3, <3>4
  <2>3. ASSUME NEW n \in DOMAIN E PROVE Stood(h[n], E[n])' /\ E[n] <= now'
    <3>1. CASE n \in DOMAIN R
      BY <2>1, <3>1
    <3>2. CASE n = last
      BY <2>2, <3>2 DEF Stood
    <3>3. QED
      BY <1>10, <3>1, <3>2
  <2>4. QED
    BY <2>3
<1>13. \A m, n \in DOMAIN E : m < n => h[m] < h[n]
  <2>1. ASSUME NEW m \in DOMAIN E, NEW n \in DOMAIN E, m < n PROVE h[m] < h[n]
    <3>1. m \in DOMAIN R
      <4>1. last \in Nat /\ n \in Nat /\ n <= last /\ m \in Nat
        BY <1>5
      <4>2. m # last
        BY <2>1, <4>1
      <4>3. QED
        BY <1>10, <4>2
    <3>2. CASE n \in DOMAIN R
      BY <1>4, <1>10, <2>1, <3>1, <3>2
    <3>3. CASE n = last
      BY <1>9, <1>10, <3>1, <3>3
    <3>4. QED
      BY <1>10, <3>2, <3>3
  <2>2. QED
    BY <2>1
<1>14. Revivals(h)'
  BY <1>1, <1>11, <1>12, <1>13 DEF Revivals
<1>15. QED
  BY <1>14

LEMMA RevivalsKept ==
  ASSUME TypeOK, History, [Next]_vars, NEW g, Revivals(g)
  PROVE  \E h : Revivals(h)'
<1>1. /\ life \in Lives(Times) /\ now \in Times /\ living \in BOOLEAN
      /\ Len(life.timed) <= Len(life.deaths) /\ life.alive \in BOOLEAN
  BY RecordIsTyped
<1>2. CASE life'.revivals = life.revivals /\ (living' /\ life.alive => life'.alive)
  BY <1>2, RevivalsStay
<1>3. CASE UNCHANGED <<life, creates, stats>>
  BY <1>2, <1>3
<1>4. CASE "health" \in owed /\ Told(SeeHealthZero) /\ UNCHANGED living
  <2>1. life' = SeeHealthZero(life, now) /\ ~living'
    BY <1>4 DEF Told, History
  <2>2. QED
    BY <1>1, <1>2, <2>1, HealthZeroGives
<1>5. CASE "party_kill" \in owed /\ Told(SeePartyKill) /\ UNCHANGED living
  <2>1. life' = SeePartyKill(life, now) /\ ~living'
    BY <1>5 DEF Told, History
  <2>2. QED
    BY <1>1, <1>2, <2>1, PartyKillGives
<1>6. CASE living' /\ Told(SeeHealth) /\ UNCHANGED <<now, died, owed, witnessed, inSight>>
  <2>1. life' = SeeHealth(life, now)
    BY <1>6 DEF Told
  <2>2. CASE life.alive
    BY <1>1, <1>2, <2>1, <2>2, HealthGives
  <2>3. CASE ~life.alive
    <3>1. life'.revivals = Append(life.revivals, now) /\ life'.alive = TRUE
      BY <1>1, <2>1, <2>3, HealthGives
    <3>2. QED
      BY <1>6, <2>3, <3>1, RevivalsGrow
  <2>4. QED
    BY <2>2, <2>3
<1>7. CASE ToldOfCreate(TRUE, Len(born'))
  <2>1. life' = SeeCreature(life, now)
    BY <1>7 DEF ToldOfCreate
  <2>2. QED
    BY <1>1, <1>2, <2>1, CreatureGives
<1>8. CASE ~living /\ ToldOfCreate(FALSE, Len(born)) /\ UNCHANGED living
  <2>1. life' = SeeCorpse(life, now) /\ ~living'
    BY <1>8 DEF ToldOfCreate
  <2>2. QED
    BY <1>1, <1>2, <2>1, CorpseGives
<1>9. QED
  BY <1>1, <1>3, <1>4, <1>5, <1>6, <1>7, <1>8, Messages

LEMMA RangeGrows ==
  ASSUME NEW s \in Seq(Times), NEW t \in Times
  PROVE  /\ \A x \in Range(Append(s, t)) : x \in Range(s) \/ x = t
         /\ \A x \in Range([s EXCEPT ![Len(s)] = t]) : x \in Range(s) \/ x = t
<1>1. /\ DOMAIN Append(s, t) = 1 .. Len(s) + 1 /\ DOMAIN s = 1 .. Len(s) /\ Len(s) \in Nat
      /\ \A n \in DOMAIN s : Append(s, t)[n] = s[n]
      /\ Append(s, t)[Len(s) + 1] = t
  OBVIOUS
<1>2. \A n \in DOMAIN Append(s, t) : n \in DOMAIN s \/ n = Len(s) + 1
  BY <1>1
<1>3. \A x \in Range(Append(s, t)) : x \in Range(s) \/ x = t
  BY <1>1, <1>2 DEF Range
<1>4. \A x \in Range([s EXCEPT ![Len(s)] = t]) : x \in Range(s) \/ x = t
  BY LastSet DEF Range
<1>5. QED
  BY <1>3, <1>4

\* A sign of life seen now is of the life it is in.
LEMMA SignsKept ==
  ASSUME TypeOK, History, Signs, [Next]_vars
  PROVE  Signs'
<1> DEFINE OfItsLife(s) ==
             s <= now /\ \A k \in DOMAIN died : died[k] < s => k <= Len(born) /\ born[k] <= s
           OfADeath(t) ==
             \E k \in DOMAIN died : died[k] <= t /\ t <= died[k] + Coincidence
<1>1. /\ life \in Lives(Times) /\ now \in Times /\ living \in BOOLEAN
      /\ Len(life.timed) <= Len(life.deaths) /\ now \in Nat
      /\ life.timed \in Seq(Times) /\ life.revivals \in Seq(Times) /\ creates \in Seq(Times)
  BY RecordIsTyped, LongHistory
<1>2. /\ \A s \in Range(creates) \union Range(life.revivals) : OfItsLife(s) /\ s \in Nat
      /\ \A t \in Range(life.timed) : OfADeath(t)
  <2>1. \A s \in Range(creates) \union Range(life.revivals) : s \in Nat
    BY <1>1, TypedSeq DEF Range
  <2>2. QED
    BY <2>1 DEF Signs, SignsOfLife, DatedDeaths
<1>3. \A s : OfItsLife(s) /\ s \in Nat => OfItsLife(s)'
  <2>1. SUFFICES ASSUME NEW s \in Nat, OfItsLife(s) PROVE OfItsLife(s)'
    OBVIOUS
  <2>2. s <= now'
    <3>1. now \in Nat /\ now' \in Nat /\ now <= now'
      BY LongHistory, LifeIsTyped, Assumed
    <3>2. QED
      BY <3>1, <2>1
  <2>3. CASE UNCHANGED <<living, died, born, witnessed>> /\ owed' \subseteq owed
    BY <2>1, <2>2, <2>3
  <2>4. ASSUME NEW tapped \in BOOLEAN, Die(tapped) PROVE OfItsLife(s)'
    <3>1. /\ UNCHANGED born /\ Len(died') = Len(died) + 1 /\ Len(died) \in Nat
          /\ DOMAIN died = 1 .. Len(died) /\ DOMAIN died' = 1 .. Len(died')
          /\ died'[Len(died')] = now
          /\ \A j \in DOMAIN died : died'[j] = died[j]
      BY <2>4, DyingGrows
    <3>2. ASSUME NEW k \in DOMAIN died', died'[k] < s PROVE k <= Len(born) /\ born[k] <= s
      <4>1. k # Len(died')
        BY <1>1, <2>1, <3>1, <3>2
      <4>2. k \in DOMAIN died
        BY <3>1, <4>1
      <4>3. QED
        BY <2>1, <3>1, <3>2, <4>2
    <3>3. QED
      BY <2>2, <3>1, <3>2
  <2>5. CASE Respawn
    <3>1. /\ UNCHANGED died /\ Len(born') = Len(born) + 1 /\ Len(born) \in Nat
          /\ DOMAIN born = 1 .. Len(born) /\ DOMAIN died = 1 .. Len(died)
          /\ \A j \in DOMAIN born : born'[j] = born[j]
      BY <2>5, RespawningGrows
    <3>2. ASSUME NEW k \in DOMAIN died, died[k] < s PROVE k <= Len(born') /\ born'[k] <= s
      <4>1. k <= Len(born) /\ born[k] <= s /\ k \in DOMAIN born
        BY <2>1, <3>1, <3>2
      <4>2. QED
        BY <3>1, <4>1
    <3>3. QED
      BY <2>2, <3>1, <3>2
  <2>6. QED
    BY <2>3, <2>4, <2>5, Turns, Zenon
<1>4. living' /\ UNCHANGED <<now, died>> => OfItsLife(now)'
  <2>1. SUFFICES ASSUME living', UNCHANGED <<now, died>> PROVE OfItsLife(now)'
    OBVIOUS
  <2>2. /\ born' \in Seq(Times) /\ died' \in Seq(Times)
        /\ Len(died') = Len(born') + (IF living' THEN 0 ELSE 1)
    BY WorldIsTyped
  <2>3. /\ Len(born') = Len(died') /\ Len(died') \in Nat
        /\ DOMAIN born' = 1 .. Len(born') /\ DOMAIN died' = 1 .. Len(died')
    BY <2>1, <2>2
  <2>4. \A k \in DOMAIN born' : born'[k] <= now'
    BY HistoryKept DEF History
  <2>5. QED
    BY <1>1, <2>1, <2>3, <2>4
<1>5. \A t : OfADeath(t) => OfADeath(t)'
  <2>1. \A k \in DOMAIN died : k \in DOMAIN died' /\ died'[k] = died[k]
    <3>1. ASSUME NEW tapped \in BOOLEAN, Die(tapped)
          PROVE  \A k \in DOMAIN died : k \in DOMAIN died' /\ died'[k] = died[k]
      BY <3>1, DyingGrows
    <3>2. CASE UNCHANGED died
      BY <3>2
    <3>3. QED
      BY <3>1, <3>2, Turns DEF Respawn
  <2>2. QED
    BY <2>1
<1>6. owed # {} => OfADeath(now)
  <2>1. SUFFICES ASSUME owed # {} PROVE OfADeath(now)
    OBVIOUS
  <2>2. /\ ~living /\ now - died[Len(died)] <= Coincidence
        /\ \A k \in DOMAIN died : died[k] <= now
    BY <2>1 DEF History
  <2>3. /\ Len(died) = Len(born) + 1 /\ Len(born) \in Nat /\ DOMAIN died = 1 .. Len(died)
        /\ \A k \in DOMAIN died : died[k] \in Nat
    BY <2>2, LongHistory, Zenon
  <2>4. Len(died) \in DOMAIN died
    BY <2>3
  <2>5. PICK d \in Nat : d = died[Len(died)]
    BY <2>3, <2>4
  <2>6. d <= now /\ now <= d + Coincidence
    BY <1>1, <2>2, <2>4, <2>5, Assumed
  <2>7. QED
    BY <2>4, <2>5, <2>6
<1> HIDE DEF OfItsLife, OfADeath
<1>7. /\ \A s \in Range(Append(creates, now)) : s \in Range(creates) \/ s = now
      /\ \A s \in Range(Append(life.revivals, now)) : s \in Range(life.revivals) \/ s = now
      /\ \A t \in Range(Append(life.timed, now)) : t \in Range(life.timed) \/ t = now
      /\ \A t \in Range([life.timed EXCEPT ![Len(life.timed)] = now]) :
           t \in Range(life.timed) \/ t = now
  BY <1>1, RangeGrows
<1>8. /\ \A s \in Range(creates') \union Range(life'.revivals) :
           \/ s \in Range(creates) \union Range(life.revivals)
           \/ (s = now /\ living' /\ UNCHANGED <<now, died>>)
      /\ \A t \in Range(life'.timed) : t \in Range(life.timed) \/ (t = now /\ owed # {})
  <2>1. CASE UNCHANGED <<life, creates, stats>>
    BY <2>1
  <2>2. CASE "health" \in owed /\ Told(SeeHealthZero)
    <3>1. life' = SeeHealthZero(life, now) /\ creates' = creates
      BY <2>2 DEF Told
    <3>2. /\ life'.revivals = life.revivals
          /\ life'.timed = Append(life.timed, now) \/ life'.timed = life.timed
      BY <1>1, <3>1, HealthZeroGives
    <3>3. QED
      BY <1>7, <2>2, <3>1, <3>2
  <2>3. CASE "party_kill" \in owed /\ Told(SeePartyKill)
    <3>1. life' = SeePartyKill(life, now) /\ creates' = creates
      BY <2>3 DEF Told
    <3>2. /\ life'.revivals = life.revivals
          /\ \/ life'.timed = Append(life.timed, now)
             \/ life'.timed = [life.timed EXCEPT ![Len(life.timed)] = now]
      BY <1>1, <3>1, PartyKillGives
    <3>3. QED
      BY <1>7, <2>3, <3>1, <3>2
  <2>4. CASE living' /\ Told(SeeHealth) /\ UNCHANGED <<now, died, owed, witnessed, inSight>>
    <3>1. life' = SeeHealth(life, now) /\ creates' = creates
      BY <2>4 DEF Told
    <3>2. /\ life'.timed = life.timed
          /\ life'.revivals = Append(life.revivals, now) \/ life'.revivals = life.revivals
      BY <1>1, <3>1, HealthGives
    <3>3. QED
      BY <1>7, <2>4, <3>1, <3>2
  <2>5. CASE /\ living' /\ ToldOfCreate(TRUE, Len(born'))
             /\ UNCHANGED <<now, died, owed, witnessed>> /\ owed = {}
    <3>1. life' = SeeCreature(life, now) /\ creates' = Append(creates, now)
      BY <2>5 DEF ToldOfCreate
    <3>2. life'.timed = life.timed /\ life'.revivals = life.revivals
      BY <1>1, <3>1, CreatureGives
    <3>3. QED
      BY <1>7, <2>5, <3>1, <3>2
  <2>6. CASE ToldOfCreate(FALSE, Len(born))
    <3>1. life' = SeeCorpse(life, now) /\ creates' = creates
      BY <2>6 DEF ToldOfCreate
    <3>2. life'.timed = life.timed /\ life'.revivals = life.revivals
      BY <1>1, <3>1, CorpseGives
    <3>3. QED
      BY <3>1, <3>2
  <2>7. QED
    BY <1>1, <2>1, <2>2, <2>3, <2>4, <2>5, <2>6, Messages
<1>9. \A s \in SignsOfLife' : OfItsLife(s)'
  <2>1. SUFFICES ASSUME NEW s \in Range(creates') \union Range(life'.revivals)
                 PROVE  OfItsLife(s)'
    BY DEF SignsOfLife
  <2>2. CASE s \in Range(creates) \union Range(life.revivals)
    BY <1>2, <1>3, <2>2
  <2>3. CASE s = now /\ living' /\ UNCHANGED <<now, died>>
    <3>1. OfItsLife(now)'
      BY <1>4, <2>3
    <3>2. QED
      BY <2>3, <3>1 DEF OfItsLife
  <2>4. QED
    BY <1>8, <2>2, <2>3
<1>10. \A t \in DatedDeaths' : OfADeath(t)'
  BY <1>2, <1>5, <1>6, <1>8 DEF DatedDeaths
<1>11. QED
  BY <1>9, <1>10 DEF Signs, OfItsLife, OfADeath

-----------------------------------------------------------------------------
(* Its lives, as the stats rule tells them apart. *)

\* What comparing a CREATE's value does.
LEMMA ComparedGives ==
  ASSUME NEW st \in AllStats, NEW v \in Nat, NEW corpse \in BOOLEAN
  PROVE  LET r == Compared(st, v, corpse)
             no == st.lifeNo
         IN  /\ r \in AllStats /\ r.lifeNo = no /\ r.dead = st.dead
             /\ IF no \in DOMAIN st.firsts
                THEN /\ r.firsts = st.firsts
                     /\ \A p \in r.disagreed :
                          \/ p \in st.disagreed
                          \/ p = <<st.firsts[no], v, corpse>> /\ st.firsts[no] # v
                ELSE /\ r.disagreed = st.disagreed
                     /\ DOMAIN r.firsts = DOMAIN st.firsts \union {no} /\ r.firsts[no] = v
                     /\ \A m \in DOMAIN st.firsts : r.firsts[m] = st.firsts[m]
<1> DEFINE F == st.firsts
           r == Compared(st, v, corpse)
           no == st.lifeNo
<1>1. /\ no \in Nat /\ st.dead \in BOOLEAN
      /\ st.disagreed \in SUBSET (Nat \X Nat \X BOOLEAN)
      /\ F \in UNION {[S -> Nat] : S \in SUBSET Nat}
  BY DEF AllStats
<1>2. PICK S \in SUBSET Nat : F \in [S -> Nat]
  BY <1>1
<1>3. CASE no \in DOMAIN F
  <2>1. F[no] \in Nat
    BY <1>2, <1>3
  <2>2. <<F[no], v, corpse>> \in Nat \X Nat \X BOOLEAN
    BY <2>1
  <2>3. CASE v = F[no]
    <3>1. r = st
      BY <1>3, <2>3 DEF Compared
    <3>2. QED
      BY <1>3, <3>1
  <2>4. CASE v # F[no]
    <3>1. r = [st EXCEPT !.disagreed = @ \union {<<F[no], v, corpse>>}]
      BY <1>3, <2>4 DEF Compared
    <3>2. st.disagreed \union {<<F[no], v, corpse>>} \in SUBSET (Nat \X Nat \X BOOLEAN)
      BY <1>1, <2>2
    <3>3. /\ r.disagreed = st.disagreed \union {<<F[no], v, corpse>>}
          /\ r.lifeNo = no /\ r.dead = st.dead /\ r.firsts = F
      BY <3>1 DEF AllStats
    <3>4. r \in AllStats
      BY <3>1, <3>2 DEF AllStats
    <3>5. QED
      BY <1>3, <2>4, <3>3, <3>4
  <2>5. QED
    BY <2>3, <2>4
<1>4. CASE no \notin DOMAIN F
  <2>1. PICK G : G = [m \in DOMAIN F \union {no} |-> IF m = no THEN v ELSE F[m]]
    OBVIOUS
  <2>2. r = [st EXCEPT !.firsts = G]
    BY <1>4, <2>1 DEF Compared
  <2>3. /\ DOMAIN G = DOMAIN F \union {no} /\ G[no] = v
        /\ \A m \in DOMAIN F : G[m] = F[m]
    BY <1>4, <2>1
  <2>4. G \in [S \union {no} -> Nat] /\ S \union {no} \in SUBSET Nat
    BY <1>1, <1>2, <2>1
  <2>5. G \in UNION {[Z -> Nat] : Z \in SUBSET Nat}
    BY <2>4
  <2>6. /\ r.firsts = G /\ r.lifeNo = no /\ r.dead = st.dead /\ r.disagreed = st.disagreed
        /\ r \in AllStats
    BY <2>2, <2>5 DEF AllStats
  <2>7. QED
    BY <1>4, <2>3, <2>6
<1>5. QED
  BY <1>3, <1>4

\* A CREATE of it standing, after a death its record has, starts the next life; of
\* that death, no life has its number yet.
LEMMA StandingCompared ==
  ASSUME NEW st, NEW b \in Nat, LivesIn(st, b, b)
  PROVE  LivesIn(Compared(InItsLife(st, FALSE), b, FALSE), b, b)
<1> DEFINE no == IF st.dead THEN st.lifeNo + 1 ELSE st.lifeNo
           F == st.firsts
           in == InItsLife(st, FALSE)
           r == Compared(in, b, FALSE)
<1>1. /\ st \in AllStats
      /\ st.lifeNo <= b /\ (st.dead => st.lifeNo < b)
      /\ \A m \in DOMAIN F : m <= st.lifeNo /\ F[m] <= b /\ (st.dead => F[m] < b)
      /\ DOMAIN F = {} \/ st.lifeNo \in DOMAIN F
      /\ \A m, n \in DOMAIN F : m < n => F[m] < F[n]
      /\ \A p \in st.disagreed : p[2] <= b
  BY DEF LivesIn
<1>2. st.lifeNo \in Nat /\ st.dead \in BOOLEAN
  BY <1>1 DEF AllStats
<1>3. PICK S \in SUBSET Nat : F \in [S -> Nat]
  BY <1>1 DEF AllStats
<1>4. DOMAIN F \subseteq Nat /\ \A m \in DOMAIN F : F[m] \in Nat
  BY <1>3
<1>5. /\ in \in AllStats /\ in.lifeNo = no /\ in.dead = FALSE
      /\ in.firsts = F /\ in.disagreed = st.disagreed
      /\ no \in Nat /\ no <= b
  <2>1. CASE st.dead
    <3>1. in = [st EXCEPT !.dead = FALSE, !.lifeNo = st.lifeNo + 1] /\ no = st.lifeNo + 1
      BY <2>1 DEF InItsLife, StartsLife
    <3>2. no \in Nat /\ no <= b
      BY <1>1, <1>2, <2>1, <3>1
    <3>3. QED
      BY <1>1, <3>1, <3>2 DEF AllStats
  <2>2. CASE ~st.dead
    <3>1. in = st /\ no = st.lifeNo /\ st.dead = FALSE
      BY <1>2, <2>2 DEF InItsLife, StartsLife
    <3>2. QED
      BY <1>1, <1>2, <3>1
  <2>3. QED
    BY <2>1, <2>2
<1> HIDE DEF in
<1>6. /\ r \in AllStats
      /\ r.lifeNo = no /\ r.dead = FALSE
      /\ IF no \in DOMAIN F
         THEN /\ r.firsts = F
              /\ \A p \in r.disagreed :
                   p \in st.disagreed \/ (p = <<F[no], b, FALSE>> /\ F[no] # b)
         ELSE /\ r.disagreed = st.disagreed
              /\ DOMAIN r.firsts = DOMAIN F \union {no} /\ r.firsts[no] = b
              /\ \A m \in DOMAIN F : r.firsts[m] = F[m]
  <2>1. in \in AllStats /\ in.lifeNo = no /\ in.firsts = F
    BY <1>5
  <2>2. r \in AllStats /\ r.lifeNo = in.lifeNo /\ r.dead = in.dead
    BY <2>1, ComparedGives
  <2>3. ASSUME in.lifeNo \in DOMAIN in.firsts
        PROVE  /\ r.firsts = in.firsts
               /\ \A p \in r.disagreed :
                    \/ p \in in.disagreed
                    \/ (p = <<in.firsts[in.lifeNo], b, FALSE>> /\ in.firsts[in.lifeNo] # b)
    <3>1. r.firsts = in.firsts
      BY <2>1, <2>3, ComparedGives
    <3>2. ASSUME NEW p \in r.disagreed
          PROVE  \/ p \in in.disagreed
                 \/ (p = <<in.firsts[in.lifeNo], b, FALSE>> /\ in.firsts[in.lifeNo] # b)
      BY <2>1, <2>3, <3>2, ComparedGives
    <3>3. QED
      BY <3>1, <3>2
  <2>4. ASSUME in.lifeNo \notin DOMAIN in.firsts
        PROVE  /\ r.disagreed = in.disagreed
               /\ DOMAIN r.firsts = DOMAIN in.firsts \union {in.lifeNo}
               /\ r.firsts[in.lifeNo] = b
               /\ \A m \in DOMAIN in.firsts : r.firsts[m] = in.firsts[m]
    BY <2>1, <2>4, ComparedGives
  <2> HIDE DEF r
  <2>5. QED
    BY <1>5, <2>1, <2>2, <2>3, <2>4
<1> HIDE DEF r
<1>7. \A p \in r.disagreed : p[2] <= b
  <2>1. ASSUME NEW p \in r.disagreed PROVE p \in st.disagreed \/ p[2] = b
    <3>1. \A q : q = <<F[no], b, FALSE>> => q[2] = b
      OBVIOUS
    <3>2. QED
      BY <1>6, <2>1, <3>1
  <2>2. b <= b
    OBVIOUS
  <2>3. QED
    BY <1>1, <2>1, <2>2
<1>8. CASE no \in DOMAIN F
  <2>1. \A m \in DOMAIN F : m <= no
    BY <1>1, <1>2, <1>4
  <2>2. QED
    BY <1>1, <1>5, <1>6, <1>7, <1>8, <2>1 DEF LivesIn, r, in
<1>9. CASE no \notin DOMAIN F
  <2>1. \A m \in DOMAIN F : m < no /\ F[m] < b
    <3>1. CASE st.dead
      BY <1>1, <1>2, <1>4, <3>1
    <3>2. CASE ~st.dead
      BY <1>1, <1>9, <3>2
    <3>3. QED
      BY <3>1, <3>2
  <2>2. DOMAIN r.firsts = DOMAIN F \union {no} /\ r.firsts[no] = b
        /\ \A m \in DOMAIN F : r.firsts[m] = F[m]
    BY <1>6, <1>9
  <2> HIDE DEF no
  <2>3. \A m \in DOMAIN r.firsts : m <= no /\ r.firsts[m] <= b
    <3>1. \A m \in DOMAIN F : m <= no /\ r.firsts[m] <= b
      BY <1>1, <1>4, <1>5, <2>1, <2>2
    <3>2. QED
      BY <1>5, <2>2, <3>1
  <2>4. ASSUME NEW m \in DOMAIN r.firsts, NEW n \in DOMAIN r.firsts, m < n
        PROVE  r.firsts[m] < r.firsts[n]
    <3>1. m \in DOMAIN F
      <4>1. m # no
        <5>1. n <= no /\ n \in Nat
          BY <1>4, <1>5, <2>2, <2>3
        <5>2. QED
          BY <1>5, <2>4, <5>1
      <4>2. QED
        BY <2>2, <4>1
    <3>2. CASE n \in DOMAIN F
      BY <1>1, <2>2, <2>4, <3>1, <3>2
    <3>3. CASE n = no
      BY <2>1, <2>2, <3>1, <3>3
    <3>4. QED
      BY <2>2, <3>2, <3>3
  <2>5. QED
    BY <1>5, <1>6, <1>7, <2>2, <2>3, <2>4 DEF LivesIn, r, in
<1>10. QED
  BY <1>8, <1>9

\* A corpse starts none, and is compared with the life it died in.
LEMMA CorpseCompared ==
  ASSUME NEW st, NEW b \in Nat, LivesIn(st, b, b + 1)
  PROVE  LivesIn(Compared(InItsLife(st, TRUE), b, TRUE), b, b + 1)
<1> DEFINE F == st.firsts
           in == InItsLife(st, TRUE)
           r == Compared(in, b, TRUE)
           no == st.lifeNo
<1>1. /\ st \in AllStats
      /\ no <= b
      /\ \A m \in DOMAIN F : m <= no /\ F[m] <= b
      /\ DOMAIN F = {} \/ no \in DOMAIN F
      /\ \A m, n \in DOMAIN F : m < n => F[m] < F[n]
      /\ \A p \in st.disagreed : p[2] <= b
  BY DEF LivesIn
<1>2. no \in Nat /\ st.dead \in BOOLEAN /\ in = st
  BY <1>1 DEF AllStats, InItsLife, StartsLife
<1>3. PICK S \in SUBSET Nat : F \in [S -> Nat]
  BY <1>1 DEF AllStats
<1>4. \A m \in DOMAIN F : F[m] \in Nat /\ m \in Nat
  BY <1>3
<1> HIDE DEF in
<1>5. /\ r \in AllStats
      /\ r.lifeNo = no /\ r.dead = st.dead
      /\ IF no \in DOMAIN F
         THEN /\ r.firsts = F
              /\ \A p \in r.disagreed :
                   p \in st.disagreed \/ (p = <<F[no], b, TRUE>> /\ F[no] # b)
         ELSE /\ r.disagreed = st.disagreed
              /\ DOMAIN r.firsts = DOMAIN F \union {no} /\ r.firsts[no] = b
              /\ \A m \in DOMAIN F : r.firsts[m] = F[m]
  <2>1. in \in AllStats /\ in.lifeNo = no /\ in.firsts = F
    BY <1>1, <1>2
  <2>2. r \in AllStats /\ r.lifeNo = in.lifeNo /\ r.dead = in.dead
    BY <2>1, ComparedGives
  <2>3. ASSUME in.lifeNo \in DOMAIN in.firsts
        PROVE  /\ r.firsts = in.firsts
               /\ \A p \in r.disagreed :
                    \/ p \in in.disagreed
                    \/ (p = <<in.firsts[in.lifeNo], b, TRUE>> /\ in.firsts[in.lifeNo] # b)
    <3>1. r.firsts = in.firsts
      BY <2>1, <2>3, ComparedGives
    <3>2. ASSUME NEW p \in r.disagreed
          PROVE  \/ p \in in.disagreed
                 \/ (p = <<in.firsts[in.lifeNo], b, TRUE>> /\ in.firsts[in.lifeNo] # b)
      BY <2>1, <2>3, <3>2, ComparedGives
    <3>3. QED
      BY <3>1, <3>2
  <2>4. ASSUME in.lifeNo \notin DOMAIN in.firsts
        PROVE  /\ r.disagreed = in.disagreed
               /\ DOMAIN r.firsts = DOMAIN in.firsts \union {in.lifeNo}
               /\ r.firsts[in.lifeNo] = b
               /\ \A m \in DOMAIN in.firsts : r.firsts[m] = in.firsts[m]
    BY <2>1, <2>4, ComparedGives
  <2> HIDE DEF r
  <2>5. QED
    BY <1>1, <1>2, <2>1, <2>2, <2>3, <2>4
<1> HIDE DEF r
<1>6. \A p \in r.disagreed : p[2] <= b
  <2>1. ASSUME NEW p \in r.disagreed PROVE p \in st.disagreed \/ p[2] = b
    <3>1. \A q : q = <<F[no], b, TRUE>> => q[2] = b
      OBVIOUS
    <3>2. QED
      BY <1>5, <2>1, <3>1
  <2>2. b <= b
    OBVIOUS
  <2>3. QED
    BY <1>1, <2>1, <2>2
<1>7. no < b + 1 /\ \A m \in DOMAIN F : F[m] < b + 1
  BY <1>1, <1>2, <1>4
<1>8. CASE no \in DOMAIN F
  BY <1>1, <1>5, <1>6, <1>7, <1>8 DEF LivesIn, r, in
<1>9. CASE no \notin DOMAIN F
  <2>1. /\ DOMAIN r.firsts = {no} /\ r.firsts[no] = b
    BY <1>1, <1>5, <1>9
  <2>2. b < b + 1 /\ b <= b /\ no <= no /\ ~(no < no)
    BY <1>2
  <2> HIDE DEF no
  <2>3. /\ \A m \in DOMAIN r.firsts :
             m <= no /\ r.firsts[m] <= b /\ r.firsts[m] < b + 1
        /\ \A m, n \in DOMAIN r.firsts : m < n => r.firsts[m] < r.firsts[n]
        /\ no \in DOMAIN r.firsts
    BY <2>1, <2>2
  <2>4. QED
    BY <1>1, <1>5, <1>6, <1>7, <2>3 DEF LivesIn, r, in
<1>10. QED
  BY <1>8, <1>9

LEMMA LivesGoOn ==
  ASSUME NEW st, NEW b \in Nat, NEW d \in Nat, LivesIn(st, b, d),
         NEW c \in Nat, NEW e \in Nat, b <= c, d <= e
  PROVE  LivesIn(st, c, e)
<1>1. /\ st \in AllStats /\ st.lifeNo \in Nat /\ st.disagreed \subseteq Nat \X Nat \X BOOLEAN
      /\ st.firsts \in UNION {[S -> Nat] : S \in SUBSET Nat}
  BY DEF LivesIn, AllStats
<1>2. PICK S \in SUBSET Nat : st.firsts \in [S -> Nat]
  BY <1>1
<1>3. \A m \in DOMAIN st.firsts : st.firsts[m] \in Nat
  BY <1>2
<1>4. \A p \in st.disagreed : p[2] \in Nat
  BY <1>1
<1>5. st.lifeNo <= c /\ (st.dead => st.lifeNo < e)
  BY <1>1 DEF LivesIn
<1>6. \A m \in DOMAIN st.firsts :
        m <= st.lifeNo /\ st.firsts[m] <= c /\ (st.dead => st.firsts[m] < e)
  BY <1>3 DEF LivesIn
<1>7. \A p \in st.disagreed : p[2] <= c
  BY <1>4 DEF LivesIn
<1>8. QED
  BY <1>1, <1>5, <1>6, <1>7 DEF LivesIn

\* A death of its record's: it lies dead, as it has not yet since it was born.
LEMMA WitnessedLives ==
  ASSUME NEW st, NEW b \in Nat, LivesIn(st, b, b + 1), NEW before, NEW after
  PROVE  LivesIn(Witnessed(st, before, after), b, b + 1)
<1>1. /\ st \in AllStats /\ st.lifeNo \in Nat
      /\ st.firsts \in UNION {[S -> Nat] : S \in SUBSET Nat}
  BY DEF LivesIn, AllStats
<1>2. PICK S \in SUBSET Nat : st.firsts \in [S -> Nat]
  BY <1>1
<1>3. \A m \in DOMAIN st.firsts : st.firsts[m] \in Nat
  BY <1>2
<1>4. CASE Witnessed(st, before, after) = st
  BY <1>4
<1>5. CASE Witnessed(st, before, after) = [st EXCEPT !.dead = TRUE]
  <2>1. PICK r : r = [st EXCEPT !.dead = TRUE]
    OBVIOUS
  <2>2. /\ r \in AllStats /\ r.lifeNo = st.lifeNo /\ r.firsts = st.firsts
        /\ r.disagreed = st.disagreed
    BY <1>1, <2>1 DEF AllStats
  <2>3. st.lifeNo < b + 1 /\ \A m \in DOMAIN st.firsts : st.firsts[m] < b + 1
    BY <1>1, <1>3 DEF LivesIn
  <2>4. LivesIn(r, b, b + 1)
    BY <2>2, <2>3 DEF LivesIn
  <2>5. QED
    BY <1>5, <2>1, <2>4
<1>6. QED
  BY <1>4, <1>5 DEF Witnessed

LEMMA LivesKept ==
  ASSUME TypeOK, History, LivesIn(stats, Len(born), Len(died)), [Next]_vars
  PROVE  LivesIn(stats, Len(born), Len(died))'
<1> DEFINE b == Len(born)
           d == Len(died)
<1>1. b \in Nat /\ d \in Nat /\ (living => d = b) /\ (~living => d = b + 1) /\ living \in BOOLEAN
  BY LongHistory
<1>2. b' \in Nat /\ d' \in Nat /\ (living' => d' = b')
  <2>1. /\ living' \in BOOLEAN /\ died' \in Seq(Times) /\ born' \in Seq(Times)
        /\ Len(died') = Len(born') + (IF living' THEN 0 ELSE 1)
    BY WorldIsTyped
  <2>2. Len(born') \in Nat /\ Len(died') \in Nat
    BY <2>1
  <2>3. living' => Len(died') = Len(born')
    BY <2>1, <2>2
  <2>4. QED
    BY <2>2, <2>3
<1>3. b <= b' /\ d <= d'
  <2>1. CASE UNCHANGED <<living, died, born, witnessed>> /\ owed' \subseteq owed
    BY <1>1, <2>1
  <2>2. ASSUME NEW tapped \in BOOLEAN, Die(tapped) PROVE b <= b' /\ d <= d'
    <3>1. born' = born /\ d' = d + 1
      BY <2>2, DyingGrows
    <3>2. QED
      BY <1>1, <3>1
  <2>3. CASE Respawn
    <3>1. died' = died /\ b' = b + 1
      BY <2>3, RespawningGrows
    <3>2. QED
      BY <1>1, <3>1
  <2>4. QED
    BY <2>1, <2>2, <2>3, Turns, Zenon
<1>4. LivesIn(stats, b', d')
  <2>1. \A c, e \in Nat : b <= c /\ d <= e => LivesIn(stats, c, e)
    BY <1>1, LivesGoOn
  <2>2. QED
    BY <1>2, <1>3, <2>1
<1>5. /\ life \in Lives(Times) /\ now \in Times /\ living \in BOOLEAN
  BY RecordIsTyped
<1>6. CASE UNCHANGED <<life, creates, stats>>
  BY <1>4, <1>6
<1>7. CASE ~living /\ stats' = Witnessed(stats, life, life') /\ UNCHANGED <<born, died>>
  <2>1. LivesIn(stats, b, b + 1)
    BY <1>1, <1>7
  <2>2. \A x : LivesIn(Witnessed(stats, life, x), b, b + 1)
    BY <1>1, <2>1, WitnessedLives
  <2>3. QED
    BY <1>1, <1>7, <2>2
<1>8. CASE owed # {} => ~living
  <2>1. CASE \/ "health" \in owed /\ Told(SeeHealthZero) /\ UNCHANGED <<died, born>>
             \/ "party_kill" \in owed /\ Told(SeePartyKill) /\ UNCHANGED <<died, born>>
    BY <1>7, <1>8, <2>1 DEF Told
  <2>2. CASE Told(SeeHealth)
    <3>1. life'.deaths = life.deaths
      BY <1>5, <2>2, HealthGives DEF Told
    <3>2. stats' = stats
      <4>1. Len(life.deaths) \in Nat
        BY RecordIsTyped
      <4>2. QED
        BY <2>2, <3>1, <4>1 DEF Told, Witnessed
    <3>3. QED
      BY <1>4, <3>2
  <2>3. CASE living' /\ ToldOfCreate(TRUE, Len(born'))
    <3>1. life'.deaths = life.deaths
      BY <1>5, <2>3, CreatureGives DEF ToldOfCreate
    <3>2. stats' = Compared(InItsLife(stats, FALSE), Len(born'), FALSE)
      <4>1. Len(life.deaths) \in Nat
        BY RecordIsTyped
      <4>2. stats' = SeenCreated(stats, Len(born'), FALSE, life, life')
        BY <2>3 DEF ToldOfCreate
      <4>3. ~(Len(life'.deaths) > Len(life.deaths))
        BY <3>1, <4>1
      <4>4. QED
        BY <4>2, <4>3, Zenon DEF SeenCreated, Witnessed
    <3>3. \A c \in Nat : LivesIn(stats, c, c)
            => LivesIn(Compared(InItsLife(stats, FALSE), c, FALSE), c, c)
      BY StandingCompared
    <3>4. LivesIn(stats', b', d')
      BY <1>2, <1>4, <2>3, <3>2, <3>3
    <3>5. QED
      BY <3>4
  <2>4. CASE ~living /\ ToldOfCreate(FALSE, Len(born)) /\ UNCHANGED <<died, born>>
    <3>1. stats' = Witnessed(Compared(InItsLife(stats, TRUE), b, TRUE), life, life')
      BY <2>4 DEF ToldOfCreate, SeenCreated
    <3>2. LivesIn(Compared(InItsLife(stats, TRUE), b, TRUE), b, b + 1)
      BY <1>1, <2>4, CorpseCompared
    <3>3. \A x : LivesIn(Witnessed(Compared(InItsLife(stats, TRUE), b, TRUE), life, x), b, b + 1)
      BY <1>1, <3>2, WitnessedLives
    <3>4. QED
      BY <1>1, <2>4, <3>1, <3>3
  <2>5. QED
    BY <1>5, <1>6, <2>1, <2>2, <2>3, <2>4, Messages
<1>9. QED
  BY <1>8 DEF History

LEMMA MapsKept ==
  ASSUME TypeOK, OnItsMap, [Next]_vars
  PROVE  OnItsMap'
<1>1. /\ inSight => place = Home
      /\ session \in {place, Unknown} /\ spawnMap \in {Home, Unknown}
  BY DEF OnItsMap
<1>2. CASE Tick \/ GoOutOfSight \/ UNCHANGED vars
  BY <1>1, <1>2 DEF Tick, GoOutOfSight, OnItsMap, vars, world, noted, maps
<1>3. CASE Transfer
  BY <1>1, <1>3 DEF Transfer, OnItsMap, world, noted
<1>4. ASSUME NEW tapped \in BOOLEAN, Die(tapped) PROVE OnItsMap'
  BY <1>1, <1>4 DEF Die, OnItsMap, noted, maps
<1>5. ASSUME NEW w \in owed, Witness(w) PROVE OnItsMap'
  BY <1>1, <1>5 DEF Witness, Told, Lost, OnItsMap, noted, maps
<1>6. CASE RespawnUnseen
  BY <1>1, <1>6 DEF RespawnUnseen, Respawn, OnItsMap, noted, maps
<1>7. CASE Hurt
  BY <1>1, <1>7 DEF Hurt, Told, OnItsMap, world, maps
<1>8. MapSeen \in {session, spawnMap}
  BY DEF MapSeen
<1>9. CASE RespawnInSight
  <2>1. inSight' = inSight /\ inSight /\ UNCHANGED maps /\ spawnMap' \in {spawnMap, MapSeen}
    BY <1>9 DEF RespawnInSight, Respawn, Told, ToldOfCreate, Lost, noted
  <2>2. QED
    BY <1>1, <1>8, <2>1 DEF OnItsMap, maps
<1>10. CASE ComeInSight
  <2>1. place = Home /\ UNCHANGED maps /\ spawnMap' \in {spawnMap, MapSeen}
    BY <1>10 DEF ComeInSight, ToldOfCreate, Lost, noted
  <2>2. QED
    BY <1>1, <1>8, <2>1 DEF OnItsMap, maps
<1>11. QED
  BY <1>2, <1>3, <1>4, <1>5, <1>6, <1>7, <1>9, <1>10 DEF Next

-----------------------------------------------------------------------------
(* With nothing lost, every death the player was shown. *)

LEMMA AllArrives ==
  ASSUME [Next]_vars, living \in BOOLEAN, lossy \in BOOLEAN, ~lossy'
  PROVE  /\ ~lossy
         /\ \/ /\ UNCHANGED <<life, stats, living, died, born, owed, witnessed>>
               /\ inSight' => inSight
            \/ \E tapped \in BOOLEAN : Die(tapped)
            \/ RespawnUnseen
            \/ /\ "health" \in owed /\ owed' = owed \ {"health"} /\ Told(SeeHealthZero)
               /\ UNCHANGED <<now, living, inSight, died, born, witnessed>>
            \/ /\ "party_kill" \in owed /\ owed' = owed \ {"party_kill"} /\ Told(SeePartyKill)
               /\ UNCHANGED <<now, living, inSight, died, born, witnessed>>
            \/ living' /\ Told(SeeHealth) /\ UNCHANGED <<died, owed, witnessed>>
            \/ /\ living' /\ ToldOfCreate(TRUE, Len(born'))
               /\ UNCHANGED <<died, owed, witnessed>> /\ owed = {}
            \/ /\ ~living /\ ToldOfCreate(FALSE, Len(born)) /\ owed = {}
               /\ UNCHANGED <<living, died, born, owed, witnessed>>
<1>1. CASE Tick \/ GoOutOfSight \/ Transfer \/ UNCHANGED vars
  <2>1. UNCHANGED lossy
    BY <1>1 DEF Tick, GoOutOfSight, Transfer, vars
  <2>2. UNCHANGED <<life, stats, living, died, born, owed, witnessed>>
    BY <1>1 DEF Tick, GoOutOfSight, Transfer, noted, world, vars
  <2>3. UNCHANGED inSight \/ inSight' = FALSE
    BY <1>1 DEF Tick, GoOutOfSight, Transfer, world, vars
  <2>4. (inSight' => inSight) /\ ~lossy
    <3>1. inSight' => inSight
      BY <2>3, Zenon
    <3>2. lossy' = lossy => ~lossy
      OBVIOUS
    <3>3. QED
      BY <2>1, <3>1, <3>2
  <2>5. QED
    BY <2>2, <2>4
<1>2. ASSUME NEW tapped \in BOOLEAN, Die(tapped) PROVE UNCHANGED lossy
  BY <1>2 DEF Die
<1>3. ASSUME NEW w \in owed, Witness(w)
      PROVE  /\ ~lossy
             /\ (w = "health" /\ Told(SeeHealthZero)) \/ (w = "party_kill" /\ Told(SeePartyKill))
  BY <1>3 DEF Witness, Told, Lost
<1>4. ASSUME NEW w \in owed, Witness(w)
      PROVE  owed' = owed \ {w} /\ UNCHANGED <<now, living, inSight, died, born, witnessed>>
  BY <1>4 DEF Witness
<1>5. CASE RespawnInSight
  <2>1. /\ living' /\ owed = {} /\ UNCHANGED <<died, owed, witnessed>>
        /\ Told(SeeHealth) \/ ToldOfCreate(TRUE, Len(born'))
    BY <1>5 DEF RespawnInSight, Respawn, Lost
  <2>2. ~lossy
    BY <2>1 DEF Told, ToldOfCreate
  <2>3. QED
    BY <2>1, <2>2
<1>6. CASE RespawnUnseen
  <2>1. UNCHANGED lossy
    BY <1>6 DEF RespawnUnseen
  <2>2. QED
    BY <1>6, <2>1
<1>7. CASE ComeInSight
  <2>1. CASE living = TRUE
    BY <1>7, <2>1 DEF ComeInSight, Lost, ToldOfCreate
  <2>2. CASE living = FALSE
    BY <1>7, <2>2 DEF ComeInSight, Lost, ToldOfCreate
  <2>3. QED
    BY <2>1, <2>2
<1>8. CASE Hurt
  BY <1>8 DEF Hurt, world, Told
<1>9. QED
  BY <1>1, <1>2, <1>3, <1>4, <1>5, <1>6, <1>7, <1>8 DEF Next

LEMMA DyingCounted ==
  ASSUME TypeOK, History, NEW f, Deaths(f), Counted(f), ~lossy,
         LivesIn(stats, Len(born), Len(died)), NEW tapped \in BOOLEAN, Die(tapped)
  PROVE  Counted(f)'
<1>1. /\ living = TRUE /\ living' = FALSE
      /\ UNCHANGED <<born, life, stats, lossy, inSight>>
      /\ Len(died) = Len(born) /\ Len(died') = Len(died) + 1 /\ Len(born) \in Nat
      /\ DOMAIN died = 1 .. Len(died)
  BY DyingGrows
<1>2. /\ owed = {} /\ witnessed \subseteq DOMAIN died
      /\ ("health" \in owed' => inSight)
      /\ witnessed' = IF owed' # {} THEN witnessed \union {Len(died')} ELSE witnessed
  BY <1>1 DEF History, TypeOK, Die
<1>3. \A n \in DOMAIN life.deaths : f[n] # Len(died')
  <2>1. \A n \in DOMAIN life.deaths : f[n] \in 1 .. Len(died)
    BY <1>1 DEF Deaths
  <2>2. QED
    BY <1>1, <2>1
<1>4. ~Pending(f) /\ (Pending(f)' <=> owed' # {})
  BY <1>1, <1>2, <1>3 DEF Pending
<1>5. /\ Cardinality(witnessed) = Len(life.timed)
      /\ (inSight => life.alive)
      /\ stats.lifeNo \in DOMAIN stats.firsts =>
           \A k \in witnessed : stats.firsts[stats.lifeNo] < k => stats.dead
      /\ \A p \in stats.disagreed : p[3] \/ witnessed \intersect p[1] + 1 .. p[2] = {}
  BY <1>1, <1>4 DEF Counted
<1>6. Cardinality(witnessed') = Len(life.timed) + (IF owed' # {} THEN 1 ELSE 0)
  <2>1. IsFiniteSet(witnessed)
    <3>1. IsFiniteSet(1 .. Len(died))
      BY <1>1, FS_Interval
    <3>2. QED
      BY <1>1, <1>2, <3>1, FS_Subset
  <2>2. Len(died') \notin witnessed
    BY <1>1, <1>2
  <2>3. Cardinality(witnessed \union {Len(died')}) = Cardinality(witnessed) + 1
    BY <2>1, <2>2, FS_AddElement
  <2>4. Len(life.timed) \in Nat
    BY RecordIsTyped
  <2>5. CASE owed' # {}
    BY <1>2, <1>5, <2>3, <2>5
  <2>6. CASE owed' = {}
    BY <1>2, <1>5, <2>4, <2>6
  <2>7. QED
    BY <2>5, <2>6
<1>7. Len(died') \in witnessed' => owed' # {}
  <2>1. Len(died') \notin witnessed
    BY <1>1, <1>2
  <2>2. QED
    BY <1>2, <2>1
<1>8. stats.lifeNo \in DOMAIN stats.firsts => \A k \in witnessed' :
         stats.firsts[stats.lifeNo] < k => stats.dead \/ (k = Len(died') /\ owed' # {})
  BY <1>2, <1>5
<1>9. \A p \in stats.disagreed : p[3] \/ witnessed' \intersect p[1] + 1 .. p[2] = {}
  <2>1. ASSUME NEW p \in stats.disagreed, ~p[3]
        PROVE  witnessed' \intersect p[1] + 1 .. p[2] = {}
    <3>1. p \in Nat \X Nat \X BOOLEAN /\ p[2] <= Len(born)
      BY DEF LivesIn, AllStats
    <3>2. Len(died') \notin p[1] + 1 .. p[2]
      BY <1>1, <3>1
    <3>3. witnessed \intersect p[1] + 1 .. p[2] = {}
      BY <1>5, <2>1
    <3>4. QED
      BY <1>2, <3>2, <3>3
  <2>2. QED
    BY <2>1
<1>10. QED
  <2>1. Pending(f)' /\ "health" \in owed' => life'.alive
    BY <1>1, <1>2, <1>5
  <2>2. ~living' /\ Len(died') \in witnessed' /\ ~Pending(f)' => stats'.dead
    BY <1>4, <1>7
  <2>3. living' /\ inSight' => life'.alive
    BY <1>1
  <2>4. QED
    BY <1>1, <1>4, <1>6, <1>8, <1>9, <2>1, <2>2, <2>3 DEF Counted

\* A witness arrives: the first of a death makes it a death on record, with its
\* time, the second dates it or is already known.
LEMMA WitnessCounted ==
  ASSUME TypeOK, History, NEW f, Deaths(f), Counted(f), ~lossy, ~lossy', owed # {},
         owed' \subseteq owed, UNCHANGED <<living, inSight, died, born, witnessed>>,
         NEW h, life' \in Lives(Times),
         stats' = Witnessed(stats, life, life'),
         \/ /\ Len(life'.deaths) = Len(life.deaths) /\ h = f /\ ~Pending(f)
            /\ Len(life'.timed) = Len(life.timed)
         \/ /\ Len(life'.deaths) = Len(life.deaths) + 1 /\ Pending(f)
            /\ Len(life'.timed) = Len(life.timed) + 1
            /\ \E n \in DOMAIN life'.deaths : h[n] = Len(died'),
         stats \in AllStats
  PROVE  Counted(h)'
<1>1. ~living
  BY DEF History
<1>2. /\ Cardinality(witnessed) = Len(life.timed) + (IF Pending(f) THEN 1 ELSE 0)
      /\ Len(died) \in witnessed /\ ~Pending(f) => stats.dead
      /\ stats.lifeNo \in DOMAIN stats.firsts => \A k \in witnessed :
           stats.firsts[stats.lifeNo] < k => stats.dead \/ (k = Len(died) /\ Pending(f))
      /\ \A p \in stats.disagreed : p[3] \/ witnessed \intersect p[1] + 1 .. p[2] = {}
  BY <1>1 DEF Counted
<1>3. /\ life.deaths \in Seq(Times) /\ Len(life.deaths) \in Nat /\ Len(life.timed) \in Nat
      /\ life'.deaths \in Seq(Times)
  <2>1. life.deaths \in Seq(Times) /\ life.timed \in Seq(Times)
    BY RecordIsTyped
  <2>2. life'.deaths \in Seq(Times)
    BY DEF Lives
  <2>3. QED
    BY <2>1, <2>2
<1>4. ~Pending(h)'
  <2>1. CASE Len(life'.deaths) = Len(life.deaths) /\ h = f /\ ~Pending(f)
    <3>1. PICK n \in DOMAIN life.deaths : f[n] = Len(died)
      BY <2>1 DEF Pending
    <3>2. n \in DOMAIN life'.deaths
      BY <1>3, <2>1
    <3>3. QED
      BY <2>1, <3>1, <3>2 DEF Pending
  <2>2. CASE \E n \in DOMAIN life'.deaths : h[n] = Len(died')
    BY <2>2 DEF Pending
  <2>3. QED
    BY <2>1, <2>2
<1>5. CASE /\ Len(life'.deaths) = Len(life.deaths) /\ ~Pending(f)
           /\ Len(life'.timed) = Len(life.timed)
  <2>1. stats' = stats
    <3>1. ~(Len(life'.deaths) > Len(life.deaths))
      BY <1>3, <1>5
    <3>2. QED
      BY <3>1, Zenon DEF Witnessed
  <2>2. Cardinality(witnessed') = Len(life'.timed)
    BY <1>2, <1>3, <1>5
  <2>3. stats'.lifeNo \in DOMAIN stats'.firsts => \A k \in witnessed' :
           stats'.firsts[stats'.lifeNo] < k => stats'.dead
    BY <1>2, <1>5, <2>1
  <2>4. /\ Len(died') \in witnessed' => stats'.dead
        /\ \A p \in stats'.disagreed : p[3] \/ witnessed' \intersect p[1] + 1 .. p[2] = {}
    BY <1>2, <1>5, <2>1
  <2>5. QED
    <3>1. ~living' /\ ~Pending(h)'
      BY <1>1, <1>4
    <3>2. Len(life'.timed) + (IF Pending(h)' THEN 1 ELSE 0) = Len(life'.timed)
      BY <1>3, <1>5, <3>1
    <3>3. QED
      BY <2>2, <2>3, <2>4, <3>1, <3>2 DEF Counted
<1>6. CASE /\ Len(life'.deaths) = Len(life.deaths) + 1 /\ Pending(f)
           /\ Len(life'.timed) = Len(life.timed) + 1
  <2>1. stats' = [stats EXCEPT !.dead = TRUE]
    <3>1. Len(life'.deaths) > Len(life.deaths)
      BY <1>3, <1>6
    <3>2. QED
      BY <3>1, Zenon DEF Witnessed
  <2>2. stats'.dead = TRUE /\ stats'.disagreed = stats.disagreed
    BY <2>1 DEF AllStats
  <2>3. Cardinality(witnessed') = Len(life'.timed)
    BY <1>2, <1>3, <1>6
  <2>4. QED
    <3>1. ~living' /\ ~Pending(h)'
      BY <1>1, <1>4
    <3>2. Len(life'.timed) + (IF Pending(h)' THEN 1 ELSE 0) = Len(life'.timed)
      BY <1>3, <1>6, <3>1
    <3>3. QED
      BY <1>2, <2>2, <2>3, <3>1, <3>2 DEF Counted
<1>7. QED
  BY <1>5, <1>6

\* No death is awaited, and none is recorded but a corpse's.
LEMMA CalmCounted ==
  ASSUME TypeOK, History, NEW f, Counted(f), ~lossy,
         owed = {}, owed' = {}, UNCHANGED <<died, witnessed>>, NEW h,
         life'.timed = life.timed,
         living' /\ inSight' => life'.alive,
         ~living' => ~living /\ (stats.dead => stats'.dead),
         stats'.lifeNo \in DOMAIN stats'.firsts => \A k \in witnessed :
           stats'.firsts[stats'.lifeNo] < k => stats'.dead,
         \A p \in stats'.disagreed : p[3] \/ witnessed \intersect p[1] + 1 .. p[2] = {}
  PROVE  Counted(h)'
<1>1. ~Pending(f) /\ ~Pending(h)'
  BY DEF Pending
<1>2. /\ Cardinality(witnessed) = Len(life.timed) + (IF Pending(f) THEN 1 ELSE 0)
      /\ ~living /\ Len(died) \in witnessed => stats.dead
  BY <1>1 DEF Counted
<1>3. Len(life.timed) + (IF Pending(f) THEN 1 ELSE 0)
        = Len(life'.timed) + (IF Pending(h)' THEN 1 ELSE 0)
  BY <1>1
<1>4. QED
  BY <1>1, <1>2, <1>3 DEF Counted

\* A CREATE of it standing is compared with none before a death, unless a corpse's.
LEMMA StandingCounted ==
  ASSUME TypeOK, History, LivesIn(stats, Len(born), Len(died)), [Next]_vars,
         NEW f, Counted(f), ~lossy, NEW h,
         living', ToldOfCreate(TRUE, Len(born')), UNCHANGED <<died, owed, witnessed>>,
         owed = {}
  PROVE  Counted(h)'
<1> DEFINE F == stats.firsts
           st == InItsLife(stats, FALSE)
           no == st.lifeNo
<1>1. /\ life' = SeeCreature(life, now)
      /\ stats' = SeenCreated(stats, Len(born'), FALSE, life, life')
  BY DEF ToldOfCreate
<1>2. /\ life'.alive = TRUE /\ life'.timed = life.timed /\ life'.deaths = life.deaths
      /\ Len(life.deaths) \in Nat
  <2>1. life \in Lives(Times) /\ now \in Times /\ Len(life.deaths) \in Nat
    BY RecordIsTyped
  <2>2. QED
    BY <1>1, <2>1, CreatureGives
<1>3. ~(Len(life'.deaths) > Len(life.deaths))
  BY <1>2
<1>4. stats' = Compared(st, Len(born'), FALSE)
  BY <1>1, <1>3, Zenon DEF SeenCreated, Witnessed
<1>5. Len(born') = Len(died) /\ Len(died) \in Nat /\ witnessed \subseteq 1 .. Len(died)
  <2>1. /\ born' \in Seq(Times) /\ died' \in Seq(Times) /\ witnessed' \subseteq DOMAIN died'
        /\ Len(died') = Len(born') + (IF living' THEN 0 ELSE 1)
    BY WorldIsTyped
  <2>2. Len(born') \in Nat /\ Len(died') \in Nat /\ DOMAIN died' = 1 .. Len(died')
    BY <2>1
  <2>3. Len(died') = Len(born')
    BY <2>1, <2>2
  <2>4. QED
    BY <2>1, <2>2, <2>3
<1>6. /\ stats \in AllStats /\ stats.lifeNo \in Nat /\ stats.dead \in BOOLEAN
      /\ \A m \in DOMAIN F : m <= stats.lifeNo
      /\ F \in UNION {[S -> Nat] : S \in SUBSET Nat}
  BY DEF LivesIn, AllStats
<1>7. \A m \in DOMAIN F : m \in Nat /\ F[m] \in Nat
  BY <1>6
<1>8. /\ st \in AllStats /\ st.firsts = F /\ st.disagreed = stats.disagreed /\ st.dead = FALSE
      /\ \/ no = stats.lifeNo /\ ~stats.dead
         \/ no \notin DOMAIN F
  <2>1. CASE stats.dead
    <3>1. st = [stats EXCEPT !.dead = FALSE, !.lifeNo = stats.lifeNo + 1]
      BY <2>1 DEF InItsLife, StartsLife
    <3> HIDE DEF st
    <3>2. stats.lifeNo + 1 \in Nat
      BY <1>6
    <3>3. st \in AllStats /\ st.firsts = F /\ st.disagreed = stats.disagreed /\ st.dead = FALSE
          /\ no = stats.lifeNo + 1
      BY <1>6, <3>1, <3>2 DEF AllStats
    <3>4. ASSUME no \in DOMAIN F PROVE FALSE
      <4>1. no \in Nat /\ no <= stats.lifeNo /\ no = stats.lifeNo + 1
        BY <1>6, <1>7, <3>3, <3>4
      <4>2. QED
        BY <1>6, <4>1
    <3>5. QED
      BY <3>3, <3>4
  <2>2. CASE ~stats.dead
    <3>1. st = stats /\ stats.dead = FALSE
      BY <1>6, <2>2 DEF InItsLife, StartsLife
    <3>2. QED
      BY <1>6, <2>2, <3>1
  <2>3. QED
    BY <2>1, <2>2
<1>9. /\ no \in DOMAIN F /\ ~stats.dead => \A k \in witnessed : ~(F[no] < k)
      /\ \A p \in stats.disagreed : p[3] \/ witnessed \intersect p[1] + 1 .. p[2] = {}
  <2>1. ~Pending(f)
    BY DEF Pending
  <2>2. QED
    BY <1>8, <2>1 DEF Counted
<1> HIDE DEF st
<1> DEFINE r == Compared(st, Len(died), FALSE)
<1>10. stats' = r
  BY <1>4, <1>5
<1>11. r.lifeNo = no
  BY <1>5, <1>8, ComparedGives
<1>12. CASE no \in DOMAIN F
  <2>1. no \in DOMAIN F /\ no = stats.lifeNo /\ ~stats.dead
    BY <1>8, <1>12
  <2>2. r.firsts = F
    BY <1>5, <1>8, <1>12, ComparedGives
  <2>3. ASSUME NEW p \in r.disagreed
        PROVE  p \in stats.disagreed \/ p = <<F[no], Len(died), FALSE>>
    <3>1. no \in DOMAIN st.firsts
      BY <1>8, <1>12
    <3>2. p \in st.disagreed \/ (p = <<st.firsts[no], Len(died), FALSE>>
                                 /\ st.firsts[no] # Len(died))
      BY <1>5, <1>8, <2>3, <3>1, ComparedGives
    <3>3. QED
      BY <1>8, <3>2
  <2> HIDE DEF r
  <2>4. witnessed \intersect (F[no] + 1) .. Len(died) = {}
    <3>1. ASSUME NEW k \in witnessed, k \in (F[no] + 1) .. Len(died) PROVE FALSE
      <4>1. F[no] \in Nat /\ k \in Nat /\ ~(F[no] < k)
        BY <1>5, <1>7, <1>9, <2>1, <3>1
      <4>2. QED
        BY <1>5, <3>1, <4>1
    <3>2. QED
      BY <3>1
  <2>5. ASSUME NEW p \in r.disagreed
        PROVE  p[3] \/ witnessed \intersect p[1] + 1 .. p[2] = {}
    <3>1. CASE p \in stats.disagreed
      BY <1>9, <3>1
    <3>2. CASE p = <<F[no], Len(died), FALSE>>
      <4>1. p[1] = F[no] /\ p[2] = Len(died)
        BY <3>2
      <4>2. QED
        BY <2>4, <4>1
    <3>3. QED
      BY <2>3, <2>5, <3>1, <3>2
  <2>6. r.lifeNo \in DOMAIN r.firsts => \A k \in witnessed :
          r.firsts[r.lifeNo] < k => r.dead
    BY <1>9, <1>11, <2>1, <2>2
  <2>7. QED
    BY <1>2, <1>10, <2>5, <2>6, CalmCounted
<1>13. CASE no \notin DOMAIN F
  <2>1. r.firsts[no] = Len(died) /\ r.disagreed = stats.disagreed
    BY <1>5, <1>8, <1>13, ComparedGives
  <2> HIDE DEF r
  <2>2. \A k \in witnessed : ~(Len(died) < k)
    BY <1>5
  <2>3. QED
    BY <1>2, <1>9, <1>10, <1>11, <2>1, <2>2, CalmCounted
<1>14. QED
  BY <1>12, <1>13

LEMMA CorpseCounted ==
  ASSUME TypeOK, History, LivesIn(stats, Len(born), Len(died)), [Next]_vars,
         NEW f, Counted(f), ~lossy, NEW h,
         ~living, ToldOfCreate(FALSE, Len(born)),
         UNCHANGED <<living, died, born, owed, witnessed>>, owed = {}
  PROVE  Counted(h)'
<1> DEFINE F == stats.firsts
           no == stats.lifeNo
           b == Len(born)
           r == Compared(stats, b, TRUE)
<1>1. /\ life' = SeeCorpse(life, now)
      /\ stats' = Witnessed(Compared(InItsLife(stats, TRUE), b, TRUE), life, life')
  BY DEF ToldOfCreate, SeenCreated
<1>2. life'.timed = life.timed
  BY <1>1, CorpseGives, RecordIsTyped
<1>3. /\ stats \in AllStats /\ no \in Nat /\ stats.dead \in BOOLEAN
      /\ F \in UNION {[S -> Nat] : S \in SUBSET Nat}
  BY DEF LivesIn, AllStats
<1>4. stats' = Witnessed(r, life, life')
  BY <1>1 DEF InItsLife, StartsLife
<1>5. /\ r \in AllStats /\ r.lifeNo = no /\ r.dead = stats.dead
  <2>1. Len(born) \in Nat
    BY LongHistory
  <2>2. QED
    BY <1>3, <2>1, ComparedGives
<1>6. no \in DOMAIN F => r.firsts = F /\ \A p \in r.disagreed : p \in stats.disagreed \/ p[3] = TRUE
  <2>1. ASSUME no \in DOMAIN F PROVE r.firsts = F
    <3>1. Len(born) \in Nat
      BY LongHistory
    <3>2. QED
      BY <1>3, <2>1, <3>1, ComparedGives
  <2>2. ASSUME no \in DOMAIN F, NEW p \in r.disagreed
        PROVE  p \in stats.disagreed \/ p[3] = TRUE
    <3>1. Len(born) \in Nat
      BY LongHistory
    <3>2. p \in stats.disagreed \/ (p = <<F[no], Len(born), TRUE>> /\ F[no] # Len(born))
      BY <1>3, <2>2, <3>1, ComparedGives
    <3>3. \A q : q = <<F[no], Len(born), TRUE>> => q[3] = TRUE
      OBVIOUS
    <3>4. QED
      BY <3>2, <3>3
  <2>3. QED
    BY <2>1, <2>2
<1>7. no \notin DOMAIN F => r.firsts[no] = b /\ r.disagreed = stats.disagreed
  <2>1. Len(born) \in Nat
    BY LongHistory
  <2>2. QED
    BY <1>3, <2>1, ComparedGives
<1> HIDE DEF r
<1>8. /\ stats'.lifeNo = no /\ stats'.firsts = r.firsts /\ stats'.disagreed = r.disagreed
      /\ stats.dead => stats'.dead
  BY <1>3, <1>4, <1>5 DEF Witnessed, AllStats
<1>9. /\ Len(died) \in witnessed => stats.dead
      /\ no \in DOMAIN F => \A k \in witnessed : F[no] < k => stats.dead
      /\ \A p \in stats.disagreed : p[3] \/ witnessed \intersect p[1] + 1 .. p[2] = {}
  <2>1. ~Pending(f)
    BY DEF Pending
  <2>2. QED
    BY <2>1 DEF Counted
<1>10. \A p \in stats'.disagreed : p[3] \/ witnessed \intersect p[1] + 1 .. p[2] = {}
  BY <1>6, <1>7, <1>8, <1>9
<1>11. ASSUME NEW k \in witnessed, r.firsts[no] < k PROVE stats.dead
  <2>1. CASE no \in DOMAIN F
    BY <1>6, <1>9, <1>11, <2>1
  <2>2. CASE no \notin DOMAIN F
    <3>1. k \in 1 .. Len(died) /\ Len(died) = b + 1 /\ b \in Nat /\ b < k
      <4>1. Len(died) = b + 1 /\ b \in Nat /\ DOMAIN died = 1 .. Len(died)
        BY LongHistory
      <4>2. k \in DOMAIN died
        BY DEF TypeOK
      <4>3. QED
        BY <1>7, <1>11, <2>2, <4>1, <4>2
    <3>2. k = Len(died)
      BY <3>1
    <3>3. QED
      BY <1>9, <3>2
  <2>3. QED
    BY <2>1, <2>2
<1>12. stats'.lifeNo \in DOMAIN stats'.firsts => \A k \in witnessed :
         stats'.firsts[stats'.lifeNo] < k => stats'.dead
  BY <1>8, <1>11
<1>13. QED
  BY <1>2, <1>8, <1>10, <1>12, CalmCounted

LEMMA WitnessesKept ==
  ASSUME TypeOK, History, LivesIn(stats, Len(born), Len(died)), [Next]_vars,
         NEW f, Deaths(f), Counted(f), ~lossy,
         NEW h,
         \/ Len(life'.deaths) = Len(life.deaths) /\ h = f
         \/ /\ Len(life'.deaths) = Len(life.deaths) + 1
            /\ \E n \in DOMAIN life'.deaths : h[n] = Len(died')
            /\ \A n \in DOMAIN life.deaths : f[n] # Len(died),
         ~lossy', UNCHANGED <<now, living, inSight, died, born, witnessed>>,
         \/ "health" \in owed /\ owed' = owed \ {"health"} /\ Told(SeeHealthZero)
         \/ "party_kill" \in owed /\ owed' = owed \ {"party_kill"} /\ Told(SeePartyKill)
  PROVE  Counted(h)'
<1>1. /\ life \in Lives(Times) /\ now \in Times /\ life.alive \in BOOLEAN
      /\ Len(life.timed) <= Len(life.deaths)
      /\ life.deaths \in Seq(Times) /\ life.timed \in Seq(Times)
  BY RecordIsTyped
<1>2. /\ Len(Append(life.deaths, now)) = Len(life.deaths) + 1
      /\ Len(Append(life.timed, now)) = Len(life.timed) + 1
      /\ Len(life.deaths) \in Nat /\ Len(life.timed) \in Nat
      /\ Len(life.deaths) # Len(life.deaths) + 1
      /\ Len([life.deaths EXCEPT ![Len(life.deaths)] = now]) = Len(life.deaths)
      /\ Len([life.timed EXCEPT ![Len(life.timed)] = now]) = Len(life.timed)
  BY <1>1, LastSet
<1>3. /\ stats \in AllStats /\ owed # {} /\ owed' \subseteq owed
      /\ life' \in Lives(Times) /\ stats' = Witnessed(stats, life, life')
  BY LifeIsTyped DEF LivesIn, Told
<1>4. Pending(f) <=> \A n \in DOMAIN life.deaths : f[n] # Len(died)
  BY <1>3 DEF Pending
<1>5. \/ /\ Len(life'.deaths) = Len(life.deaths) /\ ~Pending(f)
         /\ Len(life'.timed) = Len(life.timed)
      \/ /\ Len(life'.deaths) = Len(life.deaths) + 1
         /\ Len(life'.timed) = Len(life.timed) + 1
  <2>1. CASE "health" \in owed /\ Told(SeeHealthZero)
    <3>1. life' = SeeHealthZero(life, now)
      BY <2>1 DEF Told
    <3>2. CASE life.alive
      <4>1. life'.deaths = Append(life.deaths, now) /\ life'.timed = Append(life.timed, now)
        BY <1>1, <3>1, <3>2, HealthZeroGives
      <4>2. QED
        BY <1>2, <4>1
    <3>3. CASE ~life.alive
      <4>1. life' = life
        BY <1>1, <3>1, <3>3, HealthZeroGives
      <4>2. ~Pending(f)
        BY <2>1, <3>3 DEF Counted
      <4>3. QED
        BY <4>1, <4>2
    <3>4. QED
      BY <3>2, <3>3
  <2>2. CASE "party_kill" \in owed /\ Told(SeePartyKill)
    <3>1. life' = SeePartyKill(life, now)
      BY <2>2 DEF Told
    <3>2. CASE Pending(f)
      <4>1. life'.deaths = Append(life.deaths, now) /\ life'.timed = Append(life.timed, now)
        BY <1>1, <1>4, <2>2, <3>1, <3>2, PartyKillGives, TheKillIsOfItsDeath
      <4>2. QED
        BY <1>2, <4>1
    <3>3. CASE ~Pending(f)
      <4>1. /\ life'.deaths = [life.deaths EXCEPT ![Len(life.deaths)] = now]
            /\ life'.timed = [life.timed EXCEPT ![Len(life.timed)] = now]
        BY <1>1, <1>4, <2>2, <3>1, <3>3, PartyKillGives, TheKillIsOfItsDeath
      <4>2. QED
        BY <1>2, <3>3, <4>1
    <3>4. QED
      BY <3>2, <3>3
  <2>3. QED
    BY <2>1, <2>2
<1>6. CASE /\ Len(life'.deaths) = Len(life.deaths) /\ ~Pending(f)
           /\ Len(life'.timed) = Len(life.timed)
  <2>1. h = f
    BY <1>2, <1>6
  <2>2. QED
    BY <1>3, <1>6, <2>1, WitnessCounted
<1>7. CASE /\ Len(life'.deaths) = Len(life.deaths) + 1
           /\ Len(life'.timed) = Len(life.timed) + 1
  <2>1. (\E n \in DOMAIN life'.deaths : h[n] = Len(died')) /\ Pending(f)
    BY <1>2, <1>4, <1>7
  <2>2. QED
    BY <1>3, <1>7, <2>1, WitnessCounted
<1>8. QED
  BY <1>5, <1>6, <1>7

LEMMA RecordKept ==
  ASSUME TypeOK, History, LivesIn(stats, Len(born), Len(died)), [Next]_vars,
         NEW f, Deaths(f), Counted(f)
  PROVE  \E h : Deaths(h)' /\ Counted(h)'
<1>1. PICK h : /\ Deaths(h)'
               /\ \/ Len(life'.deaths) = Len(life.deaths) /\ h = f
                  \/ /\ Len(life'.deaths) = Len(life.deaths) + 1
                     /\ \E n \in DOMAIN life'.deaths : h[n] = Len(died')
                     /\ \A n \in DOMAIN life.deaths : f[n] # Len(died)
  BY DeathsKept
<1>2. SUFFICES ASSUME ~lossy' PROVE Counted(h)'
  BY <1>1 DEF Counted
<1>3. living \in BOOLEAN /\ lossy \in BOOLEAN
  BY DEF TypeOK
<1>4. ~lossy
  BY <1>2, <1>3, AllArrives
<1>5. Len(life.deaths) \in Nat /\ (life' = life => h = f)
  <2>1. Len(life.deaths) \in Nat
    BY RecordIsTyped
  <2>2. Len(life.deaths) # Len(life.deaths) + 1
    BY <2>1
  <2>3. QED
    BY <1>1, <2>1, <2>2
<1>6. owed = {} =>
        /\ stats.lifeNo \in DOMAIN stats.firsts => \A k \in witnessed :
             stats.firsts[stats.lifeNo] < k => stats.dead
        /\ \A p \in stats.disagreed : p[3] \/ witnessed \intersect p[1] + 1 .. p[2] = {}
  BY <1>4 DEF Counted, Pending
<1>7. CASE /\ UNCHANGED <<life, stats, living, died, born, owed, witnessed>>
           /\ inSight' => inSight
  <2>1. h = f
    BY <1>5, <1>7
  <2>2. Pending(f)' <=> Pending(f)
    BY <1>7 DEF Pending
  <2>3. Len(life.timed) + (IF Pending(f) THEN 1 ELSE 0)
          = Len(life'.timed) + (IF Pending(f)' THEN 1 ELSE 0)
    BY <1>7, <2>2
  <2>4. QED
    BY <1>4, <1>7, <2>1, <2>2, <2>3 DEF Counted
<1>8. ASSUME NEW tapped \in BOOLEAN, Die(tapped) PROVE Counted(h)'
  BY <1>4, <1>5, <1>8, DyingGrows, DyingCounted
<1>9. CASE RespawnUnseen
  <2>1. /\ Respawn /\ UNCHANGED <<life, creates, stats>> /\ ~inSight
    BY <1>9 DEF RespawnUnseen, noted
  <2>2. owed = {} /\ owed' = {} /\ UNCHANGED <<died, witnessed, inSight>> /\ living' = TRUE
    BY <2>1, RespawningGrows
  <2>3. ~inSight'
    BY <2>1, <2>2
  <2>4. QED
    BY <1>4, <1>6, <2>1, <2>2, <2>3, CalmCounted
<1>10. CASE living' /\ Told(SeeHealth) /\ UNCHANGED <<died, owed, witnessed>>
  <2>1. owed = {} /\ owed' = {}
    BY <1>10, HistoryKept DEF History
  <2>2. life' = SeeHealth(life, now) /\ stats' = Witnessed(stats, life, life')
    BY <1>10 DEF Told
  <2>3. life'.alive = TRUE /\ life'.deaths = life.deaths /\ life'.timed = life.timed
    BY <2>2, HealthGives, RecordIsTyped
  <2>4. stats' = stats
    <3>1. ~(Len(life'.deaths) > Len(life.deaths))
      BY <1>5, <2>3
    <3>2. QED
      BY <2>2, <3>1, Zenon DEF Witnessed
  <2>5. QED
    BY <1>4, <1>6, <1>10, <2>1, <2>3, <2>4, CalmCounted
<1>11. QED
  BY <1>1, <1>2, <1>3, <1>4, <1>7, <1>8, <1>9, <1>10, AllArrives, WitnessesKept, StandingCounted,
     CorpseCounted

-----------------------------------------------------------------------------
(* The invariant, and what follows from it. *)

LEMMA Initially == ASSUME Init PROVE Inv
<1>1. MinRespawn \in Nat /\ Coincidence \in Nat /\ MaxTime \in Nat /\ 0 \in Times
  BY Assumed DEF Times
<1>2. /\ now = 0 /\ living \in BOOLEAN /\ inSight = FALSE
      /\ died = IF living THEN <<>> ELSE <<0>>
      /\ born = <<>> /\ owed = {} /\ witnessed = {} /\ lossy = FALSE
      /\ life = [deaths |-> <<>>, timed |-> <<>>, revivals |-> <<>>,
                 alive |-> TRUE, seenAlive |-> FALSE, byHealth |-> Never]
      /\ creates = <<>>
      /\ stats = [lifeNo |-> 0, dead |-> FALSE, firsts |-> <<>>, disagreed |-> {}]
      /\ spawnMap = Unknown /\ place = Home /\ session = Unknown
  BY DEF Init, NewLife, NewStats
<1>3. /\ died \in Seq(Times) /\ Len(died) = IF living THEN 0 ELSE 1
      /\ born \in Seq(Times) /\ Len(born) = 0 /\ <<>> \in Seq(Times)
  BY <1>1, <1>2
<1>4. TypeOK
  <2>1. life \in Lives(Times) /\ Len(life.timed) <= Len(life.deaths)
    BY <1>2, <1>3 DEF Lives
  <2>2. Len(died) = Len(born) + (IF living THEN 0 ELSE 1)
    BY <1>3
  <2>3. stats.lifeNo \in 0 .. Len(born) /\ stats.dead \in BOOLEAN
    BY <1>2, <1>3
  <2>4. place \in Places /\ {session, spawnMap} \subseteq Places \union {Unknown}
    BY <1>2 DEF Places
  <2>5. QED
    BY <1>1, <1>2, <1>3, <2>1, <2>2, <2>3, <2>4 DEF TypeOK
<1>5. LivesIn(stats, Len(born), Len(died))
  <2>1. <<>> \in [{} -> Nat] /\ {} \in SUBSET Nat
    OBVIOUS
  <2>2. stats \in AllStats
    BY <1>2, <2>1 DEF AllStats
  <2>3. DOMAIN stats.firsts = {} /\ stats.disagreed = {} /\ stats.lifeNo = 0 /\ ~stats.dead
    BY <1>2
  <2>4. QED
    BY <1>3, <2>2, <2>3 DEF LivesIn
<1>6. Deaths(<<>>) /\ Counted(<<>>)
  <2>1. <<>> \in [{} -> DOMAIN died] /\ DOMAIN life.deaths = {}
    BY <1>2
  <2>2. Deaths(<<>>)
    BY <1>2, <2>1 DEF Deaths
  <2>3. ~Pending(<<>>)
    BY <1>2 DEF Pending
  <2>4. Cardinality(witnessed) = 0 /\ Len(life.timed) = 0
    BY <1>2, FS_EmptySet
  <2>5. QED
    BY <1>2, <2>2, <2>3, <2>4 DEF Counted
<1>7. Revivals(<<>>)
  <2>1. <<>> \in [{} -> DOMAIN died] /\ DOMAIN life.revivals = {}
    BY <1>2
  <2>2. QED
    BY <2>1 DEF Revivals
<1>8. Signs
  BY <1>2 DEF Signs, SignsOfLife, DatedDeaths, Range
<1>9. OnItsMap
  BY <1>2 DEF OnItsMap
<1>10. \E f \in [DOMAIN life.deaths -> DOMAIN died] : Deaths(f) /\ Counted(f)
  BY <1>6 DEF Deaths
<1>11. \E g \in [DOMAIN life.revivals -> DOMAIN died] : Revivals(g)
  BY <1>7 DEF Revivals
<1>12. QED
  BY <1>4, <1>5, <1>8, <1>9, <1>10, <1>11, HistoryInitially DEF Inv

LEMMA NextKeepsInv == ASSUME Inv, [Next]_vars PROVE Inv'
<1>1. /\ TypeOK /\ History /\ Signs /\ LivesIn(stats, Len(born), Len(died)) /\ OnItsMap
  BY DEF Inv
<1>2. PICK f, g : Deaths(f) /\ Counted(f) /\ Revivals(g)
  BY DEF Inv
<1>3. LivesIn(stats, Len(born), Len(died))'
  BY <1>1, LivesKept
<1>4. OnItsMap'
  BY <1>1, MapsKept
<1>5. TypeOK'
  <2>1. /\ now' \in Times /\ life' \in Lives(Times) /\ Len(life'.timed) <= Len(life'.deaths)
        /\ creates' \in Seq(Times)
    BY <1>1, LifeIsTyped
  <2>2. /\ living' \in BOOLEAN /\ died' \in Seq(Times) /\ born' \in Seq(Times)
        /\ Len(died') = Len(born') + (IF living' THEN 0 ELSE 1)
        /\ owed' \subseteq {"party_kill", "health"} /\ witnessed' \subseteq DOMAIN died'
    BY <1>1, WorldIsTyped
  <2>3. inSight' \in BOOLEAN /\ lossy' \in BOOLEAN /\ place' \in Places
    <3>1. inSight \in BOOLEAN /\ lossy \in BOOLEAN /\ place \in Places
      BY <1>1 DEF TypeOK
    <3>2. UNCHANGED inSight \/ inSight' \in BOOLEAN
      BY DEF Next, vars, world, Tick, Die, Witness, RespawnUnseen, RespawnInSight, Respawn,
             ComeInSight, GoOutOfSight, Transfer, Hurt
    <3>3. UNCHANGED lossy \/ lossy' = TRUE
      BY DEF Next, vars, Tick, Die, Witness, RespawnUnseen, RespawnInSight, ComeInSight,
             GoOutOfSight, Transfer, Hurt, Told, ToldOfCreate, Lost
    <3>4. UNCHANGED place \/ place' \in Places
      BY DEF Next, vars, maps, Tick, Die, Witness, RespawnUnseen, RespawnInSight, Respawn,
             ComeInSight, GoOutOfSight, Transfer, Hurt
    <3>5. QED
      BY <3>1, <3>2, <3>3, <3>4
  <2>4. stats'.lifeNo \in 0 .. Len(born') /\ stats'.dead \in BOOLEAN
    <3>1. Len(born') \in Nat
      BY <2>2
    <3>2. /\ stats'.lifeNo \in Nat /\ stats'.lifeNo <= Len(born') /\ stats'.dead \in BOOLEAN
      BY <1>3 DEF LivesIn, AllStats
    <3>3. QED
      BY <3>1, <3>2
  <2>5. {session', spawnMap'} \subseteq Places \union {Unknown}
    BY <1>4, <2>3 DEF OnItsMap, Places
  <2>6. QED
    BY <2>1, <2>2, <2>3, <2>4, <2>5 DEF TypeOK
<1>6. \E h \in [DOMAIN life'.deaths -> DOMAIN died'] : Deaths(h)' /\ Counted(h)'
  <2>1. PICK h : Deaths(h)' /\ Counted(h)'
    BY <1>1, <1>2, RecordKept
  <2>2. QED
    BY <2>1 DEF Deaths
<1>7. \E h \in [DOMAIN life'.revivals -> DOMAIN died'] : Revivals(h)'
  <2>1. PICK h : Revivals(h)'
    BY <1>1, <1>2, RevivalsKept
  <2>2. QED
    BY <2>1 DEF Revivals
<1>8. History' /\ Signs'
  BY <1>1, HistoryKept, SignsKept
<1>9. QED
  BY <1>3, <1>4, <1>5, <1>6, <1>7, <1>8 DEF Inv

LEMMA TheInvariantHolds == Spec => []Inv
<1>1. Init => Inv
  BY Initially
<1>2. Inv /\ [Next]_vars => Inv'
  BY NextKeepsInv
<1>3. QED
  BY <1>1, <1>2, PTL DEF Spec

\* Every variable keeps its type: as many respawns as deaths, but for one death it
\* may lie in, and no more timed deaths than deaths.
THEOREM TypesAreKept == Spec => []TypeOK
<1>1. Inv => TypeOK
  BY DEF Inv
<1>2. QED
  BY <1>1, TheInvariantHolds, PTL

\* Lifeline: whatever the capture lost, every death on record is one the creature
\* died, every revival a respawn, and none is there twice, however a death's two
\* witnesses came (see_party_kill dates anew the death a HEALTH block showed).
THEOREM EveryRecordIsReal == Spec => []TheRecordIsReal
<1>1. Inv => TheRecordIsReal
  <2>1. SUFFICES ASSUME Inv PROVE TheRecordIsReal
    OBVIOUS
  <2>2. PICK f, g : Deaths(f) /\ Revivals(g)
    BY <2>1 DEF Inv
  <2>3. OneForOne(life.deaths, LayDead)
    <3>1. /\ f \in [DOMAIN life.deaths -> DOMAIN died]
          /\ \A n \in DOMAIN life.deaths : LayDead(f[n], life.deaths[n])
          /\ \A m, n \in DOMAIN life.deaths : m < n => f[m] < f[n]
      BY <2>2 DEF Deaths
    <3>2. QED
      BY <3>1 DEF OneForOne
  <2>4. OneForOne(life.revivals, Stood)
    <3>1. /\ g \in [DOMAIN life.revivals -> DOMAIN died]
          /\ \A n \in DOMAIN life.revivals : Stood(g[n], life.revivals[n])
          /\ \A m, n \in DOMAIN life.revivals : m < n => g[m] < g[n]
      BY <2>2 DEF Revivals
    <3>2. QED
      BY <3>1 DEF OneForOne
  <2>5. QED
    BY <2>3, <2>4 DEF TheRecordIsReal
<1>2. QED
  BY <1>1, TheInvariantHolds, PTL

\* Lifeline: with nothing lost, every death the player was shown is on record with
\* its time, once its witnesses have arrived, and only once.
THEOREM NoneIsMissed == Spec => []NoWitnessedDeathIsMissed
<1>1. Inv => NoWitnessedDeathIsMissed
  <2>1. SUFFICES ASSUME Inv, ~lossy, owed = {} PROVE Len(life.timed) = Cardinality(witnessed)
    BY DEF NoWitnessedDeathIsMissed
  <2>2. PICK f : Counted(f)
    BY <2>1 DEF Inv
  <2>3. ~Pending(f) /\ Len(life.timed) \in Nat
    BY <2>1, RecordIsTyped DEF Pending, Inv
  <2>4. QED
    BY <2>1, <2>2, <2>3 DEF Counted
<1>2. QED
  BY <1>1, TheInvariantHolds, PTL

LEMMA LeastOf ==
  ASSUME NEW S \in SUBSET Nat, S # {}
  PROVE  Min(S) \in S /\ \A y \in S : Min(S) <= y
<1>1. PICK x \in S : \A y \in S : ~(<<y, x>> \in OpToRel(<, Nat))
  BY WFMin, NatLessThanWellFounded
<1>2. ASSUME NEW y \in S PROVE x <= y
  <2>1. ~(<<y, x>> \in OpToRel(<, Nat))
    BY <1>1
  <2>2. x \in Nat /\ y \in Nat
    OBVIOUS
  <2>3. ~(y < x)
    BY <2>1, <2>2 DEF OpToRel
  <2>4. QED
    BY <2>2, <2>3
<1>3. QED
  BY <1>2 DEF Min

\* A death of a known time and a sign of life after it: the creature respawned
\* between them, no sooner after the death than its respawn takes.
LEMMA AGapHoldsARespawn ==
  ASSUME Inv, NEW t \in DatedDeaths, NEW s \in SignsOfLife, s > t
  PROVE  \E k \in DOMAIN born :
           /\ died[k] <= t /\ t <= died[k] + Coincidence
           /\ t <= born[k] /\ born[k] <= s
<1>1. TypeOK /\ History /\ Signs
  BY DEF Inv
<1>2. t \in Nat /\ s \in Nat
  <2>1. /\ life.timed \in Seq(Times) /\ life.revivals \in Seq(Times) /\ creates \in Seq(Times)
    BY <1>1, RecordIsTyped
  <2>2. QED
    BY <2>1, TypedSeq DEF DatedDeaths, SignsOfLife, Range
<1>3. PICK k \in DOMAIN died : died[k] <= t /\ t <= died[k] + Coincidence
  BY <1>1 DEF Signs
<1>4. /\ Len(born) \in Nat /\ DOMAIN died = 1 .. Len(died) /\ Len(died) \in Nat
      /\ DOMAIN born = 1 .. Len(born)
      /\ \A j \in DOMAIN died : died[j] \in Nat
      /\ \A j \in DOMAIN born : born[j] \in Nat
  BY <1>1, LongHistory
<1>5. PICK d \in Nat : d = died[k]
  BY <1>4
<1>6. d < s
  BY <1>2, <1>3, <1>5
<1>7. k <= Len(born) /\ born[k] <= s
  BY <1>1, <1>5, <1>6 DEF Signs
<1>8. k \in DOMAIN born
  BY <1>4, <1>7
<1>9. PICK b \in Nat : b = born[k]
  BY <1>4, <1>8
<1>10. d + MinRespawn <= b
  BY <1>1, <1>5, <1>8, <1>9 DEF History
<1>11. t <= b
  BY <1>2, <1>3, <1>5, <1>9, <1>10, Assumed
<1>12. QED
  BY <1>3, <1>7, <1>8, <1>9, <1>11

\* A respawn gap is from a death of a known time to the first sign of life after it.
LEMMA GapsAreBetween ==
  ASSUME Inv, NEW g \in RespawnGaps
  PROVE  g[1] \in DatedDeaths /\ g[2] \in SignsOfLife /\ g[2] > g[1] /\ g[1] \in Nat /\ g[2] \in Nat
<1>1. PICK d \in DatedDeaths : /\ g = <<d, Min({s \in SignsOfLife : s > d})>>
                               /\ \E s \in SignsOfLife : s > d
  BY DEF RespawnGaps
<1>2. d \in Nat /\ SignsOfLife \subseteq Nat
  <2>1. /\ life.timed \in Seq(Times) /\ life.revivals \in Seq(Times) /\ creates \in Seq(Times)
    BY RecordIsTyped DEF Inv
  <2>2. QED
    BY <2>1, TypedSeq DEF DatedDeaths, SignsOfLife, Range
<1>3. Min({s \in SignsOfLife : s > d}) \in {s \in SignsOfLife : s > d}
  BY <1>1, <1>2, LeastOf
<1>4. QED
  BY <1>1, <1>2, <1>3

LEMMA RespawnsAreTimed ==
  ASSUME TypeOK, NEW k \in DOMAIN born
  PROVE  \E d, b \in Nat : d = died[k] /\ b = born[k]
<1>1. /\ Len(born) \in Nat /\ DOMAIN died = 1 .. Len(died) /\ Len(died) \in Nat
      /\ DOMAIN born = 1 .. Len(born) /\ living \in BOOLEAN
      /\ living => Len(died) = Len(born)
      /\ ~living => Len(died) = Len(born) + 1
      /\ \A j \in DOMAIN died : died[j] \in Nat
      /\ \A j \in DOMAIN born : born[j] \in Nat
  BY LongHistory, Zenon
<1>2. PICK m \in Nat, n \in Nat : m = Len(born) /\ n = Len(died)
  BY <1>1
<1>3. CASE living
  <2>1. m = n
    BY <1>1, <1>2, <1>3
  <2>2. k \in DOMAIN died
    BY <1>1, <1>2, <2>1
  <2>3. QED
    BY <1>1, <2>2
<1>4. CASE ~living
  <2>1. n = m + 1
    BY <1>1, <1>2, <1>4
  <2>2. k \in 1 .. m => k \in 1 .. n
    BY <2>1
  <2>3. k \in DOMAIN died
    BY <1>1, <1>2, <2>2
  <2>4. QED
    BY <1>1, <2>3
<1>5. QED
  BY <1>3, <1>4, Zenon

LEMMA GapsHold == ASSUME Inv PROVE GapsAreNeverShort
<1>1. SUFFICES ASSUME NEW g \in RespawnGaps
               PROVE  \E k \in DOMAIN born :
                        /\ died[k] <= g[1] /\ g[1] <= born[k] /\ born[k] <= g[2]
                        /\ g[2] - g[1] >= born[k] - died[k] - Coincidence
  BY DEF GapsAreNeverShort
<1>2. /\ g[1] \in DatedDeaths /\ g[2] \in SignsOfLife /\ g[2] > g[1]
      /\ g[1] \in Nat /\ g[2] \in Nat
  BY <1>1, GapsAreBetween
<1>3. PICK k \in DOMAIN born : /\ died[k] <= g[1] /\ g[1] <= died[k] + Coincidence
                               /\ g[1] <= born[k] /\ born[k] <= g[2]
  BY <1>2, AGapHoldsARespawn
<1>4. PICK d \in Nat, b \in Nat : d = died[k] /\ b = born[k]
  BY RespawnsAreTimed DEF Inv
<1>5. g[2] - g[1] >= b - d - Coincidence
  BY <1>2, <1>3, <1>4, Assumed
<1>6. QED
  BY <1>3, <1>4, <1>5

\* Behaviour._respawn: whatever was lost or out of sight, a respawn gap covers the
\* respawn it was counted over, and is no shorter but for the coincidence slack.
THEOREM NoGapIsShort == Spec => []GapsAreNeverShort
<1>1. Inv => GapsAreNeverShort
  BY GapsHold
<1>2. QED
  BY <1>1, TheInvariantHolds, PTL

\* The stats rule: lives come in order, and with nothing lost no two CREATEs of it
\* standing are compared across a death the player was shown.
THEOREM EachLifeIsItsOwn == Spec => []LivesAreToldApart
<1>1. Inv => LivesAreToldApart
  <2>1. SUFFICES ASSUME Inv PROVE LivesAreToldApart
    OBVIOUS
  <2>2. \A m, n \in DOMAIN stats.firsts : m < n => stats.firsts[m] < stats.firsts[n]
    BY <2>1 DEF Inv, LivesIn
  <2>3. ~lossy => \A p \in stats.disagreed : p[3] \/ witnessed \intersect p[1] + 1 .. p[2] = {}
    BY <2>1 DEF Inv, Counted
  <2>4. QED
    BY <2>2, <2>3 DEF LivesAreToldApart
<1>2. QED
  BY <1>1, TheInvariantHolds, PTL

\* The spawn rule: a creature seen only on one map gets that map, or none, wherever
\* the player goes.
THEOREM TheMapIsItsOwn == Spec => []MapIsWhereItStood
<1>1. Inv => MapIsWhereItStood
  BY DEF Inv, OnItsMap, MapIsWhereItStood, Map
<1>2. QED
  BY <1>1, TheInvariantHolds, PTL


\* The moments the spawn rule compares: a recorded death, and a CREATE after it.
LEMMA TheChosenAre ==
  ASSUME Inv, NEW chosen, chosen = CreateAfterADeath(creates, life.deaths), chosen # <<>>
  PROVE  /\ chosen[1] \in Range(life.deaths) /\ chosen[2] \in Range(creates)
         /\ chosen[1] \in Nat /\ chosen[2] \in Nat /\ chosen[1] < chosen[2]
<1> DEFINE dated == {d \in Range(life.deaths) : After(creates, d) # {}}
<1>1. dated # {} /\ chosen = <<Min(dated), Min(After(creates, Min(dated)))>>
  BY DEF CreateAfterADeath
<1>2. Range(life.deaths) \subseteq Nat /\ Range(creates) \subseteq Nat
  <2>1. life.deaths \in Seq(Times) /\ creates \in Seq(Times)
    BY RecordIsTyped DEF Inv
  <2>2. QED
    BY <2>1, TypedSeq DEF Range
<1>3. dated \subseteq Nat
  BY <1>2
<1>4. Min(dated) \in dated
  BY <1>1, <1>3, LeastOf
<1>5. After(creates, Min(dated)) # {} /\ After(creates, Min(dated)) \subseteq Nat
  BY <1>2, <1>4 DEF After
<1>6. Min(After(creates, Min(dated))) \in After(creates, Min(dated))
  BY <1>5, LeastOf
<1>7. chosen[1] \in dated /\ chosen[2] \in After(creates, chosen[1])
  <2>1. chosen[1] = Min(dated) /\ chosen[2] = Min(After(creates, Min(dated)))
    BY <1>1
  <2>2. QED
    BY <1>4, <1>6, <2>1
<1>8. QED
  BY <1>2, <1>7 DEF After

\* The respawn from a recorded death comes before any sign of life after it.
LEMMA BackBeforeASign ==
  ASSUME Inv, NEW d \in Range(life.deaths), NEW c \in Range(creates), d < c, c \in Nat, d \in Nat
  PROVE  \E k \in DOMAIN born, a, b \in Nat :
           /\ a = died[k] /\ b = born[k] /\ LayDead(k, d)
           /\ a <= d /\ d <= b /\ b <= c
<1>1. TypeOK /\ Signs
  BY DEF Inv
<1>2. PICK f : Deaths(f)
  BY DEF Inv
<1>3. PICK n \in DOMAIN life.deaths : d = life.deaths[n]
  BY DEF Range
<1>4. PICK k \in DOMAIN died : k = f[n] /\ LayDead(k, d)
  <2>1. f \in [DOMAIN life.deaths -> DOMAIN died] /\ LayDead(f[n], life.deaths[n])
    BY <1>2, <1>3 DEF Deaths
  <2>2. QED
    BY <1>3, <2>1
<1>5. /\ Len(born) \in Nat /\ DOMAIN died = 1 .. Len(died) /\ Len(died) \in Nat
      /\ DOMAIN born = 1 .. Len(born)
      /\ \A j \in DOMAIN died : died[j] \in Nat
      /\ \A j \in DOMAIN born : born[j] \in Nat
  BY <1>1, LongHistory
<1>6. PICK a \in Nat : a = died[k]
  BY <1>5
<1>7. a <= d
  BY <1>4, <1>6 DEF LayDead
<1>8. died[k] < c
  BY <1>6, <1>7
<1>9. c \in SignsOfLife
  BY DEF SignsOfLife
<1>10. k <= Len(born) /\ born[k] <= c
  BY <1>1, <1>8, <1>9 DEF Signs
<1>11. k \in DOMAIN born
  BY <1>5, <1>10
<1>12. PICK b \in Nat : b = born[k]
  BY <1>5, <1>11
<1>13. d <= b
  BY <1>4, <1>10, <1>12 DEF LayDead
<1>14. QED
  BY <1>4, <1>6, <1>7, <1>10, <1>11, <1>12, <1>13

\* The timer is the length of some gap, so no shorter than a respawn is.
LEMMA TheTimerIsLong ==
  ASSUME Inv, RespawnGaps # {}, \A k \in DOMAIN born : born[k] - died[k] = MinRespawn
  PROVE  Timer \in Nat /\ Timer >= MinRespawn - Coincidence
<1> DEFINE S == {g[2] - g[1] : g \in RespawnGaps}
<1>1. S \subseteq Nat
  <2>1. ASSUME NEW g \in RespawnGaps PROVE g[2] - g[1] \in Nat
    <3>1. g[1] \in Nat /\ g[2] \in Nat /\ g[2] > g[1]
      BY GapsAreBetween
    <3>2. QED
      BY <3>1
  <2>2. QED
    BY <2>1
<1>2. S # {}
  OBVIOUS
<1>3. Min(S) \in S
  BY <1>1, <1>2, LeastOf
<1>4. PICK g \in RespawnGaps : Timer = g[2] - g[1]
  BY <1>3 DEF Timer
<1>5. PICK k \in DOMAIN born : g[2] - g[1] >= born[k] - died[k] - Coincidence
  BY GapsHold DEF GapsAreNeverShort
<1>6. g[2] - g[1] >= MinRespawn - Coincidence
  BY <1>5
<1>7. Timer \in Nat
  BY <1>1, <1>3 DEF Timer
<1>8. QED
  BY <1>4, <1>6, <1>7

\* Behaviour and the spawn rule: the CREATE that follows a death is of a later life,
\* and with a fixed respawn time one called late came well after the creature was back
\* from that death, one not called late about when it came back from some death.
THEOREM LateMeansLate == Spec => []LateIsLate
<1>1. Inv => LateIsLate
  <2> SUFFICES ASSUME Inv PROVE LateIsLate
    OBVIOUS
  <2>1. PICK chosen : chosen = CreateAfterADeath(creates, life.deaths)
    OBVIOUS
  <2> DEFINE fixed == \A k \in DOMAIN born : born[k] - died[k] = MinRespawn
             back(k) == chosen[2] - born[k]
  <2> SUFFICES ASSUME chosen # <<>>
      PROVE  /\ \E k \in DOMAIN born : chosen[1] <= born[k] /\ born[k] <= chosen[2]
             /\ fixed => IF Late(chosen[1], chosen[2])
                THEN \E k \in DOMAIN born :
                       LayDead(k, chosen[1]) /\ back(k) > LateSlack - Coincidence
                ELSE chosen[1] \in DatedDeaths /\ Timer <= MinRespawn
                     => \E k \in DOMAIN born : back(k) \in 0 .. LateSlack + Coincidence
    BY <2>1 DEF LateIsLate
  <2>2. PICK d \in Range(life.deaths), c \in Range(creates) :
          d = chosen[1] /\ c = chosen[2] /\ d \in Nat /\ c \in Nat /\ d < c
    BY <2>1, TheChosenAre
  <2>3. PICK k \in DOMAIN born, a, b \in Nat :
           /\ a = died[k] /\ b = born[k] /\ LayDead(k, d)
           /\ a <= d /\ d <= b /\ b <= c
    BY <2>2, BackBeforeASign
  <2>4. ASSUME fixed, Late(d, c)
        PROVE  LayDead(k, d) /\ c - born[k] > LateSlack - Coincidence
    <3>1. RespawnGaps # {} /\ c - d > Timer + LateSlack
      BY <2>4 DEF Late
    <3>2. Timer \in Nat /\ Timer >= MinRespawn - Coincidence
      BY <2>4, <3>1, TheTimerIsLong
    <3>3. b - a = MinRespawn
      BY <2>3, <2>4
    <3>4. PICK t \in Nat : t = Timer /\ c - d > t + LateSlack /\ t >= MinRespawn - Coincidence
      BY <3>1, <3>2
    <3>5. c - b > LateSlack - Coincidence
      <4>1. a <= d /\ d <= b /\ a \in Nat /\ b \in Nat /\ c \in Nat /\ d \in Nat
        BY <2>2, <2>3
      <4>2. QED
        BY <3>3, <3>4, <4>1, Assumed
    <3>6. QED
      BY <2>3, <3>5
  <2>5. ASSUME fixed, ~Late(d, c), d \in DatedDeaths, Timer <= MinRespawn
        PROVE  \E j \in DOMAIN born : c - born[j] \in 0 .. LateSlack + Coincidence
    <3>1. c \in SignsOfLife
      BY <2>2 DEF SignsOfLife
    <3>2. RespawnGaps # {}
      BY <2>2, <2>5, <3>1 DEF RespawnGaps
    <3>3. Timer \in Nat
      BY <2>5, <3>2, TheTimerIsLong
    <3>4. c - d <= Timer + LateSlack
      BY <2>2, <2>5, <3>2, <3>3, Assumed DEF Late
    <3>5. PICK j \in DOMAIN born : /\ died[j] <= d /\ d <= died[j] + Coincidence
                                   /\ d <= born[j] /\ born[j] <= c
      BY <2>2, <2>5, <3>1, AGapHoldsARespawn
    <3>6. PICK e \in Nat, r \in Nat : e = died[j] /\ r = born[j]
      BY <3>5, RespawnsAreTimed DEF Inv
    <3>7. r - e = MinRespawn
      BY <2>5, <3>6
    <3>8. c - r \in 0 .. LateSlack + Coincidence
      <4>1. PICK t \in Nat : t = Timer /\ c - d <= t + LateSlack /\ t <= MinRespawn
        BY <2>5, <3>3, <3>4
      <4>2. /\ e <= d /\ d <= e + Coincidence /\ d <= r /\ r <= c
            /\ c \in Nat /\ d \in Nat /\ e \in Nat /\ r \in Nat
        BY <2>2, <3>5, <3>6
      <4>3. 0 <= c - r /\ c - r <= LateSlack + Coincidence
        BY <3>7, <4>1, <4>2, Assumed
      <4>4. QED
        BY <4>2, <4>3, Assumed
    <3>9. QED
      BY <3>6, <3>8
  <2>6. QED
    BY <2>2, <2>3, <2>4, <2>5
<1>2. QED
  BY <1>1, TheInvariantHolds, PTL
=============================================================================
