--------------------------- MODULE LodeMarks_proofs ---------------------------
(***************************************************************************)
(* The marks and the holes of Lode Runner.  The marks of the dynamic map   *)
(* are where the guards and the player are; from this, and from the time   *)
(* it takes to dig, follows that the list of holes is exact: it is never   *)
(* full, and every brick that is gone is in it once.                       *)
(***************************************************************************)
EXTENDS LodeRunner_proofs

(* MarksTrue, and that a guard who waits to come back is not in a hole: a  *)
(* brick that closes there would find him in place of a living one.        *)
Lives(g) == guard[g].cnt = 0
EachMarked ==
  /\ ldu1[player.at] = "PLAYER"
  /\ \A g \in Guards : Lives(g) => ldu1[guard[g].at] = "GUARD"
  /\ \A g, h \in Guards : Lives(g) /\ Lives(h) /\ guard[g].at = guard[h].at => g = h
MarkOf(c) ==
  /\ ldu1[c] = "GUARD" => \E g \in Guards : guard[g].at = c /\ Lives(g)
  /\ ldu1[c] = "PLAYER" => player.at = c
MarkInv ==
  /\ \A c \in Cells : MarkOf(c)
  /\ ~met /\ level_active => EachMarked
  /\ \A g \in Guards : ~Lives(g) => ldu2[guard[g].at] # "BRICK"

LEMMA Unmarked ==
  ASSUME GameInv, NEW c \in Cells
  PROVE  Vacated(c) \notin {"GUARD", "PLAYER", "BRICK"}
  BY DEF GameInv, BoardInv, Vacated, Static_Tiles

(* What every step from a state of the game can use.                       *)
LEMMA BoardTypes ==
  ASSUME GameInv
  PROVE  /\ ldu1 \in [Cells -> Tiles] /\ ldu2 \in [Cells -> Static_Tiles] /\ player.at \in Cells
         /\ guard \in [Guards -> Guardian] /\ \A g \in Guards : guard[g].at \in Cells
         /\ hole \in [Holes -> [at : Cells, cnt : 0..HOLE_TICKS]]
         /\ \A n \in Holes : hole[n].at \in Cells
         /\ level_active \in BOOLEAN
<1>1. guard \in [Guards -> Guardian]
  BY DEF GameInv, TypeInv, TypeOK
<1>2. \A g \in Guards : guard[g].at \in Cells
  BY <1>1 DEF Guardian
<1> QED BY <1>1, <1>2, PlayerCell DEF GameInv, TypeInv, TypeOK, BoardInv

LEMMA PlayerMarks ==
  ASSUME GameInv, MarkInv, PlayerTurn
  PROVE  MarkInv'
<1>1. /\ UNCHANGED <<level_active, no_guards, guard>> /\ Guards' = Guards /\ level_active = TRUE
  BY DEF PlayerTurn, PlayerDone, lifeVars, guardVars, Guards, GameInv, TypeInv, PhaseInv, TypeOK
<1>2. \A g : Lives(g)' <=> Lives(g)
  BY <1>1 DEF Lives
<1>3. \A c \in Cells : ldu2'[c] = "BRICK" <=> ldu2[c] = "BRICK"
  <2>1. CASE ldu2' = ldu2
    BY <2>1
  <2>2. CASE GoldFrom(player.at)
    BY <2>2, BoardTypes DEF GoldFrom
  <2> QED BY <2>1, <2>2 DEF PlayerTurn, PlayerStays, PlayerGoes
<1>4. \A g \in Guards' : ~Lives(g)' => (ldu2[guard[g].at] # "BRICK")'
  BY <1>1, <1>2, <1>3, BoardTypes DEF MarkInv
<1>5. ASSUME NEW d \in Directions, PlayerGoes(d) PROVE MarkInv'
  <2> DEFINE c == player.at  e == Beside(player.at, d)
  <2>1. /\ ldu1' = [ldu1 EXCEPT ![c] = Vacated(c), ![e] = "PLAYER"] /\ player'.at = e
        /\ met' = (met \/ ldu1[e] = "GUARD") /\ c \in Cells /\ e \in Cells /\ c # e
        /\ Vacated(c) \notin {"GUARD", "PLAYER"}
    BY <1>5, BoardTypes, BesideFacts, Unmarked DEF PlayerGoes
  <2> HIDE DEF c, e
  <2>2. \A x \in Cells : ldu1'[x] = IF x = e THEN "PLAYER" ELSE IF x = c THEN Vacated(c) ELSE ldu1[x]
    BY <2>1, BoardTypes
  <2>3. ASSUME NEW x \in Cells PROVE MarkOf(x)'
    BY <1>1, <1>2, <2>1, <2>2, BoardTypes DEF MarkInv, MarkOf, c
  <2>4. ASSUME ~met' PROVE EachMarked'
    <3>1. EachMarked /\ ldu1[e] # "GUARD"
      BY <1>1, <2>1, <2>4 DEF MarkInv
    <3>2. ldu1[c] = "PLAYER"
      BY <3>1 DEF EachMarked, c
    <3>3. \A g \in Guards : Lives(g) => guard[g].at # c /\ guard[g].at # e
      BY <3>1, <3>2 DEF EachMarked
    <3> QED BY <1>1, <1>2, <2>1, <2>2, <3>1, <3>3, BoardTypes DEF EachMarked
  <2> QED BY <1>4, <2>3, <2>4 DEF MarkInv
<1>6. CASE PlayerStays
  <2>1. /\ player'.at = player.at /\ met' = met
        /\ \A x \in Cells : ldu1'[x] = ldu1[x] \/ (ldu1[x] = "BRICK" /\ ldu1'[x] = "SPACE")
    BY <1>6, BoardTypes DEF PlayerStays, Digs
  <2>2. ASSUME NEW x \in Cells PROVE MarkOf(x)'
    BY <1>1, <1>2, <2>1 DEF MarkInv, MarkOf
  <2>3. ASSUME ~met' PROVE EachMarked'
    <3>1. EachMarked
      BY <1>1, <2>1, <2>3 DEF MarkInv
    <3> QED BY <1>1, <1>2, <2>1, <3>1, BoardTypes DEF EachMarked
  <2> QED BY <1>4, <2>2, <2>3 DEF MarkInv
<1> QED BY <1>5, <1>6 DEF PlayerTurn

LEMMA WorldMarks ==
  ASSUME GameInv, MarkInv, World
  PROVE  MarkInv'
<1>1. /\ UNCHANGED <<player, level_active, no_guards, met>> /\ Guards' = Guards
      /\ \A c \in Drawn : ldu2[c] = "SPACE"
      /\ ldu2' = [c \in Cells |-> IF c \in Drawn THEN "LADDER" ELSE ldu2[c]]
      /\ ldu1' = [c \in Cells |-> IF \E g \in Back : guard[g].at = c THEN "GUARD" ELSE Laid[c]]
      /\ \A g \in Guards : /\ guard'[g].at = guard[g].at
                           /\ Lives(g) => guard'[g] = guard[g]
                           /\ g \in Back => guard[g].cnt = 1 /\ guard'[g].cnt = 0
                           /\ ~Lives(g) /\ g \notin Back => guard'[g].cnt # 0
  BY WorldFacts DEF lifeVars, Guards, Lives
<1>2. \A g \in Guards : Lives(g)' <=> Lives(g) \/ g \in Back
  BY <1>1 DEF Lives
<1>3. \A c \in Cells : Laid[c] = ldu1[c] \/ (ldu1[c] = "SPACE" /\ Laid[c] = "LADDER")
  BY DEF Laid
<1>4. /\ Back \subseteq Guards /\ \A g \in Back : Laid[guard[g].at] = "SPACE"
      /\ \A g, h \in Back : guard[g].at = guard[h].at => g = h
  <2>1. \A g \in Back : /\ g \in Guards /\ guard[g].cnt = 1 /\ Laid[guard[g].at] = "SPACE"
                        /\ \A h \in Guards : h > g /\ guard[h].at = guard[g].at => guard[h].cnt # 1
    BY DEF Back, Returns
  <2>2. Guards \subseteq Int
    BY DEF Guards
  <2>3. \A g, h \in Guards : g > h \/ h > g \/ g = h
    BY <2>2
  <2> QED BY <2>1, <2>3
<1>5. ASSUME NEW c \in Cells PROVE MarkOf(c)'
  <2>1. CASE \E g \in Back : guard[g].at = c
    BY <1>1, <1>2, <1>4, <2>1 DEF MarkOf
  <2>2. CASE ~\E g \in Back : guard[g].at = c
    <3>1. ldu1'[c] = Laid[c]
      BY <1>1, <2>2
    <3> QED BY <1>1, <1>2, <1>3, <3>1 DEF MarkInv, MarkOf
  <2> QED BY <2>1, <2>2
<1>6. ASSUME ~met', level_active' PROVE EachMarked'
  <2>1. EachMarked
    BY <1>1, <1>6 DEF MarkInv
  <2>2. ldu1'[player.at] = "PLAYER"
    <3>1. Laid[player.at] = "PLAYER" /\ player.at \in Cells
      BY <1>3, <2>1, BoardTypes DEF EachMarked
    <3> QED BY <1>1, <1>4, <3>1
  <2>3. \A g \in Guards : Lives(g) => Laid[guard[g].at] = "GUARD"
    BY <1>3, <2>1, BoardTypes DEF EachMarked
  <2>4. \A g \in Guards : Lives(g)' => ldu1'[guard[g].at] = "GUARD"
    BY <1>1, <1>2, <2>3, BoardTypes
  <2>5. \A g, h \in Guards : Lives(g)' /\ Lives(h)' /\ guard[g].at = guard[h].at => g = h
    BY <1>2, <1>4, <2>1, <2>3 DEF EachMarked
  <2> QED BY <1>1, <2>2, <2>4, <2>5 DEF EachMarked
<1>7. \A g \in Guards : ~Lives(g)' => ldu2'[guard[g].at] # "BRICK"
  BY <1>1, <1>2, BoardTypes DEF MarkInv
<1> QED BY <1>1, <1>5, <1>6, <1>7 DEF MarkInv

LEMMA BrickMarks ==
  ASSUME GameInv, MarkInv, BrickReturns
  PROVE  MarkInv'
<1>1. PICK n \in Holes : hole[n].at \in Cells /\ BrickBack(n)
  BY BrickFacts
<1>2. PICK c \in Cells : c = hole[n].at
  BY <1>1
<1>3. /\ UNCHANGED <<ldu2, player, no_guards, met>> /\ Guards' = Guards /\ ldu2[c] = "BRICK"
      /\ ldu1' = [ldu1 EXCEPT ![c] = "BRICK"]
      /\ level_active' = (level_active /\ ldu1[c] # "PLAYER")
      /\ \/ NobodyBuried /\ (ldu1[c] = "GUARD" => \A g \in Guards : guard[g].at # c)
         \/ \E g \in Guards, b \in Cells : BuriedFrom(c, g, b)
  BY <1>1, <1>2 DEF BrickBack, Guards
<1>4. \A x \in Cells : ldu1'[x] = IF x = c THEN "BRICK" ELSE ldu1[x]
  BY <1>3, BoardTypes
<1>5. CASE NobodyBuried /\ (ldu1[c] = "GUARD" => \A g \in Guards : guard[g].at # c)
  <2>1. guard' = guard /\ \A g : Lives(g)' <=> Lives(g)
    BY <1>5 DEF NobodyBuried, Lives
  <2>2. ASSUME NEW x \in Cells PROVE MarkOf(x)'
    BY <1>3, <1>4, <2>1 DEF MarkInv, MarkOf
  <2>3. ASSUME ~met', level_active' PROVE EachMarked'
    <3>1. EachMarked /\ ldu1[c] # "PLAYER"
      BY <1>3, <2>3, BoardTypes DEF MarkInv
    <3>2. \A g \in Guards : Lives(g) => guard[g].at # c
      BY <1>5, <3>1 DEF EachMarked
    <3> QED BY <1>3, <1>4, <2>1, <3>1, <3>2, BoardTypes DEF EachMarked
  <2> QED BY <1>3, <2>1, <2>2, <2>3 DEF MarkInv
<1>6. ASSUME NEW g \in Guards, NEW b \in Cells, BuriedFrom(c, g, b) PROVE MarkInv'
  <2>1. /\ guard[g].at = c /\ ldu2[b] = "SPACE" /\ guard' = [guard EXCEPT ![g] = Dead(b)]
        /\ ldu1[c] = "GUARD"
    BY <1>6 DEF BuriedFrom
  <2>2. Lives(g)
    BY <1>3, <2>1 DEF MarkInv
  <2>3. /\ ~Lives(g)' /\ guard'[g].at = b
        /\ \A h \in Guards : h # g => guard'[h] = guard[h] /\ (Lives(h)' <=> Lives(h))
    <3>1. RESPAWN # 0
      BY TimesAssumption
    <3> QED BY <2>1, <3>1, BoardTypes DEF Dead, Lives
  <2>4. ASSUME NEW x \in Cells PROVE MarkOf(x)'
    BY <1>3, <1>4, <2>1, <2>3 DEF MarkInv, MarkOf
  <2>5. ASSUME ~met', level_active' PROVE EachMarked'
    <3>1. EachMarked
      BY <1>3, <2>5, BoardTypes DEF MarkInv
    <3>2. \A h \in Guards : h # g /\ Lives(h) => guard[h].at # c
      BY <2>1, <2>2, <3>1 DEF EachMarked
    <3>3. player.at # c
      BY <2>1, <3>1 DEF EachMarked
    <3> QED BY <1>3, <1>4, <2>3, <3>1, <3>2, <3>3, BoardTypes DEF EachMarked
  <2>6. \A h \in Guards : ~Lives(h)' => ldu2[(guard[h].at)'] # "BRICK"
    BY <2>1, <2>3 DEF MarkInv
  <2> QED BY <1>3, <2>4, <2>5, <2>6 DEF MarkInv
<1> QED BY <1>3, <1>5, <1>6

LEMMA GuardMarks ==
  ASSUME GameInv, MarkInv, GuardTurn
  PROVE  MarkInv'
<1>1. /\ UNCHANGED <<player, no_guards, met>> /\ Guards' = Guards /\ phase = "guards"
      /\ level_active = TRUE
  BY DEF GuardTurn, GuardDone, Guards, GameInv, TypeInv, PhaseInv, TypeOK
<1>2. Turn \in Guards /\ guard[Turn].at \in Cells
  BY <1>1, MeFacts, BoardTypes
<1>3. PICK u \in Guardian :
        /\ guard' = [guard EXCEPT ![Turn] = u] /\ u.cnt = guard[Turn].cnt
        /\ GuardStaysAs(u) \/ \E d \in Directions : GuardGoes(u, d)
  BY DEF GuardTurn, Saved
<1>4. /\ \A g \in Guards : Lives(g)' <=> Lives(g)
      /\ \A g \in Guards : guard'[g].at = IF g = Turn THEN u.at ELSE guard[g].at
  BY <1>2, <1>3, BoardTypes DEF Lives
<1>5. \A c \in Cells : ldu2'[c] = "BRICK" <=> ldu2[c] = "BRICK"
  BY <1>2, <1>3, BoardTypes DEF GuardStaysAs, GuardGoes, KeepsGold, TakesUp, PutsDown, LosesGold
<1>6. CASE GuardStaysAs(u)
  <2>1. UNCHANGED <<ldu1, level_active>> /\ \A g \in Guards : guard'[g].at = guard[g].at
    BY <1>4, <1>6 DEF GuardStaysAs
  <2>2. ASSUME NEW x \in Cells PROVE MarkOf(x)'
    BY <1>1, <1>4, <2>1 DEF MarkInv, MarkOf
  <2>3. ASSUME ~met' PROVE EachMarked'
    <3>1. EachMarked
      BY <1>1, <2>3 DEF MarkInv
    <3> QED BY <1>1, <1>4, <2>1, <3>1 DEF EachMarked
  <2>4. \A g \in Guards : ~Lives(g)' => (ldu2[guard[g].at] # "BRICK")'
    BY <1>4, <1>5, <2>1, BoardTypes DEF MarkInv
  <2> QED BY <1>1, <2>2, <2>3, <2>4 DEF MarkInv
<1>7. ASSUME NEW d \in Directions, GuardGoes(u, d) PROVE MarkInv'
  <2> DEFINE a == guard[Turn].at  e == Beside(guard[Turn].at, d)
  <2>1. PICK m \in {"GOLD", Vacated(a)} :
          ldu1' = [ldu1 EXCEPT ![a] = m, ![e] = "GUARD"]
    BY <1>7 DEF GuardGoes
  <2>2. /\ Lives(Turn) /\ u.at = e /\ e \in Cells /\ e # a /\ a \in Cells
        /\ level_active' = (ldu1[e] # "PLAYER") /\ ldu1[e] # "GUARD"
    BY <1>1, <1>2, <1>7, BesideFacts DEF GuardGoes, Lives
  <2>3. m \notin {"GUARD", "PLAYER"}
    BY <1>2, <2>1, Unmarked
  <2> HIDE DEF e
  <2>4. \A x \in Cells : ldu1'[x] = IF x = e THEN "GUARD" ELSE IF x = a THEN m ELSE ldu1[x]
    BY <2>1, <2>2, BoardTypes
  <2>5. ASSUME NEW x \in Cells PROVE MarkOf(x)'
    BY <1>1, <1>2, <1>4, <2>2, <2>3, <2>4 DEF MarkInv, MarkOf
  <2>6. ASSUME ~met', level_active' PROVE EachMarked'
    <3>1. EachMarked /\ ldu1[e] # "PLAYER" /\ ldu1[a] = "GUARD"
      BY <1>1, <1>2, <2>2, <2>6 DEF MarkInv, EachMarked
    <3>2. player.at # e /\ player.at # a
      BY <3>1 DEF EachMarked
    <3>3. \A g \in Guards : g # Turn /\ Lives(g) => guard[g].at # e /\ guard[g].at # a
      BY <1>2, <2>2, <3>1 DEF EachMarked
    <3> QED BY <1>1, <1>2, <1>4, <2>2, <2>4, <3>1, <3>2, <3>3, BoardTypes DEF EachMarked
  <2>7. \A g \in Guards : ~Lives(g)' => (ldu2[guard[g].at] # "BRICK")'
    BY <1>2, <1>4, <1>5, <2>2, BoardTypes DEF MarkInv
  <2> QED BY <1>1, <2>5, <2>6, <2>7 DEF MarkInv
<1> QED BY <1>3, <1>6, <1>7

LEMMA FreshMarks == Fresh => MarkInv
<1> SUFFICES ASSUME NEW l \in 1..Len(Levels), Begun(l) PROVE MarkInv
  BY DEF Fresh
<1> DEFINE b == Levels[l]
<1>1. /\ \A n, m \in 1..GuardCount(b) : GuardStart(b, n) = GuardStart(b, m) => n = m
      /\ \A c \in Cells :
           /\ Dynamic(b)[c] = "PLAYER" <=> c = PlayerStart(b)
           /\ Dynamic(b)[c] = "GUARD" <=> \E n \in 1..GuardCount(b) : c = GuardStart(b, n)
      /\ \A n \in 1..GuardCount(b) : /\ StartGuards(b)[n].at = GuardStart(b, n)
                                     /\ StartGuards(b)[n].cnt = 0
      /\ PlayerStart(b) \in Cells /\ \A n \in 1..GuardCount(b) : GuardStart(b, n) \in Cells
  BY StartFacts, StartBoard
<1>2. /\ ldu1 = Dynamic(b) /\ player.at = PlayerStart(b)
      /\ Guards = 1..GuardCount(b) /\ guard = StartGuards(b)
  BY DEF Begun, Guards
<1> HIDE DEF b
<1>3. \A g \in Guards : Lives(g) /\ guard[g].at = GuardStart(b, g) /\ guard[g].at \in Cells
  BY <1>1, <1>2 DEF Lives
<1>4. \A c \in Cells : MarkOf(c)
  BY <1>1, <1>2, <1>3 DEF MarkOf
<1>5. EachMarked
  BY <1>1, <1>2, <1>3 DEF EachMarked
<1> QED BY <1>3, <1>4, <1>5 DEF MarkInv

LEMMA FreshMarksNext == Fresh' => MarkInv'
  BY FreshMarks, PTL

LEMMA MarksStep ==
  ASSUME GameInv, MarkInv, [Next]_vars
  PROVE  MarkInv'
<1>1. CASE Next
  <2>1. CASE Restarts
    BY <2>1, RestartFresh, FreshMarksNext
  <2> QED BY <1>1, <2>1, StepShape, PlayerMarks, WorldMarks, BrickMarks, GuardMarks
<1>2. CASE UNCHANGED vars
  BY <1>2 DEF vars, board, lifeVars, guardVars, MarkInv, MarkOf, EachMarked, Lives, Guards
<1> QED BY <1>1, <1>2

LEMMA MarksAlways == Spec => []MarkInv
<1>1. Init => MarkInv
  BY InitBegun, FreshMarks DEF Fresh
<1>2. GameInv /\ MarkInv /\ [Next]_vars => MarkInv'
  BY MarksStep
<1> QED BY <1>1, <1>2, GameAlways, PTL DEF Spec

(* No mark of a guard or of the player is left behind, and until the       *)
(* player walks into a guard everybody has his own: nobody stands in       *)
(* another's cell, and no brick closes over anybody unseen.                *)
THEOREM MarksAreTrue == Spec => []MarksTrue
<1>1. MarkInv => MarksTrue
  BY DEF MarkInv, MarkOf, EachMarked, Lives, MarksTrue
<1> QED BY <1>1, MarksAlways, PTL

-----------------------------------------------------------------------------
(* The times of the holes.  The counts of two holes differ by at least the *)
(* ticks it takes to dig, and those of all holes are at least as far from  *)
(* HOLE_TICKS as the player has got with the next one.                     *)
DigTicks == DIG_FRAMES + 1
Apart(h, n, m) ==
  h[n].cnt # 0 /\ h[m].cnt # 0 /\ h[n].cnt <= h[m].cnt => n = m \/ h[n].cnt + DigTicks <= h[m].cnt
Since == IF phase = "world" THEN dig_sprite ELSE dig_sprite + 1
TimeInv ==
  /\ \A n \in expired : hole[n].cnt = 0
  /\ \A n, m \in Holes : Apart(hole, n, m)
  /\ \A n \in Holes : hole[n].cnt # 0 => hole[n].cnt <= HOLE_TICKS - Since

LEMMA HoleTypes ==
  ASSUME GameInv
  PROVE  /\ hole \in [Holes -> [at : Cells, cnt : 0..HOLE_TICKS]] /\ expired \subseteq Holes
         /\ \A n \in Holes : hole[n].cnt \in Nat /\ hole[n].at \in Cells
         /\ HOLE_TICKS \in Nat \ {0} /\ DIG_FRAMES \in Nat \ {0} /\ DigTicks \in Nat \ {0}
         /\ dig_sprite \in Nat
<1>1. HOLE_TICKS \in Nat \ {0} /\ DIG_FRAMES \in Nat \ {0}
  BY TimesAssumption
<1>2. DigTicks \in Nat \ {0}
  BY <1>1 DEF DigTicks
<1>3. /\ hole \in [Holes -> [at : Cells, cnt : 0..HOLE_TICKS]] /\ expired \subseteq Holes
      /\ dig_sprite \in 0..DIG_FRAMES
  BY DEF GameInv, TypeInv, TypeOK
<1> QED BY <1>1, <1>2, <1>3

(* The holes would not fit into their times if the list were full.         *)
LEMMA HoleIsFree ==
  ASSUME GameInv, TimeInv, phase = "player", dig_sprite = DIG_FRAMES
  PROVE  \E n \in Holes : hole[n].cnt = 0
<1> SUFFICES ASSUME \A n \in Holes : hole[n].cnt # 0
             PROVE  FALSE
  OBVIOUS
<1> DEFINE Frames == 0..DIG_FRAMES
           S == Holes \X Frames
           T == 1..(HOLE_TICKS - 1)
           f == [p \in S |-> hole[p[1]].cnt + p[2]]
<1>1. \A n \in Holes : hole[n].cnt \in Nat /\ hole[n].cnt # 0 /\ hole[n].cnt + DigTicks <= HOLE_TICKS
  <2>1. Since = DigTicks
    BY DEF Since, DigTicks
  <2> QED BY <2>1, HoleTypes DEF TimeInv
<1>2. \A n \in Holes, i \in Frames : hole[n].cnt + i \in T
  BY <1>1, HoleTypes DEF DigTicks
<1>3. f \in [S -> T]
  BY <1>2
<1>4. IsFiniteSet(S) /\ Cardinality(S) = MAX_HOLES * DigTicks
  <2>1. MAX_HOLES \in Nat \ {0}
    BY TimesAssumption
  <2>2. MAX_HOLES - 1 \in Int /\ ~(0 > MAX_HOLES - 1) /\ (MAX_HOLES - 1) - 0 + 1 = MAX_HOLES
    BY <2>1
  <2>3. IsFiniteSet(Holes) /\ Cardinality(Holes) = MAX_HOLES
    BY <2>2, FS_Interval DEF Holes
  <2>4. DIG_FRAMES \in Int /\ ~(0 > DIG_FRAMES) /\ DIG_FRAMES - 0 + 1 = DigTicks
    BY HoleTypes DEF DigTicks
  <2>5. IsFiniteSet(Frames) /\ Cardinality(Frames) = DigTicks
    BY <2>4, FS_Interval
  <2> QED BY <2>3, <2>5, FS_Product
<1>5. IsFiniteSet(T) /\ Cardinality(T) = HOLE_TICKS - 1
  <2>1. HOLE_TICKS - 1 \in Nat
    BY HoleTypes
  <2>2. IsFiniteSet(T) /\ Cardinality(T) = IF 1 > HOLE_TICKS - 1 THEN 0 ELSE (HOLE_TICKS - 1) - 1 + 1
    BY <2>1, FS_Interval
  <2> QED BY <2>1, <2>2
<1>6. Cardinality(T) < Cardinality(S)
  <2>1. MAX_HOLES * DigTicks \in Int
    BY TimesAssumption, HoleTypes
  <2>2. HOLE_TICKS <= MAX_HOLES * DigTicks
    BY HolesAssumption DEF DigTicks
  <2> QED BY <1>4, <1>5, <2>1, <2>2, HoleTypes
<1>7. PICK p \in S, q \in S : p # q /\ f[p] = f[q]
  <2> HIDE DEF S, T, f
  <2> QED BY <1>3, <1>4, <1>5, <1>6, FS_PigeonHole
<1>8. PICK n \in Holes, i \in Frames : p = <<n, i>>
  OBVIOUS
<1>9. PICK m \in Holes, j \in Frames : q = <<m, j>>
  OBVIOUS
<1>10. hole[n].cnt + i = hole[m].cnt + j /\ (n # m \/ i # j)
  BY <1>7, <1>8, <1>9
<1>11. n # m
  BY <1>1, <1>10
<1>12. Apart(hole, n, m) /\ Apart(hole, m, n)
  BY DEF TimeInv
<1>13. /\ hole[n].cnt <= hole[m].cnt => hole[n].cnt + DigTicks <= hole[m].cnt
       /\ hole[m].cnt <= hole[n].cnt => hole[m].cnt + DigTicks <= hole[n].cnt
  BY <1>1, <1>11, <1>12 DEF Apart
<1> QED BY <1>1, <1>10, <1>13, HoleTypes DEF DigTicks

(* What a turn of the player does to the holes: nothing, or he opens one.  *)
Opens(n, c) ==
  /\ ldu1[c] = "BRICK" /\ ldu1' = [ldu1 EXCEPT ![c] = "SPACE"]
  /\ hole[n].cnt = 0 /\ hole' = [hole EXCEPT ![n] = [at |-> c, cnt |-> HOLE_TICKS]]
  /\ dig_sprite = DIG_FRAMES /\ dig_sprite' = 0

LEMMA PlayerHoles ==
  ASSUME GameInv, TimeInv, PlayerTurn
  PROVE  \/ /\ hole' = hole /\ dig_sprite' \in Nat /\ dig_sprite' <= dig_sprite + 1
            /\ ldu1' = ldu1 \/ \E d \in Directions : PlayerGoes(d)
         \/ \E n \in Holes, c \in Cells : Opens(n, c)
<1>1. CASE \E d \in Directions : PlayerGoes(d)
  <2>1. hole' = hole /\ dig_sprite' = dig_sprite
    BY <1>1 DEF PlayerGoes, digVars
  <2>2. dig_sprite' \in Nat /\ dig_sprite' <= dig_sprite + 1
    BY <2>1, HoleTypes
  <2> QED BY <1>1, <2>1, <2>2
<1>2. CASE PlayerStays /\ UNCHANGED <<ldu1, hole>>
  <2>1. dig_sprite' \in 0..DIG_FRAMES /\ dig_sprite' <= dig_sprite + 1
    BY <1>2, HoleTypes DEF PlayerStays, Digs
  <2> QED BY <1>2, <2>1, HoleTypes
<1>3. ASSUME NEW c \in Cells, ldu1[c] = "BRICK", ldu1' = [ldu1 EXCEPT ![c] = "SPACE"], HoleAdded(c),
             dig_sprite = DIG_FRAMES, dig_sprite' = 0
      PROVE  \E n \in Holes : Opens(n, c)
  <2>1. ~\A n \in Holes : hole[n].cnt # 0
    BY <1>3, HoleIsFree DEF PlayerTurn
  <2>2. PICK n \in Holes : hole[n].cnt = 0 /\ hole' = [hole EXCEPT ![n] = [at |-> c, cnt |-> HOLE_TICKS]]
    BY <1>3, <2>1, HoleAddedFacts DEF GameInv, TypeInv
  <2> QED BY <1>3, <2>2 DEF Opens
<1> QED BY <1>1, <1>2, <1>3 DEF PlayerTurn, PlayerStays, Digs

LEMMA TimesStep ==
  ASSUME GameInv, TimeInv, PlayerTurn \/ World \/ BrickReturns \/ GuardTurn
  PROVE  TimeInv'
<1>1. CASE PlayerTurn
  <2>1. phase' = "world" /\ Since = dig_sprite + 1 /\ Since' = dig_sprite' /\ expired' = expired
    BY <1>1 DEF PlayerTurn, PlayerDone, Since
  <2>2. expired = {}
    BY <1>1 DEF PlayerTurn, GameInv, TypeInv, PhaseInv
  <2>3. CASE hole' = hole /\ dig_sprite' \in Nat /\ dig_sprite' <= dig_sprite + 1
    BY <2>1, <2>2, <2>3, HoleTypes DEF TimeInv, Apart
  <2>4. ASSUME NEW n \in Holes, NEW c \in Cells, Opens(n, c) PROVE TimeInv'
    <3>1. /\ hole' = [hole EXCEPT ![n] = [at |-> c, cnt |-> HOLE_TICKS]]
          /\ dig_sprite = DIG_FRAMES /\ dig_sprite' = 0
      BY <2>4 DEF Opens
    <3>2. Since = DigTicks /\ Since' = 0
      BY <2>1, <3>1 DEF DigTicks
    <3>3. hole'[n].cnt = HOLE_TICKS /\ \A m \in Holes : m # n => hole'[m].cnt = hole[m].cnt
      BY <3>1, HoleTypes
    <3>4. \A m \in Holes : hole[m].cnt # 0 => hole[m].cnt + DigTicks <= HOLE_TICKS
      BY <3>2, HoleTypes DEF TimeInv
    <3>5. \A m, k \in Holes : Apart(hole', m, k)
      <4> SUFFICES ASSUME NEW m \in Holes, NEW k \in Holes, hole'[m].cnt # 0, hole'[k].cnt # 0,
                          hole'[m].cnt <= hole'[k].cnt, m # k
                   PROVE  hole'[m].cnt + DigTicks <= hole'[k].cnt
        BY DEF Apart
      <4>1. CASE m # n /\ k # n
        <5>1. Apart(hole, m, k)
          BY DEF TimeInv
        <5> QED BY <3>3, <4>1, <5>1 DEF Apart
      <4>2. CASE k = n
        BY <3>3, <3>4, <4>2
      <4>3. CASE m = n
        BY <3>3, <3>4, <4>3, HoleTypes
      <4> QED BY <4>1, <4>2, <4>3
    <3>6. \A m \in Holes : hole'[m].cnt # 0 => hole'[m].cnt <= HOLE_TICKS - Since'
      BY <3>2, <3>3, <3>4, HoleTypes
    <3> QED BY <2>1, <2>2, <3>5, <3>6 DEF TimeInv, Apart
  <2> QED BY <1>1, <2>3, <2>4, PlayerHoles
<1>2. CASE World
  <2>1. /\ hole' = [n \in Holes |->
             IF hole[n].cnt = 0 THEN hole[n] ELSE [hole[n] EXCEPT !.cnt = hole[n].cnt - 1]]
        /\ expired' = {n \in Holes : hole[n].cnt = 1}
        /\ phase = "world" /\ phase' # "world" /\ dig_sprite' = dig_sprite
    BY <1>2, WorldFacts, WorldDoneFacts DEF digVars, GameInv, TypeInv
  <2>2. Since = dig_sprite /\ Since' = dig_sprite + 1
    BY <2>1 DEF Since
  <2>3. \A n \in Holes : hole'[n].cnt = IF hole[n].cnt = 0 THEN 0 ELSE hole[n].cnt - 1
    <3> SUFFICES ASSUME NEW n \in Holes
                 PROVE  hole'[n].cnt = IF hole[n].cnt = 0 THEN 0 ELSE hole[n].cnt - 1
      OBVIOUS
    <3>1. PICK t \in [at : Cells, cnt : 0..HOLE_TICKS] : t = hole[n]
      BY HoleTypes
    <3>2. hole'[n] = IF t.cnt = 0 THEN t ELSE [t EXCEPT !.cnt = t.cnt - 1]
      BY <2>1, <3>1
    <3> QED BY <3>1, <3>2
  <2>4. \A n \in expired' : hole'[n].cnt = 0
    BY <2>1, <2>3
  <2>5. \A n, m \in Holes : Apart(hole', n, m)
    <3> SUFFICES ASSUME NEW n \in Holes, NEW m \in Holes PROVE Apart(hole', n, m)
      OBVIOUS
    <3>1. Apart(hole, n, m)
      BY DEF TimeInv
    <3> QED BY <2>3, <3>1, HoleTypes DEF Apart
  <2>6. \A n \in Holes : hole'[n].cnt # 0 => hole'[n].cnt <= HOLE_TICKS - Since'
    BY <2>2, <2>3, HoleTypes DEF TimeInv
  <2> QED BY <2>4, <2>5, <2>6 DEF TimeInv, Apart
<1>3. CASE BrickReturns
  <2>1. PICK n \in Holes : BrickBack(n) /\ phase = "bricks"
    BY <1>3, BrickFacts
  <2>2. /\ hole' = [hole EXCEPT ![n] = NoHole] /\ expired' = expired \ {n}
        /\ dig_sprite' = dig_sprite /\ WorldDone(expired \ {n})
    BY <2>1 DEF BrickBack, WorldDone, digVars
  <2>3. phase' # "world"
    BY <2>2, WorldDoneFacts DEF GameInv, TypeInv
  <2>4. Since' = Since
    BY <2>1, <2>2, <2>3 DEF Since
  <2>5. \A m \in Holes : hole'[m].cnt = 0 \/ hole'[m].cnt = hole[m].cnt
    BY <2>2, HoleTypes DEF NoHole
  <2>6. \A m, k \in Holes : Apart(hole', m, k)
    <3> SUFFICES ASSUME NEW m \in Holes, NEW k \in Holes PROVE Apart(hole', m, k)
      OBVIOUS
    <3>1. Apart(hole, m, k)
      BY DEF TimeInv
    <3> QED BY <2>5, <3>1 DEF Apart
  <2>7. \A m \in expired' : hole'[m].cnt = 0
    BY <2>2, <2>5, HoleTypes DEF TimeInv
  <2>8. \A m \in Holes : hole'[m].cnt # 0 => hole'[m].cnt <= HOLE_TICKS - Since'
    BY <2>4, <2>5 DEF TimeInv
  <2> QED BY <2>6, <2>7, <2>8 DEF TimeInv, Apart
<1>4. CASE GuardTurn
  <2>1. UNCHANGED <<hole, expired, dig_sprite>> /\ phase = "guards" /\ phase' # "world"
    BY <1>4 DEF GuardTurn, GuardDone, digVars
  <2>2. Since' = Since
    BY <2>1 DEF Since
  <2> QED BY <2>1, <2>2 DEF TimeInv, Apart
<1> QED BY <1>1, <1>2, <1>3, <1>4

-----------------------------------------------------------------------------
(* The list of holes: until the player walks into a guard, the open holes  *)
(* are the bricks that are gone, each once.                                *)
Dug(c) == ldu2[c] = "BRICK" /\ ldu1[c] # "BRICK"
Listed(c) == \E n \in Holes : Open(n) /\ hole[n].at = c
EachListed == \A c \in Cells : Dug(c) <=> Listed(c)
OnceListed == \A n, m \in Holes : Open(n) /\ Open(m) /\ hole[n].at = hole[m].at => n = m
HoleInv == ~met => EachListed /\ OnceListed

(* A step that opens and closes nothing.                                   *)
LEMMA HolesStay ==
  ASSUME EachListed, OnceListed, \A n \in Holes : (Open(n)' <=> Open(n)) /\ (hole'[n].at = hole[n].at),
         \A c \in Cells : (Dug(c)' <=> Dug(c))
  PROVE  EachListed' /\ OnceListed'
<1>1. \A c \in Cells : Listed(c)' <=> Listed(c)
  BY DEF Listed
<1> QED BY <1>1 DEF EachListed, OnceListed

LEMMA BricksStay ==
  ASSUME GameInv, PlayerTurn \/ World \/ GuardTurn
  PROVE  \A c \in Cells : ldu2'[c] = "BRICK" <=> ldu2[c] = "BRICK"
<1>1. CASE PlayerTurn
  <2>1. CASE ldu2' = ldu2
    BY <2>1
  <2>2. CASE GoldFrom(player.at)
    BY <2>2, BoardTypes DEF GoldFrom
  <2> QED BY <1>1, <2>1, <2>2 DEF PlayerTurn, PlayerStays, PlayerGoes
<1>2. CASE World
  BY <1>2, WorldFacts
<1>3. CASE GuardTurn
  <2>1. Turn \in Guards /\ guard[Turn].at \in Cells
    BY <1>3, MeFacts, BoardTypes DEF GuardTurn, GuardDone
  <2>2. PICK u \in Guardian : GuardStaysAs(u) \/ \E d \in Directions : GuardGoes(u, d)
    BY <1>3 DEF GuardTurn
  <2> QED BY <2>1, <2>2, BoardTypes
          DEF GuardStaysAs, GuardGoes, KeepsGold, TakesUp, PutsDown, LosesGold
<1> QED BY <1>1, <1>2, <1>3

LEMMA PlayerKeepsList ==
  ASSUME GameInv, MarkInv, TimeInv, HoleInv, PlayerTurn
  PROVE  HoleInv'
<1> SUFFICES ASSUME ~met' PROVE EachListed' /\ OnceListed'
  BY DEF HoleInv
<1>1. expired' = expired /\ expired = {} /\ level_active = TRUE
  BY DEF PlayerTurn, PlayerDone, GameInv, TypeInv, PhaseInv, TypeOK
<1>2. ~met
  BY DEF PlayerTurn, PlayerStays, PlayerGoes
<1>3. EachListed /\ OnceListed /\ EachMarked
  BY <1>1, <1>2 DEF HoleInv, MarkInv
<1>4. CASE hole' = hole /\ (ldu1' = ldu1 \/ \E d \in Directions : PlayerGoes(d))
  <2>1. \A n \in Holes : (Open(n)' <=> Open(n)) /\ hole'[n].at = hole[n].at
    BY <1>1, <1>4 DEF Open
  <2>2. \A c \in Cells : ldu1'[c] = "BRICK" <=> ldu1[c] = "BRICK"
    <3>1. ASSUME NEW d \in Directions, PlayerGoes(d)
          PROVE  \A c \in Cells : ldu1'[c] = "BRICK" <=> ldu1[c] = "BRICK"
      <4> DEFINE e == Beside(player.at, d)
      <4>1. /\ ldu1' = [ldu1 EXCEPT ![player.at] = Vacated(player.at), ![e] = "PLAYER"]
            /\ Vacated(player.at) # "BRICK" /\ ldu1[e] # "BRICK" /\ ldu1[player.at] # "BRICK"
        BY <1>3, <3>1, BoardTypes, Unmarked DEF PlayerGoes, Wall, EachMarked
      <4> QED BY <4>1, BoardTypes
    <3> QED BY <1>4, <3>1
  <2>3. \A c \in Cells : Dug(c)' <=> Dug(c)
    BY <2>2, BricksStay DEF Dug
  <2> QED BY <1>3, <2>1, <2>3, HolesStay
<1>5. ASSUME NEW n \in Holes, NEW c \in Cells, Opens(n, c) PROVE EachListed' /\ OnceListed'
  <2>1. /\ ldu1[c] = "BRICK" /\ ldu1' = [ldu1 EXCEPT ![c] = "SPACE"]
        /\ hole[n].cnt = 0 /\ hole' = [hole EXCEPT ![n] = [at |-> c, cnt |-> HOLE_TICKS]]
    BY <1>5 DEF Opens
  <2>2. ldu2[c] = "BRICK"
    BY <2>1 DEF GameInv, BoardInv, Wall
  <2>3. ~Dug(c) /\ Dug(c)' /\ \A x \in Cells : x # c => (Dug(x)' <=> Dug(x))
    BY <2>1, <2>2, BoardTypes, BricksStay DEF Dug
  <2>4. /\ Open(n)' /\ hole'[n].at = c /\ ~Open(n)
        /\ \A m \in Holes : m # n => hole'[m] = hole[m] /\ (Open(m)' <=> Open(m))
    BY <1>1, <2>1, HoleTypes DEF Open
  <2>5. \A m \in Holes : Open(m) => hole[m].at # c
    BY <1>3, <2>3 DEF EachListed, Listed
  <2>6. \A x \in Cells : Listed(x)' <=> x = c \/ Listed(x)
    BY <2>4 DEF Listed
  <2>7. EachListed'
    BY <1>3, <2>3, <2>6 DEF EachListed
  <2>8. OnceListed'
    BY <1>3, <2>4, <2>5 DEF OnceListed
  <2> QED BY <2>7, <2>8
<1> QED BY <1>4, <1>5, PlayerHoles

LEMMA WorldKeepsList ==
  ASSUME GameInv, HoleInv, World
  PROVE  HoleInv'
<1>1. /\ met' = met /\ expired = {} /\ expired' = {n \in Holes : hole[n].cnt = 1}
      /\ hole' = [n \in Holes |->
           IF hole[n].cnt = 0 THEN hole[n] ELSE [hole[n] EXCEPT !.cnt = hole[n].cnt - 1]]
      /\ ldu1' = [c \in Cells |-> IF \E g \in Back : guard[g].at = c THEN "GUARD" ELSE Laid[c]]
  BY WorldFacts, WorldDoneFacts DEF GameInv, TypeInv
<1>2. ASSUME NEW n \in Holes
      PROVE  (Open(n)' <=> Open(n)) /\ hole'[n].at = hole[n].at
  <2>1. PICK t \in [at : Cells, cnt : 0..HOLE_TICKS] : t = hole[n]
    BY HoleTypes
  <2>2. hole'[n] = IF t.cnt = 0 THEN t ELSE [t EXCEPT !.cnt = t.cnt - 1]
    BY <1>1, <2>1
  <2>3. hole'[n].at = t.at /\ (hole'[n].cnt # 0 \/ t.cnt = 1 <=> t.cnt # 0)
    BY <2>2
  <2> QED BY <1>1, <2>1, <2>3 DEF Open
<1>3. \A c \in Cells : ldu1'[c] = "BRICK" <=> ldu1[c] = "BRICK"
  <2>1. \A c \in Cells : Laid[c] = ldu1[c] \/ (ldu1[c] = "SPACE" /\ Laid[c] = "LADDER")
    BY DEF Laid
  <2>2. \A g \in Back : Laid[guard[g].at] = "SPACE"
    BY DEF Back, Returns
  <2> QED BY <1>1, <2>1, <2>2
<1>4. \A c \in Cells : Dug(c)' <=> Dug(c)
  BY <1>3, BricksStay DEF Dug
<1> QED BY <1>1, <1>2, <1>4, HolesStay DEF HoleInv

LEMMA BrickKeepsList ==
  ASSUME GameInv, HoleInv, BrickReturns
  PROVE  HoleInv'
<1>1. PICK n \in Holes : hole[n].at \in Cells /\ BrickBack(n)
  BY BrickFacts
<1>2. PICK c \in Cells : c = hole[n].at
  BY <1>1
<1>3. /\ n \in expired /\ met' = met /\ ldu2' = ldu2 /\ ldu1' = [ldu1 EXCEPT ![c] = "BRICK"]
      /\ hole' = [hole EXCEPT ![n] = NoHole] /\ expired' = expired \ {n}
  BY <1>1, <1>2 DEF BrickBack, WorldDone
<1> SUFFICES ASSUME ~met PROVE EachListed' /\ OnceListed'
  BY <1>3 DEF HoleInv
<1>4. EachListed /\ OnceListed
  BY DEF HoleInv
<1>5. /\ Open(n) /\ ~Open(n)'
      /\ \A m \in Holes : m # n => hole'[m] = hole[m] /\ (Open(m)' <=> Open(m))
  BY <1>3, HoleTypes DEF Open, NoHole
<1>6. \A m \in Holes : Open(m)' => m # n /\ hole[m].at # c
  BY <1>2, <1>4, <1>5 DEF OnceListed
<1>7. ~Dug(c)' /\ \A x \in Cells : x # c => (Dug(x)' <=> Dug(x))
  BY <1>3, BoardTypes DEF Dug
<1>8. \A x \in Cells : Listed(x)' <=> x # c /\ Listed(x)
  BY <1>2, <1>5, <1>6 DEF Listed
<1>9. EachListed'
  BY <1>4, <1>7, <1>8 DEF EachListed
<1>10. OnceListed'
  BY <1>4, <1>5 DEF OnceListed
<1> QED BY <1>9, <1>10

LEMMA GuardKeepsList ==
  ASSUME GameInv, MarkInv, HoleInv, GuardTurn
  PROVE  HoleInv'
<1>1. /\ UNCHANGED <<met, hole, expired>> /\ phase = "guards" /\ level_active = TRUE
  BY DEF GuardTurn, GuardDone, GameInv, TypeInv, PhaseInv, TypeOK
<1> SUFFICES ASSUME ~met PROVE EachListed' /\ OnceListed'
  BY <1>1 DEF HoleInv
<1>2. EachListed /\ OnceListed /\ EachMarked
  BY <1>1 DEF HoleInv, MarkInv
<1>3. Turn \in Guards /\ guard[Turn].at \in Cells
  BY <1>1, MeFacts, BoardTypes
<1>4. PICK u \in Guardian : GuardStaysAs(u) \/ \E d \in Directions : GuardGoes(u, d)
  BY DEF GuardTurn
<1>5. \A c \in Cells : ldu1'[c] = "BRICK" <=> ldu1[c] = "BRICK"
  <2>1. ASSUME NEW d \in Directions, GuardGoes(u, d)
        PROVE  \A c \in Cells : ldu1'[c] = "BRICK" <=> ldu1[c] = "BRICK"
    <3> DEFINE a == guard[Turn].at  e == Beside(guard[Turn].at, d)
    <3>1. PICK m \in {"GOLD", Vacated(a)} : ldu1' = [ldu1 EXCEPT ![a] = m, ![e] = "GUARD"]
      BY <2>1 DEF GuardGoes
    <3>2. ldu1[e] # "BRICK" /\ Lives(Turn)
      BY <2>1 DEF GuardGoes, Wall, Lives
    <3>3. ldu1[a] # "BRICK"
      BY <1>2, <1>3, <3>2 DEF EachMarked
    <3>4. m # "BRICK"
      BY <1>3, <3>1, Unmarked
    <3> QED BY <3>1, <3>2, <3>3, <3>4, BoardTypes
  <2> QED BY <1>4, <2>1 DEF GuardStaysAs
<1>6. \A c \in Cells : Dug(c)' <=> Dug(c)
  BY <1>5, BricksStay DEF Dug
<1>7. \A n \in Holes : (Open(n)' <=> Open(n)) /\ hole'[n].at = hole[n].at
  BY <1>1 DEF Open
<1> QED BY <1>2, <1>6, <1>7, HolesStay

LEMMA FreshHoles == Fresh => TimeInv /\ HoleInv
<1> SUFFICES ASSUME NEW l \in 1..Len(Levels), Begun(l) PROVE TimeInv /\ HoleInv
  BY DEF Fresh
<1>1. expired = {} /\ \A n \in Holes : hole[n].cnt = 0
  BY DEF Begun, NoHole
<1>2. TimeInv
  BY <1>1 DEF TimeInv, Apart
<1>3. \A n \in Holes : ~Open(n)
  BY <1>1 DEF Open
<1>4. \A c \in Cells : ~Dug(c)
  <2>1. ldu1 = Dynamic(Levels[l]) /\ ldu2 = Static(Levels[l])
    BY DEF Begun
  <2> QED BY <2>1, StartBoard DEF Dug
<1> QED BY <1>2, <1>3, <1>4 DEF HoleInv, EachListed, OnceListed, Listed

LEMMA FreshHolesNext == Fresh' => TimeInv' /\ HoleInv'
  BY FreshHoles, PTL

LEMMA HolesStep ==
  ASSUME GameInv, MarkInv, TimeInv, HoleInv, [Next]_vars
  PROVE  TimeInv' /\ HoleInv'
<1>1. CASE Next
  <2>1. CASE Restarts
    BY <2>1, RestartFresh, FreshHolesNext
  <2> QED BY <1>1, <2>1, StepShape, TimesStep, PlayerKeepsList, WorldKeepsList, BrickKeepsList,
             GuardKeepsList
<1>2. CASE UNCHANGED vars
  BY <1>2 DEF vars, board, digVars, TimeInv, Apart, Since, HoleInv, EachListed, OnceListed, Dug,
              Listed, Open
<1> QED BY <1>1, <1>2

LEMMA HolesAlways == Spec => [](TimeInv /\ HoleInv)
<1>1. Init => TimeInv /\ HoleInv
  BY InitBegun, FreshHoles DEF Fresh
<1>2. GameInv /\ MarkInv /\ TimeInv /\ HoleInv /\ [Next]_vars => TimeInv' /\ HoleInv'
  BY HolesStep
<1> QED BY <1>1, <1>2, GameAlways, MarksAlways, PTL DEF Spec

(* Every brick that is gone is in the list of holes, once, and nothing     *)
(* else is: a brick never stays away for want of a free entry, and none    *)
(* closes over another (add_hole_entry, respawn_guards_and_update_holes).  *)
THEOREM HolesAreAccounted == Spec => []HolesAccounted
<1>1. HoleInv => HolesAccounted
  <2> SUFFICES ASSUME EachListed, OnceListed, NEW c \in Cells
               PROVE  LET entries == {n \in Holes : hole[n].at = c /\ Open(n)}
                      IN Cardinality(entries) = IF Dug(c) THEN 1 ELSE 0
    BY DEF HoleInv, HolesAccounted, Open, Dug
  <2> DEFINE entries == {n \in Holes : hole[n].at = c /\ Open(n)}
  <2>1. CASE Dug(c)
    <3>1. PICK n \in Holes : Open(n) /\ hole[n].at = c
      BY <2>1 DEF EachListed, Listed
    <3>2. entries = {n}
      BY <3>1 DEF OnceListed
    <3> QED BY <2>1, <3>2, FS_Singleton
  <2>2. CASE ~Dug(c)
    <3>1. entries = {}
      BY <2>2 DEF EachListed, Listed
    <3> QED BY <2>2, <3>1, FS_EmptySet
  <2> QED BY <2>1, <2>2
<1> QED BY <1>1, HolesAlways, PTL
=============================================================================
