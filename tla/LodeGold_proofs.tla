--------------------------- MODULE LodeGold_proofs ---------------------------
(***************************************************************************)
(* The gold of Lode Runner.  Every step of the game does to it one of the  *)
(* things that GoldLedger knows (GoldStep); from this follow that no_gold  *)
(* counts what is left, that the exit ladder is drawn whole, and that the  *)
(* game implements the ledger.                                             *)
(***************************************************************************)
EXTENDS LodeRunner_proofs

(* no_gold counts what is left, until it says that the exit is open.       *)
GoldInv ==
  \/ no_gold = Cardinality(Gold) + Cardinality(Carriers) /\ no_gold < 255
  \/ no_gold = 255 /\ Gold = {} /\ Carriers = {}

(* What a step can do to the gold.                                         *)
GoldStays == UNCHANGED <<no_gold, Gold, Carriers>>
GoldTaken1(c) ==
  /\ c \in Gold /\ Gold' = Gold \ {c} /\ Carriers' = Carriers /\ no_gold' = Decremented(no_gold)
GoldPickedUp(g, c) ==
  /\ c \in Gold /\ Gold' = Gold \ {c} /\ no_gold' = no_gold
  /\ g \notin Carriers /\ Carriers' = Carriers \cup {g}
GoldPutDown(g, c) ==
  /\ c \notin Gold /\ Gold' = Gold \cup {c} /\ no_gold' = no_gold
  /\ g \in Carriers /\ Carriers' = Carriers \ {g}
GoldLost(g) ==
  /\ g \in Carriers /\ Carriers' = Carriers \ {g} /\ Gold' = Gold
  /\ no_gold' = Decremented(no_gold)
ExitOpens == no_gold = 0 /\ no_gold' = 255 /\ Gold' = Gold /\ Carriers' = Carriers

GoldMoves ==
  \/ GoldStays \/ ExitOpens
  \/ \E c \in Cells : GoldTaken1(c)
  \/ \E g \in Guards, c \in Cells : GoldPickedUp(g, c) \/ GoldPutDown(g, c)
  \/ \E g \in Guards : GoldLost(g)

LEMMA GoldOfCells ==
  ASSUME NEW c \in Cells
  PROVE  /\ c \in Gold <=> ldu2[c] = "GOLD"
         /\ c \in Gold' <=> ldu2'[c] = "GOLD"
  BY DEF Gold, CellsOf

LEMMA GoldIsCells == Gold \subseteq Cells /\ Gold' \subseteq Cells
  BY DEF Gold, CellsOf

LEMMA CarriersAre ==
  /\ Carriers \subseteq Guards
  /\ \A g : g \in Carriers <=> g \in Guards /\ guard[g].state < 0
  /\ \A g : g \in Carriers' <=> g \in Guards' /\ guard'[g].state < 0
  BY DEF Carriers

(* One cell, or one guard, changes.                                        *)
LEMMA GoldGoes ==
  ASSUME GameInv, NEW c \in Cells, ldu2' = [ldu2 EXCEPT ![c] = "SPACE"]
  PROVE  Gold' = Gold \ {c}
<1>1. ldu2 \in [Cells -> Static_Tiles]
  BY DEF GameInv, BoardInv
<1>2. \A d \in Cells : ldu2'[d] = IF d = c THEN "SPACE" ELSE ldu2[d]
  BY <1>1
<1> QED BY <1>2, GoldOfCells, GoldIsCells

LEMMA GoldComes ==
  ASSUME GameInv, NEW c \in Cells, ldu2' = [ldu2 EXCEPT ![c] = "GOLD"]
  PROVE  Gold' = Gold \cup {c}
<1>1. ldu2 \in [Cells -> Static_Tiles]
  BY DEF GameInv, BoardInv
<1>2. \A d \in Cells : ldu2'[d] = IF d = c THEN "GOLD" ELSE ldu2[d]
  BY <1>1
<1> QED BY <1>2, GoldOfCells, GoldIsCells

LEMMA GuardChanges ==
  ASSUME GameInv, no_guards' = no_guards, NEW g \in Guards, NEW t, guard' = [guard EXCEPT ![g] = t]
  PROVE  /\ t.state < 0 => Carriers' = Carriers \cup {g}
         /\ ~(t.state < 0) => Carriers' = Carriers \ {g}
<1>1. guard \in [Guards -> Guardian] /\ Guards' = Guards
  BY DEF GameInv, TypeInv, TypeOK, Guards
<1>2. \A h \in Guards : guard'[h] = IF h = g THEN t ELSE guard[h]
  BY <1>1
<1> QED BY <1>1, <1>2, CarriersAre

LEMMA PlayerGold ==
  ASSUME GameInv, PlayerTurn
  PROVE  GoldMoves
<1>1. Carriers' = Carriers
  BY DEF PlayerTurn, PlayerDone, guardVars, Carriers, Guards
<1>2. CASE UNCHANGED <<no_gold, ldu2>>
  BY <1>1, <1>2 DEF GoldMoves, GoldStays, Gold, CellsOf
<1>3. CASE GoldFrom(player.at)
  <2>1. player.at \in Cells
    BY PlayerCell DEF GameInv, TypeInv
  <2>2. /\ ldu2[player.at] = "GOLD" /\ no_gold' = Decremented(no_gold)
        /\ ldu2' = [ldu2 EXCEPT ![player.at] = "SPACE"]
    BY <1>3 DEF GoldFrom
  <2>3. player.at \in Gold /\ Gold' = Gold \ {player.at}
    BY <2>1, <2>2, GoldGoes, GoldOfCells
  <2> QED BY <1>1, <2>1, <2>2, <2>3 DEF GoldMoves, GoldTaken1
<1> QED BY <1>2, <1>3 DEF PlayerTurn, PlayerStays, PlayerGoes

LEMMA WorldGold ==
  ASSUME GameInv, World
  PROVE  GoldMoves
<1>1. Gold' = Gold
  <2>1. \A c \in Cells : ldu2'[c] = ldu2[c] \/ (ldu2[c] = "SPACE" /\ ldu2'[c] = "LADDER")
    BY WorldFacts
  <2> QED BY <2>1, GoldOfCells, GoldIsCells
<1>2. Carriers' = Carriers
  <2>1. Guards' = Guards
    BY WorldFacts DEF Guards
  <2>2. DEAD \in Nat /\ WRIGGLE \in Nat \ {0} /\ WRIGGLE + 2 <= DEAD
    BY TimesAssumption
  <2>3. ASSUME NEW g \in Guards
        PROVE  guard[g].state < 0 <=> guard'[g].state < 0
    <3>1. CASE guard[g].cnt = 0
      BY <3>1, WorldFacts
    <3>2. CASE guard[g].cnt # 0
      <4>1. guard'[g].state \in {0, DEAD}
        BY <3>2, WorldFacts
      <4>2. TurnsLeft = 0
        BY WorldFacts DEF TurnsLeft
      <4>3. guard[g] \in Guardian /\ guard[g].state >= DEAD - 2 + 0
        BY <3>2, <4>2 DEF GameInv, TypeInv, TypeOK, DeadInv
      <4>4. guard[g].state \in Int
        BY <4>3 DEF Guardian
      <4>5. ~(guard[g].state < 0)
        BY <2>2, <4>3, <4>4
      <4> QED BY <2>2, <4>1, <4>5
    <3> QED BY <3>1, <3>2
  <2> QED BY <2>1, <2>3, CarriersAre
<1>3. no_gold' = no_gold \/ (no_gold = 0 /\ no_gold' = 255)
  BY WorldFacts
<1> QED BY <1>1, <1>2, <1>3 DEF GoldMoves, GoldStays, ExitOpens

LEMMA BrickGold ==
  ASSUME GameInv, BrickReturns
  PROVE  GoldMoves
<1>1. PICK n \in Holes : hole[n].at \in Cells /\ BrickBack(n)
  BY BrickFacts
<1>2. ldu2' = ldu2 /\ no_guards' = no_guards
  BY <1>1 DEF BrickBack
<1>3. Gold' = Gold
  BY <1>2 DEF Gold, CellsOf
<1>4. CASE NobodyBuried
  BY <1>2, <1>3, <1>4 DEF NobodyBuried, GoldMoves, GoldStays, Carriers, Guards
<1>5. CASE \E g \in Guards, b \in Cells : BuriedFrom(hole[n].at, g, b)
  <2>1. PICK g \in Guards, b \in Cells : BuriedFrom(hole[n].at, g, b)
    BY <1>5
  <2>2. /\ no_gold' = (IF guard[g].state < 0 THEN Decremented(no_gold) ELSE no_gold)
        /\ guard' = [guard EXCEPT ![g] = Dead(b)]
    BY <2>1 DEF BuriedFrom
  <2>3. ~(Dead(b).state < 0)
    <3>1. DEAD \in Nat
      BY TimesAssumption
    <3> QED BY <3>1 DEF Dead
  <2>4. Carriers' = Carriers \ {g}
    BY <1>2, <2>2, <2>3, GuardChanges
  <2>5. CASE guard[g].state < 0
    BY <1>3, <2>2, <2>4, <2>5, CarriersAre DEF GoldMoves, GoldLost
  <2>6. CASE ~(guard[g].state < 0)
    <3>1. Carriers' = Carriers
      BY <2>4, <2>6, CarriersAre
    <3> QED BY <1>3, <2>2, <2>6, <3>1 DEF GoldMoves, GoldStays
  <2> QED BY <2>5, <2>6
<1> QED BY <1>1, <1>4, <1>5 DEF BrickBack

LEMMA GuardGold ==
  ASSUME GameInv, GuardTurn
  PROVE  GoldMoves
<1>1. no_guards' = no_guards /\ phase = "guards"
  BY DEF GuardTurn, GuardDone
<1>2. Turn \in Guards /\ guard[Turn] \in Guardian /\ guard[Turn].at \in Cells
  BY <1>1, MeFacts DEF Guardian
<1>3. PICK u \in Guardian :
        /\ guard' = [guard EXCEPT ![Turn] = u]
        /\ GuardStaysAs(u) \/ \E d \in Directions : GuardGoes(u, d)
  BY DEF GuardTurn, Saved
<1>4. /\ u.state < 0 => Carriers' = Carriers \cup {Turn}
      /\ ~(u.state < 0) => Carriers' = Carriers \ {Turn}
      /\ Turn \in Carriers <=> guard[Turn].state < 0
  BY <1>1, <1>2, <1>3, GuardChanges, CarriersAre
<1>5. CASE KeepsGold(u)
  <2>1. Carriers' = Carriers
    BY <1>4, <1>5 DEF KeepsGold
  <2> QED BY <1>5, <2>1 DEF KeepsGold, GoldMoves, GoldStays, Gold, CellsOf
<1>6. CASE TakesUp(u) /\ u.at \in Cells
  <2>1. PICK c \in Cells : c = u.at
    BY <1>6
  <2>2. c \in Cells /\ ldu2[c] = "GOLD" /\ ldu2' = [ldu2 EXCEPT ![c] = "SPACE"] /\ no_gold' = no_gold
    BY <1>6, <2>1 DEF TakesUp
  <2>3. c \in Gold /\ Gold' = Gold \ {c}
    <3>1. c \in Gold
      BY <2>2, GoldOfCells
    <3>2. Gold' = Gold \ {c}
      BY <2>2, GoldGoes
    <3> QED BY <3>1, <3>2
  <2>4. Turn \notin Carriers /\ Carriers' = Carriers \cup {Turn}
    BY <1>4, <1>6 DEF TakesUp
  <2>5. GoldPickedUp(Turn, c)
    BY <2>2, <2>3, <2>4 DEF GoldPickedUp
  <2> QED BY <1>2, <2>2, <2>5 DEF GoldMoves
<1>7. CASE PutsDown(u)
  <2> DEFINE c == guard[Turn].at
  <2>1. c \notin Gold /\ Gold' = Gold \cup {c} /\ no_gold' = no_gold
    BY <1>2, <1>7, GoldComes, GoldOfCells DEF PutsDown
  <2>2. Turn \in Carriers /\ Carriers' = Carriers \ {Turn}
    BY <1>4, <1>7 DEF PutsDown
  <2>3. GoldPutDown(Turn, c)
    BY <2>1, <2>2 DEF GoldPutDown
  <2> QED BY <1>2, <2>3 DEF GoldMoves
<1>8. CASE LosesGold(u)
  <2>1. Turn \in Carriers /\ Carriers' = Carriers \ {Turn} /\ Gold' = Gold
    BY <1>4, <1>8 DEF LosesGold, Gold, CellsOf
  <2> QED BY <1>2, <1>8, <2>1 DEF LosesGold, GoldMoves, GoldLost
<1>9. u.at \in Cells
  BY DEF Guardian
<1> QED BY <1>3, <1>5, <1>6, <1>7, <1>8, <1>9 DEF GuardStaysAs, GuardGoes

LEMMA GoldStep ==
  ASSUME GameInv, [Next]_vars
  PROVE  GoldMoves \/ Fresh'
<1>1. CASE Next
  BY <1>1, StepShape, PlayerGold, WorldGold, BrickGold, GuardGold, RestartFresh
<1>2. CASE UNCHANGED vars
  BY <1>2 DEF vars, guardVars, board, GoldMoves, GoldStays, Gold, CellsOf, Carriers, Guards
<1> QED BY <1>1, <1>2

-----------------------------------------------------------------------------
LEMMA FreshGold == Fresh => Carriers = {} /\ no_gold = Cardinality(Gold) /\ no_gold \in 0..254
<1> SUFFICES ASSUME NEW l \in 1..Len(Levels), Begun(l)
             PROVE  Carriers = {} /\ no_gold = Cardinality(Gold) /\ no_gold \in 0..254
  BY DEF Fresh
<1> DEFINE b == Levels[l]
<1>1. /\ Cardinality(CellsOf(b, "GOLD")) \in 0..254
      /\ \A n \in 1..GuardCount(b) : StartGuards(b)[n].state = 0
      /\ \A c \in Cells : Static(b)[c] = "GOLD" <=> b[c] = "GOLD"
  BY StartFacts, StartBoard
<1>2. Gold = CellsOf(b, "GOLD")
  BY <1>1 DEF Gold, CellsOf, Begun
<1>3. Carriers = {}
  BY <1>1 DEF Carriers, Guards, Begun
<1> QED BY <1>1, <1>2, <1>3 DEF Begun

LEMMA FreshGoldInv == Fresh => GoldInv
<1> SUFFICES ASSUME Fresh PROVE GoldInv
  OBVIOUS
<1>1. Cardinality(Carriers) = 0
  BY FreshGold, FS_EmptySet
<1>2. no_gold \in Int /\ no_gold < 255 /\ no_gold = Cardinality(Gold)
  BY FreshGold
<1> QED BY <1>1, <1>2 DEF GoldInv

LEMMA FreshGoldNext == Fresh' => GoldInv'
  BY FreshGoldInv, PTL

LEMMA GoldCounts ==
  ASSUME GameInv
  PROVE  /\ IsFiniteSet(Gold) /\ IsFiniteSet(Carriers)
         /\ Cardinality(Gold) \in Nat /\ Cardinality(Carriers) \in Nat
         /\ no_gold \in 0..255
<1>1. no_guards \in Nat /\ no_gold \in 0..255
  <2>1. MAX_GUARDS \in Nat
    BY TimesAssumption
  <2> QED BY <2>1 DEF GameInv, TypeInv, TypeOK
<1>2. IsFiniteSet(Guards)
  BY <1>1, FS_Interval DEF Guards
<1>3. IsFiniteSet(Gold)
  BY GoldIsCells, CellsFinite
<1>4. IsFiniteSet(Carriers)
  BY <1>2, CarriersAre, FS_Subset
<1> QED BY <1>1, <1>3, <1>4, FS_CardinalityType

LEMMA GoldInvStep ==
  ASSUME GameInv, GoldInv, [Next]_vars
  PROVE  GoldInv'
<1> DEFINE p == Cardinality(Gold)  q == Cardinality(Carriers)
<1>1. /\ IsFiniteSet(Gold) /\ IsFiniteSet(Carriers) /\ p \in Nat /\ q \in Nat
      /\ no_gold \in 0..255
  BY GoldCounts
<1>2. CASE GoldStays
  BY <1>2 DEF GoldStays, GoldInv
<1>3. CASE ExitOpens
  <2>1. p = 0 /\ q = 0
    BY <1>1, <1>3 DEF ExitOpens, GoldInv
  <2>2. Gold = {} /\ Carriers = {}
    BY <1>1, <2>1, FS_EmptySet
  <2> QED BY <1>3, <2>2 DEF ExitOpens, GoldInv
<1>4. ASSUME NEW c \in Cells, GoldTaken1(c) PROVE GoldInv'
  <2>1. Cardinality(Gold') = p - 1 /\ Carriers' = Carriers /\ no_gold' = Decremented(no_gold)
    BY <1>1, <1>4, FS_RemoveElement DEF GoldTaken1
  <2>2. Cardinality(Gold \ {c}) \in Nat
    BY <1>1, FS_RemoveElement, FS_CardinalityType
  <2>3. no_gold = p + q /\ no_gold < 255
    BY <1>4 DEF GoldTaken1, GoldInv
  <2>4. p - 1 >= 0
    BY <1>1, <1>4, <2>1, <2>2 DEF GoldTaken1
  <2>5. no_gold' = (p - 1) + q /\ no_gold' < 255
    BY <1>1, <2>1, <2>3, <2>4 DEF Decremented
  <2> QED BY <2>1, <2>5 DEF GoldInv
<1>5. ASSUME NEW g \in Guards, NEW c \in Cells, GoldPickedUp(g, c) PROVE GoldInv'
  <2>1. Cardinality(Gold') = p - 1 /\ Cardinality(Carriers') = q + 1 /\ no_gold' = no_gold
    BY <1>1, <1>5, FS_RemoveElement, FS_AddElement DEF GoldPickedUp
  <2>2. no_gold = p + q /\ no_gold < 255
    BY <1>5 DEF GoldPickedUp, GoldInv
  <2>3. no_gold' = (p - 1) + (q + 1) /\ no_gold' < 255
    BY <1>1, <2>1, <2>2
  <2> QED BY <2>1, <2>3 DEF GoldInv
<1>6. ASSUME NEW g \in Guards, NEW c \in Cells, GoldPutDown(g, c) PROVE GoldInv'
  <2>1. Cardinality(Gold') = p + 1 /\ Cardinality(Carriers') = q - 1 /\ no_gold' = no_gold
    BY <1>1, <1>6, FS_RemoveElement, FS_AddElement DEF GoldPutDown
  <2>2. no_gold = p + q /\ no_gold < 255
    BY <1>6 DEF GoldPutDown, GoldInv
  <2>3. no_gold' = (p + 1) + (q - 1) /\ no_gold' < 255
    BY <1>1, <2>1, <2>2
  <2> QED BY <2>1, <2>3 DEF GoldInv
<1>7. ASSUME NEW g \in Guards, GoldLost(g) PROVE GoldInv'
  <2>1. Cardinality(Carriers') = q - 1 /\ Gold' = Gold /\ no_gold' = Decremented(no_gold)
    BY <1>1, <1>7, FS_RemoveElement DEF GoldLost
  <2>2. Cardinality(Carriers \ {g}) \in Nat
    BY <1>1, FS_RemoveElement, FS_CardinalityType
  <2>3. no_gold = p + q /\ no_gold < 255
    BY <1>7 DEF GoldLost, GoldInv
  <2>4. q - 1 >= 0
    BY <1>1, <1>7, <2>1, <2>2 DEF GoldLost
  <2>5. no_gold' = p + (q - 1) /\ no_gold' < 255
    BY <1>1, <2>1, <2>3, <2>4 DEF Decremented
  <2> QED BY <2>1, <2>5 DEF GoldInv
<1>8. CASE Fresh'
  BY <1>8, FreshGoldNext
<1> QED BY <1>2, <1>3, <1>4, <1>5, <1>6, <1>7, <1>8, GoldStep DEF GoldMoves

LEMMA GoldAlways == Spec => []GoldInv
<1>1. Init => GoldInv
  BY InitBegun, FreshGoldInv DEF Fresh
<1>2. GameInv /\ GoldInv /\ [Next]_vars => GoldInv'
  BY GoldInvStep
<1> QED BY <1>1, <1>2, GameAlways, PTL DEF Spec

(* However often gold is taken, carried, dropped, buried or lost in a      *)
(* hole, no_gold is what is left of it, on the board or with a guard.      *)
THEOREM GoldIsConserved == Spec => []GoldConserved
<1>1. GoldInv => GoldConserved
  BY DEF GoldInv, GoldConserved
<1> QED BY <1>1, GoldAlways, PTL

(* The exit ladder is drawn at once, and whole: with no_gold 0 no gold     *)
(* lies on its cells, where a guard may have dropped it.                   *)
THEOREM LadderIsUnbroken == Spec => []LadderUnbroken
<1>1. GameInv /\ GoldInv => LadderUnbroken
  <2> SUFFICES ASSUME GameInv, GoldInv, no_gold = 0, NEW c \in eos
               PROVE  ldu2[c] = "SPACE"
    BY DEF LadderUnbroken
  <2>1. c \in Cells /\ ldu2[c] \in {"SPACE", "GOLD"}
    BY DEF GameInv, TypeInv, TypeOK, BoardInv
  <2>2. Cardinality(Gold) = 0
    BY GoldCounts DEF GoldInv
  <2>3. Gold = {}
    BY <2>2, GoldCounts, FS_EmptySet
  <2> QED BY <2>1, <2>3, GoldOfCells
<1> QED BY <1>1, GameAlways, GoldAlways, PTL

-----------------------------------------------------------------------------
(* The ledger.                                                             *)
LEMMA LedgerStarts == Fresh => Ledger!LedgerInit
<1> SUFFICES ASSUME Fresh PROVE Ledger!LedgerInit
  OBVIOUS
<1>1. Carriers = {} /\ Gold \subseteq Cells /\ no_gold # 255
  BY FreshGold, GoldIsCells
<1> QED BY <1>1 DEF Ledger!LedgerInit

LedgerClosed == Carriers = {} /\ no_gold # 255

LEMMA FreshClosed == Fresh => LedgerClosed
<1> SUFFICES ASSUME Fresh PROVE LedgerClosed
  OBVIOUS
<1>1. Carriers = {} /\ no_gold \in 0..254
  BY FreshGold
<1> QED BY <1>1 DEF LedgerClosed

LEMMA LedgerStartsNext == Fresh' => LedgerClosed'
  BY FreshClosed, PTL

LEMMA LedgerStep ==
  ASSUME GameInv, GoldInv, [Next]_vars
  PROVE  [Ledger!LedgerNext]_(Ledger!ledgerVars)
<1>1. Guards \subseteq 1..MAX_GUARDS
  <2>1. MAX_GUARDS \in Nat /\ no_guards \in 0..MAX_GUARDS
    BY TimesAssumption DEF GameInv, TypeInv, TypeOK
  <2> QED BY <2>1 DEF Guards
<1>2. CASE GoldStays
  BY <1>2 DEF GoldStays, Ledger!ledgerVars
<1>3. CASE ExitOpens
  <2>1. Cardinality(Gold) = 0 /\ Cardinality(Carriers) = 0
    BY <1>3, GoldCounts DEF ExitOpens, GoldInv
  <2>2. Gold = {} /\ Carriers = {}
    BY <2>1, GoldCounts, FS_EmptySet
  <2> QED BY <1>3, <2>2 DEF ExitOpens, Ledger!LedgerNext, Ledger!OpenExit
<1>4. ASSUME NEW c \in Cells, GoldTaken1(c) PROVE Ledger!LedgerNext
  <2>1. no_gold' # 255 /\ no_gold # 255
    <3>1. no_gold = Cardinality(Gold) + Cardinality(Carriers) /\ no_gold < 255
      BY <1>4 DEF GoldTaken1, GoldInv
    <3>2. Cardinality(Gold) # 0
      BY <1>4, GoldCounts, FS_EmptySet DEF GoldTaken1
    <3> QED BY <1>4, <3>1, <3>2, GoldCounts DEF GoldTaken1, Decremented
  <2>2. Ledger!Take(c)
    BY <1>4, <2>1 DEF GoldTaken1, Ledger!Take
  <2> QED BY <2>2 DEF Ledger!LedgerNext
<1>5. ASSUME NEW g \in Guards, NEW c \in Cells, GoldPickedUp(g, c) PROVE Ledger!LedgerNext
  <2>1. Ledger!PickUp(g, c)
    BY <1>1, <1>5 DEF GoldPickedUp, Ledger!PickUp
  <2> QED BY <1>1, <2>1 DEF Ledger!LedgerNext
<1>6. ASSUME NEW g \in Guards, NEW c \in Cells, GoldPutDown(g, c) PROVE Ledger!LedgerNext
  <2>1. Ledger!PutDown(g, c)
    BY <1>6 DEF GoldPutDown, Ledger!PutDown
  <2> QED BY <1>1, <2>1 DEF Ledger!LedgerNext
<1>7. ASSUME NEW g \in Guards, GoldLost(g) PROVE Ledger!LedgerNext
  <2>1. no_gold' # 255 /\ no_gold # 255
    <3>1. no_gold = Cardinality(Gold) + Cardinality(Carriers) /\ no_gold < 255
      BY <1>7 DEF GoldLost, GoldInv
    <3>2. Cardinality(Carriers) # 0
      BY <1>7, GoldCounts, FS_EmptySet DEF GoldLost
    <3> QED BY <1>7, <3>1, <3>2, GoldCounts DEF GoldLost, Decremented
  <2>2. Ledger!Lose(g)
    BY <1>7, <2>1 DEF GoldLost, Ledger!Lose
  <2> QED BY <1>1, <2>2 DEF Ledger!LedgerNext
<1>8. CASE Fresh'
  BY <1>8, LedgerStartsNext, GoldIsCells DEF LedgerClosed, Ledger!LedgerNext, Ledger!NewLevel
<1> QED BY <1>2, <1>3, <1>4, <1>5, <1>6, <1>7, <1>8, GoldStep DEF GoldMoves

(* A level keeps the promises of GoldLedger: a piece of gold is in one     *)
(* place, a guard has at most one, and the exit opens when there is none   *)
(* left and not before.                                                    *)
THEOREM LedgerIsKept == Spec => ImplementsLedger
<1>1. Init => Ledger!LedgerInit
  BY InitBegun, LedgerStarts DEF Fresh
<1>2. GameInv /\ GoldInv /\ [Next]_vars => [Ledger!LedgerNext]_(Ledger!ledgerVars)
  BY LedgerStep
<1> QED
  BY <1>1, <1>2, GameAlways, GoldAlways, PTL DEF Spec, ImplementsLedger, Ledger!LedgerSpec
=============================================================================
