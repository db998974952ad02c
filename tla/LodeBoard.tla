----------------------------- MODULE LodeBoard -----------------------------
(***************************************************************************)
(* The board of the Lode Runner port (lr.c) and how things move on it.     *)
(* ldu2 is the static map: what a cell is made of.  ldu1 is the dynamic    *)
(* one: the same, with the marks of the guards and of the player, and with *)
(* the dug bricks gone.  The player and the guards are in a cell (at) at   *)
(* an offset (x, y) within it; MID is the centre.                          *)
(***************************************************************************)
EXTENDS Integers, FiniteSets

CONSTANTS
  LastRow,    \* 15
  LastCol,    \* 27
  MID         \* 2: the offsets within a cell are 0..2*MID

ASSUME BoardAssumption == LastRow \in Nat /\ LastCol \in Nat /\ MID \in Nat \ {0}

Tiles == {"SPACE", "BRICK", "SOLID", "LADDER", "ROPE", "FALLTHRU",
          "EOS_LADDER", "GOLD", "GUARD", "PLAYER"}
Cells == (0..LastRow) \X (0..LastCol)
Offsets == 0..(2 * MID)

VARIABLES
  ldu1,      \* the dynamic map
  ldu2,      \* the static map
  player     \* where the player is

Wall == {"BRICK", "SOLID"}
Directions == {"LEFT", "RIGHT", "UP", "DOWN"}
Sideways == {"LEFT", "RIGHT"}

Beside(c, d) ==
  CASE d = "LEFT"  -> <<c[1], c[2] - 1>>
    [] d = "RIGHT" -> <<c[1], c[2] + 1>>
    [] d = "UP"    -> <<c[1] - 1, c[2]>>
    [] d = "DOWN"  -> <<c[1] + 1, c[2]>>
Below(c) == Beside(c, "DOWN")

AtEdge(c, d) ==
  CASE d = "LEFT"  -> c[2] = 0
    [] d = "RIGHT" -> c[2] = LastCol
    [] d = "UP"    -> c[1] = 0
    [] d = "DOWN"  -> c[1] = LastRow

-----------------------------------------------------------------------------
Centred(t) == t.x = MID /\ t.y = MID

(* One step towards the centre, across the direction of the movement.      *)
Towards(n) == IF n < MID THEN n + 1 ELSE IF n > MID THEN n - 1 ELSE n
Adjusted(t, d) ==
  IF d \in Sideways THEN [t EXCEPT !.y = Towards(t.y)] ELSE [t EXCEPT !.x = Towards(t.x)]

(* Going in direction d, it has yet to reach the centre of its cell.       *)
BeforeCentre(t, d) ==
  CASE d = "LEFT"  -> t.x > MID
    [] d = "RIGHT" -> t.x < MID
    [] d = "UP"    -> t.y > MID
    [] d = "DOWN"  -> t.y < MID

(* The next step in direction d leaves the cell.                           *)
Leaves(t, d) ==
  CASE d = "LEFT"  -> t.x - 1 < 0
    [] d = "RIGHT" -> t.x + 1 > 2 * MID
    [] d = "UP"    -> t.y - 1 < 0
    [] d = "DOWN"  -> t.y + 1 > 2 * MID

Within(t, d) ==
  CASE d = "LEFT"  -> [t EXCEPT !.x = t.x - 1]
    [] d = "RIGHT" -> [t EXCEPT !.x = t.x + 1]
    [] d = "UP"    -> [t EXCEPT !.y = t.y - 1]
    [] d = "DOWN"  -> [t EXCEPT !.y = t.y + 1]

Into(t, d) ==
  CASE d = "LEFT"  -> [t EXCEPT !.at = Beside(t.at, d), !.x = 2 * MID]
    [] d = "RIGHT" -> [t EXCEPT !.at = Beside(t.at, d), !.x = 0]
    [] d = "UP"    -> [t EXCEPT !.at = Beside(t.at, d), !.y = 2 * MID]
    [] d = "DOWN"  -> [t EXCEPT !.at = Beside(t.at, d), !.y = 0]

(* What ldu1 shows of a cell that was left: a brick stays dug.             *)
Vacated_Refilled(c) == ldu2[c]
Vacated(c) == IF ldu2[c] = "BRICK" THEN "SPACE" ELSE ldu2[c]

(* Nothing holds it: it is not on a ladder or a rope, and has yet to sink  *)
(* to the centre or stands over one of the tiles in air.                   *)
Unsupported(t, air) ==
  /\ ldu2[t.at] # "LADDER"
  /\ ~(ldu2[t.at] = "ROPE" /\ t.y = MID)
  /\ \/ t.y < MID
     \/ /\ t.at[1] # LastRow
        /\ \/ ldu1[Below(t.at)] \in air
           \/ /\ ldu1[Below(t.at)] # "GUARD"
              /\ ldu2[Below(t.at)] \notin Wall \cup {"LADDER"}
=============================================================================
