------------------------------ MODULE GuardAI ------------------------------
(***************************************************************************)
(* How a guard chooses its direction (guard_ai of lr.c): straight along    *)
(* the row to the player if the floor goes all the way, else to the best   *)
(* ladder or drop within reach.  The loops that scan rows and columns are  *)
(* given by what they find.                                                *)
(***************************************************************************)
EXTENDS LodeBoard

Lowest(S) == CHOOSE n \in S : \A m \in S : n <= m
Highest(S) == CHOOSE n \in S : \A m \in S : m <= n

LocalRow == player.at[1]    \* current_row
LocalCol == player.at[2]    \* current_col

(* The row has a floor at column k, or something to hold on to.            *)
Floored(r, k) ==
  \/ ldu2[<<r, k>>] \in {"LADDER", "ROPE"}
  \/ r = LastRow
  \/ ldu2[<<r + 1, k>>] \notin {"SPACE", "FALLTHRU"}

(* Walking on from column k, whose tile is seen in map.                    *)
WalksOn(map, r, k) ==
  \/ map[<<r, k>>] \in {"LADDER", "ROPE"}
  \/ r = LastRow
  \/ ldu2[<<r + 1, k>>] \in Wall \cup {"LADDER"}

(* find_farthest_left_right: ldu1 is read to the left, ldu2 to the right.  *)
FarthestLeft(r, c) ==
  Lowest({k \in 0..c : /\ \A j \in k..(c - 1) : ldu1[<<r, j>>] \notin Wall
                       /\ \A j \in (k + 1)..(c - 1) : WalksOn(ldu1, r, j)})
FarthestRight(r, c) ==
  Highest({k \in c..LastCol : /\ \A j \in (c + 1)..k : ldu2[<<r, j>>] \notin Wall
                              /\ \A j \in (c + 1)..(k - 1) : WalksOn(ldu2, r, j)})

(* A way off a ladder between rows r and r + 1, to column k.               *)
WayOff(r, k) == ldu2[<<r + 1, k>>] \in Wall \cup {"LADDER"}

FarthestUp(r, c) ==
  Highest({h \in 0..r :
    \/ h = 0
    \/ ldu2[<<h, c>>] # "LADDER"
    \/ /\ h < r /\ h <= LocalRow
       /\ \E k \in {c - 1, c + 1} \cap (0..LastCol) : WayOff(h, k) \/ ldu2[<<h, k>>] = "ROPE"})

(* To the right the rope is looked for a row too low, if the left column   *)
(* was looked at below.                                                    *)
BugRow(h, c) == IF c > 0 /\ ldu2[<<h, c - 1>>] # "ROPE" THEN h + 1 ELSE h

FarthestDown(r, c) ==
  Lowest({h \in r..LastRow :
    \/ h = LastRow
    \/ ldu2[<<h + 1, c>>] \in Wall
    \/ /\ ldu2[<<h, c>>] # "SPACE" /\ h >= LocalRow
       /\ \/ c > 0 /\ (ldu2[<<h, c - 1>>] = "ROPE" \/ WayOff(h, c - 1))
          \/ c < LastCol /\ (ldu2[<<BugRow(h, c), c + 1>>] = "ROPE" \/ WayOff(h, c + 1))})

(* calc_row_col_delta: how good it is to get from column c to row h at     *)
(* column k.                                                               *)
Delta(c, k, h) ==
  IF h = LocalRow THEN (IF k >= c THEN k - c ELSE c - k)
  ELSE IF h > LocalRow THEN h - LocalRow + 200 ELSE LocalRow - h + 100

(* What can be had by going down or up at one of the columns in K.         *)
Deltas(r, c, K) ==
  {Delta(c, k, FarthestDown(r, k)) : k \in {j \in K : r # LastRow /\ ldu2[<<r + 1, j>>] \notin Wall}}
  \cup {Delta(c, k, FarthestUp(r, k)) : k \in {j \in K : r # 0 /\ ldu2[<<r, j>>] = "LADDER"}}
DeltasDown(r, c) ==
  IF r # LastRow /\ ldu2[<<r + 1, c>>] \notin Wall THEN {Delta(c, c, FarthestDown(r, c))} ELSE {}

(* The smallest wins; of equals the one that was looked at first.          *)
BestWay(r, c) ==
  LET down == DeltasDown(r, c)
      own == Deltas(r, c, {c})
      left == Deltas(r, c, FarthestLeft(r, c)..(c - 1))
      right == Deltas(r, c, (c + 1)..FarthestRight(r, c))
      all == own \cup left \cup right
      best == Lowest(all)
  IN IF all = {} THEN "NO_MOVE"
     ELSE IF best \in down THEN "DOWN"
     ELSE IF best \in own THEN "UP"
     ELSE IF best \in left THEN "LEFT" ELSE "RIGHT"

guard_ai(me) ==
  LET r == me.at[1]  c == me.at[2]
  IN IF ldu2[me.at] = "BRICK" /\ me.state > 0 THEN "UP"
     ELSE IF r = LocalRow /\ c < LocalCol /\ \A k \in (c + 1)..LocalCol : Floored(r, k) THEN "RIGHT"
     ELSE IF r = LocalRow /\ c >= LocalCol /\ \A k \in LocalCol..(c - 1) : Floored(r, k) THEN "LEFT"
     ELSE BestWay(r, c)
=============================================================================
