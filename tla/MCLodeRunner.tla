---------------------------- MODULE MCLodeRunner ----------------------------
(* Two small boards: one with a ladder, ropes, a false brick and an exit   *)
(* ladder, and two guards; one to dig in, from which there is no way out.  *)
EXTENDS LodeRunner

O == "SPACE"
B == "BRICK"
S == "SOLID"
H == "LADDER"
R == "ROPE"
F == "FALLTHRU"
E == "EOS_LADDER"
G == "GOLD"
M == "GUARD"
P == "PLAYER"

MC_Board(rows) == [c \in Cells |-> rows[c[1] + 1][c[2] + 1]]

MC_First == MC_Board(
  << <<E, R, S>>,
     <<E, M, M>>,
     <<H, G, F>>,
     <<H, P, R>> >>)

MC_Second == MC_Board(
  << <<M, S, S>>,
     <<G, O, P>>,
     <<S, B, S>>,
     <<S, S, O>> >>)

MC_Levels == <<MC_First, MC_Second>>

(* The keys of an interactive game: one at a time.                         *)
MC_Interactive == {<<k, k>> : k \in {"I", "J", "K", "L", "U", "O", " "}}
=============================================================================
