----------------------------- MODULE GoldLedger -----------------------------
(***************************************************************************)
(* What a level of Lode Runner promises about its gold.  A piece is on the *)
(* board, or with a guard, who has at most one; it goes to the player, or  *)
(* from the board to a guard and back, or is lost with the guard.  The     *)
(* exit opens when there is none left, and not before.                     *)
(***************************************************************************)
CONSTANTS Places, Bearers    \* the cells of the board, the guards

VARIABLES onBoard, carriers, exit

ledgerVars == <<onBoard, carriers, exit>>

LedgerInit == onBoard \subseteq Places /\ carriers = {} /\ exit = FALSE

Take(c) ==
  /\ c \in onBoard /\ onBoard' = onBoard \ {c}
  /\ UNCHANGED <<carriers, exit>>

PickUp(g, c) ==
  /\ c \in onBoard /\ g \in Bearers \ carriers
  /\ onBoard' = onBoard \ {c} /\ carriers' = carriers \cup {g}
  /\ UNCHANGED exit

PutDown(g, c) ==
  /\ g \in carriers /\ c \in Places \ onBoard
  /\ onBoard' = onBoard \cup {c} /\ carriers' = carriers \ {g}
  /\ UNCHANGED exit

Lose(g) ==
  /\ g \in carriers /\ carriers' = carriers \ {g}
  /\ UNCHANGED <<onBoard, exit>>

OpenExit ==
  /\ onBoard = {} /\ carriers = {} /\ exit' = TRUE
  /\ UNCHANGED <<onBoard, carriers>>

NewLevel == onBoard' \subseteq Places /\ carriers' = {} /\ exit' = FALSE

LedgerNext ==
  \/ \E c \in Places : Take(c)
  \/ \E g \in Bearers, c \in Places : PickUp(g, c) \/ PutDown(g, c)
  \/ \E g \in Bearers : Lose(g)
  \/ OpenExit \/ NewLevel

LedgerSpec == LedgerInit /\ [][LedgerNext]_ledgerVars
=============================================================================
