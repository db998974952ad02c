---------------------------- MODULE MCKnightLore ----------------------------
(* The room of the cauldron, with one object, and the one to which the     *)
(* bubbles belong, with two; the rooms without objects on the way between  *)
(* them are left out.                                                      *)
EXTENDS KnightLore

MC_Rooms == {CAULDRON_SCREEN, BUBBLES_SCREEN}
MC_Exits == [r \in MC_Rooms |-> MC_Rooms \ {r}]
MC_StartScrn == [e \in Entries |-> IF e = 0 THEN CAULDRON_SCREEN ELSE BUBBLES_SCREEN]
MC_StartRooms == {BUBBLES_SCREEN}
MC_ObjectsRequired == <<0>>
=============================================================================
