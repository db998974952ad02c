------------------------------ MODULE MCWD179x ------------------------------
(* The controller over a track of one sector with the shortest gaps.  Its  *)
(* ID says track 1, sector 0: READ ADDRESS moves the track into the sector *)
(* register, after which the sector is not found.                          *)
EXTENDS WD179x

MC_StepClks == [r \in 0..3 |-> r]
MC_Image == <<78, 0, 161, 161, 254, 1, 0, 0, 1, 0, 256,
              78, 0, 161, 161, 251, 40, 41, 0, 256>>
MC_Blank == <<{78}, {0}, {78}>>    \* an unformatted track
MC_Track == [i \in 1..Len(MC_Image) |-> {MC_Image[i]}]
=============================================================================
