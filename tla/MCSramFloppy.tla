---------------------------- MODULE MCSramFloppy ----------------------------
(* A track of two sectors of two bytes, with the shortest gaps.            *)
EXTENDS SramFloppy

MC_StepClks == [r \in 0..3 |-> 1]
MC_Id(t, s) == <<78, 0, 161, 161, 254, t, 0, s, 1, 0, 256, 78, 0, 161, 161>>
MC_Sector(t, s, d) == MC_Id(t, s) \o <<251, d, d + 1, 0, 256>>
MC_Image == <<78>> \o MC_Sector(0, 0, 40) \o MC_Sector(0, 1, 50)
MC_BadCrc == [MC_Image EXCEPT ![21] = 257]    \* the data CRC of sector 0
MC_Track == [i \in 1..Len(MC_Image) |-> {MC_Image[i]}]
MC_DataField == [s \in {0, 1} |-> [i \in 1..3 |-> 20 * s + 16 + i]]
=============================================================================
