---------------------------- MODULE MCFdcSystem ----------------------------
(* Tracks of one sector with the shortest gaps.                            *)
EXTENDS FdcSystem

MC_StepClks == [r \in 0..3 |-> 3 + r]
MC_TrackImage(t) == <<78, 0, 161, 161, 254, t, 0, 0, 1, 0, 256,
                      78, 0, 161, 161, 251, 40, 41, 0, 256>>
MC_Track == [i \in 1..20 |-> {MC_TrackImage(0)[i]}]
=============================================================================
