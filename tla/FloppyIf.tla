------------------------------ MODULE FloppyIf ------------------------------
(***************************************************************************)
(* The drives, floppy_if.vhd: up to four of them behind one set of select  *)
(* lines, each with its own head position.  Drive 0 stands for "none       *)
(* selected".  A switch enables a drive; one that is not enabled has no    *)
(* floppy: it does not step and has no index pulse.                        *)
(***************************************************************************)
EXTENDS Integers

CONSTANTS
  Drives,       \* drives the host selects
  Enabled,      \* drives whose switch is on
  NUM_TRACKS    \* 40

ASSUME DriveAssumption ==
  Drives \subseteq 1..4 /\ Drives # {} /\ Enabled \subseteq Drives /\ NUM_TRACKS \in Nat \ {0}

VARIABLES
  sel,          \* drv: the selected drive
  head,         \* track_r: the head position of each drive
  step_r,       \* the step input one clock ago
  flush         \* FIFO flush, one clock for each step

driveIfVars == <<sel, head, step_r, flush>>

ena == sel \in Enabled
at_track_0 == head[sel] = 0      \* works even when not enabled

FloppyIfInit ==
  sel \in Drives /\ head = [d \in 0..4 |-> 0] /\ step_r = FALSE /\ flush = FALSE

Moved(track, inward) ==
  IF inward THEN IF track < NUM_TRACKS - 1 THEN track + 1 ELSE track
  ELSE IF track # 0 THEN track - 1 ELSE track

(* The leading edge of a step moves the head of the selected drive.        *)
Stepping(step, inward) ==
  LET moves == ena /\ ~step_r /\ step
  IN /\ head' = IF moves THEN [head EXCEPT ![sel] = Moved(@, inward)] ELSE head
     /\ flush' = moves
     /\ step_r' = step

FloppyIfReset ==
  head' = [d \in 0..4 |-> 0] /\ step_r' = FALSE /\ UNCHANGED <<sel, flush>>
=============================================================================
