----------------------------- MODULE FdcSystem -----------------------------
(***************************************************************************)
(* The controller and the drives, wired as in m3/platform.vhd, for the     *)
(* commands that move the head.  Every track of every drive is formatted   *)
(* with its own number in its ID fields.                                   *)
(***************************************************************************)
EXTENDS WD179x, FloppyIf

CONSTANT TrackImage(_)    \* the bytes of the track with a given number

ASSUME ImageAssumption ==
  \A t \in 0..(NUM_TRACKS - 1) : TrackImage(t) \in [1..Len(Track) -> Bytes]

(* The place k bytes ahead of place p of a track.                          *)
Ahead(p, k) == IF p + k <= Len(Track) THEN p + k ELSE p + k - Len(Track)

(* Whatever else is on a track, an ID whose CRC agrees names that track.   *)
ASSUME FormatAssumption ==
  /\ Len(Track) > 6
  /\ \A t \in 0..(NUM_TRACKS - 1), p \in 1..Len(Track) :
       TrackImage(t)[p] = XFE /\ TrackImage(t)[Ahead(p, 6)] = GOOD_CRC
         => TrackImage(t)[Ahead(p, 1)] = t

VARIABLES
  mixed,   \* the head moved since the last ID address mark went by
  torn     \* history: a reset has come while a command ran

systemVars == <<vars, driveIfVars, mixed, torn>>

(* The byte under the head.  A CRC agrees only when the bytes it covers    *)
(* came from one track; with no floppy in the drive all bits read as ones. *)
BAD_CRC == 257
UnderHead ==
  IF ~ena THEN 255
  ELSE LET b == TrackImage(head[sel])[pos]
       IN IF b = GOOD_CRC /\ mixed THEN BAD_CRC ELSE b

SystemDrive ==
  /\ ByteClock
  /\ raw' = IF slot = 1 THEN UnderHead ELSE NoByte
  /\ mixed' = (head' # head \/ (mixed /\ ~(slot = 1 /\ raw' = XFE)))
  /\ IF slot = TICK THEN pos' = NextPos /\ ip' = (ena /\ NextPos <= INDEX_LEN)
                    ELSE UNCHANGED <<pos, ip>>
  /\ tr00' = (head'[sel'] = 0)
  /\ UNCHANGED <<ready, wprt>>

(* The host selects a drive while it waits for no command.                 *)
Select == IF hostWaits \/ hostWaits' \/ left > 0 THEN UNCHANGED sel ELSE sel' \in Drives

SystemInit == Init /\ FloppyIfInit /\ mixed = FALSE /\ torn = FALSE /\ tr00 = TRUE
SystemClock ==
  Host /\ Select /\ Controller /\ Stepping(step, dirc = "in") /\ SystemDrive /\ UNCHANGED torn
SystemReset ==
  Reset /\ FloppyIfReset /\ mixed' = TRUE /\ torn' = (torn \/ cmd_busy \/ cmd_wr_stb)
SystemNext == SystemClock \/ SystemReset
SystemSpec == SystemInit /\ [][SystemNext]_systemVars
SystemFair == SystemSpec /\ WF_systemVars(SystemClock)

-----------------------------------------------------------------------------
(* A verified command (V flag) that ends without a seek error has put the  *)
(* head of the selected drive where the controller thinks it is, whatever  *)
(* drive or value the track register was last right for.                   *)
VerifiedSeek ==
  latch_status /\ IsTypeI(command_r) /\ Bit(command_r, 4) /\ ~seek_error
    => head[sel] = curr_track

(* While the host restores and seeks one drive, within its tracks, without *)
(* FORCE INTERRUPT, the track register and the head agree between          *)
(* commands: every step of one is a step of the other, and a reset between *)
(* commands brings both to track 0.                                        *)
HeadFollows ==
  ~torn /\ ~cmd_busy /\ ~cmd_wr_stb /\ type_stb = "none" => track_r = head[sel]

(* No step pulse is lost: between two steps of the counter the pulse has   *)
(* gone back, so the drive sees as many edges as the controller counts.    *)
StepsSeparate == t1 = "STEPIO" => ~step
=============================================================================
