----------------------------- MODULE FloppyFeed -----------------------------
(***************************************************************************)
(* The drive of target_top_ep4c.vhd: the bytes under the head come from a  *)
(* FIFO that the floppy_app program (main.cpp) on the soft CPU keeps full. *)
(* A step of the head flushes the FIFO and interrupts the CPU, whose main  *)
(* loop then reads the new track number and starts the track again.        *)
(*                                                                         *)
(* An action of the program is what it does between two accesses that      *)
(* another party can see: reading the track port, the flag the interrupt   *)
(* routine sets, the FIFO's status and its data port.  A byte is known by  *)
(* the track it was made for and its place in the sector.                  *)
(***************************************************************************)
EXTENDS FloppyIf, Sequences

CONSTANTS
  LAP,       \* 358: bytes of a sector with its gaps
  DEPTH,     \* 256: entries of the FIFO
  SLOW       \* steps are as far apart as the program needs to serve one

ASSUME FeedAssumption == LAP \in Nat \ {0} /\ DEPTH \in Nat \ {0} /\ SLOW \in BOOLEAN

VARIABLES
  fifo,
  edge_cap,                 \* the PIO's edge capture bit of `step'
  isr,                      \* interrupt routine: "idle" or "clear"
  fifo_sts_pio_irq,         \* the flag it sets
  pc, track, offset, byte,  \* the main loop
  stale                     \* bytes of another track pushed since the last step

swVars == <<pc, track, offset, byte>>
irqHandling == <<edge_cap, isr, fifo_sts_pio_irq>>
feedVars == <<driveIfVars, fifo, irqHandling, swVars, stale>>

Interrupting == edge_cap \/ isr # "idle"

(* The head moves one clock of 20 MHz after the edge that the PIO captures, *)
(* long before the CPU can enter the interrupt routine.  The PIO captures  *)
(* both edges of the step pulse.                                           *)
StepUp(inward) ==
  /\ ~step_r
  /\ SLOW => ~Interrupting /\ ~fifo_sts_pio_irq /\ pc \in {"poll", "push", "test"}
  /\ Stepping(TRUE, inward)
  /\ fifo' = IF flush' THEN <<>> ELSE fifo
  /\ stale' = IF flush' THEN 0 ELSE stale
  /\ edge_cap' = TRUE
  /\ UNCHANGED <<sel, isr, fifo_sts_pio_irq, swVars>>

StepDown ==
  /\ step_r /\ Stepping(FALSE, FALSE)
  /\ edge_cap' = TRUE
  /\ UNCHANGED <<sel, fifo, isr, fifo_sts_pio_irq, swVars, stale>>

DriveReadsByte ==   \* the read request of an empty FIFO does nothing
  /\ fifo # <<>> /\ fifo' = Tail(fifo)
  /\ UNCHANGED <<driveIfVars, irqHandling, swVars, stale>>

(* fifo_sts_pio_isr; writing the edge capture register clears all of it.   *)
IsrRead ==
  /\ isr = "idle" /\ edge_cap
  /\ fifo_sts_pio_irq' = TRUE /\ isr' = "clear"
  /\ UNCHANGED <<driveIfVars, fifo, edge_cap, swVars, stale>>

IsrClear_Nothing ==   \* mutant: the edge capture register is not cleared
  /\ isr = "clear" /\ isr' = "idle"
  /\ UNCHANGED <<driveIfVars, fifo, edge_cap, fifo_sts_pio_irq, swVars, stale>>

IsrClear ==
  /\ isr = "clear" /\ isr' = "idle" /\ edge_cap' = FALSE
  /\ UNCHANGED <<driveIfVars, fifo, fifo_sts_pio_irq, swVars, stale>>

TestFlag_NoReread ==   \* mutant: the track is started again but not read again
  /\ pc = "test"
  /\ pc' = IF fifo_sts_pio_irq THEN "restart" ELSE "poll"
  /\ UNCHANGED <<fifo, fifo_sts_pio_irq, track, offset, byte, stale>>

(* The main loop; an interrupt suspends it.                                *)
TestFlag ==
  /\ pc = "test"
  /\ pc' = IF fifo_sts_pio_irq THEN "reread" ELSE "poll"
  /\ UNCHANGED <<fifo, fifo_sts_pio_irq, track, offset, byte, stale>>

ReadTrack ==
  /\ pc = "reread" /\ pc' = "restart"
  /\ track' = head[sel]
  /\ UNCHANGED <<fifo, fifo_sts_pio_irq, offset, byte, stale>>

Restart_MidSector ==   \* mutant: the new track goes on at the old place
  /\ pc = "restart" /\ pc' = "poll"
  /\ fifo_sts_pio_irq' = FALSE
  /\ UNCHANGED <<fifo, track, offset, byte, stale>>

Restart ==
  /\ pc = "restart" /\ pc' = "poll"
  /\ offset' = 0 /\ fifo_sts_pio_irq' = FALSE
  /\ UNCHANGED <<fifo, track, byte, stale>>

PollFifo ==
  /\ pc = "poll"
  /\ IF Len(fifo) = DEPTH THEN pc' = "test" /\ UNCHANGED <<byte, offset>>
     ELSE /\ pc' = "push"
          /\ byte' = <<track, offset>>
          /\ offset' = (offset + 1) % LAP
  /\ UNCHANGED <<fifo, fifo_sts_pio_irq, track, stale>>

PushByte_FillFirst ==   \* mutant: the FIFO is filled before the flag is tested
  /\ pc = "push" /\ pc' = IF Len(fifo) < DEPTH THEN "poll" ELSE "test"
  /\ fifo' = IF Len(fifo) < DEPTH THEN Append(fifo, byte) ELSE fifo
  /\ stale' = IF byte[1] # head[sel] THEN stale + 1 ELSE stale
  /\ UNCHANGED <<fifo_sts_pio_irq, track, offset, byte>>

PushByte ==   \* the FIFO ignores a write when it is full
  /\ pc = "push" /\ pc' = "test"
  /\ fifo' = IF Len(fifo) < DEPTH THEN Append(fifo, byte) ELSE fifo
  /\ stale' = IF byte[1] # head[sel] THEN stale + 1 ELSE stale
  /\ UNCHANGED <<fifo_sts_pio_irq, track, offset, byte>>

Main ==
  /\ ~Interrupting
  /\ TestFlag \/ ReadTrack \/ Restart \/ PollFifo \/ PushByte
  /\ UNCHANGED <<driveIfVars, edge_cap, isr>>

FeedInit ==
  /\ FloppyIfInit
  /\ fifo = <<>> /\ edge_cap = FALSE /\ isr = "idle" /\ fifo_sts_pio_irq = FALSE
  /\ pc = "test" /\ track = 0 /\ offset = 0 /\ byte = <<0, 0>> /\ stale = 0

FeedNext ==
  \/ \E inward \in BOOLEAN : StepUp(inward)
  \/ StepDown \/ DriveReadsByte \/ IsrRead \/ IsrClear \/ Main

FeedSpec == FeedInit /\ [][FeedNext]_feedVars
FeedFair == /\ FeedSpec /\ WF_feedVars(Main) /\ WF_feedVars(IsrRead \/ IsrClear)
            /\ WF_feedVars(DriveReadsByte) /\ WF_feedVars(StepDown)

-----------------------------------------------------------------------------
(* Every step is noticed: once no step waits to be served, the program     *)
(* makes its bytes for the track the head is on.                           *)
StepsNoticed ==
  ~Interrupting /\ ~fifo_sts_pio_irq /\ pc # "restart" => track = head[sel]

(* After a step the drive meets at most one byte of the track it left: the *)
(* one the main loop was about to push when the FIFO was flushed.          *)
OneStaleByte == stale <= 1

(* The bytes in the FIFO follow one another within one sector of one track, *)
(* or start one again.                                                     *)
InOrder ==
  \A i \in 1..(Len(fifo) - 1) :
    \/ fifo[i + 1][2] = 0
    \/ fifo[i + 1] = <<fifo[i][1], fifo[i][2] + 1>>

(* A byte of the track the head is on comes to the drive, however often    *)
(* the head moved before.                                                  *)
TrackServed ==
  \A t \in 0..(NUM_TRACKS - 1) :
    head[sel] = t ~> head[sel] # t \/ (fifo # <<>> /\ Head(fifo)[1] = t)
=============================================================================
