-------------------------- MODULE FloppyFeed_proofs --------------------------
(***************************************************************************)
(* Proofs about the drive's FIFO and the program that feeds it, for every  *)
(* sector length, FIFO depth, number of tracks and set of drives.          *)
(***************************************************************************)
EXTENDS FloppyFeed, TLAPS

MainPC == {"test", "reread", "restart", "poll", "push"}

(* Byte b may come after byte a.                                           *)
Follows(a, b) == b[2] = 0 \/ b = <<a[1], a[2] + 1>>

Last == fifo[Len(fifo)]

FeedTypeOK ==
  /\ fifo \in Seq(Int \X Int) /\ Len(fifo) <= DEPTH
  /\ byte \in Int \X Int /\ track \in Int /\ offset \in 0..(LAP - 1)
  /\ pc \in MainPC /\ isr \in {"idle", "clear"}
  /\ {edge_cap, fifo_sts_pio_irq, step_r, flush} \subseteq BOOLEAN
  /\ sel \in Drives /\ head \in [0..4 -> Int]
  /\ stale \in Nat

(* What the byte to be made next, or the one on its way to the port, owes  *)
(* to the last byte in the FIFO.  PushByte needs the room that PollFifo    *)
(* saw: a byte the FIFO refused would leave a hole in the sector.          *)
OrderInv ==
  /\ FeedTypeOK /\ InOrder
  /\ pc = "push" =>
       /\ Len(fifo) < DEPTH /\ byte[1] = track
       /\ offset = 0 \/ offset = byte[2] + 1
       /\ fifo # <<>> => Follows(Last, byte)
  /\ pc \in {"test", "poll"} /\ fifo # <<>> =>
       offset = 0 \/ Last = <<track, offset - 1>>

(* What the flags, the head and the selected drive may be does not depend  *)
(* on the bytes.                                                           *)
LEMMA FeedInitTypes == FeedInit => FeedTypeOK
<1> SUFFICES ASSUME FeedInit PROVE FeedTypeOK
  OBVIOUS
<1>1. fifo \in Seq(Int \X Int) /\ Len(fifo) <= DEPTH
  BY FeedAssumption DEF FeedInit
<1>2. head \in [0..4 -> Int] /\ sel \in Drives
  BY DEF FeedInit, FloppyIfInit
<1>3. {edge_cap, fifo_sts_pio_irq, step_r, flush} \subseteq BOOLEAN
  BY DEF FeedInit, FloppyIfInit
<1>4. byte \in Int \X Int /\ track \in Int /\ offset \in 0..(LAP - 1) /\ stale \in Nat
  BY FeedAssumption DEF FeedInit
<1> QED BY <1>1, <1>2, <1>3, <1>4 DEF FeedInit, FeedTypeOK, MainPC

LEMMA MovedType == ASSUME NEW t \in Int, NEW inward PROVE Moved(t, inward) \in Int
  BY DriveAssumption DEF Moved

LEMMA SteppingTypes ==
  ASSUME FeedTypeOK, NEW step \in BOOLEAN, NEW inward, Stepping(step, inward)
  PROVE  head' \in [0..4 -> Int] /\ {step_r', flush'} \subseteq BOOLEAN
<1>1. sel \in 0..4 /\ head[sel] \in Int
  BY DriveAssumption DEF FeedTypeOK
<1>2. head' \in [0..4 -> Int]
  BY <1>1, MovedType DEF Stepping, FeedTypeOK
<1> QED BY <1>2 DEF Stepping, FeedTypeOK, ena

LEMMA Rotation ==
  ASSUME NEW o \in 0..(LAP - 1)
  PROVE  /\ (o + 1) % LAP \in 0..(LAP - 1)
         /\ (o + 1) % LAP = 0 \/ (o + 1) % LAP = o + 1
<1>1. CASE o + 1 < LAP
  BY <1>1, FeedAssumption
<1>2. CASE o + 1 = LAP
  BY <1>2, FeedAssumption
<1> QED BY <1>1, <1>2, FeedAssumption

LEMMA FeedStepTypes == FeedTypeOK /\ [FeedNext]_feedVars => FeedTypeOK'
<1> SUFFICES ASSUME FeedTypeOK, [FeedNext]_feedVars PROVE FeedTypeOK'
  OBVIOUS
<1> USE DEF FeedTypeOK
<1>0. <<>> \in Seq(Int \X Int) /\ Len(<<>>) <= DEPTH
  BY FeedAssumption
<1>1. ASSUME NEW inward \in BOOLEAN, StepUp(inward) PROVE FeedTypeOK'
  <2>1. head' \in [0..4 -> Int] /\ {step_r', flush'} \subseteq BOOLEAN
    BY <1>1, SteppingTypes DEF StepUp
  <2> QED BY <1>0, <1>1, <2>1 DEF StepUp, swVars
<1>2. CASE StepDown
  <2>1. head' \in [0..4 -> Int] /\ {step_r', flush'} \subseteq BOOLEAN
    BY <1>2, SteppingTypes DEF StepDown
  <2> QED BY <1>2, <2>1 DEF StepDown, swVars
<1>3. CASE DriveReadsByte
  <2>1. Tail(fifo) \in Seq(Int \X Int) /\ Len(Tail(fifo)) <= DEPTH
    BY <1>3, FeedAssumption DEF DriveReadsByte
  <2> QED BY <1>3, <2>1 DEF DriveReadsByte, driveIfVars, irqHandling, swVars
<1>4. CASE IsrRead
  BY <1>4 DEF IsrRead, driveIfVars, swVars
<1>5. CASE IsrClear
  BY <1>5 DEF IsrClear, driveIfVars, swVars
<1>6. CASE Main
  <2> USE <1>6 DEF Main, driveIfVars, MainPC
  <2>1. CASE TestFlag
    BY <2>1 DEF TestFlag
  <2>2. CASE ReadTrack
    BY <2>2, DriveAssumption DEF ReadTrack
  <2>3. CASE Restart
    <3>1. 0 \in 0..(LAP - 1)
      BY FeedAssumption
    <3> QED BY <2>3, <3>1 DEF Restart
  <2>4. CASE PollFifo
    <3>1. (offset + 1) % LAP \in 0..(LAP - 1) /\ <<track, offset>> \in Int \X Int
      BY Rotation, FeedAssumption
    <3> QED BY <2>4, <3>1 DEF PollFifo
  <2>5. CASE PushByte
    <3>1. Len(fifo) < DEPTH => /\ Append(fifo, byte) \in Seq(Int \X Int)
                               /\ Len(Append(fifo, byte)) <= DEPTH
      BY FeedAssumption
    <3> QED BY <2>5, <3>1 DEF PushByte
  <2> QED BY <2>1, <2>2, <2>3, <2>4, <2>5
<1>7. CASE UNCHANGED feedVars
  BY <1>7 DEF feedVars, driveIfVars, irqHandling, swVars
<1> HIDE DEF FeedTypeOK
<1> QED BY <1>1, <1>2, <1>3, <1>4, <1>5, <1>6, <1>7 DEF FeedNext

(* -- the order of the bytes ---------------------------------------------- *)

LEMMA OrderInit == FeedInit => OrderInv
<1> SUFFICES ASSUME FeedInit PROVE OrderInv
  OBVIOUS
<1>1. fifo = <<>> /\ pc = "test"
  BY DEF FeedInit
<1>2. FeedTypeOK
  BY FeedInitTypes
<1>3. InOrder
  BY <1>1 DEF InOrder
<1> QED BY <1>1, <1>2, <1>3 DEF OrderInv

(* A step that leaves the program alone, and the FIFO too unless it takes  *)
(* bytes from its front.                                                   *)
Drains ==
  /\ UNCHANGED swVars
  /\ fifo' = fifo \/ fifo' = <<>> \/ (fifo # <<>> /\ fifo' = Tail(fifo))

LEMMA DrainStep == OrderInv /\ FeedTypeOK' /\ Drains => OrderInv'
<1> SUFFICES ASSUME OrderInv, FeedTypeOK', Drains PROVE OrderInv'
  OBVIOUS
<1> USE DEF swVars
<1>1. CASE fifo' = fifo
  BY <1>1 DEF OrderInv, Drains, InOrder, Last
<1>2. CASE fifo' = <<>>
  <2>1. InOrder'
    BY <1>2 DEF InOrder
  <2>2. Len(fifo') < DEPTH
    BY <1>2, FeedAssumption
  <2> QED BY <1>2, <2>1, <2>2 DEF OrderInv, Drains
<1>3. CASE fifo # <<>> /\ fifo' = Tail(fifo)
  <2>1. /\ Len(fifo) \in Nat /\ Len(fifo') = Len(fifo) - 1
        /\ \A i \in 1..Len(fifo') : fifo'[i] = fifo[i + 1]
    BY <1>3 DEF OrderInv, FeedTypeOK
  <2>2. InOrder'
    BY <2>1 DEF InOrder, OrderInv
  <2>3. fifo' # <<>> => Len(fifo') \in 1..Len(fifo')
    BY FeedAssumption DEF FeedTypeOK
  <2>4. fifo' # <<>> => Last' = Last
    BY <2>1, <2>3 DEF Last
  <2>5. Len(fifo') <= Len(fifo) /\ (Len(fifo) < DEPTH => Len(fifo') < DEPTH)
    BY <2>1, FeedAssumption
  <2>6. UNCHANGED <<pc, track, offset, byte>> /\ fifo # <<>>
    BY <1>3 DEF Drains
  <2> QED BY <2>2, <2>4, <2>5, <2>6 DEF OrderInv
<1> QED BY <1>1, <1>2, <1>3 DEF Drains

LEMMA PushOrder == OrderInv /\ FeedTypeOK' /\ PushByte => OrderInv'
<1> SUFFICES ASSUME OrderInv, FeedTypeOK', PushByte PROVE OrderInv'
  OBVIOUS
<1>1. /\ fifo' = Append(fifo, byte) /\ pc' = "test" /\ UNCHANGED <<track, offset>>
      /\ byte[1] = track /\ (offset = 0 \/ offset = byte[2] + 1)
      /\ fifo # <<>> => Follows(Last, byte)
  BY DEF PushByte, OrderInv
<1>2. fifo \in Seq(Int \X Int) /\ byte \in Int \X Int /\ offset \in Int
  BY FeedAssumption DEF OrderInv, FeedTypeOK
<1>3. /\ Len(fifo) \in Nat /\ Len(fifo') = Len(fifo) + 1
      /\ fifo'[Len(fifo) + 1] = byte
      /\ \A i \in 1..Len(fifo) : fifo'[i] = fifo[i]
  BY <1>1, <1>2
<1>4. InOrder'
  <2> SUFFICES ASSUME NEW i \in 1..Len(fifo) PROVE Follows(fifo'[i], fifo'[i + 1])
    BY <1>3 DEF InOrder, Follows
  <2>1. CASE i = Len(fifo)
    <3>1. fifo # <<>>
      BY <2>1
    <3>2. fifo'[i] = Last /\ fifo'[i + 1] = byte
      BY <1>3, <2>1 DEF Last
    <3> QED BY <1>1, <3>1, <3>2
  <2>2. CASE i \in 1..(Len(fifo) - 1)
    <3>1. Follows(fifo[i], fifo[i + 1])
      BY <2>2 DEF OrderInv, InOrder, Follows
    <3>2. fifo'[i] = fifo[i] /\ fifo'[i + 1] = fifo[i + 1]
      BY <1>3, <2>2
    <3> QED BY <3>1, <3>2
  <2> QED BY <1>3, <2>1, <2>2
<1>5. offset' = 0 \/ Last' = <<track', offset' - 1>>
  <2>1. Last' = byte
    BY <1>3 DEF Last
  <2>2. byte = <<byte[1], byte[2]>> /\ byte[2] \in Int
    BY <1>2
  <2>3. offset = byte[2] + 1 => offset - 1 = byte[2]
    BY <1>2, <2>2
  <2> QED BY <1>1, <2>1, <2>2, <2>3
<1> QED BY <1>1, <1>4, <1>5 DEF OrderInv

LEMMA PollOrder == OrderInv /\ FeedTypeOK' /\ PollFifo => OrderInv'
<1> SUFFICES ASSUME OrderInv, FeedTypeOK', PollFifo PROVE OrderInv'
  OBVIOUS
<1>1. fifo' = fifo /\ track' = track /\ InOrder' /\ Last' = Last
  BY DEF PollFifo, OrderInv, InOrder, Last
<1>2. CASE Len(fifo) = DEPTH
  BY <1>1, <1>2 DEF PollFifo, OrderInv
<1>3. CASE Len(fifo) # DEPTH
  <2>1. pc' = "push" /\ byte' = <<track, offset>> /\ offset' = (offset + 1) % LAP
    BY <1>3 DEF PollFifo
  <2>2. Len(fifo) < DEPTH
    BY <1>3, FeedAssumption DEF OrderInv, FeedTypeOK
  <2>3. offset' = 0 \/ offset' = offset + 1
    BY <2>1, Rotation DEF OrderInv, FeedTypeOK
  <2>4. fifo # <<>> => Follows(Last, byte')
    <3> SUFFICES ASSUME fifo # <<>>, offset # 0 PROVE Follows(Last, byte')
      BY <2>1 DEF Follows
    <3>1. Last = <<track, offset - 1>> /\ offset \in Int
      BY FeedAssumption DEF OrderInv, FeedTypeOK, PollFifo
    <3>2. Last[1] = track /\ Last[2] + 1 = offset
      BY <3>1
    <3> QED BY <2>1, <3>2 DEF Follows
  <2> QED BY <1>1, <2>1, <2>2, <2>3, <2>4 DEF OrderInv
<1> QED BY <1>2, <1>3

LEMMA OrderStep == OrderInv /\ [FeedNext]_feedVars => OrderInv'
<1> SUFFICES ASSUME OrderInv, [FeedNext]_feedVars PROVE OrderInv'
  OBVIOUS
<1>0. FeedTypeOK'
  BY FeedStepTypes DEF OrderInv
<1>1. ASSUME NEW inward \in BOOLEAN, StepUp(inward) PROVE Drains
  BY <1>1 DEF StepUp, Drains
<1>2. CASE StepDown \/ DriveReadsByte \/ IsrRead \/ IsrClear \/ UNCHANGED feedVars
  <2>1. Drains
    BY <1>2 DEF StepDown, DriveReadsByte, IsrRead, IsrClear, feedVars, swVars, Drains
  <2> QED BY <1>0, <2>1, DrainStep
<1>3. CASE PushByte
  BY <1>0, <1>3, PushOrder
<1>4. CASE PollFifo
  BY <1>0, <1>4, PollOrder
<1>5. CASE TestFlag \/ ReadTrack \/ Restart
  BY <1>0, <1>5 DEF TestFlag, ReadTrack, Restart, OrderInv, InOrder, Last
<1> QED BY <1>0, <1>1, <1>2, <1>3, <1>4, <1>5, DrainStep DEF FeedNext, Main

(* However the steps fall, the bytes in the FIFO are those of one sector   *)
(* after another: neither a flush nor a full FIFO leaves a hole in one.    *)
THEOREM BytesInOrder == FeedSpec => []InOrder
<1>1. OrderInv => InOrder
  BY DEF OrderInv
<1> QED BY <1>1, OrderInit, OrderStep, PTL DEF FeedSpec

(* -- the program and the head ------------------------------------------- *)

(* When steps leave the program time, a head that is on another track has  *)
(* an interrupt on its way to the main loop, and what is made meanwhile is *)
(* at most the byte that was being made.                                   *)
FollowInv ==
  /\ FeedTypeOK
  /\ track # head[sel] => Interrupting \/ fifo_sts_pio_irq
  /\ isr = "clear" => fifo_sts_pio_irq
  /\ pc = "restart" => track = head[sel]
  /\ pc = "push" => byte[1] = track
  /\ stale <= 1
  /\ track # head[sel] /\ pc \in {"poll", "push"} => stale = 0

LEMMA FollowInit == FeedInit => FollowInv
<1> SUFFICES ASSUME FeedInit PROVE FollowInv
  OBVIOUS
<1>1. track = head[sel] /\ stale = 0
  BY DriveAssumption DEF FeedInit, FloppyIfInit
<1> QED BY <1>1, FeedInitTypes DEF FeedInit, FollowInv

LEMMA StepUpFollowed ==
  ASSUME SLOW, FollowInv, NEW inward \in BOOLEAN, StepUp(inward), FeedTypeOK'
  PROVE  FollowInv'
<1>1. /\ track = head[sel] /\ pc \in {"poll", "push", "test"}
      /\ edge_cap' = TRUE /\ UNCHANGED <<sel, isr, fifo_sts_pio_irq, pc, track, offset, byte>>
  BY DEF StepUp, FollowInv, swVars
<1>2. stale' <= 1 /\ (head'[sel] # head[sel] => stale' = 0)
  <2>1. head' # head => flush'
    BY DEF StepUp, Stepping
  <2> QED BY <2>1 DEF StepUp, FollowInv
<1>3. Interrupting'
  BY <1>1 DEF Interrupting
<1> QED BY <1>1, <1>2, <1>3 DEF FollowInv

LEMMA MainFollows == FollowInv /\ Main /\ FeedTypeOK' => FollowInv'
<1> SUFFICES ASSUME FollowInv, Main, FeedTypeOK' PROVE FollowInv'
  OBVIOUS
<1> USE DEF Main, driveIfVars
<1>1. ~Interrupting /\ ~Interrupting' /\ UNCHANGED <<sel, head, isr>> /\ isr = "idle"
  BY DEF Interrupting, FeedTypeOK, FollowInv
<1>2. CASE TestFlag
  BY <1>1, <1>2 DEF TestFlag, FollowInv
<1>3. CASE ReadTrack
  BY <1>1, <1>3 DEF ReadTrack, FollowInv
<1>4. CASE Restart
  BY <1>1, <1>4 DEF Restart, FollowInv
<1>5. CASE PollFifo
  <2>1. pc' = "push" => byte'[1] = track
    BY <1>5 DEF PollFifo
  <2> QED BY <1>1, <1>5, <2>1 DEF PollFifo, FollowInv
<1>6. CASE PushByte
  <2>1. stale' <= 1
    BY <1>1, <1>6 DEF PushByte, FollowInv, FeedTypeOK
  <2> QED BY <1>1, <1>6, <2>1 DEF PushByte, FollowInv
<1> QED BY <1>2, <1>3, <1>4, <1>5, <1>6

LEMMA FollowStep == SLOW /\ FollowInv /\ [FeedNext]_feedVars => FollowInv'
<1> SUFFICES ASSUME SLOW, FollowInv, [FeedNext]_feedVars PROVE FollowInv'
  OBVIOUS
<1>0. FeedTypeOK'
  BY FeedStepTypes DEF FollowInv
<1>1. ASSUME NEW inward \in BOOLEAN, StepUp(inward) PROVE FollowInv'
  BY <1>0, <1>1, StepUpFollowed
<1>2. CASE StepDown
  <2>1. /\ UNCHANGED <<sel, head, isr, fifo_sts_pio_irq, pc, track, offset, byte, stale>>
        /\ edge_cap'
    BY <1>2 DEF StepDown, Stepping, swVars
  <2> QED BY <1>0, <2>1 DEF FollowInv, Interrupting
<1>3. CASE IsrRead
  BY <1>0, <1>3 DEF IsrRead, FollowInv, Interrupting, driveIfVars, swVars
<1>4. CASE IsrClear
  BY <1>0, <1>4 DEF IsrClear, FollowInv, Interrupting, driveIfVars, swVars
<1>5. CASE Main
  BY <1>0, <1>5, MainFollows
<1>6. CASE DriveReadsByte \/ UNCHANGED feedVars
  BY <1>0, <1>6
  DEF DriveReadsByte, FollowInv, Interrupting, feedVars, driveIfVars, irqHandling, swVars
<1> QED BY <1>1, <1>2, <1>3, <1>4, <1>5, <1>6 DEF FeedNext

LEMMA Followed == ASSUME SLOW PROVE FeedSpec => []FollowInv
<1>1. FollowInv /\ [FeedNext]_feedVars => FollowInv'
  BY FollowStep
<1> QED BY <1>1, FollowInit, PTL DEF FeedSpec

(* If the host leaves the program time between two steps, none is lost:    *)
(* with no interrupt pending the bytes are made for the track under the    *)
(* head.  FeedRace shows that SLOW is needed.                              *)
THEOREM StepsAreNoticed == ASSUME SLOW PROVE FeedSpec => []StepsNoticed
<1>1. FollowInv => StepsNoticed
  BY DEF FollowInv, StepsNoticed
<1> QED BY <1>1, Followed, PTL

(* If the host leaves the program time between two steps, the drive meets  *)
(* no more than one byte of the track it left after each.                  *)
THEOREM AtMostOneStaleByte == ASSUME SLOW PROVE FeedSpec => []OneStaleByte
<1>1. FollowInv => OneStaleByte
  BY DEF FollowInv, OneStaleByte
<1> QED BY <1>1, Followed, PTL

=============================================================================
