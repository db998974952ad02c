-------------------------- MODULE FdcSystem_proofs --------------------------
(***************************************************************************)
(* Proofs about the controller and the drives: the step pulse, the head    *)
(* behind the track register, and what a verified seek has found.          *)
(***************************************************************************)
EXTENDS FdcSystem, WD179x_proofs

-----------------------------------------------------------------------------
(* The step pulse.  PulseLeft counts the clocks until the step output is   *)
(* back; it is compared with the clocks until the next step.               *)
PulseLeft ==
  IF step_s THEN STEP_PULSE + 2 ELSE IF step THEN pulse_count + 1 ELSE 0

PulseOK == step_s \in BOOLEAN /\ step \in BOOLEAN /\ pulse_count \in 0..STEP_PULSE

(* A processor at work leaves the pulse time to end.                       *)
WorkGap ==
  /\ t1 = "STEP_WAIT" => PulseLeft <= step_count + 2
  /\ t1 \in {"RESTORE", "SEEK", "UPDATE"} => PulseLeft <= 1
  /\ t1 \notin {"IDLE", "STEP_WAIT", "RESTORE", "SEEK", "UPDATE"} => PulseLeft = 0

LEMMA PulseStep ==
  ASSUME PulseOK, StepPulse, TypeI
  PROVE  /\ PulseOK'
         /\ PulseLeft \in 0..(STEP_PULSE + 2)
         /\ step_s' => PulseLeft' = STEP_PULSE + 2
         /\ ~step_s' => PulseLeft' = IF PulseLeft = 0 THEN 0 ELSE PulseLeft - 1
<1>1. STEP_PULSE \in Nat
  BY SizeAssumption DEF SizeAssumption
<1>2. step_s' \in BOOLEAN
  BY DEF TypeI
<1> QED BY <1>1, <1>2 DEF PulseOK, StepPulse, PulseLeft

(* Every step rate is at least as long as the pulse.                       *)
LongSteps == \A r \in 0..3 : STEP_PULSE <= StepClks[r]

LEMMA WorkGapClock ==
  ASSUME LongSteps, BusOK, TypeIOK, PulseOK, WorkGap, StepPulse, TypeI,
         t1 = "IDLE" /\ type_stb = "I" => PulseLeft <= 1
  PROVE  WorkGap'
<1>1. STEP_PULSE \in Nat /\ STEP_PULSE <= StepClks[command_r % 4]
      /\ StepClks[command_r % 4] \in Nat
  <2>1. command_r % 4 \in 0..3
    BY InputAssumption DEF InputAssumption, BusOK
  <2> QED BY <2>1, SizeAssumption DEF SizeAssumption, LongSteps
<1>2. step_s' <=> ~Aborted /\ t1 = "STEPIO"
  BY DEF TypeI
<1>3. CASE T1Abort
  BY <1>3 DEF T1Abort, WorkGap
<1>4. CASE ~Aborted /\ T1Start
  BY <1>2, <1>4, PulseStep DEF T1Start, WorkGap
<1>5. CASE ~Aborted /\ (T1Restore \/ T1Seek \/ T1Update)
  BY <1>2, <1>5, PulseStep DEF T1Restore, T1Seek, T1Update, WorkGap
<1>6. CASE ~Aborted /\ T1Step
  <2>1. step_s' /\ t1' = "STEP_WAIT" /\ step_count' = StepClks[command_r % 4]
    BY <1>2, <1>6 DEF T1Step
  <2>2. PulseLeft' = STEP_PULSE + 2
    BY <2>1, PulseStep
  <2> QED BY <1>1, <2>1, <2>2 DEF WorkGap
<1>7. CASE ~Aborted /\ T1StepWait
  <2>1. ~step_s' /\ t1 = "STEP_WAIT" /\ step_count \in Nat /\ PulseLeft <= step_count + 2
    BY <1>2, <1>7 DEF T1StepWait, WorkGap, TypeIOK
  <2>2. PulseLeft' = IF PulseLeft = 0 THEN 0 ELSE PulseLeft - 1
    BY <2>1, PulseStep
  <2>3. PulseLeft \in 0..(STEP_PULSE + 2)
    BY PulseStep
  <2>4. CASE step_count = 0
    <3>1. t1' \in {"RESTORE", "SEEK", "UPDATE"}
      BY <1>7, <2>4 DEF T1StepWait
    <3> QED BY <1>1, <2>1, <2>2, <2>3, <2>4, <3>1 DEF WorkGap
  <2>5. CASE step_count # 0
    <3>1. t1' = "STEP_WAIT" /\ step_count' = step_count - 1
      BY <1>7, <2>1, <2>5 DEF T1StepWait
    <3> QED BY <1>1, <2>1, <2>2, <2>3, <2>5, <3>1 DEF WorkGap
  <2> QED BY <2>4, <2>5
<1>8. CASE ~Aborted /\ (T1Verify \/ T1VerifyWaitIdam \/ T1VerifyIdam \/ T1Rest)
  BY <1>2, <1>8, PulseStep DEF T1Verify, T1VerifyWaitIdam, T1VerifyIdam, T1Rest, WorkGap
<1> QED BY <1>3, <1>4, <1>5, <1>6, <1>7, <1>8 DEF TypeI

LEMMA RestHasNoStep ==
  ASSUME PulseOK, WorkGap, StepPulse, TypeI, t1' = "IDLE"
  PROVE  /\ type_stb = "IV" \/ t1 = "DONE" \/ (t1 = "IDLE" /\ type_stb # "I")
         /\ PulseLeft' = IF PulseLeft = 0 THEN 0 ELSE PulseLeft - 1
         /\ t1 = "DONE" => PulseLeft' = 0
<1>1. type_stb = "IV" \/ t1 = "DONE" \/ (t1 = "IDLE" /\ type_stb # "I")
  BY TypeIStage DEF Stage
<1>2. ~step_s'
  BY <1>1 DEF TypeI, Aborted
<1> QED BY <1>1, <1>2, PulseStep DEF WorkGap

-----------------------------------------------------------------------------
(* A host that forces no interrupt.  A reset may leave a step on its way,  *)
(* but then the command state machine waits for an end that never comes    *)
(* and starts nothing else.                                                *)
Stuck == cmd_state = "WAIT_FOR_CMD" /\ type_stb = "none" /\ Quiet
ObeyInv == ProcInv /\ CalmInv /\ TypeIOK
UnforcedGap ==
  ObeyInv /\ PulseOK /\ WorkGap /\ (t1 = "IDLE" => PulseLeft = 0 \/ Stuck)

LEMMA ObeyClock ==
  ASSUME NoForce, ObeyInv, Host, Controller PROVE ObeyInv'
<1>1. ProcInv' /\ BusOK' /\ TypeIOK'
  BY ProcInvClock, BusTypes, TypeITypes DEF ObeyInv, CalmInv, Controller
<1>2. ~IsForce(command_r)
  BY NeverForced DEF ObeyInv, CalmInv, BusOK
<1>3. type_stb' # "IV"
  BY <1>2, CmdTaken DEF ObeyInv, ProcInv, Controller
<1> QED BY <1>1, <1>3 DEF ObeyInv, CalmInv

LEMMA UnforcedGapClock ==
  ASSUME NoForce, LongSteps, UnforcedGap, Host, Controller
  PROVE  UnforcedGap'
<1>1. ObeyInv /\ ObeyInv' /\ TypeI /\ StepPulse /\ PulseOK /\ PulseOK' /\ WorkGap
  BY ObeyClock, PulseStep DEF UnforcedGap, Controller
<1>2. WorkGap'
  BY <1>1, WorkGapClock DEF UnforcedGap, ObeyInv, CalmInv, Stuck
<1>3. Stuck => Stuck'
  <2> SUFFICES ASSUME Stuck PROVE Stuck'
    OBVIOUS
  <2>1. ~IsForce(command_r)
    BY NeverForced DEF UnforcedGap, ObeyInv, CalmInv, BusOK
  <2>2. cmd_state' = "WAIT_FOR_CMD" /\ type_stb' = "none"
    BY <2>1 DEF Stuck, Quiet, cmd_ack, Controller, ProcCmd, CmdForce, CmdIdle, CmdWait
  <2>3. Quiet'
    BY TypeIStage, TypeIIStage, TypeIIIStage DEF Stuck, Quiet, Stage, Controller
  <2> QED BY <2>2, <2>3 DEF Stuck
<1>4. t1' = "IDLE" => PulseLeft' = 0 \/ Stuck'
  BY <1>1, <1>3, RestHasNoStep, PulseStep DEF UnforcedGap, ObeyInv, CalmInv
<1> QED BY <1>1, <1>2, <1>4 DEF UnforcedGap

LEMMA UnforcedGapReset ==
  ASSUME UnforcedGap, Reset PROVE UnforcedGap'
<1> USE DEF UnforcedGap, ObeyInv, CalmInv
<1>1. ProcInv'
  BY ProcInvReset
<1>2. BusOK'
  <2>1. 0 \in 0..(ACCESS_CLKS - 1)
    BY TimingAssumption DEF TimingAssumption
  <2> QED BY <2>1 DEF BusOK, Reset
<1>3. TypeIOK' /\ type_stb' # "IV"
  <2>1. 0 \in 0..(TRACK_MOD - 1)
    BY SizeAssumption DEF SizeAssumption
  <2> QED BY <2>1 DEF TypeIOK, T1States, Reset, cmdVars
<1>4. PulseOK' /\ WorkGap' /\ PulseLeft' = IF step_s THEN STEP_PULSE + 2 ELSE 0
  <2>1. /\ 0 \in 0..STEP_PULSE /\ step' = FALSE /\ pulse_count' = 0
        /\ step_s' = step_s /\ t1' = "IDLE"
    BY SizeAssumption DEF SizeAssumption, Reset
  <2>2. PulseLeft' = IF step_s THEN STEP_PULSE + 2 ELSE 0
    BY <2>1 DEF PulseLeft
  <2> QED BY <2>1, <2>2 DEF PulseOK, WorkGap
<1>5. step_s => Stuck'
  <2> SUFFICES ASSUME step_s PROVE Stuck'
    OBVIOUS
  <2>1. PulseLeft = STEP_PULSE + 2 /\ STEP_PULSE \in Nat
    BY SizeAssumption DEF SizeAssumption, PulseLeft
  <2>2. t1 = "STEP_WAIT" \/ Stuck
    BY <2>1 DEF WorkGap
  <2>3. CASE t1 = "STEP_WAIT"
    BY <2>3 DEF ProcInv, CmdTypeOK, StrobeInv, SoleInv, Stuck, Quiet, Reset, cmdVars
  <2>4. CASE Stuck
    BY <2>4 DEF Stuck, Quiet, Reset, cmdVars
  <2> QED BY <2>2, <2>3, <2>4
<1> QED BY <1>1, <1>2, <1>3, <1>4, <1>5

LEMMA PulseInit ==
  ASSUME Init PROVE TypeIOK /\ PulseOK /\ WorkGap /\ PulseLeft = 0
<1>1. TypeIOK
  BY InitTypes DEF TypeOK
<1>2. /\ 0 \in 0..STEP_PULSE /\ step = FALSE /\ pulse_count = 0
      /\ step_s = FALSE /\ t1 = "IDLE"
  BY SizeAssumption DEF SizeAssumption, Init
<1>3. PulseLeft = 0
  BY <1>2 DEF PulseLeft
<1> QED BY <1>1, <1>2, <1>3 DEF PulseOK, WorkGap

LEMMA HostInvStutter ==
  ASSUME HostInv, UNCHANGED vars PROVE HostInv'
BY DEF HostInv, CmdTypeOK, BusInv, WaitInv, ToldInv, IsForce, Is,
       vars, hostVars, busVars, irqVars, cmdVars

LEMMA PulseStutter ==
  ASSUME UNCHANGED vars
  PROVE  /\ PulseOK => PulseOK'
         /\ WorkGap => WorkGap'
         /\ PulseLeft' = PulseLeft
         /\ Quiet => Quiet'
         /\ BusOK => BusOK'
         /\ TypeIOK => TypeIOK'
<1> USE DEF vars
<1>1. PulseLeft' = PulseLeft /\ (PulseOK => PulseOK')
  BY DEF PulseLeft, PulseOK, stepVars, t1Vars
<1>2. WorkGap => WorkGap'
  BY <1>1 DEF WorkGap, t1Vars
<1>3. (Quiet => Quiet') /\ (TypeIOK => TypeIOK')
  BY DEF Quiet, TypeIOK, t1Vars, t2Vars, t3Vars
<1>4. BusOK => BusOK'
  BY DEF BusOK, busVars, hostVars
<1> QED BY <1>1, <1>2, <1>3, <1>4

-----------------------------------------------------------------------------
(* A host that may force interrupts, and no reset: the bus cycle of a      *)
(* command is longer than the pulse, so that the step which an interrupt   *)
(* cut off is over when the next command can make one.                     *)
ForcedGap ==
  /\ ProcInv /\ HostInv /\ BusOK /\ TypeIOK /\ PulseOK /\ WorkGap
  /\ PulseLeft <= STEP_PULSE + 2
  /\ t1 = "IDLE" => /\ PulseLeft <= left + 3
                    /\ cmd_wr_stb /\ ~IsForce(command_r) => PulseLeft <= 2
                    /\ type_stb = "I" => PulseLeft <= 1

LEMMA ForcedGapClock ==
  ASSUME STEP_PULSE < ACCESS_CLKS, LongSteps, ForcedGap, Host, Controller
  PROVE  ForcedGap'
<1>1. /\ ProcInv' /\ HostInv' /\ BusOK' /\ TypeIOK'
      /\ BusOK /\ PulseOK /\ WorkGap /\ TypeI /\ StepPulse /\ ProcCmd
  BY ProcInvClock, HostInvClock, BusTypes, TypeITypes DEF ForcedGap, Controller
<1>2. PulseOK' /\ WorkGap' /\ PulseLeft' <= STEP_PULSE + 2
  BY <1>1, PulseStep, WorkGapClock, SizeAssumption DEF SizeAssumption, ForcedGap
<1>3. ASSUME t1' = "IDLE"
      PROVE  /\ PulseLeft' <= left' + 3
             /\ cmd_wr_stb' /\ ~IsForce(command_r') => PulseLeft' <= 2
             /\ type_stb' = "I" => PulseLeft' <= 1
  <2>1. PulseLeft \in Nat /\ left \in Nat /\ ACCESS_CLKS \in Nat /\ ACCESS_CLKS >= 2
    BY <1>1, PulseStep, SizeAssumption, TimingAssumption
       DEF SizeAssumption, TimingAssumption, BusOK
  <2>2. /\ type_stb = "IV" \/ t1 = "DONE" \/ (t1 = "IDLE" /\ type_stb # "I")
        /\ PulseLeft' = IF PulseLeft = 0 THEN 0 ELSE PulseLeft - 1
    BY <1>1, <1>3, RestHasNoStep
  <2>3. /\ left' = left \/ (left > 0 /\ left' = left - 1) \/ left' = ACCESS_CLKS - 1
        /\ cmd_wr_stb' => left = 0
    BY HostStep DEF Commanding, Accessing, Holding, Resting, SameWait
  <2>4. CASE t1 = "DONE"
    <3>1. PulseLeft' = 0
      BY <1>1, <1>3, <2>4, RestHasNoStep
    <3> QED BY <2>1, <2>3, <3>1
  <2>5. CASE t1 = "IDLE" \/ type_stb = "IV"
    <3>1. PulseLeft <= left + 3
      BY <2>1, <2>5, TimingAssumption, SizeAssumption
         DEF TimingAssumption, SizeAssumption, ForcedGap, HostInv, BusInv
    <3>2. type_stb' = "I" => PulseLeft <= 2
      <4>1. type_stb' = "I" => cmd_wr_stb /\ ~IsForce(command_r)
        BY <1>1, CmdTaken DEF ForcedGap, ProcInv
      <4>2. cmd_wr_stb => t1 = "IDLE"
        BY <2>5, TimingAssumption DEF TimingAssumption, ForcedGap, HostInv, BusInv
      <4> QED BY <4>1, <4>2 DEF ForcedGap
    <3>3. PulseLeft' = IF PulseLeft = 0 THEN 0 ELSE PulseLeft - 1
      BY <2>2
    <3>4. PulseLeft' <= left' + 3
      <4>1. PulseLeft' <= left + 2
        BY <2>1, <3>1, <3>3
      <4>2. CASE left' = left
        BY <2>1, <3>3, <4>1, <4>2
      <4>3. CASE left > 0 /\ left' = left - 1
        BY <2>1, <3>3, <4>1, <4>3
      <4>4. CASE left' = ACCESS_CLKS - 1
        BY <2>1, <3>3, <4>4, SizeAssumption DEF SizeAssumption, ForcedGap
      <4> QED BY <2>3, <4>2, <4>3, <4>4
    <3>5. cmd_wr_stb' => PulseLeft' <= 2
      BY <2>1, <2>3, <3>1, <3>3
    <3>6. type_stb' = "I" => PulseLeft' <= 1
      BY <2>1, <3>2, <3>3
    <3> QED BY <3>4, <3>5, <3>6
  <2> QED BY <2>2, <2>4, <2>5
<1> QED BY <1>1, <1>2, <1>3 DEF ForcedGap

LEMMA GapSeparates ==
  ASSUME UnforcedGap \/ ForcedGap PROVE StepsSeparate
BY SizeAssumption
   DEF SizeAssumption, UnforcedGap, ForcedGap, WorkGap, PulseOK, PulseLeft, StepsSeparate

(* No step pulse runs into the next, with interrupts forced at any clock   *)
(* or resets at any clock: the first if a bus cycle is longer than a pulse. *)
THEOREM PulsesAreSeparate ==
  ASSUME LongSteps, NoForce \/ (~RESETS /\ STEP_PULSE < ACCESS_CLKS)
  PROVE  SystemSpec => []StepsSeparate
<1>1. UnforcedGap \/ ForcedGap => StepsSeparate
  BY GapSeparates
<1>2. CASE NoForce
  <2>1. SystemInit => UnforcedGap
    BY KeptInit, PulseInit DEF SystemInit, UnforcedGap, ObeyInv, KeptInv
  <2>2. UnforcedGap /\ [SystemNext]_systemVars => UnforcedGap'
    <3> SUFFICES ASSUME UnforcedGap, [SystemNext]_systemVars PROVE UnforcedGap'
      OBVIOUS
    <3>1. CASE SystemClock
      BY <1>2, <3>1, UnforcedGapClock DEF SystemClock
    <3>2. CASE SystemReset
      BY <3>2, UnforcedGapReset DEF SystemReset
    <3>3. CASE UNCHANGED vars
      BY <3>3, PulseStutter, ProcInvStutter
         DEF UnforcedGap, ObeyInv, CalmInv, Stuck, vars, cmdVars, t1Vars
    <3> QED BY <3>1, <3>2, <3>3 DEF SystemNext, systemVars
  <2> QED BY <1>1, <2>1, <2>2, PTL DEF SystemSpec
<1>3. CASE ~RESETS /\ STEP_PULSE < ACCESS_CLKS
  <2>1. SystemInit => ForcedGap
    <3> SUFFICES ASSUME Init PROVE ForcedGap
      BY DEF SystemInit
    <3>1. ProcInv /\ HostInv /\ BusOK /\ TypeIOK /\ PulseOK /\ WorkGap /\ PulseLeft = 0
      BY KeptInit, PulseInit DEF KeptInv, CalmInv
    <3>2. STEP_PULSE \in Nat /\ left = 0
      BY SizeAssumption DEF SizeAssumption, Init
    <3> QED BY <3>1, <3>2 DEF ForcedGap
  <2>2. ForcedGap /\ [SystemNext]_systemVars => ForcedGap'
    <3> SUFFICES ASSUME ForcedGap, [SystemNext]_systemVars PROVE ForcedGap'
      OBVIOUS
    <3>1. CASE SystemClock
      BY <1>3, <3>1, ForcedGapClock DEF SystemClock
    <3>2. CASE UNCHANGED vars
      BY <3>2, PulseStutter, ProcInvStutter, HostInvStutter
         DEF ForcedGap, IsForce, Is, vars, cmdVars, t1Vars, hostVars, busVars
    <3> QED BY <1>3, <3>1, <3>2 DEF SystemNext, SystemReset, Reset, systemVars
  <2> QED BY <1>1, <2>1, <2>2, PTL DEF SystemSpec
<1> QED BY <1>2, <1>3

-----------------------------------------------------------------------------
(* The head behind the track register: one drive, with its switch on, and  *)
(* a host that restores and seeks within its tracks, loads no track        *)
(* register and forces no interrupt; its other commands are free.          *)
SeeksOnly ==
  /\ NoForce
  /\ \A c \in Commands : IsTypeI(c) => Is(c, CMD_RESTORE \cup CMD_SEEK)
  /\ TrackVals = {}
  /\ DataVals \cup SeekVals \subseteq 0..(NUM_TRACKS - 1)
  /\ PROMPT \/ DataVals = {}
OneDrive ==
  /\ Enabled = Drives /\ \A d, e \in Drives : d = e
  /\ NUM_TRACKS <= TRACK_MOD
  /\ LongSteps /\ \A r \in 0..3 : StepClks[r] >= 1

(* A step of the counter that the drive has not made yet.                  *)
Pending == step_s \/ (step /\ ~step_r)
Counting == {"RESTORE", "SEEK", "STEPIO", "STEP_WAIT", "UPDATE"}

HeadTypes ==
  /\ sel \in Drives /\ head \in [0..4 -> 0..(NUM_TRACKS - 1)] /\ ~trk_wr_stb
PendingInv ==
  /\ t1 # "STEP_WAIT" => ~Pending
  /\ step_s => step_count >= 1 /\ ~step
HeadInv ==
  /\ t1 = "IDLE" \/ (tr00 <=> head[sel] = 0)
  /\ t1 \in Counting =>
       curr_track = IF Pending THEN Moved(head[sel], dirc = "in") ELSE head[sel]
  /\ t1 \notin Counting => track_r = head[sel]
(* A seek inward counts up to its target and no further.                   *)
SeekInv ==
  /\ type_stb = "I" \/ t1 \in Counting => Is(command_r, CMD_RESTORE \cup CMD_SEEK)
  /\ t1 = "RESTORE" => Is(command_r, CMD_RESTORE)
  /\ t1 \in {"SEEK", "UPDATE"} => Is(command_r, CMD_SEEK)
  /\ t1 \in Counting /\ dirc = "in" =>
       /\ Is(command_r, CMD_SEEK) /\ curr_track <= data_i_r
       /\ t1 = "STEPIO" => curr_track < data_i_r
FollowInv ==
  /\ UnforcedGap /\ HeadTypes
  /\ ~torn => KeptInv /\ PendingInv /\ HeadInv /\ SeekInv

(* A host that waits for a command moves its data register only to write.  *)
LEMMA DataKept ==
  ASSUME NoForce, KeptInv, Host, PROMPT \/ DataVals = {}
  PROVE  data_i_r' = data_i_r \/ Rests \/ WritesDisk
<1>1. \/ HoldAccess \/ NoAccess \/ Read("data") \/ Read("status")
      \/ \E v \in DataVals : WriteData(v) /\ (PROMPT => WritesDisk)
      \/ \E c : WriteCommand(c)
      \/ \E v : WriteData(v) /\ ~hostWaits
      \/ \E v : WriteTrack(v) \/ WriteSector(v)
  BY Zenon DEF Host
<1>2. HoldAccess \/ NoAccess \/ Read("data") \/ Read("status") => data_i_r' = data_i_r
  BY DEF HoldAccess, NoAccess, Read
<1>3. \A c : WriteCommand(c) \/ WriteTrack(c) \/ WriteSector(c) => data_i_r' = data_i_r
  BY DEF WriteCommand, WriteTrack, WriteSector
<1>4. ASSUME NEW v, WriteData(v), ~hostWaits PROVE Rests
  <2>1. left = 0
    BY <1>4 DEF WriteData, Starts
  <2>2. ~cmd_wr_stb
    BY <2>1, TimingAssumption DEF TimingAssumption, KeptInv, HostInv, BusInv
  <2> QED BY <1>4, <2>2, IdleRests DEF KeptInv, HostInv, WaitInv, cmd_busy
<1> QED BY <1>1, <1>2, <1>3, <1>4

LEMMA NoTrackStrobe ==
  ASSUME TrackVals = {}, Host PROVE ~trk_wr_stb'
<1>1. \/ HoldAccess \/ NoAccess \/ Read("data") \/ Read("status")
      \/ \E v : WriteCommand(v) \/ WriteData(v) \/ WriteSector(v)
  BY Zenon DEF Host
<1>2. HoldAccess \/ NoAccess \/ Read("data") \/ Read("status") => ~trk_wr_stb'
  BY DEF HoldAccess, NoAccess, Read, Strobes
<1>3. \A v : WriteCommand(v) \/ WriteData(v) \/ WriteSector(v) => ~trk_wr_stb'
  BY DEF WriteCommand, WriteData, WriteSector, Strobes
<1> QED BY <1>1, <1>2, <1>3

(* The drive makes a pending step on the clock after its leading edge.     *)
LEMMA DriveSteps ==
  ASSUME OneDrive, HeadTypes, Select, Stepping(step, dirc = "in")
  PROVE  /\ sel' = sel /\ sel \in 0..4
         /\ head[sel] \in 0..(NUM_TRACKS - 1)
         /\ head' \in [0..4 -> 0..(NUM_TRACKS - 1)]
         /\ head'[sel'] = IF step /\ ~step_r THEN Moved(head[sel], dirc = "in") ELSE head[sel]
<1>1. sel' = sel /\ sel \in 0..4 /\ ena
  <2>1. sel \in Drives /\ sel' \in Drives
    BY DEF HeadTypes, Select
  <2>2. sel' = sel /\ ena
    BY <2>1 DEF OneDrive, ena
  <2>3. sel \in 1..4
    BY <2>1, DriveAssumption DEF DriveAssumption
  <2> QED BY <2>2, <2>3
<1>2. head[sel] \in 0..(NUM_TRACKS - 1) /\ NUM_TRACKS \in Nat
  BY <1>1, DriveAssumption DEF DriveAssumption, HeadTypes
<1>3. Moved(head[sel], dirc = "in") \in 0..(NUM_TRACKS - 1)
  BY <1>2 DEF Moved
<1> QED BY <1>1, <1>2, <1>3 DEF Stepping, HeadTypes

(* What pends after a clock: the step just counted, for two clocks.        *)
LEMMA PendingClock ==
  ASSUME PulseOK, PendingInv, type_stb # "IV", TypeI, StepPulse, Stepping(step, dirc = "in")
  PROVE  /\ step_s' <=> t1 = "STEPIO"
         /\ Pending' <=> t1 = "STEPIO" \/ step_s
         /\ step' => step_s \/ step
<1>1. step_s' = (t1 = "STEPIO")
  BY DEF TypeI, Aborted
<1>2. step' = (step_s \/ (step /\ pulse_count # 0)) /\ step_r' = step
  BY DEF StepPulse, Stepping
<1> QED BY <1>1, <1>2 DEF PulseOK, PendingInv, Pending

(* A command of type I that a machine starts or works on is a restore or a *)
(* seek, and asks for no byte.                                             *)
LEMMA SeekCommand ==
  ASSUME SeeksOnly, command_r \in Commands \cup {0}, IsTypeI(command_r)
  PROVE  Is(command_r, CMD_RESTORE \cup CMD_SEEK)
BY DEF SeeksOnly, Is, CMD_RESTORE, CMD_SEEK

LEMMA SeekIsNotWrite ==
  ASSUME Is(command_r, CMD_RESTORE \cup CMD_SEEK) PROVE ~WritesDisk
BY DEF Is, WritesDisk, CMD_RESTORE, CMD_SEEK, CMD_WRITE_SECTOR, CMD_WRITE_TRACK

LEMMA FollowClock ==
  ASSUME SeeksOnly, OneDrive, FollowInv, ~torn, SystemClock
  PROVE  PendingInv' /\ HeadInv' /\ SeekInv'
<1>1. /\ KeptInv /\ PendingInv /\ HeadInv /\ SeekInv /\ HeadTypes /\ PulseOK /\ TypeIOK
      /\ BusOK /\ type_stb # "IV" /\ ~Aborted /\ NoForce
  BY DEF FollowInv, UnforcedGap, ObeyInv, KeptInv, CalmInv, SeeksOnly, Aborted
<1>2. /\ Host /\ TypeI /\ StepPulse /\ ProcCmd /\ Select /\ Stepping(step, dirc = "in")
      /\ (tr00' <=> head'[sel'] = 0)
  BY DEF SystemClock, Controller, SystemDrive
<1>3. /\ step_s' <=> t1 = "STEPIO"
      /\ Pending' <=> t1 = "STEPIO" \/ step_s
      /\ step' => step_s \/ step
  BY <1>1, <1>2, PendingClock
<1>4. /\ head[sel] \in 0..(NUM_TRACKS - 1)
      /\ head'[sel'] = IF step /\ ~step_r THEN Moved(head[sel], dirc = "in") ELSE head[sel]
  BY <1>1, <1>2, DriveSteps
<1>5. LoadedTrack = track_r
  BY <1>1 DEF HeadTypes, LoadedTrack
<1>6. command_r' = command_r \/ Rests
  BY <1>1, <1>2, CommandKept
<1>7. data_i_r' = data_i_r \/ Rests \/ WritesDisk
  BY <1>1, <1>2, DataKept DEF SeeksOnly
<1>8. CASE Rests
  <2>1. t1 = "IDLE" /\ type_stb = "none" /\ ~Pending
    BY <1>1, <1>8 DEF Rests, Quiet, PendingInv
  <2>2. t1' = "IDLE" /\ track_r' = track_r
    BY <1>1, <1>2, <1>5, <2>1 DEF TypeI, T1Abort, T1Start, T1Restore, T1Seek, T1Step, T1StepWait,
       T1Update, T1Verify, T1VerifyWaitIdam, T1VerifyIdam, T1Rest
  <2>3. type_stb' = "none"
    BY <1>2, <1>8, CmdTaken DEF Rests, CmdTypeOK
  <2>4. ~Pending' /\ ~step_s' /\ head'[sel'] = head[sel]
    BY <1>3, <1>4, <2>1 DEF Pending
  <2> QED BY <1>1, <2>1, <2>2, <2>3, <2>4 DEF PendingInv, HeadInv, SeekInv, Counting
<1>9. CASE ~Rests
  <2>1. command_r' = command_r
    BY <1>6, <1>9
  <2>2. type_stb = "I" \/ t1 \in Counting => data_i_r' = data_i_r
    BY <1>1, <1>7, <1>9, SeekIsNotWrite DEF SeekInv
  <2>3. type_stb' = "I" => Is(command_r', CMD_RESTORE \cup CMD_SEEK)
    <3>1. type_stb' = "I" => IsTypeI(command_r)
      BY <1>2 DEF ProcCmd, CmdForce, CmdIdle, CmdWait
    <3> QED BY <1>1, <2>1, <3>1, SeekCommand DEF BusOK
  <2>4. CASE t1 # "STEP_WAIT" /\ t1 # "STEPIO"
    <3>1. ~Pending /\ ~Pending' /\ ~step_s' /\ head'[sel'] = head[sel]
      BY <1>1, <1>3, <1>4, <2>4 DEF PendingInv, Pending
    <3>2. CASE T1Start
      <4>1. t1 = "IDLE" /\ type_stb = "I" /\ Is(command_r, CMD_RESTORE \cup CMD_SEEK)
        BY <1>1, <3>2 DEF T1Start, SeekInv
      <4>2. Is(command_r, CMD_RESTORE) \/ Is(command_r, CMD_SEEK)
        BY <4>1 DEF Is
      <4>3. Is(command_r, CMD_SEEK) => ~Is(command_r, CMD_RESTORE \cup CMD_STEP_OUT)
        BY DEF Is, CMD_SEEK, CMD_RESTORE, CMD_STEP_OUT
      <4>4. Is(command_r, CMD_RESTORE) =>
              ~Is(command_r, CMD_SEEK) /\ ~Is(command_r, CMD_STEP_IN)
        BY DEF Is, CMD_SEEK, CMD_RESTORE, CMD_STEP_IN
      <4>5. /\ t1' = IF Is(command_r, CMD_RESTORE) THEN "RESTORE" ELSE "SEEK"
            /\ dirc' = "in" => Is(command_r, CMD_SEEK) /\ track_r < data_i_r
            /\ curr_track' = track_r
        BY <3>2, <4>2, <4>4 DEF T1Start, Is
      <4>6. HeadInv'
        BY <1>1, <1>2, <3>1, <4>1, <4>5 DEF HeadInv, Counting
      <4>7. SeekInv'
        <5>1. data_i_r \in Int /\ track_r \in Int /\ data_i_r' = data_i_r
          BY <1>1, <2>2, <4>1, InputAssumption DEF InputAssumption, BusOK, TypeIOK
        <5>2. dirc' = "in" => curr_track' <= data_i_r'
          BY <4>5, <5>1
        <5> QED BY <2>1, <2>3, <4>1, <4>2, <4>5, <5>2 DEF SeekInv, Counting
      <4> QED BY <3>1, <4>5, <4>6, <4>7 DEF PendingInv
    <3>3. CASE T1Restore
      <4>1. CASE tr00
        <5>1. t1 = "RESTORE" /\ t1' = "VERIFY" /\ track_r' = 0
          BY <3>3, <4>1 DEF T1Restore
        <5> QED BY <1>1, <1>2, <2>3, <3>1, <4>1, <5>1 DEF HeadInv, SeekInv, PendingInv, Counting
      <4>2. CASE ~tr00
        <5>1. /\ t1 = "RESTORE" /\ t1' = "STEPIO" /\ curr_track' = curr_track
              /\ dirc' = dirc /\ track_r' = track_r
          BY <1>5, <3>3, <4>2 DEF T1Restore
        <5>2. dirc # "in"
          BY <1>1, <5>1 DEF SeekInv, Counting, Is, CMD_RESTORE, CMD_SEEK
        <5> QED BY <1>1, <1>2, <2>1, <2>3, <3>1, <5>1, <5>2 DEF HeadInv, SeekInv, PendingInv, Counting
      <4> QED BY <4>1, <4>2
    <3>4. CASE T1Seek
      <4>1. /\ t1 = "SEEK" /\ curr_track' = curr_track /\ dirc' = dirc
            /\ t1' = IF curr_track # data_i_r THEN "STEPIO" ELSE "UPDATE"
        BY <3>4 DEF T1Seek
      <4>2. data_i_r \in Int /\ curr_track \in Int
        BY <1>1, InputAssumption DEF InputAssumption, BusOK, TypeIOK
      <4>3. HeadInv'
        BY <1>1, <1>2, <3>1, <4>1 DEF HeadInv, Counting
      <4>4. SeekInv'
        BY <1>1, <2>1, <2>2, <2>3, <4>1, <4>2 DEF SeekInv, Counting
      <4> QED BY <3>1, <4>1, <4>3, <4>4 DEF PendingInv
    <3>5. CASE T1Update
      <4>1. t1 = "UPDATE" /\ t1' = "VERIFY"
        BY <3>5 DEF T1Update
      <4>2. Bit(command_r, 16)
        BY <1>1, <4>1 DEF SeekInv, Is, CMD_SEEK, Bit
      <4>3. track_r' = curr_track
        BY <3>5, <4>2 DEF T1Update
      <4> QED BY <1>1, <1>2, <2>3, <3>1, <4>1, <4>3 DEF HeadInv, SeekInv, PendingInv, Counting
    <3>6. CASE T1Verify \/ T1VerifyWaitIdam \/ T1VerifyIdam \/ T1Rest
      <4>1. /\ t1 \notin Counting /\ t1' \notin Counting /\ t1' # "STEP_WAIT"
            /\ track_r' = track_r
        BY <1>5, <3>6 DEF T1Verify, T1VerifyWaitIdam, T1VerifyIdam, T1Rest, Counting
      <4>2. t1' \notin {"RESTORE", "SEEK", "UPDATE"}
        BY <4>1 DEF Counting
      <4> QED BY <1>1, <1>2, <2>3, <3>1, <4>1, <4>2 DEF HeadInv, SeekInv, PendingInv
    <3> QED
      BY <1>1, <1>2, <2>4, <3>2, <3>3, <3>4, <3>5, <3>6 DEF TypeI, T1Abort, T1Step, T1StepWait
  <2>5. CASE t1 = "STEPIO"
    <3>1. T1Step
      BY <1>1, <1>2, <2>5 DEF TypeI, T1Abort, T1Start, T1Restore, T1Seek, T1StepWait, T1Update,
         T1Verify, T1VerifyWaitIdam, T1VerifyIdam, T1Rest
    <3>2. ~Pending /\ Pending' /\ ~step /\ ~step_s /\ head'[sel'] = head[sel]
      <4>1. ~Pending /\ Pending' /\ StepsSeparate
        BY <1>1, <1>3, <2>5, GapSeparates DEF PendingInv, FollowInv
      <4> QED BY <1>4, <2>5, <4>1 DEF Pending, StepsSeparate
    <3>3. t1' = "STEP_WAIT" /\ dirc' = dirc /\ step_count' = StepClks[command_r % 4]
      BY <3>1 DEF T1Step
    <3>4. step_count' >= 1
      <4>1. command_r % 4 \in 0..3
        BY <1>1, InputAssumption DEF InputAssumption, BusOK
      <4> QED BY <3>3, <4>1 DEF OneDrive
    <3>5. curr_track = head[sel] /\ (dirc = "in" => curr_track < data_i_r)
      BY <1>1, <2>5, <3>2 DEF HeadInv, SeekInv, Counting
    <3>6. data_i_r \in 0..(NUM_TRACKS - 1) /\ NUM_TRACKS \in Nat
      BY <1>1, DriveAssumption DEF DriveAssumption, SeeksOnly, BusOK
    <3>7. /\ curr_track' = Moved(head[sel], dirc = "in")
          /\ dirc = "in" => curr_track' <= data_i_r
      BY <1>1, <1>4, <3>1, <3>5, <3>6, SizeAssumption
         DEF SizeAssumption, OneDrive, T1Step, Moved, TypeIOK
    <3>8. HeadInv'
      BY <1>1, <1>2, <3>2, <3>3, <3>7 DEF HeadInv, Counting
    <3>9. SeekInv'
      BY <1>1, <2>1, <2>2, <2>3, <2>5, <3>3, <3>7 DEF SeekInv, Counting
    <3>10. PendingInv'
      BY <1>3, <3>2, <3>3, <3>4 DEF PendingInv
    <3> QED BY <3>8, <3>9, <3>10
  <2>6. CASE t1 = "STEP_WAIT"
    <3>1. T1StepWait
      BY <1>1, <1>2, <2>6 DEF TypeI, T1Abort, T1Start, T1Restore, T1Seek, T1Step, T1Update,
         T1Verify, T1VerifyWaitIdam, T1VerifyIdam, T1Rest
    <3>2. /\ curr_track' = curr_track /\ dirc' = dirc
          /\ t1' = IF step_count # 0 THEN "STEP_WAIT"
                   ELSE IF Is(command_r, CMD_RESTORE) THEN "RESTORE"
                   ELSE IF Is(command_r, CMD_SEEK) THEN "SEEK" ELSE "UPDATE"
      BY <3>1 DEF T1StepWait
    <3>3. Is(command_r, CMD_RESTORE) \/ Is(command_r, CMD_SEEK)
      BY <1>1, <2>6 DEF SeekInv, Counting, Is
    <3>4. ~step_s' /\ (Pending' <=> step_s) /\ (step_s => step_count # 0)
      BY <1>1, <1>3, <2>6 DEF PendingInv
    <3>5. curr_track = IF Pending' THEN Moved(head'[sel'], dirc = "in") ELSE head'[sel']
      BY <1>1, <1>3, <1>4, <2>6 DEF HeadInv, PendingInv, Pending, Counting
    <3>6. HeadInv'
      BY <1>2, <3>2, <3>3, <3>5 DEF HeadInv, Counting
    <3>7. SeekInv'
      BY <1>1, <2>1, <2>2, <2>3, <2>6, <3>2, <3>3 DEF SeekInv, Counting, Is
    <3>8. PendingInv'
      BY <3>2, <3>4 DEF PendingInv
    <3> QED BY <3>6, <3>7, <3>8
  <2> QED BY <2>4, <2>5, <2>6
<1> QED BY <1>8, <1>9

LEMMA HeadTypesClock ==
  ASSUME SeeksOnly, OneDrive, HeadTypes, SystemClock PROVE HeadTypes'
<1>1. Host /\ Select /\ Stepping(step, dirc = "in")
  BY DEF SystemClock
<1>2. ~trk_wr_stb'
  BY <1>1, NoTrackStrobe DEF SeeksOnly
<1>3. sel' = sel /\ head' \in [0..4 -> 0..(NUM_TRACKS - 1)]
  BY <1>1, DriveSteps
<1> QED BY <1>2, <1>3 DEF HeadTypes

LEMMA FollowReset ==
  ASSUME FollowInv, SystemReset PROVE FollowInv'
<1>1. UnforcedGap'
  BY UnforcedGapReset DEF FollowInv, SystemReset
<1>2. HeadTypes' /\ head'[sel'] = 0
  <2>1. 0 \in 0..(NUM_TRACKS - 1) /\ sel \in 0..4
    BY DriveAssumption DEF DriveAssumption, FollowInv, HeadTypes
  <2> QED BY <2>1 DEF FollowInv, HeadTypes, SystemReset, FloppyIfReset, Reset
<1>3. ASSUME ~torn' PROVE (KeptInv /\ PendingInv /\ HeadInv /\ SeekInv)'
  <2>1. KeptInv /\ PendingInv /\ Reset /\ ~cmd_busy /\ ~cmd_wr_stb
    BY <1>3 DEF FollowInv, SystemReset
  <2>2. KeptInv' /\ Rests'
    BY <2>1, KeptReset
  <2>3. Rests
    BY <2>1, IdleRests
  <2>4. t1' = "IDLE" /\ type_stb' = "none" /\ track_r' = 0 /\ ~step' /\ step_s' = step_s
    BY <2>1, <2>2 DEF Rests, Reset
  <2>5. ~step_s' /\ ~Pending'
    BY <2>1, <2>3, <2>4 DEF Rests, Quiet, PendingInv, Pending
  <2> QED BY <1>2, <2>2, <2>4, <2>5 DEF PendingInv, HeadInv, SeekInv, Counting
<1> QED BY <1>1, <1>2, <1>3 DEF FollowInv

(* The track register and the head agree whenever no command runs: every   *)
(* step the controller counts is one the drive makes, at any step rate not *)
(* shorter than the pulse, and a reset between commands brings both to     *)
(* track 0.                                                                *)
THEOREM TheHeadFollows ==
  ASSUME SeeksOnly, OneDrive PROVE SystemSpec => []HeadFollows
<1>1. SystemInit => FollowInv
  <2> SUFFICES ASSUME SystemInit PROVE FollowInv
    OBVIOUS
  <2>1. Init /\ KeptInv
    BY KeptInit DEF SystemInit
  <2>2. UnforcedGap
    BY <2>1, PulseInit DEF UnforcedGap, ObeyInv, KeptInv
  <2>3. sel \in 0..4 /\ 0 \in 0..(NUM_TRACKS - 1)
    BY DriveAssumption DEF DriveAssumption, SystemInit, FloppyIfInit
  <2>4. HeadTypes /\ head[sel] = 0
    BY <2>1, <2>3 DEF HeadTypes, SystemInit, FloppyIfInit, Init
  <2>5. t1 = "IDLE" /\ type_stb = "none" /\ track_r = 0 /\ ~step /\ ~step_s
    BY <2>1 DEF Init
  <2> QED BY <2>1, <2>2, <2>4, <2>5
          DEF FollowInv, PendingInv, Pending, HeadInv, SeekInv, Counting
<1>2. FollowInv /\ [SystemNext]_systemVars => FollowInv'
  <2> SUFFICES ASSUME FollowInv, [SystemNext]_systemVars PROVE FollowInv'
    OBVIOUS
  <2>1. CASE SystemClock
    <3>1. UnforcedGap'
      BY <2>1, UnforcedGapClock DEF SystemClock, FollowInv, SeeksOnly, OneDrive
    <3>2. HeadTypes'
      BY <2>1, HeadTypesClock DEF FollowInv
    <3>3. ASSUME ~torn' PROVE KeptInv' /\ PendingInv' /\ HeadInv' /\ SeekInv'
      <4>1. ~torn
        BY <2>1, <3>3 DEF SystemClock
      <4>2. KeptInv'
        BY <2>1, <4>1, KeptClock DEF SystemClock, Controller, FollowInv, SeeksOnly
      <4> QED BY <2>1, <4>1, <4>2, FollowClock
    <3> QED BY <3>1, <3>2, <3>3 DEF FollowInv
  <2>2. CASE SystemReset
    BY <2>2, FollowReset
  <2>3. CASE UNCHANGED systemVars
    <3>1. UnforcedGap'
      BY <2>3, PulseStutter, ProcInvStutter
         DEF FollowInv, UnforcedGap, ObeyInv, CalmInv, Stuck, systemVars, vars, cmdVars, t1Vars
    <3>2. HeadTypes' /\ torn' = torn
      BY <2>3 DEF FollowInv, HeadTypes, systemVars, driveIfVars, vars, busVars
    <3>3. KeptInv => KeptInv'
      BY <2>3, KeptStutter DEF systemVars
    <3>4. Pending' = Pending /\ (PendingInv => PendingInv')
      BY <2>3 DEF Pending, PendingInv, systemVars, driveIfVars, vars, t1Vars, stepVars
    <3>5. HeadInv => HeadInv'
      BY <2>3, <3>4 DEF HeadInv, systemVars, driveIfVars, vars, t1Vars, driveVars
    <3>6. SeekInv => SeekInv'
      BY <2>3 DEF SeekInv, Is, systemVars, vars, t1Vars, cmdVars, busVars
    <3> QED BY <3>1, <3>2, <3>3, <3>4, <3>5, <3>6 DEF FollowInv
  <2> QED BY <2>1, <2>2, <2>3 DEF SystemNext
<1>3. FollowInv => HeadFollows
  <2> SUFFICES ASSUME FollowInv, ~torn, ~cmd_busy, ~cmd_wr_stb PROVE track_r = head[sel]
    BY DEF HeadFollows
  <2>1. t1 = "IDLE"
    BY IdleRests DEF FollowInv, Rests, Quiet
  <2> QED BY <2>1 DEF FollowInv, HeadInv, Counting
<1> QED BY <1>1, <1>2, <1>3, PTL DEF SystemSpec
-----------------------------------------------------------------------------
(* Verification.  The host may force interrupts if nobody resets; resets   *)
(* come between commands.                                                  *)
GentleResets == ~RESETS \/ (NoForce /\ ~MID_COMMAND)

Here(p) == TrackImage(head[sel])[p]
NextByte == IF 3 <= slot /\ slot <= TICK THEN NextPos ELSE pos
StepComes == step /\ ~step_r    \* the drive takes a step with this clock

DrivesOK ==
  /\ sel \in Drives /\ head \in [0..4 -> 0..(NUM_TRACKS - 1)] /\ DriveOK

(* A step is made while its processor still counts, or has been stopped;   *)
(* nothing moves the head while an ID is verified.                         *)
SettledInv ==
  /\ step_s => t1 = "STEP_WAIT"
  /\ StepComes => \/ t1 \in {"STEP_WAIT", "RESTORE", "SEEK", "UPDATE"}
                  \/ t1 = "IDLE" /\ type_stb = "none" /\ ~cmd_ack

(* The other processors work for other commands.                           *)
KindInv ==
  type_stb \in {"II", "III"} \/ t2 # "IDLE" \/ t3 # "IDLE" \/ type_ii_ack \/ type_iii_ack
    => ~IsTypeI(command_r)

(* When the reader has a byte, and what byte while an ID is verified.      *)
ByteInv ==
  /\ raw # NoByte => slot = 2 \/ rd = "UNKNOWN"
  /\ slot = 2 => raw # NoByte
  /\ "id_mark" \in rdy => (rd = "GAP3_4E" /\ slot \notin {1, 2}) \/ t1 = "IDLE"
  /\ t1 = "VERIFY_IDAM" /\ slot = 2 => raw = UnderHead /\ (raw = XFE => ~mixed)

(* The ID that is being read lies on the track under the head: its mark    *)
(* went by k bytes ago, and the head has not moved since.                  *)
IdBehind(k) ==
  /\ ena /\ ~mixed
  /\ \E p \in 1..Len(Track) :
       /\ Here(p) = XFE /\ NextByte = Ahead(p, k)
       /\ k > 1 => idam_track = Here(Ahead(p, 1))
VerifyInv ==
  t1 = "VERIFY_IDAM" =>
    /\ "id_mark" \in rdy => idam_track = head[sel]
    /\ rd = "TRACK" => IdBehind(1)
    /\ rd = "SIDE" => IdBehind(2)
    /\ rd = "SECTOR" => IdBehind(3)
    /\ rd = "SEC_LEN" => IdBehind(4)
    /\ rd = "CRC_1" => (rd_count = 0 /\ IdBehind(5)) \/ (rd_count = 1 /\ IdBehind(6))

(* What the processor has found stays so until the status is latched.      *)
Right == IsTypeI(command_r) /\ Bit(command_r, 4) /\ ~seek_error => head[sel] = curr_track
FoundInv == t1 = "DONE" \/ (type_i_ack /\ cmd_busy) \/ latch_status => Right

SeekFound ==
  /\ ProcInv /\ HostInv /\ BusOK /\ DrivesOK /\ (type_stb = "IV" => ~RESETS)
  /\ SettledInv /\ KindInv /\ ByteInv /\ VerifyInv /\ FoundInv

(* What PROC_TYPE_I does with the head settled: how it comes to compare an *)
(* ID and to end, and that the end changes nothing it found.               *)
LEMMA VerifyStep ==
  ASSUME TypeI
  PROVE  /\ step_s' => t1' = "STEP_WAIT"
         /\ t1 = "STEP_WAIT" => t1' \in {"STEP_WAIT", "RESTORE", "SEEK", "UPDATE"} \/ Aborted
         /\ t1 \in {"STEP_WAIT", "RESTORE", "SEEK", "UPDATE"} => t1' \notin {"VERIFY_IDAM", "DONE"}
         /\ t1' = "VERIFY_IDAM" =>
              t1 = "VERIFY_IDAM" \/ (t1 = "VERIFY_WAIT_IDAM" /\ "id_mark" \in rdy)
         /\ t1' = "DONE" => \/ ~IsTypeI(command_r) \/ ~Bit(command_r, 4) \/ seek_error'
                            \/ /\ t1 = "VERIFY_IDAM" /\ curr_track' = curr_track
                               /\ "id_mark" \in rdy /\ curr_track = idam_track
         /\ t1 = "DONE" \/ (t1 = "IDLE" /\ type_stb # "I") =>
              curr_track' = curr_track /\ seek_error' = seek_error
<1>1. step_s' = (~Aborted /\ t1 = "STEPIO")
  BY DEF TypeI
<1>2. CASE T1Abort
  BY <1>1, <1>2 DEF T1Abort
<1>3. CASE ~Aborted /\ (T1Start \/ T1Restore \/ T1Seek)
  BY <1>1, <1>3 DEF T1Start, T1Restore, T1Seek
<1>4. CASE ~Aborted /\ (T1Step \/ T1StepWait \/ T1Update \/ T1Verify)
  BY <1>1, <1>4 DEF T1Step, T1StepWait, T1Update, T1Verify
<1>5. CASE ~Aborted /\ T1VerifyWaitIdam
  BY <1>1, <1>5 DEF T1VerifyWaitIdam
<1>6. CASE ~Aborted /\ T1VerifyIdam
  BY <1>1, <1>6 DEF T1VerifyIdam
<1>7. CASE ~Aborted /\ T1Rest
  BY <1>1, <1>7 DEF T1Rest
<1> QED BY <1>2, <1>3, <1>4, <1>5, <1>6, <1>7 DEF TypeI

LEMMA DriveMoves ==
  ASSUME DrivesOK, BusInv, Select, Stepping(step, dirc = "in"), SystemDrive
  PROVE  /\ DrivesOK' /\ step_r' = step
         /\ ~StepComes => head' = head
         /\ sel # sel' => ~hostWaits /\ left = 0
<1>1. sel \in Drives /\ sel' \in Drives /\ sel \in 0..4
  BY DriveAssumption DEF DriveAssumption, DrivesOK, Select
<1>2. head[sel] \in 0..(NUM_TRACKS - 1) /\ NUM_TRACKS \in Nat
  BY <1>1, DriveAssumption DEF DriveAssumption, DrivesOK
<1>3. Moved(head[sel], dirc = "in") \in 0..(NUM_TRACKS - 1)
  BY <1>2 DEF Moved
<1>4. head' \in [0..4 -> 0..(NUM_TRACKS - 1)]
  BY <1>1, <1>3 DEF Stepping, DrivesOK
<1>5. slot' \in 0..(BYTE_CLKS - 1)
  BY TimingAssumption DEF TimingAssumption, DrivesOK, DriveOK, SystemDrive, ByteClock
<1>6. pos' \in 1..Len(Track)
  BY InputAssumption DEF InputAssumption, DrivesOK, DriveOK, SystemDrive, NextPos
<1>7. sel # sel' => ~hostWaits /\ left = 0
  BY DEF Select, BusInv
<1> QED BY <1>1, <1>4, <1>5, <1>6, <1>7 DEF Stepping, DrivesOK, DriveOK, StepComes

(* A machine that is idle, or whose head moves, has found nothing.         *)
LEMMA NothingFound ==
  ASSUME ProcInv, SettledInv, ProcCmd, TypeI, TypeII, TypeIII, ~cmd_busy \/ StepComes
  PROVE  t1' \notin {"VERIFY_IDAM", "DONE"} /\ ~type_i_ack' /\ ~latch_status'
<1>1. Stage(t1, type_i_ack, "I")
  BY TypeIStage
<1>2. CASE ~cmd_busy
  <2>1. type_stb \in {"none", "IV"} /\ (type_stb = "none" => Quiet)
    BY <1>2 DEF cmd_busy, ProcInv, CmdTypeOK, StrobeInv
  <2>2. t1' = "IDLE" /\ ~type_i_ack'
    BY <1>1, <2>1 DEF Stage, Quiet
  <2>3. ~latch_status'
    BY <1>2 DEF ProcCmd, CmdForce, CmdIdle, CmdWait, cmd_busy
  <2> QED BY <2>2, <2>3
<1>3. CASE StepComes
  <2>1. ~cmd_ack /\ t1 # "DONE"
    BY <1>3 DEF SettledInv, cmd_ack, ProcInv, SoleInv
  <2>2. t1' \notin {"VERIFY_IDAM", "DONE"}
    <3>1. CASE t1 \in {"STEP_WAIT", "RESTORE", "SEEK", "UPDATE"}
      BY <3>1, VerifyStep
    <3>2. CASE t1 = "IDLE" /\ type_stb = "none"
      BY <1>1, <3>2 DEF Stage
    <3> QED BY <1>3, <3>1, <3>2 DEF SettledInv
  <2>3. ~type_i_ack'
    BY <1>1, <2>1 DEF Stage
  <2>4. latch_status' = FALSE \/ latch_status' = cmd_ack
    BY DEF ProcCmd, CmdForce, CmdIdle, CmdWait
  <2>5. ~latch_status'
    BY <2>1, <2>4
  <2> QED BY <2>2, <2>3, <2>5
<1> QED BY <1>2, <1>3

(* Who owns the bus while a command runs: the drive stays selected, and    *)
(* the command register changes only for a FORCE INTERRUPT.                *)
LEMMA BusyHost ==
  ASSUME HostInv, Host, cmd_busy
  PROVE  /\ hostWaits \/ left > 0
         /\ command_r' = command_r \/ IsForce(command_r')
<1>1. ACCESS_CLKS \in Nat /\ ACCESS_CLKS >= 2
  BY TimingAssumption DEF TimingAssumption
<1>2. cmd_wr_stb => left > 0
  BY <1>1 DEF HostInv, BusInv
<1>3. hostWaits \/ left > 0
  BY <1>2 DEF HostInv, WaitInv, cmd_busy
<1>4. Commanding => IsForce(command_r')
  BY <1>3 DEF Commanding
<1> QED BY <1>3, <1>4, HostStep DEF Accessing, Holding, Resting, SameWait

LEMMA ForceIsNotSeek ==
  ASSUME NEW c \in Commands \cup {0}, IsForce(c) PROVE ~IsTypeI(c)
<1>1. c \in 0..255
  BY InputAssumption DEF InputAssumption
<1> QED BY <1>1 DEF IsForce, Is, IsTypeI, CMD_FORCE_INTERRUPT

LEMMA SettledClock ==
  ASSUME ProcInv, HostInv, SettledInv, Host, ProcCmd, TypeI, TypeII, TypeIII, StepPulse, step_r' = step
  PROVE  SettledInv'
<1>1. Stage(t1, type_i_ack, "I") /\ Stage(t2, type_ii_ack, "II") /\ Stage(t3, type_iii_ack, "III")
  BY TypeIStage, TypeIIStage, TypeIIIStage
<1>2. step_s' => t1' = "STEP_WAIT"
  BY VerifyStep
<1>3. ASSUME StepComes'
      PROVE  \/ t1' \in {"STEP_WAIT", "RESTORE", "SEEK", "UPDATE"}
             \/ t1' = "IDLE" /\ type_stb' = "none" /\ ~cmd_ack'
  <2>1. t1 = "STEP_WAIT"
    BY <1>3 DEF StepComes, StepPulse, SettledInv
  <2>2. CASE ~Aborted
    BY <2>1, <2>2, VerifyStep
  <2>3. CASE Aborted
    <3>1. left = ACCESS_CLKS - 2 /\ ACCESS_CLKS \in Nat
      BY <2>3, TimingAssumption DEF TimingAssumption, HostInv, BusInv, Aborted
    <3>2. ~cmd_wr_stb
      BY <3>1 DEF HostInv, BusInv
    <3>3. type_stb' = "none"
      BY <3>2, CmdTaken DEF ProcInv
    <3>4. t1' = "IDLE" /\ ~cmd_ack'
      BY <1>1, <2>3 DEF Stage, Aborted, cmd_ack
    <3> QED BY <3>3, <3>4
  <2> QED BY <2>2, <2>3
<1> QED BY <1>2, <1>3 DEF SettledInv

LEMMA KindClock ==
  ASSUME ProcInv, HostInv, BusOK, KindInv, Host, ProcCmd, TypeII, TypeIII
  PROVE  KindInv'
<1>1. Stage(t2, type_ii_ack, "II") /\ Stage(t3, type_iii_ack, "III")
  BY TypeIIStage, TypeIIIStage
<1>2. BusOK'
  BY BusTypes
<1>3. ASSUME \/ type_stb' \in {"II", "III"} \/ t2' # "IDLE" \/ t3' # "IDLE"
             \/ type_ii_ack' \/ type_iii_ack',
             IsTypeI(command_r')
      PROVE  FALSE
  <2>1. CASE type_stb' \in {"II", "III"}
    <3>1. cmd_wr_stb /\ ~IsTypeI(command_r)
      BY <2>1 DEF ProcCmd, CmdForce, CmdIdle, CmdWait
    <3>2. left > 0
      BY <3>1, TimingAssumption DEF TimingAssumption, HostInv, BusInv
    <3>3. command_r' = command_r
      BY <3>2, HostStep DEF Commanding, Accessing, Holding, Resting
    <3> QED BY <1>3, <3>1, <3>3
  <2>2. CASE type_stb' \notin {"II", "III"}
    <3>1. ~IsTypeI(command_r) /\ type_stb # "IV"
      BY <1>1, <1>3, <2>2 DEF Stage, KindInv
    <3>2. cmd_busy
      BY <1>1, <1>3, <2>2, <3>1 DEF Stage, cmd_busy, ProcInv, CmdTypeOK, StrobeInv, Quiet
    <3>3. IsForce(command_r') \/ command_r' = command_r
      BY <3>2, BusyHost
    <3>4. IsForce(command_r') => ~IsTypeI(command_r')
      BY <1>2, ForceIsNotSeek DEF BusOK
    <3> QED BY <1>3, <3>1, <3>3, <3>4
  <2> QED BY <2>1, <2>2
<1> QED BY <1>3 DEF KindInv

-----------------------------------------------------------------------------
(* The bytes between the head and the reader.                              *)
LEMMA ByteKinds ==
  ASSUME DrivesOK
  PROVE  /\ Here(pos) \in Bytes /\ UnderHead # NoByte
         /\ UnderHead = XFE => ena /\ Here(pos) = XFE
         /\ UnderHead = GOOD_CRC => Here(pos) = GOOD_CRC
         /\ ena /\ ~mixed => UnderHead = Here(pos)
<1>1. sel \in 0..4
  BY DriveAssumption DEF DriveAssumption, DrivesOK
<1>2. TrackImage(head[sel]) \in [1..Len(Track) -> Bytes]
  BY <1>1, ImageAssumption DEF ImageAssumption, DrivesOK
<1>3. Here(pos) \in Bytes /\ Here(pos) \in Nat
  BY <1>2, ReaderAssumption DEF ReaderAssumption, DrivesOK, DriveOK, Here
<1>4. UnderHead = IF ~ena THEN 255 ELSE IF Here(pos) = GOOD_CRC /\ mixed THEN BAD_CRC ELSE Here(pos)
  BY DEF UnderHead, Here
<1> QED BY <1>3, <1>4 DEF NoByte, XFE, GOOD_CRC, BAD_CRC

LEMMA PlaceStep ==
  ASSUME DrivesOK, SystemDrive
  PROVE  /\ slot = 2 => NextByte = pos
         /\ NextByte' = IF slot = 2 THEN Ahead(pos, 1) ELSE NextByte
         /\ Ahead(pos, 1) = NextPos
<1>1. /\ slot' = IF slot = BYTE_CLKS - 1 THEN 0 ELSE slot + 1
      /\ BYTE_CLKS \in Nat /\ slot \in 0..(BYTE_CLKS - 1)
      /\ TICK \in Nat /\ 1 < TICK /\ TICK < BYTE_CLKS
  BY SlotStep, TimingAssumption DEF TimingAssumption, DrivesOK, SystemDrive
<1>2. pos \in 1..Len(Track) /\ Len(Track) \in Nat
  BY InputAssumption DEF InputAssumption, DrivesOK, DriveOK
<1>3. Ahead(pos, 1) = NextPos
  BY <1>2 DEF Ahead, NextPos
<1>4. pos' = IF slot = TICK THEN NextPos ELSE pos
  BY DEF SystemDrive
<1>5. NextByte' = IF 3 <= slot' /\ slot' <= TICK THEN NextPos' ELSE pos'
  BY DEF NextByte
<1>6. slot # TICK => pos' = pos /\ NextPos' = NextPos
  BY <1>4 DEF NextPos
<1>7. CASE slot = TICK
  <2>1. NextByte' = pos' /\ pos' = NextPos
    BY <1>1, <1>4, <1>5, <1>7
  <2>2. slot # 2 => NextByte = NextPos
    BY <1>1, <1>7 DEF NextByte
  <2> QED BY <1>1, <1>3, <2>1, <2>2 DEF NextByte
<1>8. CASE slot # TICK
  BY <1>1, <1>3, <1>5, <1>6, <1>8 DEF NextByte
<1> QED BY <1>7, <1>8

LEMMA AheadStep ==
  ASSUME NEW p \in 1..Len(Track), NEW k \in 1..5
  PROVE  Ahead(Ahead(p, k), 1) = Ahead(p, k + 1)
BY FormatAssumption, InputAssumption DEF FormatAssumption, InputAssumption, Ahead

(* A clock between two bytes leaves the ID where it was, and the next byte *)
(* puts its mark one further behind.                                       *)
LEMMA IdStays ==
  ASSUME DrivesOK, SystemDrive, UNCHANGED <<head, sel>>, slot # 2, idam_track' = idam_track,
         NEW k \in 1..6, IdBehind(k)
  PROVE  IdBehind(k)'
<1>1. NextByte' = NextByte
  BY PlaceStep
<1>2. ena' = ena /\ (~mixed => ~mixed') /\ \A p : Here(p)' = Here(p)
  BY DEF ena, SystemDrive, Here
<1> QED BY <1>1, <1>2 DEF IdBehind

LEMMA IdPasses ==
  ASSUME DrivesOK, SystemDrive, UNCHANGED <<head, sel>>, slot = 2,
         NEW k \in 1..5, IdBehind(k),
         idam_track' = IF k = 1 THEN Here(pos) ELSE idam_track
  PROVE  IdBehind(k + 1)'
<1>1. NextByte = pos /\ NextByte' = Ahead(pos, 1)
  BY PlaceStep
<1>2. ena' = ena /\ (~mixed => ~mixed') /\ \A p : Here(p)' = Here(p)
  BY DEF ena, SystemDrive, Here
<1>3. PICK p \in 1..Len(Track) :
        Here(p) = XFE /\ NextByte = Ahead(p, k) /\ (k > 1 => idam_track = Here(Ahead(p, 1)))
  BY DEF IdBehind
<1>4. NextByte' = Ahead(p, k + 1) /\ idam_track' = Here(Ahead(p, 1))
  BY <1>1, <1>3, AheadStep
<1>5. ena' /\ ~mixed' /\ Here(p)' = XFE /\ idam_track' = Here(Ahead(p, 1))'
  BY <1>2, <1>3, <1>4 DEF IdBehind
<1>6. Ahead(p, k + 1)' = Ahead(p, k + 1)
  BY DEF Ahead
<1> QED BY <1>3, <1>4, <1>5 DEF IdBehind, Ahead

-----------------------------------------------------------------------------
(* What the reader does with a byte of an ID, and that only the byte FE    *)
(* after the run of A1 begins one.                                         *)
LEMMA IdRead ==
  ASSUME ReadLogic, raw # NoByte, rd # "UNKNOWN"
  PROVE  /\ rd' = "TRACK" => raw = XFE /\ "id_mark" \notin rdy'
         /\ rd' = "SIDE" => rd = "TRACK" /\ idam_track' = raw
         /\ rd' = "SECTOR" => rd = "SIDE" /\ idam_track' = idam_track
         /\ rd' = "SEC_LEN" => rd = "SECTOR" /\ idam_track' = idam_track
         /\ rd' = "CRC_1" => /\ idam_track' = idam_track
                             /\ \/ rd = "SEC_LEN" /\ rd_count' = 0
                                \/ rd = "CRC_1" /\ rd_count = 0 /\ rd_count' = 1
         /\ "id_mark" \in rdy' => /\ rd = "CRC_1" /\ rd_count # 0 /\ raw = GOOD_CRC
                                  /\ rd' = "GAP3_4E" /\ idam_track' = idam_track
<1> USE DEF Reader, Ready, Lost, HeldId
<1>1. CASE RdGaps
  BY <1>1 DEF RdGaps, Gap
<1>2. CASE RdMarks
  BY <1>2 DEF RdMarks, Marks
<1>3. CASE RdIdMark
  BY <1>3 DEF RdIdMark
<1>4. CASE RdId
  BY <1>4 DEF RdId
<1>5. CASE RdIdCrc
  BY <1>5 DEF RdIdCrc
<1>6. CASE RdDam \/ RdUserData \/ RdUserCrc
  BY <1>6 DEF RdDam, RdUserData, RdUserCrc
<1> QED BY <1>1, <1>2, <1>3, <1>4, <1>5, <1>6 DEF ReadLogic, RdQuiet

LEMMA IdQuiet ==
  ASSUME ReadLogic, raw = NoByte \/ rd = "UNKNOWN"
  PROVE  /\ rdy' = {} /\ idam_track' = idam_track
         /\ IF rd = "UNKNOWN" THEN rd' = "GAP2_4E" ELSE rd' = rd /\ rd_count' = rd_count
BY DEF ReadLogic, RdQuiet, Reader, Ready, HeldId

LEMMA VerifyClock ==
  ASSUME DrivesOK, ByteInv, VerifyInv, TypeI, ReadLogic, SystemDrive, UNCHANGED <<head, sel>>
  PROVE  VerifyInv'
<1> SUFFICES ASSUME t1' = "VERIFY_IDAM"
             PROVE  /\ "id_mark" \in rdy' => idam_track' = head'[sel']
                    /\ rd' = "TRACK" => IdBehind(1)'
                    /\ rd' = "SIDE" => IdBehind(2)'
                    /\ rd' = "SECTOR" => IdBehind(3)'
                    /\ rd' = "SEC_LEN" => IdBehind(4)'
                    /\ rd' = "CRC_1" => \/ rd_count' = 0 /\ IdBehind(5)'
                                        \/ rd_count' = 1 /\ IdBehind(6)'
  BY DEF VerifyInv
<1>1. CASE t1 # "VERIFY_IDAM"
  <2>1. t1 = "VERIFY_WAIT_IDAM" /\ "id_mark" \in rdy
    BY <1>1, VerifyStep
  <2>2. rd = "GAP3_4E" /\ raw = NoByte
    BY <2>1 DEF ByteInv
  <2>3. rdy' = {} /\ rd' = "GAP3_4E"
    BY <2>2, IdQuiet
  <2> QED BY <2>3
<1>2. CASE t1 = "VERIFY_IDAM" /\ (raw = NoByte \/ rd = "UNKNOWN")
  <2>1. rdy' = {} /\ idam_track' = idam_track
    BY <1>2, IdQuiet
  <2>2. CASE rd = "UNKNOWN"
    BY <2>1, <2>2, IdQuiet
  <2>3. CASE rd # "UNKNOWN"
    <3>1. slot # 2 /\ rd' = rd /\ rd_count' = rd_count
      BY <1>2, <2>3, IdQuiet DEF ByteInv
    <3>2. \A k \in 1..6 : IdBehind(k) => IdBehind(k)'
      BY <2>1, <3>1, IdStays
    <3> QED BY <1>2, <2>1, <3>1, <3>2 DEF VerifyInv
  <2> QED BY <2>2, <2>3
<1>3. CASE t1 = "VERIFY_IDAM" /\ raw # NoByte /\ rd # "UNKNOWN"
  <2>1. slot = 2 /\ raw = UnderHead /\ (raw = XFE => ~mixed)
    BY <1>3 DEF ByteInv
  <2>2. \A k \in 1..5 : IdBehind(k) /\ idam_track' = (IF k = 1 THEN raw ELSE idam_track)
                          => IdBehind(k + 1)'
    <3> SUFFICES ASSUME NEW k \in 1..5, IdBehind(k),
                        idam_track' = IF k = 1 THEN raw ELSE idam_track
                 PROVE  IdBehind(k + 1)'
      OBVIOUS
    <3>1. raw = Here(pos)
      BY <2>1, ByteKinds DEF IdBehind
    <3> QED BY <2>1, <3>1, IdPasses
  <2>3. rd' = "TRACK" => IdBehind(1)'
    <3> SUFFICES ASSUME rd' = "TRACK" PROVE IdBehind(1)'
      OBVIOUS
    <3>1. ena /\ ~mixed /\ Here(pos) = XFE
      BY <1>3, <2>1, IdRead, ByteKinds
    <3>2. ena' /\ ~mixed' /\ Here(pos)' = Here(pos)' /\ \A p : Here(p)' = Here(p)
      BY <3>1 DEF ena, SystemDrive, Here
    <3>3. NextByte' = Ahead(pos, 1) /\ pos \in 1..Len(Track)
      BY <2>1, PlaceStep DEF DrivesOK, DriveOK
    <3> QED BY <3>1, <3>2, <3>3 DEF IdBehind, Ahead
  <2>4. rd' = "SIDE" => IdBehind(2)'
    BY <1>3, <2>2, IdRead DEF VerifyInv
  <2>5. rd' = "SECTOR" => IdBehind(3)'
    BY <1>3, <2>2, IdRead DEF VerifyInv
  <2>6. rd' = "SEC_LEN" => IdBehind(4)'
    BY <1>3, <2>2, IdRead DEF VerifyInv
  <2>7. rd' = "CRC_1" => (rd_count' = 0 /\ IdBehind(5)') \/ (rd_count' = 1 /\ IdBehind(6)')
    BY <1>3, <2>2, IdRead DEF VerifyInv
  <2>8. "id_mark" \in rdy' => idam_track' = head'[sel']
    <3> SUFFICES ASSUME "id_mark" \in rdy' PROVE idam_track' = head[sel]
      OBVIOUS
    <3>1. IdBehind(6) /\ raw = GOOD_CRC /\ idam_track' = idam_track
      BY <1>3, IdRead DEF VerifyInv
    <3>2. PICK p \in 1..Len(Track) :
            Here(p) = XFE /\ NextByte = Ahead(p, 6) /\ idam_track = Here(Ahead(p, 1))
      BY <3>1 DEF IdBehind
    <3>3. Here(Ahead(p, 6)) = GOOD_CRC
      BY <2>1, <3>1, <3>2, PlaceStep, ByteKinds
    <3>4. head[sel] \in 0..(NUM_TRACKS - 1)
      BY DriveAssumption DEF DriveAssumption, DrivesOK
    <3> QED BY <3>1, <3>2, <3>3, <3>4, FormatAssumption DEF FormatAssumption, Here
  <2> QED BY <2>3, <2>4, <2>5, <2>6, <2>7, <2>8
<1> QED BY <1>1, <1>2, <1>3

LEMMA ByteInvClock ==
  ASSUME DrivesOK, DrivesOK', ByteInv, ReadLogic, SystemDrive,
         t1' = "VERIFY_IDAM" => UNCHANGED <<head, sel>>
  PROVE  ByteInv'
<1>1. /\ slot' = IF slot = BYTE_CLKS - 1 THEN 0 ELSE slot + 1
      /\ BYTE_CLKS \in Nat /\ slot \in 0..(BYTE_CLKS - 1)
      /\ TICK \in Nat /\ 1 < TICK /\ TICK < BYTE_CLKS
  BY SlotStep, TimingAssumption DEF TimingAssumption, DrivesOK, SystemDrive
<1>2. slot = 1 <=> slot' = 2
  BY <1>1
<1>3. raw' = (IF slot = 1 THEN UnderHead ELSE NoByte) /\ UnderHead # NoByte
  BY ByteKinds DEF SystemDrive
<1>4. "id_mark" \in rdy' => rd' = "GAP3_4E" /\ slot' \notin {1, 2}
  <2> SUFFICES ASSUME "id_mark" \in rdy' PROVE rd' = "GAP3_4E" /\ slot' \notin {1, 2}
    OBVIOUS
  <2>1. raw # NoByte /\ rd # "UNKNOWN"
    BY IdQuiet
  <2>2. slot = 2
    BY <2>1 DEF ByteInv
  <2> QED BY <1>1, <2>1, <2>2, IdRead
<1>5. ASSUME t1' = "VERIFY_IDAM", slot = 1
      PROVE  raw' = UnderHead' /\ (raw' = XFE => ~mixed')
  <2>1. raw' = UnderHead /\ pos' = pos /\ ena' = ena /\ sel' = sel /\ head' = head
    BY <1>1, <1>3, <1>5 DEF SystemDrive, ena
  <2>2. mixed' <=> mixed /\ raw' # XFE
    BY <1>5, <2>1 DEF SystemDrive
  <2>3. Here(pos)' = Here(pos)
    BY <2>1 DEF Here
  <2>4. /\ UnderHead = IF ~ena THEN 255
                       ELSE IF Here(pos) = GOOD_CRC /\ mixed THEN BAD_CRC ELSE Here(pos)
        /\ UnderHead' = IF ~ena' THEN 255
                        ELSE IF Here(pos)' = GOOD_CRC /\ mixed' THEN BAD_CRC ELSE Here(pos)'
    BY DEF UnderHead, Here
  <2> QED BY <2>1, <2>2, <2>3, <2>4 DEF XFE, GOOD_CRC, BAD_CRC
<1> QED BY <1>2, <1>3, <1>4, <1>5 DEF ByteInv

(* What the processor found outlives its acknowledge.                      *)
LEMMA FoundClock ==
  ASSUME ProcInv, BusOK', KindInv, VerifyInv, FoundInv, ProcCmd, TypeI, TypeII, TypeIII,
         cmd_busy, UNCHANGED <<head, sel>>, command_r' = command_r \/ IsForce(command_r')
  PROVE  FoundInv'
<1> SUFFICES ASSUME command_r' = command_r, IsTypeI(command_r), Bit(command_r, 4), ~seek_error',
                    t1' = "DONE" \/ type_i_ack' \/ latch_status'
             PROVE  head[sel] = curr_track'
  <2>1. IsForce(command_r') => ~IsTypeI(command_r')
    BY ForceIsNotSeek DEF BusOK
  <2> QED BY <2>1 DEF FoundInv, Right
<1>1. CASE t1' = "DONE"
  BY <1>1, VerifyStep DEF VerifyInv
<1>2. CASE type_i_ack'
  <2>1. t1 = "DONE" /\ curr_track' = curr_track /\ seek_error' = seek_error
    BY <1>2, TypeIStage, VerifyStep DEF Stage
  <2> QED BY <2>1 DEF FoundInv, Right
<1>3. CASE latch_status'
  <2>1. cmd_ack
    BY <1>3 DEF ProcCmd, CmdForce, CmdIdle, CmdWait, cmd_busy
  <2>2. type_i_ack
    BY <2>1 DEF cmd_ack, KindInv
  <2>3. t1 = "IDLE" /\ type_stb # "I"
    BY <2>2 DEF ProcInv, SoleInv, StrobeInv, Quiet
  <2>4. curr_track' = curr_track /\ seek_error' = seek_error
    BY <2>3, VerifyStep
  <2> QED BY <2>2, <2>4 DEF FoundInv, Right
<1> QED BY <1>1, <1>2, <1>3

LEMMA SeekFoundClock ==
  ASSUME GentleResets, SeekFound, SystemClock PROVE SeekFound'
<1>1. /\ ProcInv /\ HostInv /\ BusInv /\ BusOK /\ DrivesOK /\ SettledInv /\ KindInv /\ ByteInv
      /\ VerifyInv /\ FoundInv
      /\ Host /\ ProcCmd /\ ProcIrq /\ InterruptLogic /\ TypeI /\ TypeII /\ TypeIII
      /\ StepPulse /\ ReadLogic /\ Select /\ Stepping(step, dirc = "in") /\ SystemDrive
  BY DEF SeekFound, HostInv, SystemClock, Controller
<1>2. ProcInv' /\ HostInv' /\ BusOK'
  BY <1>1, ProcInvClock, HostInvClock, BusTypes
<1>3. /\ DrivesOK' /\ step_r' = step
      /\ ~StepComes => head' = head
      /\ sel # sel' => ~hostWaits /\ left = 0
  BY <1>1, DriveMoves
<1>4. type_stb' = "IV" => ~RESETS
  <2> SUFFICES ASSUME type_stb' = "IV", RESETS PROVE FALSE
    OBVIOUS
  <2>1. cmd_wr_stb /\ IsForce(command_r)
    BY <1>1, CmdTaken DEF ProcInv
  <2> QED BY <1>1, <2>1, NeverForced DEF GentleResets, BusOK
<1>5. SettledInv' /\ KindInv'
  BY <1>1, <1>3, SettledClock, KindClock
<1>6. CASE ~cmd_busy \/ StepComes
  <2>1. t1' \notin {"VERIFY_IDAM", "DONE"} /\ ~type_i_ack' /\ ~latch_status'
    BY <1>1, <1>6, NothingFound
  <2>2. ByteInv'
    BY <1>1, <1>3, <2>1, ByteInvClock
  <2> QED BY <1>2, <1>3, <1>4, <1>5, <2>1, <2>2 DEF SeekFound, VerifyInv, FoundInv
<1>7. CASE cmd_busy /\ ~StepComes
  <2>1. head' = head /\ sel' = sel /\ (command_r' = command_r \/ IsForce(command_r'))
    BY <1>1, <1>3, <1>7, BusyHost DEF BusInv
  <2>2. ByteInv' /\ VerifyInv'
    BY <1>1, <1>3, <2>1, ByteInvClock, VerifyClock
  <2>3. FoundInv'
    BY <1>1, <1>2, <1>7, <2>1, FoundClock
  <2> QED BY <1>2, <1>3, <1>4, <1>5, <2>2, <2>3 DEF SeekFound
<1> QED BY <1>6, <1>7

LEMMA SeekFoundReset ==
  ASSUME GentleResets, SeekFound, SystemReset PROVE SeekFound'
<1>1. Reset /\ FloppyIfReset /\ RESETS /\ ~cmd_busy /\ ~cmd_wr_stb
  BY DEF SystemReset, Reset, GentleResets
<1>2. KeptInv
  BY <1>1 DEF SeekFound, KeptInv, CalmInv
<1>3. Rests /\ KeptInv' /\ Rests'
  BY <1>1, <1>2, IdleRests, KeptReset
<1>4. DrivesOK' /\ head'[sel'] = 0
  <2>1. 0 \in 0..(NUM_TRACKS - 1) /\ sel \in 0..4 /\ sel \in Drives
    BY DriveAssumption DEF DriveAssumption, SeekFound, DrivesOK
  <2>2. 0 \in 0..(BYTE_CLKS - 1) /\ 1 \in 1..Len(Track)
    BY TimingAssumption, InputAssumption DEF TimingAssumption, InputAssumption
  <2> QED BY <1>1, <2>1, <2>2 DEF DrivesOK, DriveOK, FloppyIfReset, Reset
<1>5. t1' = "IDLE" /\ ~step' /\ ~step_s' /\ curr_track' = 0 /\ rd' = "UNKNOWN" /\ slot' = 0
  <2>1. ~step_s
    BY <1>3 DEF SeekFound, SettledInv, Rests, Quiet
  <2> QED BY <1>1, <2>1 DEF Reset
<1>6. SettledInv' /\ KindInv' /\ ByteInv' /\ VerifyInv'
  BY <1>3, <1>5 DEF SettledInv, StepComes, KindInv, ByteInv, VerifyInv, Rests, Quiet
<1>7. FoundInv'
  BY <1>4, <1>5 DEF FoundInv, Right
<1> QED BY <1>3, <1>4, <1>6, <1>7 DEF SeekFound, KeptInv, CalmInv

LEMMA SeekFoundStutter ==
  ASSUME SeekFound, UNCHANGED systemVars PROVE SeekFound'
<1>1. UNCHANGED <<vars, driveIfVars, mixed>>
  BY DEF systemVars
<1>2. ProcInv' /\ HostInv' /\ BusOK'
  BY <1>1, ProcInvStutter, HostInvStutter, PulseStutter DEF SeekFound
<1>3. DrivesOK' /\ (type_stb' = "IV" => ~RESETS)
  BY <1>1 DEF SeekFound, DrivesOK, DriveOK, vars, driveVars, cmdVars, driveIfVars
<1>4. SettledInv'
  BY <1>1 DEF SeekFound, SettledInv, StepComes, cmd_ack, vars, t1Vars, stepVars, t2Vars, t3Vars,
              cmdVars, driveIfVars
<1>5. KindInv'
  BY <1>1 DEF SeekFound, KindInv, vars, busVars, cmdVars, t2Vars, t3Vars
<1>6. UnderHead' = UnderHead /\ NextByte' = NextByte /\ ena' = ena /\ \A p : Here(p)' = Here(p)
  BY <1>1 DEF UnderHead, NextByte, NextPos, ena, Here, vars, driveVars, driveIfVars
<1>7. ByteInv'
  BY <1>1, <1>6 DEF SeekFound, ByteInv, vars, driveVars, t1Vars, readVars
<1>8. \A k : IdBehind(k) => IdBehind(k)'
  BY <1>1, <1>6 DEF IdBehind, Ahead, vars, readVars
<1>9. VerifyInv'
  BY <1>1, <1>8 DEF SeekFound, VerifyInv, vars, t1Vars, readVars, driveIfVars
<1>10. FoundInv'
  BY <1>1 DEF SeekFound, FoundInv, Right, cmd_busy, vars, t1Vars, busVars, cmdVars, driveIfVars
<1> QED BY <1>2, <1>3, <1>4, <1>5, <1>7, <1>9, <1>10 DEF SeekFound

(* A verified command that ends without a seek error has the head where    *)
(* the controller thinks it is, on every disk whose IDs name their track:  *)
(* the ID was read whole from the track under the head, which has been at  *)
(* rest since its mark went by.                                            *)
THEOREM VerifiedSeeksAreRight ==
  ASSUME GentleResets PROVE SystemSpec => []VerifiedSeek
<1>1. SystemInit => SeekFound
  <2> SUFFICES ASSUME SystemInit PROVE SeekFound
    OBVIOUS
  <2>1. Init /\ KeptInv
    BY KeptInit DEF SystemInit
  <2>2. sel \in Drives /\ 0 \in 0..(NUM_TRACKS - 1) /\ head = [d \in 0..4 |-> 0]
    BY DriveAssumption DEF DriveAssumption, SystemInit, FloppyIfInit
  <2>3. DriveOK
    BY <2>1, InitTypes DEF TypeOK
  <2>4. DrivesOK
    BY <2>2, <2>3 DEF DrivesOK
  <2>5. /\ t1 = "IDLE" /\ ~type_i_ack /\ ~latch_status /\ type_stb = "none"
        /\ ~step /\ ~step_s /\ slot = 0 /\ rd = "UNKNOWN"
    BY <2>1 DEF Init, ReaderInit
  <2>6. t2 = "IDLE" /\ t3 = "IDLE" /\ ~type_ii_ack /\ ~type_iii_ack
    BY <2>1 DEF Init
  <2> QED BY <2>1, <2>4, <2>5, <2>6
          DEF SeekFound, KeptInv, CalmInv, SettledInv, StepComes, KindInv, ByteInv, VerifyInv, FoundInv
<1>2. SeekFound /\ [SystemNext]_systemVars => SeekFound'
  BY SeekFoundClock, SeekFoundReset, SeekFoundStutter DEF SystemNext
<1>3. SeekFound => VerifiedSeek
  BY DEF SeekFound, FoundInv, Right, VerifiedSeek
<1> QED BY <1>1, <1>2, <1>3, PTL DEF SystemSpec
=============================================================================
