--------------------------- MODULE WD179x_proofs ---------------------------
(***************************************************************************)
(* Proofs about the controller, for every disk, host alphabet and timing.  *)
(*                                                                         *)
(* The handshake between the command state machine and the three command   *)
(* processors does not depend on what the processors do, only on when they *)
(* leave and enter IDLE and acknowledge.  The lemmas TypeIStage,           *)
(* TypeIIStage and TypeIIIStage say that of each processor; everything     *)
(* after them argues about stages only.                                    *)
(***************************************************************************)
EXTENDS WD179x, TLAPS

(* No processor works or acknowledges.                                     *)
Quiet == /\ t1 = "IDLE" /\ t2 = "IDLE" /\ t3 = "IDLE"
         /\ ~type_i_ack /\ ~type_ii_ack /\ ~type_iii_ack

(* What a clock does to one processor: a strobe starts it, DONE is its last *)
(* state, the acknowledge follows it, and FORCE INTERRUPT stops it.         *)
Stage(state, ack, stb) ==
  /\ ack' = (type_stb # "IV" /\ state = "DONE")
  /\ state' = "IDLE" <=> \/ type_stb = "IV" \/ state = "DONE"
                         \/ (state = "IDLE" /\ type_stb # stb)

(* PROC_TYPE_I enters and leaves IDLE as Stage says.                       *)
LEMMA TypeIStage ==
  ASSUME TypeI PROVE Stage(t1, type_i_ack, "I")
<1>1. type_i_ack' = (type_stb # "IV" /\ t1 = "DONE")
  BY DEF TypeI, Aborted
<1>2. CASE type_stb = "IV"
  BY <1>1, <1>2 DEF TypeI, Aborted, T1Abort, Stage
<1>3. CASE type_stb # "IV"
  <2>1. CASE T1Start \/ T1Restore
    BY <1>1, <1>3, <2>1 DEF T1Start, T1Restore, Stage
  <2>2. CASE T1Seek \/ T1Step \/ T1StepWait
    BY <1>1, <1>3, <2>2 DEF T1Seek, T1Step, T1StepWait, Stage
  <2>3. CASE T1Update \/ T1Verify \/ T1VerifyWaitIdam \/ T1VerifyIdam
    BY <1>1, <1>3, <2>3 DEF T1Update, T1Verify, T1VerifyWaitIdam, T1VerifyIdam, Stage
  <2>4. CASE T1Rest
    BY <1>1, <1>3, <2>4 DEF T1Rest, Stage
  <2> QED BY <1>3, <2>1, <2>2, <2>3, <2>4 DEF TypeI, T1Abort, Aborted
<1> QED BY <1>2, <1>3

(* The type II process enters and leaves IDLE as Stage says.               *)
LEMMA TypeIIStage ==
  ASSUME TypeII PROVE Stage(t2, type_ii_ack, "II")
<1>1. type_ii_ack' = (type_stb # "IV" /\ t2 = "DONE")
  BY DEF TypeII, Aborted
<1>2. CASE type_stb = "IV"
  BY <1>1, <1>2 DEF TypeII, Aborted, T2Abort, Stage
<1>3. CASE type_stb # "IV"
  <2>1. CASE T2Idle \/ T2WaitIdam \/ T2WaitDam
    BY <1>1, <1>3, <2>1 DEF T2Idle, T2WaitIdam, T2WaitDam, Stage
  <2>2. CASE T2ReadSector \/ T2WaitCrc
    BY <1>1, <1>3, <2>2 DEF T2ReadSector, T2WaitCrc, Stage
  <2>3. CASE T2WriteDam \/ T2WriteData \/ T2Done
    BY <1>1, <1>3, <2>3 DEF T2WriteDam, T2WriteData, T2Done, Stage
  <2> QED BY <1>3, <2>1, <2>2, <2>3 DEF TypeII, T2Abort, Aborted
<1> QED BY <1>2, <1>3

(* PROC_TYPE_III enters and leaves IDLE as Stage says.                     *)
LEMMA TypeIIIStage ==
  ASSUME TypeIII PROVE Stage(t3, type_iii_ack, "III")
<1>1. type_iii_ack' = (type_stb # "IV" /\ t3 = "DONE")
  BY DEF TypeIII, Aborted
<1>2. CASE type_stb = "IV"
  BY <1>1, <1>2 DEF TypeIII, Aborted, T3Abort, Stage
<1>3. CASE type_stb # "IV"
  <2>1. CASE T3Idle \/ T3ReadAddrWait \/ T3ReadAddr
    BY <1>1, <1>3, <2>1 DEF T3Idle, T3ReadAddrWait, T3ReadAddr, Stage
  <2>2. CASE T3WaitTrack \/ T3ReadTrack
    BY <1>1, <1>3, <2>2 DEF T3WaitTrack, T3ReadTrack, Stage
  <2>3. CASE T3WriteTrack \/ T3WriteByte \/ T3Done
    BY <1>1, <1>3, <2>3 DEF T3WriteTrack, T3WriteByte, T3Done, Stage
  <2> QED BY <1>3, <2>1, <2>2, <2>3 DEF TypeIII, T3Abort, Aborted
<1> QED BY <1>2, <1>3

-----------------------------------------------------------------------------
(* The strengthening of OneProcessor.  It adds what the state machine knows *)
(* of the processors: a strobe finds them all quiet, an idle machine has    *)
(* none at work, and one at work excludes every acknowledge.                *)
CmdTypeOK ==
  /\ cmd_state \in {"IDLE", "WAIT_FOR_CMD"}
  /\ type_stb \in {"none", "I", "II", "III", "IV"}
StrobeInv ==
  /\ type_stb = "IV" => cmd_state = "IDLE"
  /\ type_stb \in {"I", "II", "III"} => cmd_state = "WAIT_FOR_CMD" /\ Quiet
  /\ type_stb = "none" /\ cmd_state = "IDLE" => Quiet
SoleInv ==
  /\ t1 # "IDLE" => /\ t2 = "IDLE" /\ t3 = "IDLE"
                    /\ ~type_i_ack /\ ~type_ii_ack /\ ~type_iii_ack
  /\ t2 # "IDLE" => t3 = "IDLE" /\ ~type_i_ack /\ ~type_ii_ack /\ ~type_iii_ack
  /\ t3 # "IDLE" => ~type_i_ack /\ ~type_ii_ack /\ ~type_iii_ack
  /\ type_i_ack => ~type_ii_ack /\ ~type_iii_ack
  /\ type_ii_ack => ~type_iii_ack
ProcInv == CmdTypeOK /\ StrobeInv /\ SoleInv

(* The strobes of a clock depend on the command written and on the state.  *)
LEMMA CmdStep ==
  ASSUME ProcCmd, CmdTypeOK
  PROVE  /\ CmdTypeOK'
         /\ type_stb' = "IV" => cmd_state' = "IDLE"
         /\ type_stb' \in {"I", "II", "III"} =>
              cmd_state = "IDLE" /\ cmd_state' = "WAIT_FOR_CMD"
         /\ type_stb' = "none" /\ cmd_state' = "IDLE" =>
              cmd_state = "IDLE" \/ cmd_ack
         /\ type_stb' = "none" /\ cmd_state' = "WAIT_FOR_CMD" =>
              cmd_state = "WAIT_FOR_CMD" /\ ~cmd_ack
<1>1. CASE CmdForce
  BY <1>1 DEF CmdForce, CmdTypeOK
<1>2. CASE CmdIdle
  BY <1>2 DEF CmdIdle, CmdTypeOK
<1>3. CASE CmdWait
  BY <1>3 DEF CmdWait, CmdTypeOK
<1> QED BY <1>1, <1>2, <1>3 DEF ProcCmd

(* A clock of the state machine and the processors keeps ProcInv.          *)
LEMMA ProcInvClock ==
  ASSUME ProcInv, ProcCmd, TypeI, TypeII, TypeIII
  PROVE  ProcInv'
<1>1. /\ Stage(t1, type_i_ack, "I")
      /\ Stage(t2, type_ii_ack, "II")
      /\ Stage(t3, type_iii_ack, "III")
  BY TypeIStage, TypeIIStage, TypeIIIStage
<1>2. CmdTypeOK'
  BY CmdStep DEF ProcInv
<1>3. cmd_state = "IDLE" \/ cmd_ack => Quiet'
  <2>1. CASE type_stb = "IV"
    BY <1>1, <2>1 DEF Stage, Quiet
  <2>2. CASE type_stb # "IV" /\ cmd_state = "IDLE"
    BY <1>1, <2>2 DEF Stage, Quiet, ProcInv, CmdTypeOK, StrobeInv
  <2>3. CASE type_stb # "IV" /\ cmd_ack
    BY <1>1, <2>3 DEF Stage, Quiet, cmd_ack, ProcInv, CmdTypeOK, StrobeInv, SoleInv
  <2> QED BY <2>1, <2>2, <2>3
<1>4. StrobeInv'
  BY <1>2, <1>3, CmdStep DEF StrobeInv, ProcInv, CmdTypeOK
<1>5. SoleInv'
  BY <1>1 DEF SoleInv, Stage, ProcInv, CmdTypeOK, StrobeInv, Quiet
<1> QED BY <1>2, <1>4, <1>5 DEF ProcInv

(* A reset takes processors to IDLE and acknowledges away, never the other *)
(* way, and leaves the strobes and the command state.                      *)
LEMMA ProcInvReset ==
  ASSUME ProcInv, Reset
  PROVE  ProcInv'
BY DEF ProcInv, CmdTypeOK, StrobeInv, SoleInv, Quiet, Reset, cmdVars

(* What none of the signals of the handshake changes keeps ProcInv.        *)
LEMMA ProcInvStutter ==
  ASSUME ProcInv, UNCHANGED vars
  PROVE  ProcInv'
BY DEF ProcInv, CmdTypeOK, StrobeInv, SoleInv, Quiet, vars, cmdVars, t1Vars, t2Vars, t3Vars

(* ProcInv is an invariant, resets or not.                                 *)
LEMMA ProcInvariant == Spec => []ProcInv
<1>1. Init => ProcInv
  BY DEF Init, ProcInv, CmdTypeOK, StrobeInv, SoleInv, Quiet
<1>2. ProcInv /\ [Next]_vars => ProcInv'
  BY ProcInvClock, ProcInvReset, ProcInvStutter DEF Next, Clock, Controller
<1> QED BY <1>1, <1>2, PTL DEF Spec

(* OneProcessor, in the terms of the signals.                              *)
LEMMA SoleMeansOne ==
  ASSUME ProcInv PROVE OneProcessor
<1>1. /\ Working \subseteq {"I", "II", "III"}
      /\ "I" \in Working <=> t1 # "IDLE"
      /\ "II" \in Working <=> t2 # "IDLE"
      /\ "III" \in Working <=> t3 # "IDLE"
  BY DEF Working
<1>2. /\ Acking \subseteq {"I", "II", "III"}
      /\ "I" \in Acking <=> type_i_ack
      /\ "II" \in Acking <=> type_ii_ack
      /\ "III" \in Acking <=> type_iii_ack
  BY DEF Acking
<1>3. Starting # {} => Working = {} /\ Acking = {}
  BY <1>1, <1>2 DEF Starting, ProcInv, StrobeInv, Quiet
<1>4. Working # {} => Acking = {}
  BY <1>1, <1>2 DEF ProcInv, SoleInv
<1>5. /\ \A p, q \in Starting : p = q
      /\ \A p, q \in Working : p = q
      /\ \A p, q \in Acking : p = q
  BY <1>1, <1>2 DEF Starting, ProcInv, SoleInv
<1> QED BY <1>3, <1>4, <1>5 DEF OneProcessor

(* At most one of the three command processors is active, for every host,  *)
(* disk and timing, with resets of the platform at any clock.              *)
THEOREM OnlyOneProcessor == Spec => []OneProcessor
<1>1. ProcInv => OneProcessor
  BY SoleMeansOne
<1> QED BY <1>1, ProcInvariant, PTL

-----------------------------------------------------------------------------
(* Without resets a busy state machine has a processor that will answer.   *)
OwnerInv == cmd_state = "WAIT_FOR_CMD" /\ Quiet => type_stb \in {"I", "II", "III"}

LEMMA OwnerInvClock ==
  ASSUME ProcInv, OwnerInv, ProcCmd, TypeI, TypeII, TypeIII
  PROVE  OwnerInv'
<1>1. /\ Stage(t1, type_i_ack, "I")
      /\ Stage(t2, type_ii_ack, "II")
      /\ Stage(t3, type_iii_ack, "III")
  BY TypeIStage, TypeIIStage, TypeIIIStage
<1>2. SUFFICES ASSUME cmd_state' = "WAIT_FOR_CMD", Quiet', type_stb' = "none"
               PROVE  FALSE
  BY CmdStep DEF OwnerInv, ProcInv, CmdTypeOK
<1>3. cmd_state = "WAIT_FOR_CMD" /\ ~cmd_ack /\ type_stb # "IV"
  BY <1>2, CmdStep DEF ProcInv, StrobeInv
<1>4. CASE Quiet
  BY <1>1, <1>2, <1>3, <1>4 DEF OwnerInv, Quiet, Stage
<1>5. CASE ~Quiet
  BY <1>1, <1>2, <1>3, <1>5 DEF Quiet, Stage, cmd_ack
<1> QED BY <1>4, <1>5

LEMMA OwnerInvariant ==
  ASSUME ~RESETS PROVE Spec => [](ProcInv /\ OwnerInv)
<1>1. Init => ProcInv /\ OwnerInv
  BY DEF Init, ProcInv, CmdTypeOK, StrobeInv, SoleInv, Quiet, OwnerInv
<1>2. ProcInv /\ OwnerInv /\ [Next]_vars => (ProcInv /\ OwnerInv)'
  <2> SUFFICES ASSUME ProcInv, OwnerInv, [Next]_vars PROVE (ProcInv /\ OwnerInv)'
    OBVIOUS
  <2>1. CASE Clock
    BY <2>1, ProcInvClock, OwnerInvClock DEF Clock, Controller
  <2>2. CASE UNCHANGED vars
    BY <2>2, ProcInvStutter DEF OwnerInv, Quiet, vars, cmdVars, t1Vars, t2Vars, t3Vars
  <2> QED BY <2>1, <2>2 DEF Next, Reset
<1> QED BY <1>1, <1>2, PTL DEF Spec

(* The sets of processors, in the terms of the signals, now and next.      *)
LEMMA StageSets ==
  /\ Starting # {} <=> type_stb \in {"I", "II", "III"}
  /\ Working # {} <=> t1 # "IDLE" \/ t2 # "IDLE" \/ t3 # "IDLE"
  /\ Acking # {} <=> cmd_ack
<1>1. Starting # {} <=> type_stb \in {"I", "II", "III"}
  BY DEF Starting
<1>2. /\ Working \subseteq {"I", "II", "III"}
      /\ "I" \in Working <=> t1 # "IDLE"
      /\ "II" \in Working <=> t2 # "IDLE"
      /\ "III" \in Working <=> t3 # "IDLE"
  BY DEF Working
<1>3. /\ Acking \subseteq {"I", "II", "III"}
      /\ "I" \in Acking <=> type_i_ack
      /\ "II" \in Acking <=> type_ii_ack
      /\ "III" \in Acking <=> type_iii_ack
  BY DEF Acking
<1> QED BY <1>1, <1>2, <1>3 DEF cmd_ack

(* While the platform is not reset, the state machine is busy exactly      *)
(* while a processor has its command.                                      *)
THEOREM CommandsAreOwned ==
  ASSUME ~RESETS PROVE Spec => []CommandOwned
<1>1. ProcInv /\ OwnerInv => CommandOwned
  <2> SUFFICES ASSUME ProcInv, OwnerInv PROVE CommandOwned
    OBVIOUS
  <2>1. cmd_busy => Starting \cup Working \cup Acking # {}
    BY StageSets DEF cmd_busy, ProcInv, CmdTypeOK, OwnerInv, Quiet, cmd_ack
  <2>2. Working \cup Starting # {} => cmd_busy \/ type_stb = "IV"
    BY StageSets DEF cmd_busy, ProcInv, CmdTypeOK, StrobeInv, Quiet
  <2> QED BY <2>1, <2>2 DEF CommandOwned
<1> QED BY <1>1, OwnerInvariant, PTL

-----------------------------------------------------------------------------
(* The host's side of the handshake: its bus cycles are long enough for a  *)
(* command to be taken before the next one, and it knows when it waits.    *)
BusInv ==
  /\ left \in Nat
  /\ bus = "status" => left > 0
  /\ cmd_wr_stb => left = ACCESS_CLKS - 1 /\ bus = "write"
  /\ type_stb # "none" => left = ACCESS_CLKS - 2 /\ bus # "status"
  /\ type_stb = "IV" => ~hostWaits
WaitInv ==
  /\ cmd_wr_stb /\ ~hostWaits => IsForce(command_r)
  /\ cmd_wr_stb /\ hostWaits => ~IsForce(command_r) /\ cmd_state = "IDLE"
  /\ ~cmd_wr_stb /\ ~hostWaits => cmd_state = "IDLE"
(* A finished command the host has not seen is an INTRQ nothing clears.    *)
ToldInv ==
  hostWaits /\ ~cmd_wr_stb /\ cmd_state = "IDLE" /\ ~irq_set /\ bus # "status"
    => intrq /\ ~irq_clr
HostInv == CmdTypeOK /\ BusInv /\ WaitInv /\ ToldInv

(* What a clock of the host is: a command, another access, a held one or   *)
(* none.                                                                   *)
Commanding ==
  /\ left = 0 /\ left' = ACCESS_CLKS - 1 /\ bus' = "write"
  /\ cmd_wr_stb' /\ irq_clr'
  /\ IsForce(command_r') \/ ~hostWaits
  /\ hostWaits' <=> ~IsForce(command_r')
SameWait == ~cmd_wr_stb' /\ command_r' = command_r /\ (hostWaits' <=> hostWaits)
Accessing ==
  /\ left = 0 /\ left' = ACCESS_CLKS - 1 /\ bus' \in {"write", "data", "status"}
  /\ SameWait
  /\ irq_clr' => bus' = "status" \/ type_stb = "IV"
Holding ==
  /\ left > 0 /\ left' = left - 1
  /\ bus' = IF left = 1 THEN "none" ELSE bus
  /\ ~cmd_wr_stb' /\ command_r' = command_r
  /\ hostWaits' <=> hostWaits /\ ~(bus = "status" /\ left = 1 /\ cmd_state = "IDLE")
  /\ irq_clr' => bus = "status" \/ type_stb = "IV"
Resting ==
  /\ left = 0 /\ left' = left /\ bus' = bus
  /\ SameWait
  /\ irq_clr' => type_stb = "IV"

LEMMA HostStep ==
  ASSUME Host PROVE Commanding \/ Accessing \/ Holding \/ Resting
<1>1. CASE HoldAccess
  BY <1>1 DEF HoldAccess, Strobes, Clears, Holding
<1>2. CASE NoAccess
  BY <1>2 DEF NoAccess, Strobes, Clears, hostVars, Resting, SameWait
<1>3. ASSUME NEW c, WriteCommand(c) PROVE Commanding
  BY <1>3 DEF WriteCommand, Starts, Strobes, Clears, Commanding
<1>4. ASSUME NEW v, WriteData(v) \/ WriteTrack(v) \/ WriteSector(v) PROVE Accessing
  <2>1. CASE WriteData(v)
    BY <2>1 DEF WriteData, Starts, Strobes, Clears, Accessing, SameWait
  <2>2. CASE WriteTrack(v)
    BY <2>2 DEF WriteTrack, Starts, Strobes, Clears, Accessing, SameWait
  <2>3. CASE WriteSector(v)
    BY <2>3 DEF WriteSector, Starts, Strobes, Clears, Accessing, SameWait
  <2> QED BY <1>4, <2>1, <2>2, <2>3
<1>5. ASSUME Read("data") PROVE Accessing
  BY <1>5 DEF Read, Starts, Strobes, Clears, Accessing, SameWait
<1>6. ASSUME Read("status") PROVE Accessing
  BY <1>6 DEF Read, Starts, Strobes, Clears, Accessing, SameWait
<1>7. \/ HoldAccess \/ NoAccess \/ Read("data") \/ Read("status")
      \/ \E c : WriteCommand(c)
      \/ \E v : WriteData(v) \/ WriteTrack(v) \/ WriteSector(v)
  BY Zenon DEF Host
<1> QED BY <1>1, <1>2, <1>3, <1>4, <1>5, <1>6, <1>7

(* A clock of the command state machine, seen from the bus.                *)
LEMMA CmdTaken ==
  ASSUME ProcCmd, CmdTypeOK
  PROVE  /\ cmd_wr_stb /\ IsForce(command_r) => cmd_state' = "IDLE" /\ type_stb' = "IV"
         /\ cmd_wr_stb /\ ~IsForce(command_r) => type_stb' # "IV"
         /\ cmd_wr_stb /\ ~IsForce(command_r) /\ cmd_state = "IDLE"
              => cmd_state' = "WAIT_FOR_CMD"
         /\ ~cmd_wr_stb => type_stb' = "none"
         /\ ~cmd_wr_stb /\ cmd_state = "IDLE" => cmd_state' = "IDLE"
         /\ ~cmd_wr_stb /\ cmd_state = "WAIT_FOR_CMD" /\ ~cmd_ack
              => cmd_state' = "WAIT_FOR_CMD"
         /\ ~(cmd_wr_stb /\ IsForce(command_r)) => irq_mask' = irq_mask
<1>1. CASE CmdForce
  BY <1>1 DEF CmdForce
<1>2. CASE CmdIdle
  BY <1>2 DEF CmdIdle
<1>3. CASE CmdWait
  BY <1>3 DEF CmdWait
<1> QED BY <1>1, <1>2, <1>3 DEF ProcCmd

LEMMA HostInvClock ==
  ASSUME HostInv, Host, ProcCmd, ProcIrq, InterruptLogic
  PROVE  HostInv'
<1> USE TimingAssumption
<1>1. CmdTypeOK /\ CmdTypeOK'
  BY CmdStep DEF HostInv
<1>2. /\ intrq' = IF irq_set THEN TRUE ELSE intrq /\ ~irq_clr
      /\ cmd_ack => irq_set'
  BY DEF ProcIrq, InterruptLogic
<1>3. BusInv'
  <2>1. CASE Commanding
    BY <1>1, <2>1, CmdTaken DEF HostInv, BusInv, Commanding
  <2>2. CASE Accessing
    BY <1>1, <2>2, CmdTaken DEF HostInv, BusInv, Accessing, SameWait
  <2>3. CASE Holding
    BY <1>1, <2>3, CmdTaken DEF HostInv, BusInv, WaitInv, Holding
  <2>4. CASE Resting
    BY <1>1, <2>4, CmdTaken DEF HostInv, BusInv, Resting, SameWait
  <2> QED BY <2>1, <2>2, <2>3, <2>4, HostStep
<1>4. WaitInv'
  <2>1. CASE Commanding
    BY <1>1, <2>1, CmdTaken DEF HostInv, BusInv, WaitInv, Commanding
  <2>2. CASE Accessing \/ Resting
    BY <1>1, <2>2, CmdTaken DEF HostInv, BusInv, WaitInv, Accessing, Resting, SameWait
  <2>3. CASE Holding
    BY <1>1, <2>3, CmdTaken, CmdStep DEF HostInv, BusInv, WaitInv, Holding, CmdTypeOK, IsForce, Is
  <2> QED BY <2>1, <2>2, <2>3, HostStep
<1>5. ToldInv'
  <2> SUFFICES ASSUME hostWaits', ~cmd_wr_stb', cmd_state' = "IDLE", ~irq_set', bus' # "status"
               PROVE  intrq' /\ ~irq_clr'
    BY DEF ToldInv
  <2>1. hostWaits /\ ~cmd_wr_stb /\ cmd_state = "IDLE"
    BY <1>1, <1>2, HostStep, CmdTaken
       DEF HostInv, WaitInv, CmdTypeOK, Commanding, Accessing, Holding, Resting, SameWait
  <2>2. bus # "status" /\ ~irq_clr'
    BY <2>1, HostStep
       DEF HostInv, BusInv, Commanding, Accessing, Holding, Resting, SameWait
  <2> QED BY <1>2, <2>1, <2>2 DEF HostInv, ToldInv
<1> QED BY <1>1, <1>3, <1>4, <1>5 DEF HostInv

LEMMA HostInvariant ==
  ASSUME ~RESETS PROVE Spec => []HostInv
<1>1. Init => HostInv
  BY DEF Init, HostInv, CmdTypeOK, BusInv, WaitInv, ToldInv
<1>2. HostInv /\ [Next]_vars => HostInv'
  <2> SUFFICES ASSUME HostInv, [Next]_vars PROVE HostInv'
    OBVIOUS
  <2>1. CASE Clock
    BY <2>1, HostInvClock DEF Clock, Controller
  <2>2. CASE UNCHANGED vars
    BY <2>2 DEF HostInv, CmdTypeOK, BusInv, WaitInv, ToldInv, IsForce, Is,
                vars, hostVars, busVars, irqVars, cmdVars
  <2> QED BY <2>1, <2>2 DEF Next, Reset
<1> QED BY <1>1, <1>2, PTL DEF Spec

(* A host that waits for a command is always still to be told of its end,  *)
(* however its status reads fall on the clocks around it.                  *)
THEOREM CompletionsAreNotLost ==
  ASSUME ~RESETS PROVE Spec => []NoLostCompletion
<1>1. HostInv => NoLostCompletion
  BY DEF HostInv, CmdTypeOK, ToldInv, NoLostCompletion, cmd_busy
<1> QED BY <1>1, HostInvariant, PTL

-----------------------------------------------------------------------------
(* Type correctness.  The conjuncts of TypeOK follow the processes, and so *)
(* do the lemmas: each says that the clock of one process keeps the ranges *)
(* of the signals it drives.                                               *)
LEMMA BusTypes ==
  ASSUME BusOK, Host PROVE BusOK'
<1> DEFINE Flags == /\ hostWaits' \in BOOLEAN /\ cmd_wr_stb' \in BOOLEAN
                    /\ irq_clr' \in BOOLEAN /\ drq_clr' \in BOOLEAN
           Registers == /\ command_r' \in Commands \cup {0}
                        /\ data_i_r' \in DataVals \cup SeekVals \cup {0}
                        /\ track_i_r' \in TrackVals \cup {0}
                        /\ sector_i_r' \in SectorVals \cup {0}
<1>1. \/ HoldAccess \/ NoAccess \/ Read("data") \/ Read("status")
      \/ \E c \in Commands : WriteCommand(c)
      \/ \E v \in DataVals \cup SeekVals : WriteData(v)
      \/ \E v \in TrackVals : WriteTrack(v)
      \/ \E v \in SectorVals : WriteSector(v)
  BY Zenon DEF Host
<1>2. bus' \in {"none", "write", "status", "data"} /\ left' \in 0..(ACCESS_CLKS - 1)
  BY HostStep, TimingAssumption
     DEF TimingAssumption, BusOK, Commanding, Accessing, Holding, Resting
<1>3. Flags
  <2>1. CASE HoldAccess
    BY <2>1 DEF HoldAccess, Strobes, Clears
  <2>2. CASE NoAccess
    BY <2>2 DEF NoAccess, Strobes, Clears, hostVars, BusOK
  <2>3. CASE Read("data")
    BY <2>3 DEF Read, Strobes, Clears, BusOK
  <2>4. CASE Read("status")
    BY <2>4 DEF Read, Strobes, Clears, BusOK
  <2>5. ASSUME NEW v, WriteCommand(v) \/ WriteData(v) PROVE Flags
    BY <2>5 DEF WriteCommand, WriteData, Strobes, Clears, BusOK
  <2>6. ASSUME NEW v, WriteTrack(v) \/ WriteSector(v) PROVE Flags
    BY <2>6 DEF WriteTrack, WriteSector, Strobes, Clears, BusOK
  <2> QED BY <1>1, <2>1, <2>2, <2>3, <2>4, <2>5, <2>6
<1>4. Registers
  <2>1. ASSUME UNCHANGED <<command_r, data_i_r, track_i_r, sector_i_r>> PROVE Registers
    BY <2>1 DEF BusOK
  <2>2. ASSUME NEW c \in Commands, WriteCommand(c) PROVE Registers
    BY <2>2 DEF WriteCommand, BusOK
  <2>3. ASSUME NEW v \in DataVals \cup SeekVals, WriteData(v) PROVE Registers
    BY <2>3 DEF WriteData, BusOK
  <2>4. ASSUME NEW v \in TrackVals, WriteTrack(v) PROVE Registers
    BY <2>4 DEF WriteTrack, BusOK
  <2>5. ASSUME NEW v \in SectorVals, WriteSector(v) PROVE Registers
    BY <2>5 DEF WriteSector, BusOK
  <2>6. HoldAccess \/ NoAccess \/ Read("data") \/ Read("status")
          => UNCHANGED <<command_r, data_i_r, track_i_r, sector_i_r>>
    BY DEF HoldAccess, NoAccess, Read
  <2> QED BY <1>1, <2>1, <2>2, <2>3, <2>4, <2>5, <2>6
<1> QED BY <1>2, <1>3, <1>4 DEF BusOK

LEMMA IrqTypes ==
  ASSUME BusOK, IrqOK, ProcIrq, InterruptLogic, ProcDrq, ProcIp, ProcCmd
  PROVE  IrqOK'
<1>1. ip_cnt' \in 0..(IP_MOD - 1)
  BY SizeAssumption DEF SizeAssumption, IrqOK, ProcIp
<1>2. irq_set' \in BOOLEAN /\ intrq' \in BOOLEAN /\ drq_s' \in BOOLEAN
  BY DEF IrqOK, ProcIrq, InterruptLogic, ProcDrq, cmd_ack
<1>3. command_r % 16 \in 0..15
  BY InputAssumption DEF InputAssumption, BusOK
<1>4. /\ irq_mask' \in 0..15 /\ cmd_state' \in {"IDLE", "WAIT_FOR_CMD"}
      /\ type_stb' \in {"none", "I", "II", "III", "IV"} /\ latch_status' \in BOOLEAN
  <2>1. CASE CmdForce
    BY <1>3, <2>1 DEF CmdForce, IrqOK
  <2>2. CASE CmdIdle
    BY <2>2 DEF CmdIdle, IrqOK
  <2>3. CASE CmdWait
    BY <2>3 DEF CmdWait, IrqOK, cmd_ack
  <2> QED BY <2>1, <2>2, <2>3 DEF ProcCmd
<1> QED BY <1>1, <1>2, <1>4 DEF IrqOK

LEMMA TypeITypes ==
  ASSUME BusOK, TypeIOK, TypeI PROVE TypeIOK'
<1> USE DEF TypeIOK
<1> DEFINE Here == t1' \in T1States /\ curr_track' \in 0..(TRACK_MOD - 1)
                   /\ dirc' \in {"in", "out"}
                   /\ track_r' \in 0..(TRACK_MOD - 1) /\ step_count' \in Nat
<1>1. LoadedTrack \in 0..(TRACK_MOD - 1)
  BY SizeAssumption, InputAssumption
     DEF SizeAssumption, InputAssumption, BusOK, LoadedTrack
<1>2. 0 \in 0..(TRACK_MOD - 1)
  BY SizeAssumption DEF SizeAssumption
<1>3. ASSUME T1Abort \/ T1Start PROVE Here
  BY <1>1, <1>3 DEF T1Abort, T1Start, T1States
<1>4. ASSUME T1Restore \/ T1Seek PROVE Here
  BY <1>1, <1>2, <1>4 DEF T1Restore, T1Seek, T1States
<1>5. ASSUME T1Step PROVE Here
  <2>1. command_r % 4 \in 0..3
    BY InputAssumption DEF InputAssumption, BusOK
  <2>2. step_count' \in Nat
    BY <1>5, <2>1, SizeAssumption DEF T1Step, SizeAssumption
  <2>3. /\ (curr_track + 1) % TRACK_MOD \in 0..(TRACK_MOD - 1)
        /\ curr_track # 0 => curr_track - 1 \in 0..(TRACK_MOD - 1)
    BY SizeAssumption DEF SizeAssumption
  <2> QED BY <1>1, <1>2, <1>5, <2>2, <2>3 DEF T1Step, T1States
<1>6. ASSUME T1StepWait PROVE Here
  BY <1>1, <1>6 DEF T1StepWait, T1States
<1>7. ASSUME T1Update \/ T1Verify \/ T1VerifyWaitIdam \/ T1VerifyIdam \/ T1Rest PROVE Here
  BY <1>1, <1>7
     DEF T1Update, T1Verify, T1VerifyWaitIdam, T1VerifyIdam, T1Rest, T1States
<1>8. type_i_ack' \in BOOLEAN
  BY DEF TypeI
<1> QED BY <1>3, <1>4, <1>5, <1>6, <1>7, <1>8 DEF TypeI

LEMMA TypeIITypes ==
  ASSUME TypeIIOK, TypeII PROVE TypeIIOK'
<1> USE DEF TypeIIOK
<1> DEFINE Here == t2' \in T2States /\ byte_count' \in 0..(SECTOR_LEN - 1)
                   /\ type_ii_wg' \in BOOLEAN
<1>1. ASSUME T2Abort \/ T2Idle \/ T2WaitIdam \/ T2WaitCrc \/ T2WriteDam \/ T2Done PROVE Here
  BY <1>1 DEF T2Abort, T2Idle, T2WaitIdam, T2WaitCrc, T2WriteDam, T2Done, T2States
<1>2. ASSUME T2WaitDam PROVE Here
  BY <1>2, ReaderAssumption DEF ReaderAssumption, T2WaitDam, T2States
<1>3. ASSUME T2ReadSector \/ T2WriteData PROVE Here
  BY <1>3, ReaderAssumption
     DEF ReaderAssumption, T2ReadSector, T2WriteData, LastByte, T2States
<1>4. type_ii_ack' \in BOOLEAN
  BY DEF TypeII
<1> QED BY <1>1, <1>2, <1>3, <1>4 DEF TypeII

LEMMA TypeIIITypes ==
  ASSUME TypeIIIOK, TypeIII PROVE TypeIIIOK'
<1> USE DEF TypeIIIOK
<1> DEFINE Here == t3' \in T3States /\ type_iii_wg' \in BOOLEAN
<1>1. ASSUME T3Abort \/ T3Idle \/ T3ReadAddrWait \/ T3ReadAddr PROVE Here
  BY <1>1 DEF T3Abort, T3Idle, T3ReadAddrWait, T3ReadAddr, T3States
<1>2. ASSUME T3WaitTrack \/ T3ReadTrack PROVE Here
  BY <1>2 DEF T3WaitTrack, T3ReadTrack, T3States
<1>3. ASSUME T3WriteTrack \/ T3WriteByte \/ T3Done PROVE Here
  BY <1>3 DEF T3WriteTrack, T3WriteByte, T3Done, T3States
<1>4. type_iii_ack' \in BOOLEAN
  BY DEF TypeIII
<1> QED BY <1>1, <1>2, <1>3, <1>4 DEF TypeIII

LEMMA DriveTypes ==
  ASSUME DriveOK, NEW found, DriveReads(found) PROVE DriveOK'
<1>1. slot' \in 0..(BYTE_CLKS - 1)
  BY TimingAssumption DEF TimingAssumption, DriveOK, DriveReads, ByteClock
<1>2. Len(Track) \in Nat /\ Len(Track) > 0
  BY InputAssumption DEF InputAssumption
<1>3. pos' \in 1..Len(Track)
  BY <1>2 DEF DriveOK, DriveReads, NextPos
<1> QED BY <1>1, <1>3 DEF DriveOK

LEMMA ResetTypes ==
  ASSUME TypeOK, Reset PROVE TypeOK'
<1>1. Len(Track) \in Nat /\ Len(Track) > 0
  BY InputAssumption DEF InputAssumption
<1>2. 0 \in 0..(ACCESS_CLKS - 1) /\ 0 \in 0..(IP_MOD - 1) /\ 0 \in 0..(TRACK_MOD - 1)
  BY TimingAssumption, SizeAssumption DEF TimingAssumption, SizeAssumption
<1>3. BusOK'
  BY <1>2 DEF TypeOK, BusOK, Reset
<1>4. IrqOK'
  BY <1>2 DEF TypeOK, IrqOK, Reset, cmdVars
<1>5. TypeIOK'
  BY <1>2 DEF TypeOK, TypeIOK, Reset, T1States
<1>6. TypeIIOK' /\ TypeIIIOK'
  BY DEF TypeOK, TypeIIOK, TypeIIIOK, Reset, T2States, T3States
<1>7. DriveOK'
  BY <1>1, TimingAssumption DEF TimingAssumption, DriveOK, Reset
<1> QED BY <1>3, <1>4, <1>5, <1>6, <1>7 DEF TypeOK

LEMMA InitTypes == Init => TypeOK
<1> SUFFICES ASSUME Init PROVE TypeOK
  OBVIOUS
<1>1. Len(Track) \in Nat /\ Len(Track) > 0
  BY InputAssumption DEF InputAssumption
<1>2. /\ 0 \in 0..(ACCESS_CLKS - 1) /\ 0 \in 0..(IP_MOD - 1)
      /\ 0 \in 0..(TRACK_MOD - 1) /\ 0 \in 0..(SECTOR_LEN - 1)
  BY TimingAssumption, SizeAssumption, ReaderAssumption
     DEF TimingAssumption, SizeAssumption, ReaderAssumption
<1>3. BusOK
  BY <1>2 DEF BusOK, Init
<1>4. IrqOK
  <2>1. irq_mask \in 0..15 /\ ip_cnt \in 0..(IP_MOD - 1)
    BY <1>2 DEF Init
  <2>2. irq_set \in BOOLEAN /\ intrq \in BOOLEAN /\ drq_s \in BOOLEAN
    BY DEF Init
  <2> QED BY <2>1, <2>2 DEF IrqOK, Init
<1>5. TypeIOK
  BY <1>2 DEF TypeIOK, Init, T1States
<1>6. TypeIIOK /\ TypeIIIOK
  BY <1>2 DEF TypeIIOK, TypeIIIOK, Init, T2States, T3States
<1>7. DriveOK
  BY <1>1, TimingAssumption DEF TimingAssumption, DriveOK, Init
<1> QED BY <1>3, <1>4, <1>5, <1>6, <1>7 DEF TypeOK

(* Every signal keeps to its range: the track counter to the width of its  *)
(* register, the byte counter to a sector, the interrupt mask to four bits.*)
THEOREM SignalsInRange == Spec => []TypeOK
<1>1. TypeOK /\ [Next]_vars => TypeOK'
  <2> SUFFICES ASSUME TypeOK, [Next]_vars PROVE TypeOK'
    OBVIOUS
  <2>1. CASE Clock
    BY <2>1, BusTypes, IrqTypes, TypeITypes, TypeIITypes, TypeIIITypes, DriveTypes
       DEF TypeOK, Clock, Drive, Controller
  <2>2. CASE Reset
    BY <2>2, ResetTypes
  <2>3. CASE UNCHANGED vars
    BY <2>3 DEF TypeOK, BusOK, IrqOK, TypeIOK, TypeIIOK, TypeIIIOK, DriveOK,
                vars, hostVars, busVars, irqVars, cmdVars, t1Vars, t2Vars, t3Vars, driveVars
  <2> QED BY <2>1, <2>2, <2>3 DEF Next
<1> QED BY <1>1, InitTypes, PTL DEF Spec
-----------------------------------------------------------------------------
(* No interrupt comes before the command it is for: a command finds the    *)
(* request clear and clears INTRQ, and neither comes back while it runs.   *)
EarlyInv ==
  irq_mask = 0 /\ hostWaits =>
    /\ cmd_wr_stb => irq_clr /\ ~irq_set
    /\ cmd_state = "WAIT_FOR_CMD" => ~intrq /\ ~irq_set

(* A bus cycle of three clocks outlasts the strobe of a FORCE INTERRUPT and *)
(* the acknowledge that may accompany it.                                   *)
LEMMA EarlyInvClock ==
  ASSUME ACCESS_CLKS >= 3, ProcInv, HostInv, EarlyInv,
         Host, ProcCmd, ProcIrq, InterruptLogic
  PROVE  EarlyInv'
<1> USE TimingAssumption DEF TimingAssumption
<1>1. irq_mask = 0 => (irq_set' <=> cmd_ack)
  BY DEF InterruptLogic, Bit
<1>2. intrq' <=> irq_set \/ (intrq /\ ~irq_clr)
  BY DEF ProcIrq
<1>3. CmdTypeOK /\ StrobeInv /\ BusInv /\ WaitInv
  BY DEF HostInv, ProcInv
<1>4. type_stb = "none" /\ cmd_state = "IDLE" => ~cmd_ack
  BY <1>3 DEF StrobeInv, Quiet, cmd_ack
<1> SUFFICES ASSUME irq_mask' = 0, hostWaits'
             PROVE  /\ cmd_wr_stb' => irq_clr' /\ ~irq_set'
                    /\ cmd_state' = "WAIT_FOR_CMD" => ~intrq' /\ ~irq_set'
  BY DEF EarlyInv
<1>5. CASE Commanding
  <2>1. left = 0 /\ ~hostWaits /\ irq_clr'
    BY <1>5 DEF Commanding
  <2>2. ~cmd_wr_stb /\ type_stb = "none" /\ cmd_state = "IDLE"
    BY <1>3, <2>1 DEF BusInv, WaitInv
  <2>3. irq_mask = 0 /\ cmd_state' = "IDLE"
    BY <1>3, <2>2, CmdTaken
  <2> QED BY <1>1, <1>4, <2>1, <2>2, <2>3
<1>6. CASE ~Commanding
  <2>1. hostWaits /\ ~cmd_wr_stb'
    BY <1>6, HostStep DEF Accessing, Holding, Resting, SameWait
  <2>2. irq_mask = 0
    BY <1>3, <2>1, CmdTaken DEF WaitInv
  <2>3. CASE cmd_wr_stb
    <3>1. type_stb = "none" /\ cmd_state = "IDLE"
      BY <1>3, <2>1, <2>3 DEF BusInv, WaitInv
    <3> QED BY <1>1, <1>2, <1>4, <2>1, <2>2, <2>3, <3>1 DEF EarlyInv
  <2>4. CASE ~cmd_wr_stb
    <3>1. cmd_state' = "WAIT_FOR_CMD" => cmd_state = "WAIT_FOR_CMD" /\ ~cmd_ack
      BY <1>3, <2>4, CmdTaken, CmdStep
    <3> QED BY <1>1, <1>2, <2>1, <2>2, <3>1 DEF EarlyInv
  <2> QED BY <2>3, <2>4
<1> QED BY <1>5, <1>6

(* INTRQ is down while a command runs, if a bus cycle lasts three clocks.  *)
THEOREM InterruptsAreNotEarly ==
  ASSUME ~RESETS, ACCESS_CLKS >= 3 PROVE Spec => []NoEarlyIrq
<1>1. Init => EarlyInv
  BY DEF Init, EarlyInv
<1>2. ProcInv /\ HostInv /\ EarlyInv /\ [Next]_vars => EarlyInv'
  <2> SUFFICES ASSUME ProcInv, HostInv, EarlyInv, [Next]_vars PROVE EarlyInv'
    OBVIOUS
  <2>1. CASE Clock
    BY <2>1, EarlyInvClock DEF Clock, Controller
  <2>2. CASE UNCHANGED vars
    BY <2>2 DEF EarlyInv, vars, hostVars, busVars, irqVars, cmdVars
  <2> QED BY <2>1, <2>2 DEF Next, Reset
<1>3. HostInv /\ EarlyInv => NoEarlyIrq
  BY DEF HostInv, CmdTypeOK, EarlyInv, NoEarlyIrq, cmd_busy
<1> QED BY <1>1, <1>2, <1>3, ProcInvariant, HostInvariant, PTL DEF Spec
-----------------------------------------------------------------------------
(* The controller implements CommandLife.  The stage of a command in the   *)
(* terms of the signals.                                                   *)
AtWork == t1 # "IDLE" \/ t2 # "IDLE" \/ t3 # "IDLE"
LifeStage ==
  IF cmd_state = "IDLE" THEN "idle"
  ELSE IF type_stb \in {"I", "II", "III"} THEN "issued"
  ELSE IF AtWork THEN "working" ELSE "finished"

StageSeen ==
  LifeStage = IF ~cmd_busy THEN "idle" ELSE IF Starting # {} THEN "issued"
              ELSE IF Working # {} THEN "working" ELSE "finished"

LEMMA LifeNow == StageSeen
  BY StageSets DEF StageSeen, LifeStage, AtWork, cmd_busy

LEMMA LifeThen == StageSeen'
  BY LifeNow, PTL

(* A clock of the controller is a step of CommandLife.                     *)
LEMMA LifeClock ==
  ASSUME ProcInv, ProcInv', OwnerInv, ProcCmd, ProcIrq, InterruptLogic,
         TypeI, TypeII, TypeIII
  PROVE  Life!LifeNext
<1> DEFINE late == cmd_state = "IDLE" /\ cmd_ack
           To(from, to) == /\ LifeStage = from /\ LifeStage' = to
                           /\ ~late' /\ irq_mask' = irq_mask
<1>1. /\ Stage(t1, type_i_ack, "I")
      /\ Stage(t2, type_ii_ack, "II")
      /\ Stage(t3, type_iii_ack, "III")
  BY TypeIStage, TypeIIStage, TypeIIIStage
<1>2. /\ CmdTypeOK /\ StrobeInv /\ SoleInv /\ StrobeInv' /\ CmdTypeOK'
  BY DEF ProcInv
<1>3. type_stb' = "none" => ~late'
  BY <1>2 DEF StrobeInv, Quiet, cmd_ack
<1>4. ProcCmd => \/ LifeStage' = "idle" /\ (late' => LifeStage = "working")
                 \/ To("idle", "issued") \/ To("idle", "idle")
                 \/ To("issued", "working") \/ To("working", "working")
                 \/ To("working", "finished") \/ To("finished", "idle")
  <2>1. CASE CmdForce
    <3>1. LifeStage' = "idle"
      BY <2>1 DEF CmdForce, LifeStage
    <3>2. late' => LifeStage = "working"
      BY <1>1, <1>2
         DEF Stage, StrobeInv, Quiet, CmdTypeOK, LifeStage, AtWork, cmd_ack
    <3> QED BY <3>1, <3>2
  <2>2. CASE CmdIdle /\ cmd_wr_stb
    BY <1>2, <2>2 DEF CmdIdle, CmdTypeOK, LifeStage
  <2>3. CASE CmdIdle /\ ~cmd_wr_stb
    BY <1>3, <2>3 DEF CmdIdle, LifeStage
  <2>4. CASE CmdWait /\ cmd_ack
    <3>1. LifeStage = "finished"
      BY <1>2, <2>4 DEF CmdWait, StrobeInv, SoleInv, Quiet, cmd_ack, LifeStage, AtWork
    <3> QED BY <1>3, <2>4, <3>1 DEF CmdWait, LifeStage
  <2>5. CASE CmdWait /\ ~cmd_ack
    <3>1. /\ cmd_state = "WAIT_FOR_CMD" /\ cmd_state' = "WAIT_FOR_CMD"
          /\ type_stb' = "none" /\ irq_mask' = irq_mask /\ ~late'
      BY <1>3, <2>5 DEF CmdWait
    <3>2. CASE type_stb \in {"I", "II", "III"}
      <4>1. AtWork'
        BY <1>1, <1>2, <3>2 DEF Stage, StrobeInv, Quiet, AtWork
      <4> QED BY <3>1, <3>2, <4>1 DEF LifeStage
    <3>3. CASE type_stb \notin {"I", "II", "III"}
      <4>1. AtWork
        BY <2>5, <3>1, <3>3 DEF OwnerInv, Quiet, AtWork, cmd_ack
      <4> QED BY <3>1, <3>3, <4>1 DEF LifeStage
    <3> QED BY <3>2, <3>3
  <2> QED BY <2>1, <2>2, <2>3, <2>4, <2>5 DEF ProcCmd
<1>5. Life!Accept \/ Life!Begin \/ Life!Finish \/ Life!Complete \/ Life!Wait \/ Life!Force
  <2>1. ~cmd_busy <=> cmd_state = "IDLE"
    BY DEF cmd_busy
  <2>2. (~cmd_busy)' <=> cmd_state' = "IDLE"
    BY DEF cmd_busy
  <2>3. ASSUME NEW from, NEW to, To(from, to) PROVE Life!Becomes(from, to)
    BY <2>1, <2>2, <2>3, LifeNow, LifeThen DEF StageSeen, Life!Becomes
  <2>4. ASSUME LifeStage' = "idle", late' => LifeStage = "working" PROVE Life!Force
    BY <2>1, <2>2, <2>4, LifeNow, LifeThen DEF StageSeen, Life!Force
  <2> QED BY <1>4, <2>3, <2>4
          DEF Life!Accept, Life!Begin, Life!Finish, Life!Complete, Life!Wait
<1>6. Life!Interrupt
  <2>1. LifeStage = "finished" => cmd_ack
    BY <1>2 DEF LifeStage, AtWork, OwnerInv, Quiet, CmdTypeOK, cmd_ack
  <2>2. /\ cmd_ack => irq_set'
        /\ irq_set' => cmd_ack \/ irq_mask # 0
    BY DEF InterruptLogic, Bit
  <2>3. cmd_ack => LifeStage = "finished" \/ late
    BY <1>2 DEF LifeStage, AtWork, StrobeInv, SoleInv, Quiet, CmdTypeOK, cmd_ack
  <2>4. (irq_set => intrq') /\ (intrq' => irq_set \/ intrq)
    BY DEF ProcIrq
  <2> QED BY <2>1, <2>2, <2>3, <2>4, LifeNow DEF StageSeen, Life!Interrupt, cmd_busy
<1> QED BY <1>5, <1>6 DEF Life!LifeNext

(* Every command is finished once and in order, and INTRQ follows by one   *)
(* clock: the controller, cycle by cycle, implements CommandLife.          *)
THEOREM ControllerImplementsLife ==
  ASSUME ~RESETS PROVE Spec => ImplementsLife
<1>1. Init => Life!LifeInit
  BY LifeNow DEF StageSeen, Init, Life!LifeInit, LifeStage, cmd_busy, cmd_ack
<1>2. ProcInv /\ ProcInv' /\ OwnerInv /\ [Next]_vars => [Life!LifeNext]_(Life!lifeVars)
  <2> SUFFICES ASSUME ProcInv, ProcInv', OwnerInv, [Next]_vars
               PROVE  [Life!LifeNext]_(Life!lifeVars)
    OBVIOUS
  <2>1. CASE Clock
    BY <2>1, LifeClock DEF Clock, Controller
  <2>2. CASE UNCHANGED vars
    <3>1. LifeStage' = LifeStage
      BY <2>2 DEF LifeStage, AtWork, vars, cmdVars, t1Vars, t2Vars, t3Vars
    <3>2. cmd_busy' = cmd_busy /\ cmd_ack' = cmd_ack
      BY <2>2 DEF cmd_busy, cmd_ack, vars, cmdVars, t1Vars, t2Vars, t3Vars
    <3>3. irq_mask' = irq_mask /\ irq_set' = irq_set /\ intrq' = intrq
      BY <2>2 DEF vars, cmdVars, irqVars
    <3> QED BY <3>1, <3>2, <3>3, LifeNow, LifeThen DEF StageSeen, Life!lifeVars
  <2> QED BY <2>1, <2>2 DEF Next, Reset
<1> QED BY <1>1, <1>2, OwnerInvariant, PTL DEF Spec, ImplementsLife, Life!LifeSpec


-----------------------------------------------------------------------------
(* A host that forces no interrupt.  Its command stays in the register      *)
(* until the machine is idle again, also if the platform is reset between   *)
(* two commands.                                                            *)
NoForce == \A c \in Commands : ~IsForce(c)
CalmInv == BusOK /\ type_stb # "IV"
KeptInv == ProcInv /\ HostInv /\ CalmInv
Rests == cmd_state = "IDLE" /\ ~cmd_wr_stb /\ type_stb = "none" /\ Quiet

LEMMA NeverForced ==
  ASSUME NoForce, NEW c \in Commands \cup {0} PROVE ~IsForce(c)
  BY DEF NoForce, IsForce, Is, CMD_FORCE_INTERRUPT

LEMMA KeptClock ==
  ASSUME NoForce, KeptInv, Host, ProcCmd, ProcIrq, InterruptLogic, TypeI, TypeII, TypeIII
  PROVE  KeptInv'
<1>1. ProcInv' /\ HostInv'
  BY ProcInvClock, HostInvClock DEF KeptInv
<1>2. BusOK' /\ ~IsForce(command_r)
  BY BusTypes, NeverForced DEF KeptInv, CalmInv, BusOK
<1>3. type_stb' # "IV"
  BY <1>2, CmdTaken DEF KeptInv, HostInv
<1> QED BY <1>1, <1>2, <1>3 DEF KeptInv, CalmInv

LEMMA IdleRests ==
  ASSUME KeptInv, ~cmd_busy, ~cmd_wr_stb PROVE Rests
  BY DEF KeptInv, CalmInv, ProcInv, CmdTypeOK, StrobeInv, Rests, cmd_busy

LEMMA KeptReset ==
  ASSUME KeptInv, Reset, ~cmd_busy, ~cmd_wr_stb
  PROVE  KeptInv' /\ Rests'
<1>1. Rests
  BY IdleRests
<1>2. 0 \in 0..(ACCESS_CLKS - 1)
  BY TimingAssumption DEF TimingAssumption
<1>3. ProcInv'
  BY ProcInvReset DEF KeptInv
<1>4. HostInv'
  BY <1>1 DEF KeptInv, HostInv, CmdTypeOK, BusInv, WaitInv, ToldInv, Rests, Reset, cmdVars
<1>5. CalmInv'
  BY <1>1, <1>2 DEF KeptInv, CalmInv, BusOK, Rests, Reset, cmdVars
<1>6. Rests'
  BY <1>1 DEF Rests, Quiet, Reset, cmdVars
<1> QED BY <1>3, <1>4, <1>5, <1>6 DEF KeptInv

LEMMA KeptStutter ==
  ASSUME KeptInv, UNCHANGED vars PROVE KeptInv'
<1>1. ProcInv'
  BY ProcInvStutter DEF KeptInv
<1>2. HostInv'
  BY DEF KeptInv, HostInv, CmdTypeOK, BusInv, WaitInv, ToldInv, IsForce, Is,
         vars, hostVars, busVars, irqVars, cmdVars
<1>3. CalmInv'
  BY DEF KeptInv, CalmInv, BusOK, vars, hostVars, busVars, cmdVars
<1> QED BY <1>1, <1>2, <1>3 DEF KeptInv

LEMMA KeptInit == Init => KeptInv
<1>1. Init => TypeOK
  BY InitTypes
<1> QED
  BY <1>1 DEF Init, KeptInv, ProcInv, CmdTypeOK, StrobeInv, SoleInv, Quiet,
              HostInv, BusInv, WaitInv, ToldInv, CalmInv, TypeOK

(* Only a machine at rest gets another command.                            *)
LEMMA CommandKept ==
  ASSUME NoForce, KeptInv, Host
  PROVE  command_r' = command_r \/ Rests
<1>1. CASE Commanding
  <2>1. BusOK'
    BY BusTypes DEF KeptInv, CalmInv
  <2>2. ~hostWaits /\ left = 0
    BY <1>1, <2>1, NeverForced DEF Commanding, BusOK
  <2>3. ~cmd_wr_stb
    BY <2>2, TimingAssumption DEF TimingAssumption, KeptInv, HostInv, BusInv
  <2> QED BY <2>2, <2>3, IdleRests DEF KeptInv, HostInv, WaitInv, cmd_busy
<1>2. CASE ~Commanding
  BY <1>2, HostStep DEF Accessing, Holding, Resting, SameWait
<1> QED BY <1>1, <1>2

(* The strengthening of GateDiscipline: which command has the gate.        *)
GateInv ==
  /\ type_ii_wg => t2 \in {"WRITE_SECTOR_DAM", "WRITE_SECTOR_DATA", "DONE"} /\ WritesSector
  /\ type_iii_wg => /\ t3 \in {"WRITE_TRACK", "WRITE_BYTE", "DONE"}
                    /\ Is(command_r, CMD_WRITE_TRACK)
  /\ t3 = "WAIT_TRACK" => Is(command_r, CMD_READ_TRACK \cup CMD_WRITE_TRACK)

LEMMA GateClock ==
  ASSUME NoForce, KeptInv, GateInv, Host, TypeII, TypeIII
  PROVE  GateInv'
<1>1. type_stb # "IV" /\ ~Aborted
  BY DEF KeptInv, CalmInv, Aborted
<1>2. CASE Rests
  <2>1. ~type_ii_wg /\ ~type_iii_wg
    BY <1>2 DEF GateInv, Rests, Quiet
  <2>2. T2Idle
    BY <1>1, <1>2 DEF TypeII, T2Abort, Aborted, Rests, Quiet, T2Idle, T2WaitIdam, T2WaitDam, T2ReadSector,
                      T2WaitCrc, T2WriteDam, T2WriteData, T2Done
  <2>3. T3Idle
    BY <1>1, <1>2 DEF TypeIII, T3Abort, Aborted, Rests, Quiet, T3Idle, T3ReadAddrWait, T3ReadAddr, T3WaitTrack,
                      T3ReadTrack, T3WriteTrack, T3WriteByte, T3Done
  <2> QED BY <1>2, <2>1, <2>2, <2>3 DEF GateInv, T2Idle, T3Idle, Rests
<1>3. CASE command_r' = command_r
  <2>1. type_ii_wg' => t2' \in {"WRITE_SECTOR_DAM", "WRITE_SECTOR_DATA", "DONE"} /\ WritesSector
    <3>1. CASE T2Idle \/ T2WaitIdam \/ T2ReadSector \/ T2WaitCrc
      BY <3>1 DEF GateInv, T2Idle, T2WaitIdam, T2ReadSector, T2WaitCrc
    <3>2. CASE T2WaitDam
      BY <3>2 DEF GateInv, T2WaitDam
    <3>3. CASE T2WriteDam \/ T2WriteData \/ T2Done
      BY <3>3 DEF GateInv, T2WriteDam, T2WriteData, T2Done
    <3> QED BY <1>1, <3>1, <3>2, <3>3 DEF TypeII, T2Abort, Aborted
  <2>2. /\ type_iii_wg' => /\ t3' \in {"WRITE_TRACK", "WRITE_BYTE", "DONE"}
                           /\ Is(command_r, CMD_WRITE_TRACK)
        /\ t3' = "WAIT_TRACK" => Is(command_r, CMD_READ_TRACK \cup CMD_WRITE_TRACK)
    <3>1. CASE T3Idle \/ T3ReadAddrWait \/ T3ReadAddr \/ T3ReadTrack
      BY <3>1 DEF GateInv, T3Idle, T3ReadAddrWait, T3ReadAddr, T3ReadTrack, Is
    <3>2. CASE T3WaitTrack
      BY <3>2 DEF GateInv, T3WaitTrack, Is
    <3>3. CASE T3WriteTrack \/ T3WriteByte \/ T3Done
      BY <3>3 DEF GateInv, T3WriteTrack, T3WriteByte, T3Done
    <3> QED BY <1>1, <3>1, <3>2, <3>3 DEF TypeIII, T3Abort, Aborted
  <2> QED BY <1>3, <2>1, <2>2 DEF GateInv, WritesSector, Is
<1> QED BY <1>2, <1>3, CommandKept

LEMMA GateSelects ==
  ASSUME BusOK, GateInv PROVE GateDiscipline
<1>1. command_r \in 0..255
  BY InputAssumption DEF InputAssumption, BusOK
<1>2. WritesSector => ~Bit(command_r, 64)
  BY <1>1 DEF WritesSector, Is, CMD_WRITE_SECTOR, Bit
<1>3. Is(command_r, CMD_WRITE_TRACK) => Bit(command_r, 64)
  BY <1>1 DEF Is, CMD_WRITE_TRACK, Bit
<1> QED BY <1>2, <1>3 DEF GateInv, GateDiscipline, wr_dat_s

(* The write gate is open only while a write command has it, for that       *)
(* command's bytes, if no interrupt is forced (one would leave it open) and *)
(* resets come between commands.                                            *)
THEOREM GateIsKept ==
  ASSUME NoForce, ~MID_COMMAND PROVE Spec => []GateDiscipline
<1>1. Init => KeptInv /\ GateInv
  BY KeptInit DEF Init, GateInv
<1>2. KeptInv /\ GateInv /\ [Next]_vars => (KeptInv /\ GateInv)'
  <2> SUFFICES ASSUME KeptInv, GateInv, [Next]_vars PROVE (KeptInv /\ GateInv)'
    OBVIOUS
  <2>1. CASE Clock
    BY <2>1, KeptClock, GateClock DEF Clock, Controller
  <2>2. CASE Reset
    <3>1. Rests /\ KeptInv' /\ Rests'
      BY <2>2, IdleRests, KeptReset DEF Reset
    <3>2. type_iii_wg' = type_iii_wg /\ ~type_ii_wg'
      BY <2>2 DEF Reset
    <3>3. ~type_iii_wg
      BY <3>1 DEF Rests, Quiet, GateInv
    <3> QED BY <3>1, <3>2, <3>3 DEF GateInv, Rests, Quiet
  <2>3. CASE UNCHANGED vars
    BY <2>3, KeptStutter
       DEF GateInv, WritesSector, Is, vars, busVars, t2Vars, t3Vars
  <2> QED BY <2>1, <2>2, <2>3 DEF Next
<1>3. KeptInv /\ GateInv => GateDiscipline
  BY GateSelects DEF KeptInv, CalmInv
<1> QED BY <1>1, <1>2, <1>3, PTL DEF Spec

-----------------------------------------------------------------------------
(* Data requests.  The host serves at once and looks ahead before it writes *)
(* a track; two bus cycles fit between the tick and the end of a byte.      *)
(* Either it forces no interrupt, or a bus cycle outlasts the one clock on  *)
(* which a forced interrupt has not stopped the processors yet.             *)
ServingHost ==
  /\ PROMPT /\ AHEAD /\ BYTE_CLKS >= TICK + 2 * ACCESS_CLKS
  /\ \/ NoForce /\ ~MID_COMMAND
     \/ ~RESETS /\ ACCESS_CLKS >= 3

Request == type_ii_drq \/ type_iii_drq

(* The clocks in which the host will have served the request that is up or *)
(* on its way, and the bus cycle in which it serves it is over.            *)
Owed == IF Request THEN 2 * ACCESS_CLKS
        ELSE IF drq_s /\ ~drq_clr THEN left + ACCESS_CLKS
        ELSE IF bus = "data" THEN left
        ELSE IF drq_s THEN 1 ELSE 0

(* What a clock of a prompt host is, for the data requests.                *)
HeldCycle ==
  /\ left > 0 /\ left' = left - 1
  /\ bus' = IF left = 1 THEN "none" ELSE bus
  /\ (drq_clr' <=> bus = "data") /\ data_i_r' = data_i_r
ServedCycle == left = 0 /\ drq_s /\ left' = ACCESS_CLKS - 1 /\ bus' \in {"data", "write"} /\ drq_clr'
OtherCycle ==
  /\ left = 0 /\ ~drq_s
  /\ \/ left' = 0 /\ bus' = bus /\ ~drq_clr' /\ data_i_r' = data_i_r
     \/ /\ left' = ACCESS_CLKS - 1 /\ bus' \in {"write", "status"}
        /\ data_i_r' # data_i_r => ~hostWaits

LEMMA PromptHost ==
  ASSUME PROMPT, Host PROVE HeldCycle \/ ServedCycle \/ OtherCycle
<1>1. CASE HoldAccess
  BY <1>1 DEF HoldAccess, Clears, HeldCycle
<1>2. CASE Read("data") /\ drq_s
  BY <1>2 DEF Read, Starts, Clears, ServedCycle
<1>3. ASSUME NEW v, WriteData(v), drq_s PROVE ServedCycle
  BY <1>3 DEF WriteData, Starts, Clears, ServedCycle
<1>4. CASE NoAccess /\ ~drq_s
  BY <1>4 DEF NoAccess, Clears, hostVars, OtherCycle
<1>5. CASE Read("status") /\ ~drq_s
  BY <1>5 DEF Read, Starts, OtherCycle
<1>6. ASSUME NEW v, WriteCommand(v) \/ WriteTrack(v) \/ WriteSector(v), ~drq_s
      PROVE  OtherCycle
  BY <1>6 DEF WriteCommand, WriteTrack, WriteSector, Starts, OtherCycle
<1>7. ASSUME NEW v, WriteData(v), ~hostWaits, ~drq_s PROVE OtherCycle
  BY <1>7 DEF WriteData, Starts, OtherCycle
<1>8. \/ HoldAccess
      \/ Read("data") /\ drq_s
      \/ \E v : WriteData(v) /\ drq_s
      \/ NoAccess /\ ~drq_s
      \/ Read("status") /\ ~drq_s
      \/ \E v : (WriteCommand(v) \/ WriteTrack(v) \/ WriteSector(v)) /\ ~drq_s
      \/ \E v : WriteData(v) /\ ~hostWaits /\ ~drq_s
  BY Zenon DEF Host, MustServe
<1> QED BY <1>1, <1>2, <1>3, <1>4, <1>5, <1>6, <1>7, <1>8

(* A command is written with no request in sight, WRITE TRACK with no       *)
(* index pulse at the next tick.                                            *)
LEMMA PromptCommand ==
  ASSUME PROMPT, AHEAD, Host, cmd_wr_stb'
  PROVE  /\ left = 0 /\ ~drq_s
         /\ Is(command_r', CMD_WRITE_TRACK) => ip \/ NextPos > INDEX_LEN
<1>1. \/ HoldAccess \/ NoAccess \/ Read("data") \/ Read("status")
      \/ \E c : WriteCommand(c) /\ ~drq_s
      \/ \E v : WriteData(v) \/ WriteTrack(v) \/ WriteSector(v)
  BY Zenon DEF Host, MustServe
<1>2. ~HoldAccess /\ ~NoAccess /\ ~Read("data") /\ ~Read("status")
  BY DEF HoldAccess, NoAccess, Read, Strobes
<1>3. ASSUME NEW v PROVE ~WriteData(v) /\ ~WriteTrack(v) /\ ~WriteSector(v)
  BY DEF WriteData, WriteTrack, WriteSector, Strobes
<1>4. ASSUME NEW c, WriteCommand(c), ~drq_s
      PROVE  /\ left = 0 /\ ~drq_s
             /\ Is(command_r', CMD_WRITE_TRACK) => ip \/ NextPos > INDEX_LEN
  BY <1>4 DEF WriteCommand, Starts
<1> QED BY <1>1, <1>2, <1>3, <1>4

(* A read of the data register clears DRQ while it is held, and has served *)
(* the request for which it was begun before there is another.             *)
DataBusInv ==
  /\ bus = "data" => drq_clr /\ left > 0
  /\ drq_clr /\ drq_s => left > 0
  /\ Request => bus # "data" /\ (t2 # "IDLE" \/ t3 # "IDLE")

LEMMA OwedStep ==
  ASSUME PROMPT, BusOK, DataBusInv, Host, ProcDrq
  PROVE  /\ Owed \in Nat /\ Owed' \in Nat
         /\ Request' => Owed' = 2 * ACCESS_CLKS
         /\ ~Request' => Owed' = 0 \/ Owed' <= Owed - 1
         /\ Owed <= 1 => ~drq_s' /\ bus' # "data"
         /\ bus' = "data" => drq_clr' /\ left' > 0
         /\ drq_clr' /\ drq_s' => left' > 0
<1>1. ACCESS_CLKS \in Nat /\ ACCESS_CLKS >= 2 /\ left \in Nat /\ left <= ACCESS_CLKS - 1
  BY TimingAssumption DEF TimingAssumption, BusOK
<1>2. drq_s' <=> Request \/ (drq_s /\ ~drq_clr)
  BY DEF ProcDrq, Request
<1>3. Request' => Owed' = 2 * ACCESS_CLKS
  BY DEF Owed
<1>4. ~Request' => Owed' = IF drq_s' /\ ~drq_clr' THEN left' + ACCESS_CLKS
                           ELSE IF bus' = "data" THEN left'
                           ELSE IF drq_s' THEN 1 ELSE 0
  BY DEF Owed
<1>5. Owed' \in Nat
  <2>1. PICK n \in 0..(ACCESS_CLKS - 1) : n = left'
    BY BusTypes DEF BusOK
  <2> QED BY <1>1, <1>3, <1>4, <2>1
<1>6. CASE HeldCycle
  BY <1>1, <1>2, <1>3, <1>4, <1>6 DEF HeldCycle, Owed, DataBusInv
<1>7. CASE ServedCycle
  BY <1>1, <1>2, <1>3, <1>4, <1>7 DEF ServedCycle, Owed, DataBusInv
<1>8. CASE OtherCycle
  BY <1>1, <1>2, <1>3, <1>4, <1>8 DEF OtherCycle, Owed, DataBusInv
<1>9. Owed \in Nat
  BY <1>1 DEF Owed
<1> QED BY <1>5, <1>6, <1>7, <1>8, <1>9, PromptHost

-----------------------------------------------------------------------------
(* The clock of the bytes.  Turn(s) counts the clocks until that of slot s  *)
(* is over; EdgeIn bounds those until a WRITE TRACK takes its first byte.   *)
Turn(s) == IF slot <= s THEN s + 1 - slot ELSE BYTE_CLKS + s + 1 - slot
NoEdgeNext == ip \/ NextPos > INDEX_LEN
EdgeIn == IF IndexEdge THEN 2
          ELSE IF NoEdgeNext THEN Turn(TICK) + BYTE_CLKS + 2 ELSE Turn(TICK) + 2

LEMMA SlotStep ==
  ASSUME DriveOK, ByteClock
  PROVE  /\ slot' = IF slot = BYTE_CLKS - 1 THEN 0 ELSE slot + 1
         /\ BYTE_CLKS \in Nat /\ BYTE_CLKS > 0 /\ slot \in 0..(BYTE_CLKS - 1)
<1>1. BYTE_CLKS \in Nat /\ BYTE_CLKS > 0 /\ slot \in 0..(BYTE_CLKS - 1)
  BY TimingAssumption DEF TimingAssumption, DriveOK
<1>2. slot # BYTE_CLKS - 1 => (slot + 1) % BYTE_CLKS = slot + 1
  BY <1>1
<1>3. slot = BYTE_CLKS - 1 => (slot + 1) % BYTE_CLKS = 0
  BY <1>1
<1> QED BY <1>1, <1>2, <1>3 DEF ByteClock

LEMMA TurnStep ==
  ASSUME DriveOK, ByteClock, NEW s \in Nat, s < BYTE_CLKS
  PROVE  /\ Turn(s) \in 1..BYTE_CLKS
         /\ Turn(s)' = IF Turn(s) = 1 THEN BYTE_CLKS ELSE Turn(s) - 1
         /\ Turn(s) = 1 <=> slot = s
BY SlotStep DEF Turn

LEMMA EdgeStep ==
  ASSUME DriveOK, NEW found, DriveReads(found), t3_ip_r' = ip
  PROVE  /\ EdgeIn \in Nat /\ EdgeIn >= 1 /\ EdgeIn' \in Nat /\ EdgeIn' >= EdgeIn - 1
         /\ NoEdgeNext => EdgeIn' >= BYTE_CLKS + 2
<1>1. /\ TICK \in Nat /\ TICK < BYTE_CLKS /\ BYTE_CLKS \in Nat /\ ByteClock
      /\ (slot = TICK => (ip' <=> NextPos <= INDEX_LEN))
      /\ (slot # TICK => ip' = ip /\ pos' = pos)
  BY TimingAssumption DEF TimingAssumption, DriveReads
<1>2. /\ Turn(TICK) \in 1..BYTE_CLKS
      /\ Turn(TICK)' = IF slot = TICK THEN BYTE_CLKS ELSE Turn(TICK) - 1
      /\ Turn(TICK) = 1 <=> slot = TICK
  BY <1>1, TurnStep
<1>3. INDEX_LEN \in Nat /\ NextPos \in Int
  BY InputAssumption DEF InputAssumption, DriveOK, NextPos
<1>4. EdgeIn' = IF ip' /\ ~ip THEN 2
                ELSE IF NoEdgeNext' THEN Turn(TICK)' + BYTE_CLKS + 2 ELSE Turn(TICK)' + 2
  BY DEF EdgeIn, IndexEdge
<1>5. Turn(TICK)' \in Nat
  BY <1>1, <1>2
<1>6. EdgeIn \in Nat /\ EdgeIn >= 1 /\ EdgeIn' \in Nat
  BY <1>1, <1>2, <1>4, <1>5 DEF EdgeIn
<1>7. CASE slot = TICK
  <2>1. Turn(TICK)' = BYTE_CLKS /\ Turn(TICK) = 1 /\ (ip' <=> NextPos <= INDEX_LEN)
    BY <1>1, <1>2, <1>7
  <2>2. CASE NoEdgeNext
    <3>1. ip' /\ ~ip => FALSE
      BY <1>3, <2>1, <2>2 DEF NoEdgeNext
    <3>2. EdgeIn' >= BYTE_CLKS + 2
      BY <1>1, <1>4, <2>1, <3>1
    <3> QED BY <1>1, <1>6, <2>1, <3>2 DEF EdgeIn
  <2>3. CASE ~NoEdgeNext
    <3>1. EdgeIn <= 3
      BY <2>1, <2>3 DEF EdgeIn
    <3>2. EdgeIn' >= 2
      BY <1>1, <1>4, <2>1
    <3> QED BY <1>6, <2>3, <3>1, <3>2
  <2> QED BY <2>2, <2>3
<1>8. CASE slot # TICK
  <2>1. ip' = ip /\ (NoEdgeNext' <=> NoEdgeNext)
    BY <1>1, <1>8 DEF NoEdgeNext, NextPos
  <2>2. EdgeIn' = IF NoEdgeNext THEN Turn(TICK) + BYTE_CLKS + 1 ELSE Turn(TICK) + 1
    BY <1>1, <1>2, <1>4, <1>8, <2>1
  <2> QED BY <1>1, <1>2, <1>6, <1>8, <2>2 DEF EdgeIn
<1> QED BY <1>7, <1>8

(* Where in a byte the strobes of the disk are up.  A reset puts the byte   *)
(* clock back and leaves what was being read.                               *)
FreshStart == slot = 0 /\ rd = "UNKNOWN" /\ Quiet
SlotInv ==
  /\ raw # NoByte => slot = 2 \/ FreshStart
  /\ rdy # {} => slot = 3 \/ FreshStart
  /\ write_data_written => slot \in 1..TICK /\ (slot > 1 => wdw_r)
  /\ IndexEdge => slot = TICK + 1

LEMMA RdyStep ==
  ASSUME ReadLogic, rdy' # {} PROVE raw # NoByte /\ rd # "UNKNOWN"
BY DEF ReadLogic, RdQuiet, Ready

LEMMA SlotClock ==
  ASSUME TICK + 4 <= BYTE_CLKS, DriveOK, SlotInv, NEW found, DriveReads(found), ReadLogic, WriteLogic,
         t3_ip_r' = ip
  PROVE  SlotInv'
<1>1. /\ TICK \in Nat /\ TICK > 1 /\ ByteClock
      /\ slot' = IF slot = BYTE_CLKS - 1 THEN 0 ELSE slot + 1
      /\ BYTE_CLKS \in Nat /\ slot \in 0..(BYTE_CLKS - 1)
  BY TimingAssumption, SlotStep DEF TimingAssumption, DriveReads
<1>2. raw' # NoByte => slot' = 2
  BY <1>1 DEF DriveReads
<1>3. rdy' # {} => slot' = 3
  BY <1>1, RdyStep DEF SlotInv, FreshStart
<1>4. write_data_written' => slot' \in 1..TICK /\ (slot' > 1 => wdw_r')
  <2>1. CASE slot = 0
    BY <1>1, <2>1
  <2>2. CASE slot # 0
    <3>1. write_data_written' => slot # TICK /\ write_data_written /\ wdw_r' = write_data_written
      BY <2>2 DEF WriteLogic
    <3> QED BY <1>1, <2>2, <3>1 DEF SlotInv
  <2> QED BY <2>1, <2>2
<1>5. IndexEdge' => slot' = TICK + 1
  <2>1. IndexEdge' => ip' /\ ~ip
    BY DEF IndexEdge
  <2>2. ip' /\ ~ip => slot = TICK
    BY DEF DriveReads
  <2> QED BY <1>1, <2>1, <2>2
<1> QED BY <1>2, <1>3, <1>4, <1>5 DEF SlotInv

-----------------------------------------------------------------------------
(* What the proof uses of the handshake.                                   *)
CoreInv ==
  /\ ProcInv /\ HostInv /\ BusOK /\ DriveOK
  /\ type_stb = "IV" => ~RESETS /\ ACCESS_CLKS >= 3

LEMMA CoreClock ==
  ASSUME ServingHost, CoreInv, Host, ProcCmd, ProcIrq, InterruptLogic, TypeI, TypeII, TypeIII,
         NEW found, DriveReads(found)
  PROVE  CoreInv'
<1>1. ProcInv' /\ HostInv' /\ BusOK' /\ DriveOK'
  BY ProcInvClock, HostInvClock, BusTypes, DriveTypes DEF CoreInv
<1>2. NoForce => ~IsForce(command_r)
  BY NeverForced DEF CoreInv, BusOK
<1>3. NoForce => type_stb' # "IV"
  BY <1>2, CmdTaken DEF CoreInv, HostInv
<1> QED BY <1>1, <1>3 DEF CoreInv, ServingHost

(* A host that does not wait and makes no bus cycle finds the machine at    *)
(* rest.                                                                    *)
LEMMA FreeMeansRest ==
  ASSUME CoreInv, ~hostWaits, left = 0 PROVE Rests
<1>1. ~cmd_wr_stb /\ cmd_state = "IDLE"
  BY TimingAssumption DEF TimingAssumption, CoreInv, HostInv, BusInv, WaitInv
<1>2. type_stb # "IV"
  BY TimingAssumption DEF TimingAssumption, CoreInv, HostInv, BusInv
<1> QED BY <1>1, <1>2 DEF CoreInv, ProcInv, CmdTypeOK, StrobeInv, Rests

(* Only the processor at work asks for data.                               *)
LEMMA OwnRequest ==
  ASSUME ProcInv, TypeII, TypeIII
  PROVE  /\ t2 = "IDLE" /\ t3 = "IDLE" /\ type_stb # "III" => ~Request'
         /\ t2 # "IDLE" => (Request' <=> TypeIIDrq)
         /\ t3 # "IDLE" \/ type_stb = "III" => (Request' <=> TypeIIIDrq)
         /\ Request' => t2' # "IDLE" \/ t3' # "IDLE"
<1>1. Request' <=> TypeIIDrq \/ TypeIIIDrq
  BY DEF TypeII, TypeIII, Request
<1>2. TypeIIDrq => t2 \in {"WAIT_IDAM", "READ_SECTOR", "WRITE_SECTOR_DATA"} /\ ~Aborted
  BY DEF TypeIIDrq
<1>3. TypeIIIDrq => /\ t3 \in {"READ_ADDR", "READ_TRACK", "WRITE_TRACK"} \/ (t3 = "IDLE" /\ type_stb = "III")
                    /\ ~Aborted
  BY DEF TypeIIIDrq
<1>4. TypeIIDrq => t2' # "IDLE"
  BY <1>2 DEF TypeII, T2Abort, T2Idle, T2WaitIdam, T2WaitDam, T2ReadSector,
              T2WaitCrc, T2WriteDam, T2WriteData, T2Done
<1>5. TypeIIIDrq => t3' # "IDLE"
  BY <1>3 DEF TypeIII, T3Abort, T3Idle, T3ReadAddrWait, T3ReadAddr, T3WaitTrack,
              T3ReadTrack, T3WriteTrack, T3WriteByte, T3Done, TypeIIIDrq
<1> QED BY <1>1, <1>2, <1>3, <1>4, <1>5 DEF ProcInv, StrobeInv, SoleInv, Quiet

(* A command starts with nothing owed, and WRITE TRACK a byte before the    *)
(* index.                                                                   *)
StartInv ==
  /\ cmd_wr_stb /\ ~IsForce(command_r) =>
       Owed = 0 /\ (Is(command_r, CMD_WRITE_TRACK) => EdgeIn >= BYTE_CLKS + 2)
  /\ type_stb \in {"I", "II", "III"} =>
       Owed = 0 /\ (Is(command_r, CMD_WRITE_TRACK) => EdgeIn >= BYTE_CLKS + 1)

LEMMA StartClock ==
  ASSUME ServingHost, CoreInv, DataBusInv, StartInv, Host, ProcCmd, ProcDrq, TypeII, TypeIII,
         NEW found, DriveReads(found)
  PROVE  StartInv'
<1>1. /\ EdgeIn \in Nat /\ EdgeIn' \in Nat /\ EdgeIn' >= EdgeIn - 1
      /\ NoEdgeNext => EdgeIn' >= BYTE_CLKS + 2
  BY EdgeStep DEF CoreInv, TypeIII
<1>2. ~Request' => Owed' = 0 \/ Owed' <= Owed - 1
  BY OwedStep DEF ServingHost, CoreInv
<1>3. Owed' \in Nat
  BY OwedStep DEF ServingHost, CoreInv
<1>4. ASSUME cmd_wr_stb', ~IsForce(command_r')
      PROVE  Owed' = 0 /\ (Is(command_r', CMD_WRITE_TRACK) => EdgeIn' >= BYTE_CLKS + 2)
  <2>1. /\ left = 0 /\ ~drq_s
        /\ Is(command_r', CMD_WRITE_TRACK) => NoEdgeNext
    BY <1>4, PromptCommand DEF ServingHost, NoEdgeNext
  <2>2. ~hostWaits
    BY <1>4, HostStep DEF Commanding, Accessing, Holding, Resting, SameWait
  <2>3. Rests
    BY <2>1, <2>2, FreeMeansRest
  <2>4. Owed = 0
    BY <2>1, <2>3 DEF Rests, Quiet, DataBusInv, Owed
  <2>5. ~Request'
    BY <2>3, OwnRequest DEF Rests, Quiet, CoreInv
  <2> QED BY <1>1, <1>2, <1>3, <2>1, <2>4, <2>5
<1>5. ASSUME type_stb' \in {"I", "II", "III"}
      PROVE  Owed' = 0 /\ (Is(command_r', CMD_WRITE_TRACK) => EdgeIn' >= BYTE_CLKS + 1)
  <2>1. cmd_wr_stb /\ ~IsForce(command_r)
    BY <1>5, CmdTaken DEF CoreInv, HostInv
  <2>2. left > 0 /\ type_stb = "none" /\ cmd_state = "IDLE"
    BY <2>1, TimingAssumption DEF TimingAssumption, CoreInv, HostInv, BusInv, WaitInv
  <2>3. command_r' = command_r
    BY <2>2, HostStep DEF Commanding, Accessing, Holding, Resting
  <2>4. ~Request'
    BY <2>2, OwnRequest DEF CoreInv, ProcInv, StrobeInv, Quiet
  <2> QED BY <1>1, <1>2, <1>3, <2>1, <2>3, <2>4, TimingAssumption DEF StartInv, TimingAssumption
<1> QED BY <1>4, <1>5 DEF StartInv

(* While a processor may ask for a byte, the last one it asked for will be  *)
(* served before the clock on which it can.                                 *)
ServeIIInv ==
  /\ t2 \in {"WAIT_IDAM", "WRITE_SECTOR_DAM"} => Owed = 0
  /\ t2 \in {"WAIT_DAM", "READ_SECTOR"} => Owed <= Turn(3)
  /\ t2 = "WRITE_SECTOR_DATA" => Owed <= Turn(1)
ServeIIIInv ==
  /\ t3 = "READ_ADDR_WAIT" => Owed = 0
  /\ t3 = "READ_ADDR" => Owed <= Turn(3)
  /\ t3 = "WAIT_TRACK" => Owed <= EdgeIn
  /\ t3 \in {"READ_TRACK", "WRITE_BYTE"} => Owed <= Turn(2)
  /\ t3 = "WRITE_TRACK" => Owed <= 1 /\ slot \in {2, TICK + 2}

LEMMA ServeIIClock ==
  ASSUME ServingHost, CoreInv, DataBusInv, SlotInv, StartInv, ServeIIInv,
         Host, ProcDrq, TypeII, TypeIII, NEW found, DriveReads(found)
  PROVE  /\ ServeIIInv'
         /\ t2 # "IDLE" /\ Request' => Owed <= 1
<1>1. /\ ACCESS_CLKS \in Nat /\ ACCESS_CLKS >= 2 /\ BYTE_CLKS \in Nat /\ BYTE_CLKS >= 6
      /\ 2 * ACCESS_CLKS <= BYTE_CLKS
  BY TimingAssumption DEF TimingAssumption, ServingHost
<1>2. /\ Owed \in Nat /\ Owed' \in Nat
      /\ Request' => Owed' = 2 * ACCESS_CLKS
      /\ ~Request' => Owed' = 0 \/ Owed' <= Owed - 1
  BY OwedStep DEF ServingHost, CoreInv
<1>3. ASSUME NEW s \in {1, 3}
      PROVE  /\ Turn(s) \in 1..BYTE_CLKS
             /\ Turn(s)' = IF Turn(s) = 1 THEN BYTE_CLKS ELSE Turn(s) - 1
             /\ Turn(s) = 1 <=> slot = s
  BY <1>1, TurnStep DEF CoreInv, DriveReads
<1>4. t2 # "IDLE" => /\ rdy # {} => slot = 3
                     /\ ByteWritten => slot = 1
                     /\ Request' <=> TypeIIDrq
  BY OwnRequest DEF SlotInv, FreshStart, Quiet, ByteWritten, CoreInv
<1>5. CASE T2Abort \/ T2WaitCrc \/ T2Done
  <2>1. t2' \in {"IDLE", "DONE"}
    BY <1>5 DEF T2Abort, T2WaitCrc, T2Done
  <2>2. ~TypeIIDrq
    BY <1>5 DEF T2Abort, T2WaitCrc, T2Done, TypeIIDrq
  <2> QED BY <1>4, <2>1, <2>2 DEF ServeIIInv
<1>6. CASE T2Idle
  <2>1. t2' \in {"IDLE", "WAIT_IDAM"} /\ t2 = "IDLE"
    BY <1>6 DEF T2Idle
  <2>2. type_stb = "II" => ~Request' /\ Owed = 0
    BY OwnRequest DEF CoreInv, ProcInv, StrobeInv, Quiet, StartInv
  <2>3. t2' = "WAIT_IDAM" => Owed' = 0
    BY <1>2, <1>6, <2>2 DEF T2Idle
  <2> QED BY <2>1, <2>3 DEF ServeIIInv
<1>7. CASE T2WaitIdam
  <2>1. t2 = "WAIT_IDAM" /\ Owed = 0
    BY <1>7 DEF T2WaitIdam, ServeIIInv
  <2>2. Request' => IdMatches /\ ~rnf_error
    BY <1>4, <2>1 DEF TypeIIDrq
  <2>3. Request' => slot = 3 /\ Turn(3)' = BYTE_CLKS /\ t2' = "WAIT_DAM"
    BY <1>3, <1>4, <1>7, <2>1, <2>2 DEF IdMatches, T2WaitIdam
  <2>4. ~Request' => Owed' = 0
    BY <1>2, <2>1
  <2>5. Turn(3)' >= 0
    BY <1>1, <1>3
  <2>6. t2' \in {"WAIT_IDAM", "WAIT_DAM", "DONE"}
    BY <1>7 DEF T2WaitIdam
  <2>7. Owed' <= Turn(3)'
    BY <1>1, <1>2, <2>3, <2>4, <2>5
  <2> QED BY <2>1, <2>3, <2>4, <2>6, <2>7 DEF ServeIIInv
<1>8. CASE T2WaitDam
  <2>1. t2 = "WAIT_DAM" /\ Owed <= Turn(3) /\ ~Request'
    BY <1>4, <1>8 DEF T2WaitDam, TypeIIDrq, ServeIIInv
  <2>2. Owed' <= Turn(3)'
    BY <1>1, <1>2, <1>3, <2>1
  <2>3. t2' \in {"WAIT_DAM", "READ_SECTOR", "WRITE_SECTOR_DAM", "DONE"}
    BY <1>8 DEF T2WaitDam
  <2>4. t2' = "WRITE_SECTOR_DAM" => slot = 3
    BY <1>4, <1>8, <2>1 DEF T2WaitDam
  <2>5. t2' = "WRITE_SECTOR_DAM" => Owed' = 0
    BY <1>2, <1>3, <2>1, <2>4
  <2> QED BY <2>1, <2>2, <2>3, <2>5 DEF ServeIIInv
<1>9. CASE T2ReadSector
  <2>1. t2 = "READ_SECTOR" /\ Owed <= Turn(3)
    BY <1>9 DEF T2ReadSector, ServeIIInv
  <2>2. Request' => slot = 3
    BY <1>4, <2>1 DEF TypeIIDrq
  <2>3. Owed' <= Turn(3)'
    BY <1>1, <1>2, <1>3, <2>1, <2>2
  <2>4. t2' \in {"READ_SECTOR", "WAIT_CRC"}
    BY <1>9 DEF T2ReadSector
  <2>5. Request' => Owed <= 1
    BY <1>3, <2>1, <2>2
  <2> QED BY <2>3, <2>4, <2>5 DEF ServeIIInv
<1>10. CASE T2WriteDam
  <2>1. t2 = "WRITE_SECTOR_DAM" /\ Owed = 0 /\ ~Request'
    BY <1>4, <1>10 DEF T2WriteDam, TypeIIDrq, ServeIIInv
  <2>2. Owed' = 0 /\ Owed' <= Turn(1)'
    BY <1>1, <1>2, <1>3, <2>1
  <2>3. t2' \in {"WRITE_SECTOR_DAM", "WRITE_SECTOR_DATA"}
    BY <1>10 DEF T2WriteDam
  <2> QED BY <2>1, <2>2, <2>3 DEF ServeIIInv
<1>11. CASE T2WriteData
  <2>1. t2 = "WRITE_SECTOR_DATA" /\ Owed <= Turn(1)
    BY <1>11 DEF T2WriteData, ServeIIInv
  <2>2. Request' => slot = 1
    BY <1>4, <2>1 DEF TypeIIDrq
  <2>3. Owed' <= Turn(1)'
    BY <1>1, <1>2, <1>3, <2>1, <2>2
  <2>4. t2' \in {"WRITE_SECTOR_DATA", "DONE"}
    BY <1>11 DEF T2WriteData
  <2>5. Request' => Owed <= 1
    BY <1>3, <2>1, <2>2
  <2> QED BY <2>3, <2>4, <2>5 DEF ServeIIInv
<1> QED
  BY <1>5, <1>6, <1>7, <1>8, <1>9, <1>10, <1>11 DEF TypeII

LEMMA ServeIIIClock ==
  ASSUME ServingHost, CoreInv, DataBusInv, SlotInv, StartInv, ServeIIIInv,
         Host, ProcDrq, TypeII, TypeIII, NEW found, DriveReads(found)
  PROVE  /\ ServeIIIInv'
         /\ t3 # "IDLE" \/ type_stb = "III" => (Request' => Owed <= 1)
<1>1. /\ ACCESS_CLKS \in Nat /\ ACCESS_CLKS >= 2 /\ BYTE_CLKS \in Nat
      /\ TICK \in Nat /\ TICK > 1 /\ TICK + 2 * ACCESS_CLKS <= BYTE_CLKS
      /\ slot \in 0..(BYTE_CLKS - 1)
  BY TimingAssumption DEF TimingAssumption, ServingHost, CoreInv, DriveOK
<1>2. /\ Owed \in Nat /\ Owed' \in Nat
      /\ Request' => Owed' = 2 * ACCESS_CLKS
      /\ ~Request' => Owed' = 0 \/ Owed' <= Owed - 1
  BY OwedStep DEF ServingHost, CoreInv
<1>3. ASSUME NEW s \in {2, 3}
      PROVE  /\ Turn(s) \in 1..BYTE_CLKS
             /\ Turn(s)' = IF Turn(s) = 1 THEN BYTE_CLKS ELSE Turn(s) - 1
             /\ Turn(s) = 1 <=> slot = s
  BY <1>1, TurnStep DEF CoreInv, DriveReads
<1>4. /\ EdgeIn \in Nat /\ EdgeIn' \in Nat /\ EdgeIn' >= EdgeIn - 1
      /\ slot' = IF slot = BYTE_CLKS - 1 THEN 0 ELSE slot + 1
  BY EdgeStep, SlotStep DEF CoreInv, TypeIII, DriveReads
<1>5. t3 # "IDLE" => /\ rdy # {} => slot = 3
                     /\ raw # NoByte => slot = 2
                     /\ ByteWritten => slot = 1
  BY DEF SlotInv, FreshStart, Quiet, ByteWritten
<1>6. t3 # "IDLE" \/ type_stb = "III" => (Request' <=> TypeIIIDrq)
  BY OwnRequest DEF CoreInv
<1>7. CASE T3Abort \/ T3Done
  <2>1. t3' = "IDLE" /\ ~TypeIIIDrq
    BY <1>7 DEF T3Abort, T3Done, TypeIIIDrq
  <2> QED BY <1>6, <2>1 DEF ServeIIIInv
<1>8. CASE T3Idle
  <2>1. t3 = "IDLE" /\ t3' \in {"IDLE", "READ_ADDR_WAIT", "WAIT_TRACK", "DONE"}
    BY <1>8 DEF T3Idle
  <2>2. CASE type_stb # "III"
    BY <1>8, <2>2, <2>1 DEF T3Idle, ServeIIIInv
  <2>3. CASE type_stb = "III"
    <3>1. Owed = 0 /\ (Request' => Is(command_r, CMD_WRITE_TRACK))
      BY <1>6, <2>1, <2>3 DEF StartInv, TypeIIIDrq
    <3>2. t3' = "READ_ADDR_WAIT" => ~Is(command_r, CMD_WRITE_TRACK)
      BY <1>8, <2>3 DEF T3Idle, Is, CMD_READ_ADDRESS, CMD_READ_TRACK, CMD_WRITE_TRACK
    <3>3. Request' => EdgeIn >= BYTE_CLKS + 1
      BY <2>3, <3>1 DEF StartInv
    <3>4. Owed' <= EdgeIn'
      BY <1>1, <1>2, <1>4, <3>1, <3>3
    <3> QED BY <1>2, <2>1, <3>1, <3>2, <3>4 DEF ServeIIIInv
  <2> QED BY <2>2, <2>3
<1>9. CASE T3ReadAddrWait
  <2>1. t3 = "READ_ADDR_WAIT" /\ Owed = 0 /\ ~Request'
    BY <1>6, <1>9 DEF T3ReadAddrWait, TypeIIIDrq, ServeIIIInv
  <2>2. Owed' = 0 /\ Owed' <= Turn(3)'
    BY <1>1, <1>2, <1>3, <2>1
  <2>3. t3' \in {"READ_ADDR_WAIT", "READ_ADDR"}
    BY <1>9 DEF T3ReadAddrWait
  <2> QED BY <2>1, <2>2, <2>3 DEF ServeIIIInv
<1>10. CASE T3ReadAddr
  <2>1. t3 = "READ_ADDR" /\ Owed <= Turn(3)
    BY <1>10 DEF T3ReadAddr, ServeIIIInv
  <2>2. Request' => slot = 3
    BY <1>5, <1>6, <2>1 DEF TypeIIIDrq
  <2>3. Owed' <= Turn(3)'
    BY <1>1, <1>2, <1>3, <2>1, <2>2
  <2>4. t3' \in {"READ_ADDR", "DONE"}
    BY <1>10 DEF T3ReadAddr
  <2>5. Request' => Owed <= 1
    BY <1>3, <2>1, <2>2
  <2> QED BY <2>3, <2>4, <2>5 DEF ServeIIIInv
<1>11. CASE T3WaitTrack
  <2>1. t3 = "WAIT_TRACK" /\ Owed <= EdgeIn /\ ~Request'
    BY <1>6, <1>11 DEF T3WaitTrack, TypeIIIDrq, ServeIIIInv
  <2>2. Owed' <= EdgeIn'
    BY <1>1, <1>2, <1>4, <2>1
  <2>3. t3' \in {"WAIT_TRACK", "READ_TRACK", "WRITE_TRACK"}
    BY <1>11 DEF T3WaitTrack
  <2>4. t3' # "WAIT_TRACK" => IndexEdge
    BY <1>11, <2>1 DEF T3WaitTrack
  <2>5. IndexEdge => Owed' <= 1 /\ slot' = TICK + 2
    BY <1>1, <1>2, <1>4, <2>1 DEF EdgeIn, SlotInv
  <2>6. Turn(2)' >= 1
    BY <1>1, <1>3
  <2>7. IndexEdge => Owed' <= Turn(2)'
    BY <1>1, <1>2, <1>3, <2>5, <2>6
  <2> QED BY <2>1, <2>2, <2>3, <2>4, <2>5, <2>7 DEF ServeIIIInv
<1>12. CASE T3ReadTrack
  <2>1. t3 = "READ_TRACK" /\ Owed <= Turn(2)
    BY <1>12 DEF T3ReadTrack, ServeIIIInv
  <2>2. Request' => slot = 2
    BY <1>5, <1>6, <2>1 DEF TypeIIIDrq
  <2>3. Owed' <= Turn(2)'
    BY <1>1, <1>2, <1>3, <2>1, <2>2
  <2>4. t3' \in {"READ_TRACK", "DONE"}
    BY <1>12 DEF T3ReadTrack
  <2>5. Request' => Owed <= 1
    BY <1>3, <2>1, <2>2
  <2> QED BY <2>3, <2>4, <2>5 DEF ServeIIIInv
<1>13. CASE T3WriteTrack
  <2>1. t3 = "WRITE_TRACK" /\ Owed <= 1 /\ slot \in {2, TICK + 2}
    BY <1>13 DEF T3WriteTrack, ServeIIIInv
  <2>2. Turn(2)' >= 2 * ACCESS_CLKS
    <3>1. CASE slot = 2
      BY <1>1, <1>3, <3>1
    <3>2. CASE slot = TICK + 2
      <4>1. Turn(2) = BYTE_CLKS - TICK + 1
        BY <1>1, <3>2 DEF Turn
      <4> QED BY <1>1, <1>3, <4>1
    <3> QED BY <2>1, <3>1, <3>2
  <2>3. Owed' <= Turn(2)'
    BY <1>1, <1>2, <1>3, <2>1, <2>2
  <2>4. t3' \in {"WRITE_BYTE", "DONE"}
    BY <1>13 DEF T3WriteTrack
  <2> QED BY <2>1, <2>3, <2>4 DEF ServeIIIInv
<1>14. CASE T3WriteByte
  <2>1. t3 = "WRITE_BYTE" /\ Owed <= Turn(2) /\ ~Request'
    BY <1>6, <1>14 DEF T3WriteByte, TypeIIIDrq, ServeIIIInv
  <2>2. Owed' <= Turn(2)'
    BY <1>1, <1>2, <1>3, <2>1
  <2>3. t3' \in {"WRITE_BYTE", "WRITE_TRACK", "DONE"}
    BY <1>14 DEF T3WriteByte
  <2>4. t3' = "WRITE_TRACK" => slot = 1
    BY <1>5, <1>14, <2>1 DEF T3WriteByte
  <2>5. slot = 1 => Owed <= 2 /\ slot' = 2
    BY <1>1, <1>4, <2>1 DEF Turn
  <2>6. t3' = "WRITE_TRACK" => Owed' <= 1 /\ slot' = 2
    BY <1>2, <2>1, <2>4, <2>5
  <2> QED BY <2>1, <2>2, <2>3, <2>6 DEF ServeIIIInv
<1> QED
  BY <1>7, <1>8, <1>9, <1>10, <1>11, <1>12, <1>13, <1>14 DEF TypeIII

(* Between the two bytes of a CRC nothing is owed, so that the F7 stays in  *)
(* the data register.                                                       *)
PairInv == t3 \in {"WRITE_TRACK", "WRITE_BYTE"} /\ is_crc => data_i_r = 247 /\ Owed = 0

LEMMA DataHeld ==
  ASSUME ServingHost, CoreInv, DataBusInv, Host, t3 # "IDLE", Owed <= 1
  PROVE  data_i_r' = data_i_r
<1>1. ACCESS_CLKS \in Nat /\ ACCESS_CLKS >= 2 /\ left \in Nat
  BY TimingAssumption DEF TimingAssumption, CoreInv, BusOK
<1>2. ~Request /\ ~(drq_s /\ ~drq_clr)
  BY <1>1 DEF Owed
<1>3. drq_s => left > 0
  BY <1>2 DEF DataBusInv
<1>4. ~hostWaits => left # 0
  BY FreeMeansRest DEF Rests, Quiet
<1> QED BY <1>1, <1>3, <1>4, PromptHost DEF HeldCycle, ServedCycle, OtherCycle, ServingHost

LEMMA PairClock ==
  ASSUME ServingHost, CoreInv, DataBusInv, ServeIIIInv, PairInv, Host, ProcDrq, TypeII, TypeIII
  PROVE  PairInv'
<1> SUFFICES ASSUME t3' \in {"WRITE_TRACK", "WRITE_BYTE"}, is_crc'
             PROVE  data_i_r' = 247 /\ Owed' = 0
  BY DEF PairInv
<1>1. T3WriteTrack \/ T3WriteByte
  BY DEF TypeIII, T3Abort, T3Idle, T3ReadAddrWait, T3ReadAddr, T3WaitTrack, T3ReadTrack, T3Done
<1>2. t3 \in {"WRITE_TRACK", "WRITE_BYTE"} /\ (t3 = "WRITE_TRACK" => Owed <= 1)
  BY <1>1 DEF T3WriteTrack, T3WriteByte, ServeIIIInv
<1>3. data_i_r = 247 /\ Owed <= 1 /\ ~TypeIIIDrq
  <2>1. CASE T3WriteTrack
    BY <1>2, <2>1 DEF T3WriteTrack, TypeIIIDrq
  <2>2. CASE T3WriteByte
    BY <1>2, <2>2 DEF T3WriteByte, PairInv, TypeIIIDrq
  <2> QED BY <1>1, <2>1, <2>2
<1>4. data_i_r' = data_i_r
  BY <1>2, <1>3, DataHeld
<1>5. ~Request'
  BY <1>2, <1>3, OwnRequest DEF CoreInv
<1>6. Owed \in Nat /\ Owed' \in Nat /\ (Owed' = 0 \/ Owed' <= Owed - 1)
  BY <1>5, OwedStep DEF ServingHost, CoreInv
<1> QED BY <1>3, <1>4, <1>6

ServeInv ==
  CoreInv /\ DataBusInv /\ SlotInv /\ StartInv /\ ServeIIInv /\ ServeIIIInv /\ PairInv

(* The clock asks for a byte only when the last one is as good as served.  *)
LEMMA ServeClock ==
  ASSUME ServingHost, ServeInv, Host, Controller, NEW found, DriveReads(found)
  PROVE  ServeInv' /\ NoByteLost'
<1> USE DEF ServeInv, Controller
<1>1. /\ ProcCmd /\ ProcIrq /\ InterruptLogic /\ ProcDrq /\ TypeI /\ TypeII /\ TypeIII
      /\ ReadLogic /\ WriteLogic /\ t3_ip_r' = ip
  BY DEF TypeIII
<1>2. CoreInv'
  BY <1>1, CoreClock
<1>3. TICK + 4 <= BYTE_CLKS
  BY TimingAssumption DEF TimingAssumption, ServingHost
<1>4. SlotInv'
  BY <1>1, <1>3, SlotClock DEF CoreInv
<1>5. StartInv'
  BY <1>1, StartClock
<1>6. ServeIIInv' /\ ServeIIIInv' /\ PairInv'
  BY <1>1, ServeIIClock, ServeIIIClock, PairClock
<1>7. Request' => Owed <= 1 /\ (t2' # "IDLE" \/ t3' # "IDLE")
  BY <1>1, ServeIIClock, ServeIIIClock, OwnRequest DEF CoreInv
<1>8. /\ Owed <= 1 => ~drq_s' /\ bus' # "data"
      /\ bus' = "data" => drq_clr' /\ left' > 0
      /\ drq_clr' /\ drq_s' => left' > 0
  BY <1>1, OwedStep DEF ServingHost, CoreInv
<1>9. DataBusInv'
  BY <1>7, <1>8 DEF DataBusInv
<1>10. NoByteLost'
  BY <1>7, <1>8 DEF NoByteLost, Request
<1> QED BY <1>2, <1>4, <1>5, <1>6, <1>9, <1>10

(* A reset finds the machine at rest and leaves nothing owed.              *)
LEMMA ServeReset ==
  ASSUME ServingHost, ServeInv, Reset PROVE ServeInv' /\ NoByteLost'
<1>1. RESETS /\ ~MID_COMMAND /\ ~cmd_busy /\ ~cmd_wr_stb
  BY DEF Reset, ServingHost
<1>2. KeptInv
  BY <1>1 DEF ServeInv, CoreInv, KeptInv, CalmInv
<1>3. KeptInv' /\ Rests'
  BY <1>1, <1>2, KeptReset
<1>4. CoreInv'
  <2>1. Len(Track) \in Nat /\ Len(Track) > 0
    BY InputAssumption DEF InputAssumption
  <2>2. DriveOK'
    BY <2>1, TimingAssumption DEF TimingAssumption, DriveOK, Reset
  <2> QED BY <1>3, <2>2 DEF CoreInv, KeptInv, CalmInv
<1>5. ~Request' /\ ~drq_s' /\ bus' = "none" /\ Quiet' /\ ~cmd_wr_stb' /\ type_stb' = "none"
  BY <1>3 DEF Request, Reset, Rests
<1>6. DataBusInv'
  BY <1>5 DEF DataBusInv
<1>7. SlotInv'
  BY <1>5 DEF Reset, SlotInv, FreshStart, IndexEdge
<1>8. StartInv' /\ ServeIIInv' /\ ServeIIIInv' /\ PairInv'
  BY <1>5 DEF StartInv, ServeIIInv, ServeIIIInv, PairInv, Quiet
<1> QED BY <1>4, <1>5, <1>6, <1>7, <1>8 DEF ServeInv, NoByteLost, Request

LEMMA ServeStutter ==
  ASSUME ServeInv, NoByteLost, UNCHANGED vars PROVE ServeInv' /\ NoByteLost'
<1>1. /\ UNCHANGED <<bus, left, hostWaits, command_r, data_i_r, cmd_wr_stb, drq_clr, drq_s>>
      /\ UNCHANGED <<cmd_state, type_stb, t1, t2, t3, type_ii_drq, type_iii_drq, t3_ip_r, is_crc>>
      /\ UNCHANGED <<write_data_written, wdw_r, slot, pos, ip, raw, rd, rdy>>
      /\ UNCHANGED <<type_i_ack, type_ii_ack, type_iii_ack>>
  BY DEF vars, hostVars, busVars, irqVars, cmdVars, t1Vars, t2Vars, t3Vars, readVars,
         writeVars, driveVars
<1>2. CoreInv'
  <2>1. ProcInv' /\ HostInv'
    BY ProcInvStutter
       DEF ServeInv, CoreInv, HostInv, CmdTypeOK, BusInv, WaitInv, ToldInv, IsForce, Is,
           vars, hostVars, busVars, irqVars, cmdVars
  <2>2. BusOK' /\ DriveOK'
    BY DEF ServeInv, CoreInv, BusOK, DriveOK, vars, hostVars, busVars, driveVars
  <2> QED BY <1>1, <2>1, <2>2 DEF ServeInv, CoreInv
<1>3. Owed' = Owed /\ EdgeIn' = EdgeIn /\ (IndexEdge' <=> IndexEdge)
  BY <1>1 DEF Owed, Request, EdgeIn, IndexEdge, NoEdgeNext, NextPos, Turn
<1>4. DataBusInv' /\ NoByteLost'
  BY <1>1 DEF ServeInv, DataBusInv, Request, NoByteLost
<1>5. SlotInv'
  <2>1. FreshStart' <=> FreshStart
    <3>1. /\ slot' = slot /\ rd' = rd /\ t1' = t1 /\ t2' = t2 /\ t3' = t3
          /\ type_i_ack' = type_i_ack /\ type_ii_ack' = type_ii_ack
          /\ type_iii_ack' = type_iii_ack
      BY <1>1
    <3> QED BY <3>1 DEF FreshStart, Quiet
  <2>2. /\ raw' # NoByte <=> raw # NoByte
        /\ rdy' # {} <=> rdy # {}
        /\ slot' = slot /\ wdw_r' = wdw_r /\ write_data_written' = write_data_written
    BY <1>1
  <2> QED BY <1>3, <2>1, <2>2 DEF ServeInv, SlotInv
<1>6. StartInv' /\ PairInv'
  BY <1>1, <1>3 DEF ServeInv, StartInv, PairInv, IsForce, Is
<1>7. ServeIIInv' /\ ServeIIIInv'
  BY <1>1, <1>3 DEF ServeInv, ServeIIInv, ServeIIIInv, Turn
<1> QED BY <1>2, <1>4, <1>5, <1>6, <1>7 DEF ServeInv

LEMMA ServeInit == Init => ServeInv /\ NoByteLost
<1> SUFFICES ASSUME Init PROVE ServeInv /\ NoByteLost
  OBVIOUS
<1>1. CoreInv
  BY InitTypes, KeptInit DEF Init, CoreInv, KeptInv, TypeOK
<1>2. ~Request /\ Owed = 0
  BY DEF Init, Request, Owed
<1>3. DataBusInv /\ NoByteLost
  BY <1>2 DEF Init, DataBusInv, NoByteLost, Request
<1>4. SlotInv
  BY DEF Init, ReaderInit, SlotInv, IndexEdge
<1>5. StartInv /\ ServeIIInv /\ ServeIIIInv /\ PairInv
  BY DEF Init, StartInv, ServeIIInv, ServeIIIInv, PairInv
<1> QED BY <1>1, <1>3, <1>4, <1>5 DEF ServeInv

LEMMA ServeInvariant ==
  ASSUME ServingHost PROVE Spec => [](ServeInv /\ NoByteLost)
<1>1. ServeInv /\ NoByteLost /\ [Next]_vars => (ServeInv /\ NoByteLost)'
  BY ServeClock, ServeReset, ServeStutter DEF Next, Clock, Drive
<1> QED BY <1>1, ServeInit, PTL DEF Spec

(* A request never meets an open one, nor the read which serves the one     *)
(* before: for every disk, command set and timing, with resets between      *)
(* commands or interrupts forced at any time.                               *)
THEOREM NoByteIsLost ==
  ASSUME ServingHost PROVE Spec => []NoByteLost
<1> QED BY ServeInvariant, PTL

(* F7 writes two bytes: nothing replaces it in the data register between    *)
(* them.                                                                    *)
THEOREM CrcsArePairs ==
  ASSUME ServingHost PROVE Spec => CrcPair
<1> DEFINE Pair == t3 = "WRITE_TRACK" /\ is_crc /\ t3' = "WRITE_BYTE" => trk_dat_o' = CRC_LO
<1>1. ServeInv /\ [Next]_vars => [Pair]_vars
  <2> SUFFICES ASSUME ServeInv, Next, t3 = "WRITE_TRACK", is_crc, t3' = "WRITE_BYTE"
               PROVE  trk_dat_o' = CRC_LO
    OBVIOUS
  <2>1. data_i_r = 247
    BY DEF ServeInv, PairInv
  <2>2. T3WriteTrack
    BY DEF Next, Clock, Reset, Controller, TypeIII, T3Abort, T3Idle, T3ReadAddrWait, T3ReadAddr,
           T3WaitTrack, T3ReadTrack, T3WriteByte, T3Done
  <2> QED BY <2>1, <2>2 DEF T3WriteTrack
<1> QED BY <1>1, ServeInvariant, PTL DEF Spec, CrcPair
=============================================================================
