------------------------------- MODULE WD179x -------------------------------
(***************************************************************************)
(* The floppy disk controller of the TRS-80 platforms, wd179x.vhd.         *)
(*                                                                         *)
(* The entity is a set of clocked processes.  Every process reads the      *)
(* values the signals had before the clock edge, so one edge of the 20 MHz *)
(* clock is one step in which all processes move together: Controller is   *)
(* the conjunction of one operator per process, each of which gives the    *)
(* next value of the signals that process drives.  The host (the bus       *)
(* cycles the CPU makes) and the drive (the pins and the byte stream) are  *)
(* environment operators conjoined with it.                                *)
(*                                                                         *)
(* The serial side is modelled at the level of bytes; the process that     *)
(* reads them, PROC_I_DAM, is module IdamReader.                           *)
(***************************************************************************)
EXTENDS IdamReader, Sequences

CONSTANTS
  Commands,      \* command bytes the host may write
  DataVals,      \* bytes the host gives when data is requested
  SeekVals, TrackVals, SectorVals,   \* bytes it puts in the registers before
  TRACK_MOD,     \* 256: modulus of the 8 bit track register
  RNF_LIMIT,     \* 5: index pulses before "record not found"
  IP_MOD,        \* 16: modulus of the 4 bit index pulse counter
  StepClks,      \* clocks of STEP_WAIT for each of the four step rates
  STEP_PULSE,    \* 7: extra clocks the step output is held
  BYTE_CLKS,     \* 640: clocks in one byte of the disk
  TICK,          \* 20: clocks from a byte boundary to the next 1 MHz tick
  ACCESS_CLKS,   \* clocks the host holds one bus cycle
  Track,         \* for each byte of a track, what may be read there
  INDEX_LEN,     \* bytes the index pulse lasts
  WriteProtect, Track00,   \* values the write protect and track 0 pins take
  PROMPT,        \* the host serves each data request within the byte
  AHEAD,         \* it issues WRITE TRACK with a byte to spare before the index
  POLLING,       \* the host also reads the status before INTRQ is up
  RESETS,        \* the platform may be reset
  MID_COMMAND    \* also while a command runs

ASSUME TimingAssumption ==
  /\ BYTE_CLKS \in Nat /\ TICK \in Nat /\ ACCESS_CLKS \in Nat
  /\ ACCESS_CLKS >= 2 /\ 1 < TICK /\ TICK < BYTE_CLKS
ASSUME SizeAssumption ==
  /\ TRACK_MOD \in Nat \ {0}
  /\ RNF_LIMIT \in Nat /\ IP_MOD \in Nat \ {0} /\ STEP_PULSE \in Nat
  /\ StepClks \in [0..3 -> Nat]
ASSUME InputAssumption ==
  /\ Commands \subseteq 0..255 /\ SectorVals \subseteq Int
  /\ TrackVals \subseteq 0..(TRACK_MOD - 1) /\ DataVals \cup SeekVals \subseteq 0..(TRACK_MOD - 1)
  /\ WriteProtect \subseteq BOOLEAN /\ Track00 \subseteq BOOLEAN
  /\ INDEX_LEN \in Nat /\ Track \in Seq(SUBSET Bytes) /\ Len(Track) > 0
  /\ PROMPT \in BOOLEAN /\ AHEAD \in BOOLEAN /\ POLLING \in BOOLEAN
  /\ RESETS \in BOOLEAN /\ MID_COMMAND \in BOOLEAN

-----------------------------------------------------------------------------
(* The high nibble of a command selects it; the low bits are its flags.    *)
CMD_RESTORE      == {0}
CMD_SEEK         == {1}
CMD_STEP         == {2, 3}
CMD_STEP_IN      == {4, 5}
CMD_STEP_OUT     == {6, 7}
CMD_READ_SECTOR  == {8, 9}
CMD_WRITE_SECTOR == {10, 11}
CMD_READ_ADDRESS == {12}
CMD_FORCE_INTERRUPT == {13}
CMD_READ_TRACK   == {14}
CMD_WRITE_TRACK  == {15}

Is(c, nibbles) == (c \div 16) \in nibbles
Bit(c, weight) == (c \div weight) % 2 = 1
IsForce(c) == Is(c, CMD_FORCE_INTERRUPT)
IsTypeI(c) == c < 128
IsTypeII(c) == c >= 128 /\ c < 192
IsTypeIII(c) == c >= 192 /\ ~IsForce(c)

-----------------------------------------------------------------------------
VARIABLES
  (* the host *)
  bus,           \* bus cycle in progress: "none", "write", "status", "data"
  left,          \* clocks of it still to come
  hostWaits,     \* the host issued a command and has not seen it finish
  (* micro bus interface *)
  command_r, data_i_r, track_i_r, sector_i_r,
  cmd_wr_stb, trk_wr_stb, sec_wr_stb, irq_clr, drq_clr,
  (* PROC_IRQ, interrupt logic, PROC_DRQ, PROC_IP *)
  irq_mask, irq_set, intrq, irq_ip_r, ready_r, drq_s, ip_cnt, cnt_ip_r,
  (* PROC_CMD_SM *)
  cmd_state, type_stb, latch_status,
  (* PROC_TYPE_I and the step pulse *)
  t1, curr_track, dirc, step_count, track_r, seek_error,
  step_s, type_i_ip_clr, type_i_ack, step, pulse_count,
  (* the type II process *)
  t2, byte_count, sec_dat_o, type_ii_drq, type_ii_ack, type_ii_ip_clr, type_ii_wg,
  (* PROC_TYPE_III *)
  t3, t3_ip_r, is_crc, trk_dat_o, sector_r, type_iii_drq, type_iii_ack, type_iii_wg,
  (* PROC_WR *)
  write_data_written, wdw_r, media_wr,
  (* latched status *)
  s3_crc_error, s4_rnf, s4_seek_error, s5_record_type,
  (* the drive's pins and byte clock *)
  slot, pos, ip, tr00, ready, wprt

hostVars == <<bus, left, hostWaits>>
busVars == <<command_r, data_i_r, track_i_r, sector_i_r,
             cmd_wr_stb, trk_wr_stb, sec_wr_stb, irq_clr, drq_clr>>
irqVars == <<irq_set, intrq, irq_ip_r, ready_r, drq_s, ip_cnt, cnt_ip_r>>
cmdVars == <<irq_mask, cmd_state, type_stb, latch_status>>
t1Vars == <<t1, curr_track, dirc, step_count, track_r, seek_error,
            step_s, type_i_ip_clr, type_i_ack>>
stepVars == <<step, pulse_count>>
t2Vars == <<t2, byte_count, sec_dat_o, type_ii_drq, type_ii_ack, type_ii_ip_clr, type_ii_wg>>
t3Vars == <<t3, t3_ip_r, is_crc, trk_dat_o, sector_r, type_iii_drq, type_iii_ack, type_iii_wg>>
writeVars == <<write_data_written, wdw_r, media_wr>>
statusVars == <<s3_crc_error, s4_rnf, s4_seek_error, s5_record_type>>
driveVars == <<slot, pos, raw, ip, tr00, ready, wprt>>
vars == <<hostVars, busVars, irqVars, cmdVars, t1Vars, stepVars, t2Vars, t3Vars,
          readVars, writeVars, statusVars, driveVars>>

-----------------------------------------------------------------------------
(* The host and the bus interface process.  A bus cycle lasts ACCESS_CLKS  *)
(* clocks.  A write acts on its leading edge.  A read is not edge detected *)
(* (re_n_r keeps the value reset gave it), so it clears INTRQ or DRQ on    *)
(* every clock it is held.                                                 *)

Strobes(cmd, trk, sec) ==
  cmd_wr_stb' = cmd /\ trk_wr_stb' = trk /\ sec_wr_stb' = sec

Clears_NotByBus(irq, drq) ==   \* mutant: accesses do not clear INTRQ
  /\ irq_clr' = (type_stb = "IV")
  /\ drq_clr' = drq

Clears(irq, drq) ==   \* a FORCE INTERRUPT clears INTRQ a second time
  /\ irq_clr' = (irq \/ type_stb = "IV")
  /\ drq_clr' = drq

Starts(kind) == left = 0 /\ bus' = kind /\ left' = ACCESS_CLKS - 1

(* A prompt host, once it sees DRQ, starts no other cycle before it has    *)
(* served it, with a read or a write as the command asks.                  *)
MustServe == PROMPT /\ drq_s
WritesDisk == Is(command_r, CMD_WRITE_SECTOR \cup CMD_WRITE_TRACK)

NextPos == IF pos = Len(Track) THEN 1 ELSE pos + 1

(* The host issues a command other than FORCE INTERRUPT, and touches the   *)
(* registers, only while it waits for no other.  With AHEAD, WRITE TRACK   *)
(* is issued only if the index pulse does not start with the next tick.    *)
WriteCommand(c) ==
  /\ Starts("write")
  /\ IsForce(c) \/ ~hostWaits
  /\ AHEAD /\ Is(c, CMD_WRITE_TRACK) => ip \/ NextPos > INDEX_LEN
  /\ command_r' = c
  /\ hostWaits' = ~IsForce(c)
  /\ Strobes(TRUE, FALSE, FALSE) /\ Clears(TRUE, FALSE)
  /\ UNCHANGED <<data_i_r, track_i_r, sector_i_r>>

WriteTrack(v) ==
  /\ Starts("write") /\ ~hostWaits
  /\ track_i_r' = v
  /\ Strobes(FALSE, TRUE, FALSE) /\ Clears(FALSE, FALSE)
  /\ UNCHANGED <<hostWaits, command_r, data_i_r, sector_i_r>>

WriteSector(v) ==
  /\ Starts("write") /\ ~hostWaits
  /\ sector_i_r' = v
  /\ Strobes(FALSE, FALSE, TRUE) /\ Clears(FALSE, FALSE)
  /\ UNCHANGED <<hostWaits, command_r, data_i_r, track_i_r>>

WriteData(v) ==
  /\ Starts("write")
  /\ data_i_r' = v
  /\ Strobes(FALSE, FALSE, FALSE) /\ Clears(FALSE, TRUE)
  /\ UNCHANGED <<hostWaits, command_r, track_i_r, sector_i_r>>

Read(kind) ==
  /\ Starts(kind)
  /\ Strobes(FALSE, FALSE, FALSE) /\ Clears(kind = "status", kind = "data")
  /\ UNCHANGED <<hostWaits, command_r, data_i_r, track_i_r, sector_i_r>>

(* The rest of a bus cycle.  The host takes what a status read shows at    *)
(* its end: not busy means that its command is over.                       *)
HoldAccess ==
  /\ left > 0 /\ left' = left - 1
  /\ bus' = IF left = 1 THEN "none" ELSE bus
  /\ hostWaits' = (hostWaits /\ ~(bus = "status" /\ left = 1 /\ cmd_state = "IDLE"))
  /\ Strobes(FALSE, FALSE, FALSE) /\ Clears(bus = "status", bus = "data")
  /\ UNCHANGED <<command_r, data_i_r, track_i_r, sector_i_r>>

NoAccess ==
  /\ left = 0
  /\ Strobes(FALSE, FALSE, FALSE) /\ Clears(FALSE, FALSE)
  /\ UNCHANGED <<hostVars, command_r, data_i_r, track_i_r, sector_i_r>>

Host ==
  \/ HoldAccess
  \/ Read("data") /\ (PROMPT => drq_s /\ ~WritesDisk)
  \/ \E v \in DataVals : WriteData(v) /\ drq_s /\ (PROMPT => WritesDisk)
  \/ /\ ~MustServe
     /\ \/ NoAccess
        \/ Read("status") /\ (POLLING \/ intrq)
        \/ \E c \in Commands : WriteCommand(c)
        \/ \E v \in SeekVals : WriteData(v) /\ ~hostWaits
        \/ \E v \in TrackVals : WriteTrack(v)
        \/ \E v \in SectorVals : WriteSector(v)

-----------------------------------------------------------------------------
(* Interrupt, data request and index pulse processes.                      *)

cmd_ack == type_i_ack \/ type_ii_ack \/ type_iii_ack

ProcIrq_ClearFirst ==   \* mutant: a clear wins over a set
  intrq' = (~irq_clr /\ (irq_set \/ intrq))

ProcIrq ==
  intrq' = IF irq_set THEN TRUE ELSE intrq /\ ~irq_clr

InterruptLogic_NoAck ==   \* mutant: the end of a command is left out
  /\ irq_set' = \/ Bit(irq_mask, 8)
                \/ ~irq_ip_r /\ ip /\ Bit(irq_mask, 4)
                \/ ready_r /\ ~ready /\ Bit(irq_mask, 2)
                \/ ~ready_r /\ ready /\ Bit(irq_mask, 1)
  /\ irq_ip_r' = ip
  /\ ready_r' = ready

InterruptLogic ==
  /\ irq_set' = \/ Bit(irq_mask, 8)
                \/ ~irq_ip_r /\ ip /\ Bit(irq_mask, 4)
                \/ ready_r /\ ~ready /\ Bit(irq_mask, 2)
                \/ ~ready_r /\ ready /\ Bit(irq_mask, 1)
                \/ cmd_ack
  /\ irq_ip_r' = ip
  /\ ready_r' = ready

ProcDrq_NoClear ==   \* mutant: DRQ is not cleared by the access that serves it
  drq_s' = (type_ii_drq \/ type_iii_drq \/ drq_s)

ProcDrq ==
  drq_s' = IF type_ii_drq \/ type_iii_drq THEN TRUE ELSE drq_s /\ ~drq_clr

ProcIp ==
  /\ ip_cnt' = IF type_i_ip_clr \/ type_ii_ip_clr THEN 0
               ELSE IF ~cnt_ip_r /\ ip THEN (ip_cnt + 1) % IP_MOD
               ELSE ip_cnt
  /\ cnt_ip_r' = ip

rnf_error == ip_cnt >= RNF_LIMIT

-----------------------------------------------------------------------------
(* PROC_CMD_SM: starts the processor of a command and waits for its ack.   *)

CmdForce_WideMask ==   \* mutant: the whole command byte goes into the mask
  /\ cmd_wr_stb /\ IsForce(command_r)
  /\ irq_mask' = command_r
  /\ type_stb' = "IV"
  /\ latch_status' = FALSE
  /\ cmd_state' = "IDLE"

CmdForce_StaysBusy ==   \* mutant: FORCE INTERRUPT leaves the busy state as it is
  /\ cmd_wr_stb /\ IsForce(command_r)
  /\ irq_mask' = command_r % 16
  /\ type_stb' = "IV"
  /\ latch_status' = FALSE
  /\ UNCHANGED cmd_state

CmdForce ==
  /\ cmd_wr_stb /\ IsForce(command_r)
  /\ irq_mask' = command_r % 16
  /\ type_stb' = "IV"
  /\ latch_status' = FALSE
  /\ cmd_state' = "IDLE"

CmdIdle ==
  /\ ~(cmd_wr_stb /\ IsForce(command_r)) /\ cmd_state = "IDLE"
  /\ type_stb' = IF ~cmd_wr_stb THEN "none"
                 ELSE IF IsTypeI(command_r) THEN "I"
                 ELSE IF IsTypeII(command_r) THEN "II" ELSE "III"
  /\ cmd_state' = IF cmd_wr_stb THEN "WAIT_FOR_CMD" ELSE "IDLE"
  /\ latch_status' = FALSE
  /\ UNCHANGED irq_mask

CmdWait_Restarts ==   \* mutant: a command written while busy is started as well
  /\ ~(cmd_wr_stb /\ IsForce(command_r)) /\ cmd_state = "WAIT_FOR_CMD"
  /\ type_stb' = IF ~cmd_wr_stb THEN "none" ELSE IF IsTypeI(command_r) THEN "I"
                 ELSE IF IsTypeII(command_r) THEN "II" ELSE "III"
  /\ latch_status' = cmd_ack
  /\ cmd_state' = IF cmd_ack THEN "IDLE" ELSE "WAIT_FOR_CMD"
  /\ UNCHANGED irq_mask

CmdWait ==
  /\ ~(cmd_wr_stb /\ IsForce(command_r)) /\ cmd_state = "WAIT_FOR_CMD"
  /\ type_stb' = "none"
  /\ latch_status' = cmd_ack
  /\ cmd_state' = IF cmd_ack THEN "IDLE" ELSE "WAIT_FOR_CMD"
  /\ UNCHANGED irq_mask

ProcCmd == CmdForce \/ CmdIdle \/ CmdWait

cmd_busy == cmd_state # "IDLE"

-----------------------------------------------------------------------------
(* PROC_TYPE_I: RESTORE, SEEK and the STEP commands.                       *)

Aborted == type_stb = "IV"
LoadedTrack == IF trk_wr_stb THEN track_i_r ELSE track_r

T1Abort ==
  /\ Aborted /\ t1' = "IDLE" /\ track_r' = LoadedTrack
  /\ UNCHANGED <<curr_track, dirc, step_count, seek_error>>

T1Start ==
  /\ t1 = "IDLE" /\ type_stb = "I"
  /\ curr_track' = track_r
  /\ seek_error' = FALSE
  /\ t1' = IF Is(command_r, CMD_RESTORE) THEN "RESTORE"
           ELSE IF Is(command_r, CMD_SEEK) THEN "SEEK"
           ELSE IF IsTypeI(command_r) THEN "STEPIO" ELSE "DONE"
  /\ dirc' = IF Is(command_r, CMD_SEEK)
             THEN IF track_r < data_i_r THEN "in" ELSE "out"
             ELSE IF Is(command_r, CMD_STEP_IN) THEN "in"
             ELSE IF Is(command_r, CMD_RESTORE \cup CMD_STEP_OUT) THEN "out"
             ELSE dirc
  /\ track_r' = LoadedTrack
  /\ UNCHANGED step_count

T1Restore_NoTrack0 ==   \* mutant: the track 0 switch is not looked at
  /\ t1 = "RESTORE" /\ t1' = "STEPIO" /\ track_r' = LoadedTrack
  /\ UNCHANGED <<curr_track, dirc, step_count, seek_error>>

T1Restore ==
  /\ t1 = "RESTORE"
  /\ IF tr00 THEN /\ curr_track' = 0 /\ track_r' = 0
                  /\ t1' = "VERIFY"
             ELSE /\ t1' = "STEPIO" /\ track_r' = LoadedTrack
                  /\ UNCHANGED curr_track
  /\ UNCHANGED <<dirc, step_count, seek_error>>

T1Seek ==
  /\ t1 = "SEEK"
  /\ t1' = IF curr_track # data_i_r THEN "STEPIO" ELSE "UPDATE"
  /\ track_r' = LoadedTrack
  /\ UNCHANGED <<curr_track, dirc, step_count, seek_error>>

T1Step ==
  /\ t1 = "STEPIO"
  /\ curr_track' = IF dirc = "in" THEN (curr_track + 1) % TRACK_MOD
                   ELSE IF curr_track # 0 THEN curr_track - 1 ELSE 0
  /\ step_count' = StepClks[command_r % 4]
  /\ t1' = "STEP_WAIT"
  /\ track_r' = LoadedTrack
  /\ UNCHANGED <<dirc, seek_error>>

T1StepWait_NoWait ==   \* mutant: the step rate is not waited for
  /\ t1 = "STEP_WAIT"
  /\ t1' = IF Is(command_r, CMD_RESTORE) THEN "RESTORE"
           ELSE IF Is(command_r, CMD_SEEK) THEN "SEEK" ELSE "UPDATE"
  /\ track_r' = LoadedTrack
  /\ UNCHANGED <<curr_track, dirc, step_count, seek_error>>

T1StepWait ==
  /\ t1 = "STEP_WAIT"
  /\ IF step_count = 0
     THEN /\ t1' = IF Is(command_r, CMD_RESTORE) THEN "RESTORE"
                   ELSE IF Is(command_r, CMD_SEEK) THEN "SEEK" ELSE "UPDATE"
          /\ UNCHANGED step_count
     ELSE step_count' = step_count - 1 /\ UNCHANGED t1
  /\ track_r' = LoadedTrack
  /\ UNCHANGED <<curr_track, dirc, seek_error>>

T1Update_NoUpdate ==   \* mutant: the track register is not updated
  /\ t1 = "UPDATE" /\ t1' = "VERIFY"
  /\ track_r' = LoadedTrack
  /\ UNCHANGED <<curr_track, dirc, step_count, seek_error>>

T1Update ==   \* TRK_UPD_F
  /\ t1 = "UPDATE"
  /\ track_r' = IF Bit(command_r, 16) THEN curr_track ELSE LoadedTrack
  /\ t1' = "VERIFY"
  /\ UNCHANGED <<curr_track, dirc, step_count, seek_error>>

T1Verify ==
  /\ t1 = "VERIFY" /\ t1' = "VERIFY_WAIT_IDAM"
  /\ track_r' = LoadedTrack
  /\ UNCHANGED <<curr_track, dirc, step_count, seek_error>>

T1VerifyWaitIdam ==   \* VERIFY_F; the first mark only synchronises
  /\ t1 = "VERIFY_WAIT_IDAM"
  /\ seek_error' = (seek_error \/ rnf_error)
  /\ t1' = IF rnf_error \/ ~Bit(command_r, 4) THEN "DONE"
           ELSE IF "id_mark" \in rdy THEN "VERIFY_IDAM" ELSE t1
  /\ track_r' = LoadedTrack
  /\ UNCHANGED <<curr_track, dirc, step_count>>

T1VerifyIdam_AnyTrack ==   \* mutant: the ID is not compared with the track
  /\ t1 = "VERIFY_IDAM"
  /\ seek_error' = (seek_error \/ rnf_error)
  /\ t1' = IF rnf_error \/ "id_mark" \in rdy THEN "DONE" ELSE t1
  /\ track_r' = LoadedTrack
  /\ UNCHANGED <<curr_track, dirc, step_count>>

T1VerifyIdam ==
  /\ t1 = "VERIFY_IDAM"
  /\ seek_error' = (seek_error \/ rnf_error)
  /\ t1' = IF rnf_error \/ ("id_mark" \in rdy /\ curr_track = idam_track)
           THEN "DONE" ELSE t1
  /\ track_r' = LoadedTrack
  /\ UNCHANGED <<curr_track, dirc, step_count>>

T1Rest ==   \* IDLE with nothing to do, and DONE
  /\ t1 = "DONE" \/ (t1 = "IDLE" /\ type_stb # "I")
  /\ t1' = "IDLE" /\ track_r' = LoadedTrack
  /\ UNCHANGED <<curr_track, dirc, step_count, seek_error>>

TypeI ==
  /\ step_s' = (~Aborted /\ t1 = "STEPIO")
  /\ type_i_ip_clr' = (~Aborted /\ t1 = "VERIFY")
  /\ type_i_ack' = (~Aborted /\ t1 = "DONE")
  /\ \/ T1Abort
     \/ /\ ~Aborted
        /\ \/ T1Start \/ T1Restore \/ T1Seek \/ T1Step \/ T1StepWait \/ T1Update
           \/ T1Verify \/ T1VerifyWaitIdam \/ T1VerifyIdam \/ T1Rest

StepPulse ==   \* the step pulse is held for STEP_PULSE more clocks
  /\ pulse_count' = IF step_s THEN STEP_PULSE
                    ELSE IF pulse_count = 0 THEN 0 ELSE pulse_count - 1
  /\ step' = (step_s \/ (step /\ pulse_count # 0))

-----------------------------------------------------------------------------
(* The type II process: READ SECTOR and WRITE SECTOR.                      *)

ReadsSector == Is(command_r, CMD_READ_SECTOR)
WritesSector == Is(command_r, CMD_WRITE_SECTOR)
ByteWritten == ~wdw_r /\ write_data_written    \* leading edge
LastByte_Early == byte_count = SECTOR_LEN - 2   \* mutants: off by one, both ways
LastByte_Late == byte_count = SECTOR_LEN

LastByte == byte_count = SECTOR_LEN - 1

T2Abort ==   \* leaves the write gate as it is
  /\ Aborted /\ t2' = "IDLE"
  /\ UNCHANGED <<byte_count, sec_dat_o, type_ii_wg>>

T2Idle ==
  /\ t2 = "IDLE"
  /\ t2' = IF type_stb = "II" THEN "WAIT_IDAM" ELSE "IDLE"
  /\ UNCHANGED <<byte_count, sec_dat_o, type_ii_wg>>

IdMatches_Any == "id_mark" \in rdy   \* mutant: the sector is not compared

IdMatches == "id_mark" \in rdy /\ idam_sector = sector_r

T2WaitIdam_Forever ==   \* mutant: index pulses do not end the search
  /\ t2 = "WAIT_IDAM"
  /\ t2' = IF IdMatches THEN "WAIT_DAM" ELSE t2
  /\ UNCHANGED <<byte_count, sec_dat_o, type_ii_wg>>

T2WaitIdam ==
  /\ t2 = "WAIT_IDAM"
  /\ t2' = IF rnf_error THEN "DONE" ELSE IF IdMatches THEN "WAIT_DAM" ELSE t2
  /\ UNCHANGED <<byte_count, sec_dat_o, type_ii_wg>>

T2WaitDam ==
  /\ t2 = "WAIT_DAM"
  /\ byte_count' = 0
  /\ LET write == ~rnf_error /\ WritesSector /\ "data_mark_next" \in rdy
         read  == ~rnf_error /\ ReadsSector /\ "data_mark" \in rdy
     IN /\ t2' = IF rnf_error THEN "DONE" ELSE IF write THEN "WRITE_SECTOR_DAM"
                 ELSE IF read THEN "READ_SECTOR" ELSE t2
        /\ type_ii_wg' = (type_ii_wg \/ write)
  /\ UNCHANGED sec_dat_o

T2ReadSector ==
  /\ t2 = "READ_SECTOR"
  /\ IF "user_data" \in rdy
     THEN /\ t2' = IF LastByte THEN "WAIT_CRC" ELSE t2
          /\ byte_count' = IF LastByte THEN byte_count ELSE byte_count + 1
     ELSE UNCHANGED <<t2, byte_count>>
  /\ UNCHANGED <<sec_dat_o, type_ii_wg>>

(* "if user_crc_rdy <= '1'" compares: it is true whatever user_crc_rdy is. *)
T2WaitCrc ==
  /\ t2 = "WAIT_CRC" /\ t2' = "DONE"
  /\ UNCHANGED <<byte_count, sec_dat_o, type_ii_wg>>

DamToWrite == IF Bit(command_r, 1) THEN 248 ELSE 251

T2WriteDam ==
  /\ t2 = "WRITE_SECTOR_DAM"
  /\ sec_dat_o' = DamToWrite
  /\ t2' = IF ByteWritten THEN "WRITE_SECTOR_DATA" ELSE t2
  /\ UNCHANGED <<byte_count, type_ii_wg>>

T2WriteData ==
  /\ t2 = "WRITE_SECTOR_DATA"
  /\ sec_dat_o' = data_i_r
  /\ t2' = IF ByteWritten /\ LastByte THEN "DONE" ELSE t2
  /\ byte_count' = IF ByteWritten /\ ~LastByte THEN byte_count + 1 ELSE byte_count
  /\ UNCHANGED type_ii_wg

T2Done ==
  /\ t2 = "DONE" /\ t2' = "IDLE"
  /\ type_ii_wg' = FALSE
  /\ UNCHANGED <<byte_count, sec_dat_o>>

(* Data requests: at the ID mark for the first byte of a write, for each   *)
(* byte read, and for each byte written but the last.                      *)
TypeIIDrq ==
  /\ ~Aborted
  /\ \/ t2 = "WAIT_IDAM" /\ ~rnf_error /\ IdMatches /\ WritesSector
     \/ t2 = "READ_SECTOR" /\ "user_data" \in rdy
     \/ t2 = "WRITE_SECTOR_DATA" /\ ByteWritten /\ ~LastByte

TypeII ==
  /\ type_ii_drq' = TypeIIDrq
  /\ type_ii_ack' = (~Aborted /\ t2 = "DONE")
  /\ type_ii_ip_clr' = (~Aborted /\ t2 = "IDLE" /\ type_stb = "II")
  /\ \/ T2Abort
     \/ /\ ~Aborted
        /\ \/ T2Idle \/ T2WaitIdam \/ T2WaitDam \/ T2ReadSector \/ T2WaitCrc
           \/ T2WriteDam \/ T2WriteData \/ T2Done

-----------------------------------------------------------------------------
(* PROC_TYPE_III: READ ADDRESS, READ TRACK and WRITE TRACK.                *)

LoadedSector == IF sec_wr_stb THEN sector_i_r ELSE sector_r
IndexEdge == ~t3_ip_r /\ ip     \* leading edge of the index pulse

T3Abort ==   \* leaves the write gate as it is
  /\ Aborted /\ t3' = "IDLE" /\ sector_r' = LoadedSector
  /\ UNCHANGED <<is_crc, trk_dat_o, type_iii_wg>>

T3Idle ==
  /\ t3 = "IDLE"
  /\ t3' = IF type_stb # "III" THEN "IDLE"
           ELSE IF Is(command_r, CMD_READ_ADDRESS) THEN "READ_ADDR_WAIT"
           ELSE IF Is(command_r, CMD_READ_TRACK) THEN "WAIT_TRACK"
           ELSE IF Is(command_r, CMD_WRITE_TRACK) /\ ~wprt THEN "WAIT_TRACK"
           ELSE "DONE"
  /\ sector_r' = LoadedSector
  /\ UNCHANGED <<is_crc, trk_dat_o, type_iii_wg>>

T3ReadAddrWait ==
  /\ t3 = "READ_ADDR_WAIT"
  /\ t3' = IF "id_mark" \in rdy THEN "READ_ADDR" ELSE t3
  /\ sector_r' = LoadedSector
  /\ UNCHANGED <<is_crc, trk_dat_o, type_iii_wg>>

T3ReadAddr ==
  /\ t3 = "READ_ADDR"
  /\ IF "id_mark" \in rdy THEN sector_r' = idam_track /\ t3' = "DONE"
                          ELSE sector_r' = LoadedSector /\ UNCHANGED t3
  /\ UNCHANGED <<is_crc, trk_dat_o, type_iii_wg>>

T3WaitTrack ==
  /\ t3 = "WAIT_TRACK"
  /\ LET write == IndexEdge /\ ~Is(command_r, CMD_READ_TRACK)
     IN /\ t3' = IF ~IndexEdge THEN t3
                 ELSE IF write THEN "WRITE_TRACK" ELSE "READ_TRACK"
        /\ type_iii_wg' = (type_iii_wg \/ write)
        /\ is_crc' = (is_crc /\ ~write)
  /\ sector_r' = LoadedSector
  /\ UNCHANGED trk_dat_o

T3ReadTrack ==
  /\ t3 = "READ_TRACK"
  /\ t3' = IF IndexEdge THEN "DONE" ELSE t3
  /\ sector_r' = LoadedSector
  /\ UNCHANGED <<is_crc, trk_dat_o, type_iii_wg>>

(* F5 writes A1 and presets the CRC, F6 writes C2, F7 writes the two bytes *)
(* of the CRC on two passes through this state.                            *)
T3WriteTrack ==
  /\ t3 = "WRITE_TRACK"
  /\ IF IndexEdge
     THEN t3' = "DONE" /\ UNCHANGED <<is_crc, trk_dat_o>>
     ELSE /\ t3' = "WRITE_BYTE"
          /\ is_crc' = (data_i_r = 247 /\ ~is_crc)
          /\ trk_dat_o' = CASE data_i_r = 245 -> XA1
                            [] data_i_r = 246 -> 194
                            [] data_i_r = 247 -> IF is_crc THEN CRC_LO ELSE CRC_HI
                            [] OTHER -> data_i_r
  /\ sector_r' = LoadedSector
  /\ UNCHANGED type_iii_wg

T3WriteByte ==
  /\ t3 = "WRITE_BYTE"
  /\ t3' = IF IndexEdge THEN "DONE" ELSE IF ByteWritten THEN "WRITE_TRACK" ELSE t3
  /\ sector_r' = LoadedSector
  /\ UNCHANGED <<is_crc, trk_dat_o, type_iii_wg>>

T3Done_GateOpen ==   \* mutant: the write gate is not closed
  /\ t3 = "DONE" /\ t3' = "IDLE"
  /\ sector_r' = LoadedSector
  /\ UNCHANGED <<is_crc, trk_dat_o, type_iii_wg>>

T3Done ==
  /\ t3 = "DONE" /\ t3' = "IDLE"
  /\ type_iii_wg' = FALSE
  /\ sector_r' = LoadedSector
  /\ UNCHANGED <<is_crc, trk_dat_o>>

TypeIIIDrq_MidCrc ==   \* mutant: a byte is requested between the CRC's two
  /\ ~Aborted
  /\ \/ /\ t3 = "IDLE" /\ type_stb = "III"
        /\ Is(command_r, CMD_WRITE_TRACK) /\ ~wprt
     \/ t3 = "READ_ADDR" /\ "addr_data" \in rdy
     \/ t3 = "READ_TRACK" /\ ~IndexEdge /\ raw # NoByte
     \/ t3 = "WRITE_TRACK" /\ ~IndexEdge

(* No data request between the two bytes of a CRC.                         *)
TypeIIIDrq ==
  /\ ~Aborted
  /\ \/ /\ t3 = "IDLE" /\ type_stb = "III"
        /\ Is(command_r, CMD_WRITE_TRACK) /\ ~wprt
     \/ t3 = "READ_ADDR" /\ "addr_data" \in rdy
     \/ t3 = "READ_TRACK" /\ ~IndexEdge /\ raw # NoByte
     \/ t3 = "WRITE_TRACK" /\ ~IndexEdge /\ ~(data_i_r = 247 /\ ~is_crc)

TypeIII ==
  /\ type_iii_drq' = TypeIIIDrq
  /\ type_iii_ack' = (~Aborted /\ t3 = "DONE")
  /\ t3_ip_r' = ip
  /\ \/ T3Abort
     \/ /\ ~Aborted
        /\ \/ T3Idle \/ T3ReadAddrWait \/ T3ReadAddr \/ T3WaitTrack
           \/ T3ReadTrack \/ T3WriteTrack \/ T3WriteByte \/ T3Done

-----------------------------------------------------------------------------
(* PROC_WR's byte clock, the strobe with which floppy_if hands a byte to   *)
(* the medium one clock later, and the status latch.                       *)

wg == type_ii_wg \/ type_iii_wg
wr_dat_s == IF Bit(command_r, 64) THEN trk_dat_o ELSE sec_dat_o

WriteLogic ==
  /\ write_data_written' = IF slot = 0 THEN wg
                           ELSE IF slot = TICK THEN FALSE ELSE write_data_written
  /\ wdw_r' = write_data_written
  /\ media_wr' = (slot = 1 /\ wg)

StatusLatch ==
  IF latch_status
  THEN /\ s3_crc_error' = crc_error
       /\ s4_rnf' = rnf_error
       /\ s4_seek_error' = seek_error
       /\ s5_record_type' = (idam_dam % 4 = 0)
  ELSE UNCHANGED statusVars

-----------------------------------------------------------------------------
(* The drive.  A byte ends at slot 0 and is handed over at slot 1; the     *)
(* head moves to the next byte of the track, and the other pins change,    *)
(* with the 1 MHz tick.  Track[p] is the set of bytes the read head may    *)
(* find at place p: one byte where the medium is good, more where it is    *)
(* damaged.                                                                *)

ByteClock == slot' = (slot + 1) % BYTE_CLKS

DriveReads(found) ==
  /\ ByteClock
  /\ IF slot = 1 THEN raw' \in found ELSE raw' = NoByte
  /\ IF slot = TICK
     THEN pos' = NextPos /\ ip' = (NextPos <= INDEX_LEN) /\ wprt' \in WriteProtect
     ELSE UNCHANGED <<pos, ip, wprt>>
  /\ UNCHANGED ready

Drive ==   \* with track 0 wherever the environment wants it
  /\ DriveReads(Track[pos])
  /\ IF slot = TICK THEN tr00' \in Track00 ELSE UNCHANGED tr00

-----------------------------------------------------------------------------
(* A reset of the platform.  It does not reach every register: PROC_CMD_SM *)
(* has an empty reset branch, the strobes keep their values, and the write *)
(* gate of type III is not in the list.                                    *)

Reset ==
  /\ RESETS
  /\ cmd_busy \/ cmd_wr_stb => MID_COMMAND
  /\ irq_clr' = FALSE /\ drq_clr' = FALSE
  /\ intrq' = FALSE /\ irq_set' = FALSE /\ irq_ip_r' = FALSE /\ ready_r' = FALSE
  /\ drq_s' = FALSE /\ ip_cnt' = 0
  /\ curr_track' = 0 /\ track_r' = 0 /\ seek_error' = FALSE /\ t1' = "IDLE" /\ dirc' = "out"
  /\ type_ii_drq' = FALSE /\ type_ii_ack' = FALSE /\ type_ii_ip_clr' = FALSE
  /\ type_ii_wg' = FALSE /\ t2' = "IDLE"
  /\ t3_ip_r' = FALSE /\ is_crc' = FALSE /\ sector_r' = 0
  /\ type_iii_drq' = FALSE /\ type_iii_ack' = FALSE /\ t3' = "IDLE"
  /\ idam_track' = 0 /\ idam_sector' = 0 /\ idam_dam' = 0 /\ rd' = "UNKNOWN"
  /\ write_data_written' = FALSE /\ wdw_r' = FALSE /\ media_wr' = FALSE
  /\ step' = FALSE /\ pulse_count' = 0
  /\ slot' = 0 /\ pos' = 1 /\ ip' = FALSE
  /\ hostWaits' = FALSE /\ bus' = "none" /\ left' = 0   \* the CPU is reset too
  /\ UNCHANGED <<command_r, data_i_r, track_i_r, sector_i_r,
                 cmd_wr_stb, trk_wr_stb, sec_wr_stb, cnt_ip_r, cmdVars,
                 step_count, step_s, type_i_ip_clr, type_i_ack, byte_count, sec_dat_o,
                 trk_dat_o, type_iii_wg, rd_count, rdy, crc_error, data_o_r,
                 statusVars, raw, tr00, ready, wprt>>

-----------------------------------------------------------------------------
Controller ==
  /\ ProcIrq /\ InterruptLogic /\ ProcDrq /\ ProcIp /\ ProcCmd
  /\ TypeI /\ StepPulse /\ TypeII /\ TypeIII
  /\ ReadLogic /\ WriteLogic /\ StatusLatch

Init ==
  /\ ReaderInit
  /\ bus = "none" /\ left = 0 /\ hostWaits = FALSE
  /\ command_r = 0 /\ data_i_r = 0 /\ track_i_r = 0 /\ sector_i_r = 0
  /\ cmd_wr_stb = FALSE /\ trk_wr_stb = FALSE /\ sec_wr_stb = FALSE
  /\ irq_clr = FALSE /\ drq_clr = FALSE
  /\ irq_mask = 0 /\ irq_set = FALSE /\ intrq = FALSE /\ irq_ip_r = FALSE
  /\ ready_r = FALSE /\ drq_s = FALSE /\ ip_cnt = 0 /\ cnt_ip_r = FALSE
  /\ cmd_state = "IDLE" /\ type_stb = "none" /\ latch_status = FALSE
  /\ t1 = "IDLE" /\ curr_track = 0 /\ dirc = "out" /\ step_count = 0
  /\ track_r = 0 /\ seek_error = FALSE /\ step_s = FALSE
  /\ type_i_ip_clr = FALSE /\ type_i_ack = FALSE /\ step = FALSE /\ pulse_count = 0
  /\ t2 = "IDLE" /\ byte_count = 0 /\ sec_dat_o = 0 /\ type_ii_drq = FALSE
  /\ type_ii_ack = FALSE /\ type_ii_ip_clr = FALSE /\ type_ii_wg = FALSE
  /\ t3 = "IDLE" /\ t3_ip_r = FALSE /\ is_crc = FALSE /\ trk_dat_o = 0
  /\ sector_r = 0 /\ type_iii_drq = FALSE /\ type_iii_ack = FALSE /\ type_iii_wg = FALSE
  /\ write_data_written = FALSE /\ wdw_r = FALSE /\ media_wr = FALSE
  /\ s3_crc_error = FALSE /\ s4_rnf = FALSE /\ s4_seek_error = FALSE /\ s5_record_type = FALSE
  /\ slot = 0 /\ pos = 1 /\ ip = FALSE /\ ready = TRUE
  /\ tr00 \in Track00 /\ wprt \in WriteProtect

Clock == Host /\ Drive /\ Controller
Next == Clock \/ Reset
Spec == Init /\ [][Next]_vars
FairSpec == Spec /\ WF_vars(Clock)

-----------------------------------------------------------------------------
(* Properties of the controller alone.                                     *)

T1States == {"IDLE", "RESTORE", "SEEK", "STEPIO", "STEP_WAIT", "UPDATE", "VERIFY",
             "VERIFY_WAIT_IDAM", "VERIFY_IDAM", "DONE"}
T2States == {"IDLE", "WAIT_IDAM", "WAIT_DAM", "READ_SECTOR", "WAIT_CRC",
             "WRITE_SECTOR_DAM", "WRITE_SECTOR_DATA", "DONE"}
T3States == {"IDLE", "READ_ADDR_WAIT", "READ_ADDR", "WAIT_TRACK", "READ_TRACK",
             "WRITE_TRACK", "WRITE_BYTE", "DONE"}

(* The ranges of the signals, process by process.                          *)
BusOK ==
  /\ bus \in {"none", "write", "status", "data"} /\ left \in 0..(ACCESS_CLKS - 1)
  /\ command_r \in Commands \cup {0} /\ data_i_r \in DataVals \cup SeekVals \cup {0}
  /\ track_i_r \in TrackVals \cup {0} /\ sector_i_r \in SectorVals \cup {0}
  /\ hostWaits \in BOOLEAN /\ cmd_wr_stb \in BOOLEAN /\ irq_clr \in BOOLEAN /\ drq_clr \in BOOLEAN

IrqOK ==
  /\ irq_mask \in 0..15 /\ ip_cnt \in 0..(IP_MOD - 1)
  /\ irq_set \in BOOLEAN /\ intrq \in BOOLEAN /\ drq_s \in BOOLEAN
  /\ cmd_state \in {"IDLE", "WAIT_FOR_CMD"}
  /\ type_stb \in {"none", "I", "II", "III", "IV"} /\ latch_status \in BOOLEAN

TypeIOK ==
  /\ t1 \in T1States /\ curr_track \in 0..(TRACK_MOD - 1) /\ dirc \in {"in", "out"}
  /\ track_r \in 0..(TRACK_MOD - 1) /\ step_count \in Nat /\ type_i_ack \in BOOLEAN

TypeIIOK ==
  /\ t2 \in T2States /\ byte_count \in 0..(SECTOR_LEN - 1)
  /\ type_ii_ack \in BOOLEAN /\ type_ii_wg \in BOOLEAN

TypeIIIOK == t3 \in T3States /\ type_iii_ack \in BOOLEAN /\ type_iii_wg \in BOOLEAN

DriveOK == slot \in 0..(BYTE_CLKS - 1) /\ pos \in 1..Len(Track)

(* Every signal stays in the range its declaration gives it; in particular *)
(* the track counter cannot leave the width of its register and the byte   *)
(* counter never passes the last byte of a sector.                         *)
TypeOK == BusOK /\ IrqOK /\ TypeIOK /\ TypeIIOK /\ TypeIIIOK /\ DriveOK

Working == {p \in {"I", "II", "III"} :
              CASE p = "I" -> t1 # "IDLE" [] p = "II" -> t2 # "IDLE" [] OTHER -> t3 # "IDLE"}
Acking == {p \in {"I", "II", "III"} :
              CASE p = "I" -> type_i_ack [] p = "II" -> type_ii_ack [] OTHER -> type_iii_ack}
Starting == {type_stb} \cap {"I", "II", "III"}

(* At any time at most one of the three processors has been started, works *)
(* or acknowledges, whatever the host writes and whenever the platform is  *)
(* reset: the strobes and the busy state never let two of them drive the   *)
(* mechanism, the request line and the write gate together.                *)
OneProcessor ==
  \A p, q \in Starting \cup Working \cup Acking : p = q

(* PROC_CMD_SM waits exactly while a processor has its command: there is   *)
(* always one that will acknowledge, and none works for nobody, save for   *)
(* the clock on which a FORCE INTERRUPT stops it.                          *)
CommandOwned ==
  /\ cmd_busy => Starting \cup Working \cup Acking # {}
  /\ Working \cup Starting # {} => cmd_busy \/ type_stb = "IV"

(* A host that has issued a command and has not yet seen it end will be    *)
(* told: the command is on its way, INTRQ is up or about to be, or a       *)
(* status read that will show it is in progress.  A status read, which     *)
(* clears INTRQ on every clock it is held, cannot swallow the completion   *)
(* of a command that finishes just before, during or just after it.        *)
NoLostCompletion ==
  hostWaits => cmd_wr_stb \/ cmd_busy \/ irq_set \/ intrq \/ bus = "status"

(* INTRQ is down while a command runs (no FORCE INTERRUPT condition armed):*)
(* it never reports a completion before the one it is for.                 *)
NoEarlyIrq ==
  irq_mask = 0 /\ hostWaits /\ cmd_busy => ~intrq /\ ~irq_set

(* The write gate is open only while a write command has it, and then the  *)
(* byte on the way to the medium is that command's: bit 6 of the command   *)
(* register, which selects it, agrees with the open gate.                  *)
GateDiscipline ==
  /\ type_ii_wg => /\ t2 \in {"WRITE_SECTOR_DAM", "WRITE_SECTOR_DATA", "DONE"}
                   /\ wr_dat_s = sec_dat_o
  /\ type_iii_wg => /\ t3 \in {"WRITE_TRACK", "WRITE_BYTE", "DONE"}
                    /\ Bit(command_r, 64)

(* With a prompt host a data request never meets one that is still open,   *)
(* so that no byte is lost or written twice, nor the read that serves the  *)
(* one before, which clears DRQ on every clock it is held.                 *)
NoByteLost == type_ii_drq \/ type_iii_drq => ~drq_s /\ bus # "data"

(* F7 in WRITE TRACK generates both bytes of the CRC: nothing the host does *)
(* between them replaces the second, because it is not asked for a byte.   *)
CrcPair ==
  [][ t3 = "WRITE_TRACK" /\ is_crc /\ t3' = "WRITE_BYTE" => trk_dat_o' = CRC_LO ]_vars

(* A command, once accepted, ends.                                         *)
CommandsTerminate == cmd_busy ~> ~cmd_busy

(* The life of a command as the outside sees it.                           *)
Life == INSTANCE CommandLife WITH
  stage <- IF ~cmd_busy THEN "idle" ELSE IF Starting # {} THEN "issued"
           ELSE IF Working # {} THEN "working" ELSE "finished",
  late  <- ~cmd_busy /\ cmd_ack,
  armed <- irq_mask # 0,
  due   <- irq_set

(* The cycle-accurate controller implements CommandLife: every command is  *)
(* finished once and in order, and INTRQ rises exactly one clock after an  *)
(* end of command or an armed condition.                                   *)
ImplementsLife == Life!LifeSpec
=============================================================================
