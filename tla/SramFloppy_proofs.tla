------------------------- MODULE SramFloppy_proofs -------------------------
(***************************************************************************)
(* Proofs about the sector commands over a disk in memory: a READ SECTOR   *)
(* gives the host its sector, a WRITE SECTOR changes its data field and    *)
(* nothing else, for every formatted disk, sector length, gap and timing.  *)
(*                                                                         *)
(* The argument follows the head.  IdInv says that an ID being read began  *)
(* with a mark of the disk, so that FormatAssumption tells what comes      *)
(* after it; GapInv counts the bytes of the gap up to the data mark;       *)
(* ReadInv and WriteInv relate the place of the head, the byte counter,    *)
(* the reader and what the host has moved.                                 *)
(***************************************************************************)
EXTENDS SramFloppy, WD179x_proofs, SequenceTheorems

(* The host serves in time, forces no interrupt, formats no track and      *)
(* writes no byte that would pass for a mark or a good CRC.                *)
SectorHost ==
  /\ ServingHost /\ NoForce
  /\ \A c \in Commands : ~Is(c, CMD_WRITE_TRACK)
  /\ \A v \in DataVals : v \notin {XA1, GOOD_CRC}

-----------------------------------------------------------------------------
(* The layout of the disk.                                                 *)
Places == 1..Len(Track)

LEMMA ImagePlaces ==
  /\ Len(Track) \in Nat /\ Len(Track) > 0 /\ Places = 1..Len(Image) /\ Len(Image) = Len(Track)
  /\ \A p \in Places : Image[p] \in Bytes /\ Image[p] \in Nat
  /\ Floating \in Nat
<1>1. /\ Len(Track) \in Nat /\ Len(Track) > 0 /\ Len(Image) = Len(Track)
      /\ Image \in Seq(Bytes) /\ Floating \in Bytes /\ Bytes \subseteq Nat
  BY MediaAssumption, InputAssumption, ReaderAssumption
     DEF MediaAssumption, InputAssumption, ReaderAssumption
<1>2. \A p \in 1..Len(Image) : Image[p] \in Bytes
  BY <1>1
<1> QED BY <1>1, <1>2 DEF Places

LEMMA FieldPlace ==
  ASSUME NEW s \in DOMAIN DataField, NEW i \in 0..SECTOR_LEN
  PROVE  /\ DataField[s][i + 1] = First(s) + i
         /\ First(s) + i \in Fields /\ First(s) + i \in Places
         /\ First(s) \in Places
<1>1. SECTOR_LEN \in Nat /\ i + 1 \in 1..(SECTOR_LEN + 1) /\ 1 \in 1..(SECTOR_LEN + 1)
  BY ReaderAssumption DEF ReaderAssumption
<1>2. DataField[s] = [j \in 1..(SECTOR_LEN + 1) |-> First(s) + j - 1]
  BY FormatAssumption DEF FormatAssumption
<1>3. DOMAIN DataField[s] = 1..(SECTOR_LEN + 1)
  BY <1>2
<1>4. \A j \in 1..(SECTOR_LEN + 1) : DataField[s][j] \in Range(DataField[s])
  BY <1>3 DEF Range
<1>5. \A j \in 1..(SECTOR_LEN + 1) : DataField[s][j] \in Places
  BY <1>4, ImagePlaces, MediaAssumption DEF MediaAssumption
<1>6. First(s) \in Places /\ First(s) \in Nat
  BY <1>1, <1>5, ImagePlaces DEF First, Places
<1>7. DataField[s][i + 1] = First(s) + i
  BY <1>1, <1>2, <1>6
<1>8. First(s) + i \in Fields
  BY <1>1, <1>4, <1>7 DEF Fields
<1> QED BY <1>1, <1>5, <1>6, <1>7, <1>8

LEMMA FieldOf ==
  ASSUME NEW p \in Fields
  PROVE  \E s \in DOMAIN DataField, i \in 0..SECTOR_LEN : p = First(s) + i
<1>1. PICK s \in DOMAIN DataField : p \in Range(DataField[s])
  BY DEF Fields
<1>2. DataField[s] = [j \in 1..(SECTOR_LEN + 1) |-> First(s) + j - 1]
  BY FormatAssumption DEF FormatAssumption
<1>3. DOMAIN DataField[s] = 1..(SECTOR_LEN + 1)
  BY <1>2
<1>4. PICK j \in 1..(SECTOR_LEN + 1) : p = DataField[s][j]
  BY <1>1, <1>3 DEF Range
<1>5. SECTOR_LEN \in Nat
  BY ReaderAssumption DEF ReaderAssumption
<1>6. j - 1 \in 0..SECTOR_LEN /\ (j - 1) + 1 = j
  BY <1>5
<1>7. p = First(s) + (j - 1)
  BY <1>4, <1>6, FieldPlace
<1> QED BY <1>6, <1>7

(* No data field begins inside another.                                    *)
LEMMA FirstOnly ==
  ASSUME NEW s \in DOMAIN DataField, NEW z \in DOMAIN DataField, NEW i \in 0..SECTOR_LEN,
         First(s) = First(z) + i
  PROVE  i = 0
<1>1. SECTOR_LEN \in Nat /\ 0 \in 0..SECTOR_LEN
  BY ReaderAssumption DEF ReaderAssumption
<1>2. ASSUME NEW r \in DOMAIN DataField, NEW j \in 0..SECTOR_LEN
      PROVE  First(r) + j \in Range(DataField[r])
  <2>1. DataField[r] = [k \in 1..(SECTOR_LEN + 1) |-> First(r) + k - 1]
    BY FormatAssumption DEF FormatAssumption
  <2>2. DOMAIN DataField[r] = 1..(SECTOR_LEN + 1) /\ j + 1 \in 1..(SECTOR_LEN + 1)
    BY <1>1, <2>1
  <2>3. DataField[r][j + 1] = First(r) + j
    BY FieldPlace
  <2> QED BY <2>2, <2>3 DEF Range
<1>3. First(s) \in Nat /\ First(z) \in Nat
  BY <1>1, FieldPlace, ImagePlaces DEF Places
<1>4. First(s) \in Range(DataField[s])
  <2>1. First(s) + 0 \in Range(DataField[s])
    BY <1>1, <1>2
  <2> QED BY <1>3, <2>1
<1>5. First(s) \in Range(DataField[z])
  BY <1>2
<1>6. s = z
  BY <1>4, <1>5, FormatAssumption DEF FormatAssumption
<1> QED BY <1>3, <1>6

-----------------------------------------------------------------------------
(* The parts of the invariant.  NextByte is the place of the byte the      *)
(* reader takes next, Place(i) the i-th of the data field asked for.       *)
NextByte == IF 3 <= slot /\ slot <= TICK THEN NextPos ELSE pos
Place(i) == First(sector_r) + i

(* A byte requested by a read or a write that the host has not moved yet.  *)
Out == Request \/ drq_s \/ bus = "data"
Open == Request \/ (drq_s /\ ~drq_clr)
Moved(open) == Len(buffer) + (IF open THEN 1 ELSE 0)

(* What a write leaves at the places of the field.                         *)
Want(i) == IF i = 0 THEN DamToWrite ELSE buffer[i]
Written(n) == \A i \in 0..(n - 1) : media[Place(i)] = Want(i)

(* Only a machine at rest gets a sector or a command, with an empty buffer.*)
FreshInv ==
  /\ buffer \in Seq(Int) /\ data_o_r \in Int /\ raw \in Int
  /\ cmd_wr_stb \/ sec_wr_stb \/ type_stb # "none" =>
       buffer = <<>> /\ ~Out /\ t2 = "IDLE" /\ t3 = "IDLE"
  /\ type_stb = "II" \/ t2 # "IDLE" => ReadsSector \/ WritesSector
  /\ type_stb = "III" \/ t3 # "IDLE" => ~ReadsSector /\ ~WritesSector
  /\ bus = "data" => ~WritesDisk
  /\ drq_s /\ drq_clr => bus = "data" \/ WritesDisk

(* The byte read is the one under the head, if nothing disturbs it.        *)
RawInv ==
  /\ raw # NoByte <=> slot = 2
  /\ slot = 2 => \/ raw = media[pos]
                 \/ raw = Floating /\ (type_ii_wg \/ pos \in Damaged)
  /\ rdy # {} => slot = 3
  /\ ip => pos <= INDEX_LEN
  /\ media_wr <=> slot = 2 /\ type_ii_wg
  /\ ~type_iii_wg

(* Outside the data fields the disk is as it was, and no mark or good CRC  *)
(* comes into one.                                                         *)
MediaInv ==
  /\ DOMAIN media = Places
  /\ \A p \in Places :
       /\ media[p] \in Nat
       /\ IF p \in Fields THEN media[p] \notin {XA1, GOOD_CRC} ELSE media[p] = Image[p]
  /\ \A s \in DOMAIN DataField : media[First(s)] # XFE

(* An ID read so far began with the marks at p, and the sector it names is *)
(* the one on the disk, unless the disk has no such ID.                    *)
IdBehind(k) ==
  \E p \in Places :
    /\ Image[p] = XA1 /\ NextByte = Ahead(p, k)
    /\ k > 1 => Image[Ahead(p, 1)] = XFE
    /\ k > 4 => idam_sector = Image[Ahead(p, 4)] \/ Ahead(p, 4) \in Fields \cup Damaged
IdSeen ==
  /\ idam_sector \in DOMAIN DataField
  /\ \E p \in Places, n1, n2 \in Places :
       Leads(p, idam_sector, n1, n2) /\ NextByte = p + 8
IdInv ==
  /\ rd = "ID_ADDR_MARK" => IdBehind(1)
  /\ rd = "TRACK" => IdBehind(2)
  /\ rd = "SIDE" => IdBehind(3)
  /\ rd = "SECTOR" => IdBehind(4)
  /\ rd = "SEC_LEN" => IdBehind(5)
  /\ rd = "CRC_1" => (rd_count = 0 /\ IdBehind(6)) \/ (rd_count = 1 /\ IdBehind(7))
  /\ "id_mark" \in rdy => rd = "GAP3_4E" /\ rd_count = 0 /\ IdSeen

(* How far the reader is in the gap: k bytes behind the CRC at place c.    *)
AtMost(n, min) == IF n < min THEN n ELSE min
InGap(k, n1, n2) ==
  \/ /\ rd = "GAP3_4E" /\ k \in 1..(n1 + 1) /\ rdy = {}
     /\ rd_count = AtMost(k - 1, GAP3_4E_MIN)
  \/ /\ rd = "GAP3_00" /\ k \in (n1 + 2)..(n1 + n2 + 1) /\ rdy = {}
     /\ rd_count = AtMost(k - 1 - n1, GAP3_00_MIN)
  \/ /\ rd = "GAP3_A1" /\ k \in (n1 + n2 + 2)..(n1 + n2 + A1_RUN) /\ rdy = {}
     /\ rd_count = k - 1 - n1 - n2
  \/ /\ rd = "DAM" /\ k = n1 + n2 + A1_RUN + 1 /\ "data_mark" \notin rdy
     /\ WritesSector => rdy = {"data_mark_next"}
  \/ /\ rd = "USER_DATA" /\ k = n1 + n2 + A1_RUN + 2 /\ ReadsSector
     /\ rd_count = 0 /\ rdy = {"data_mark"}
GapInv ==
  t2 = "WAIT_DAM" =>
    /\ ~rnf_error /\ sector_r \in DOMAIN DataField
    /\ \E p \in Places, n1, n2 \in Places, k \in Nat :
         Leads(p, sector_r, n1, n2) /\ NextByte = p + 7 + k /\ InGap(k, n1, n2)

(* A read: what the host has is the beginning of the sector, what is on    *)
(* its way the byte after it.                                              *)
ReadPart ==
  /\ sector_r \in DOMAIN DataField /\ Moved(Out) <= SECTOR_LEN
  /\ \A i \in 1..Len(buffer) : buffer[i] = media[Place(i)]
  /\ Out => data_o_r = media[Place(Len(buffer) + 1)]
Reading ==
  /\ ReadPart /\ Moved(Out) = byte_count
  /\ \/ /\ rdy = {} /\ rd = "USER_DATA" /\ rd_count = byte_count
        /\ NextByte = Place(byte_count + 1)
     \/ /\ rdy = {"user_data"} /\ ~Out /\ data_o_r = media[Place(byte_count + 1)]
        /\ ~LastByte => /\ rd = "USER_DATA" /\ rd_count = byte_count + 1
                        /\ NextByte = Place(byte_count + 2)
ReadInv ==
  ReadsSector =>
    /\ Owed = 0 \/ Owed <= Turn(2)
    /\ t2 \in {"WAIT_IDAM", "WAIT_DAM"} => buffer = <<>> /\ ~Out
    /\ t2 = "READ_SECTOR" => Reading
    /\ t2 \in {"WAIT_CRC", "DONE", "IDLE"} =>
         \/ buffer = <<>> /\ ~Out
         \/ ReadPart /\ Moved(Out) = SECTOR_LEN
    /\ t2 \notin {"WRITE_SECTOR_DAM", "WRITE_SECTOR_DATA"}

(* A write: as many bytes are in the field as the head has passed places   *)
(* of it, and the next is in the host's data register or asked for.        *)
WritingDam ==
  /\ Moved(Open) = 1 /\ type_ii_wg /\ slot \notin {2, 3} /\ (slot = 1 => ByteWritten)
  /\ byte_count = 0 /\ NextByte = Place(0) /\ rd = "DAM"
WritingData ==
  /\ Moved(Open) = byte_count + 1 /\ type_ii_wg /\ (slot = 1 => ByteWritten)
  /\ \/ /\ slot # 2 /\ NextByte = Place(byte_count + 1) /\ Written(byte_count + 1)
        /\ rd = "USER_DATA" /\ rd_count = byte_count
     \/ /\ slot = 2 /\ NextByte = Place(byte_count) /\ Written(byte_count)
        /\ sec_dat_o = Want(byte_count)
        /\ IF byte_count = 0 THEN rd = "DAM" ELSE rd = "USER_DATA" /\ rd_count = byte_count - 1
WritingLast ==
  /\ slot = 2 /\ NextByte = Place(SECTOR_LEN) /\ Written(SECTOR_LEN)
  /\ sec_dat_o = Want(SECTOR_LEN) /\ Len(buffer) = SECTOR_LEN /\ ~Open
  /\ rd = "USER_DATA" /\ rd_count = SECTOR_LEN - 1
Wrote ==
  /\ sector_r \in DOMAIN DataField
  /\ Len(buffer) = SECTOR_LEN /\ Written(SECTOR_LEN + 1)
WriteInv ==
  WritesSector =>
    /\ buffer \in Seq(DataVals)
    /\ t2 # "IDLE" /\ ~Open /\ buffer # <<>> => data_i_r = buffer[Len(buffer)]
    /\ t2 = "WAIT_IDAM" => buffer = <<>> /\ ~Open
    /\ t2 = "WAIT_DAM" => Moved(Open) = 1
    /\ t2 = "WRITE_SECTOR_DAM" => sector_r \in DOMAIN DataField /\ WritingDam
    /\ t2 = "WRITE_SECTOR_DATA" => sector_r \in DOMAIN DataField /\ WritingData
    /\ t2 = "DONE" => IF type_ii_wg THEN sector_r \in DOMAIN DataField /\ WritingLast
                      ELSE buffer = <<>> /\ ~Open
    /\ t2 = "IDLE" => ~Open /\ (buffer # <<>> => Wrote)
    /\ t2 \notin {"READ_SECTOR", "WAIT_CRC"}

SectorInv == FreshInv /\ RawInv /\ MediaInv /\ IdInv /\ GapInv /\ ReadInv /\ WriteInv
Controlled == ServeInv /\ NoByteLost /\ KeptInv /\ GateInv /\ TypeIIOK /\ IrqOK

-----------------------------------------------------------------------------
(* The head and the reader.                                                *)
LEMMA SlotBounds ==
  ASSUME ServingHost
  PROVE  /\ BYTE_CLKS \in Nat /\ TICK \in Nat /\ ACCESS_CLKS \in Nat
         /\ TICK >= 2 /\ ACCESS_CLKS >= 2 /\ BYTE_CLKS >= TICK + 2 * ACCESS_CLKS
BY TimingAssumption DEF TimingAssumption, ServingHost

LEMMA PlaceStep ==
  ASSUME DriveOK, NEW found, DriveReads(found)
  PROVE  /\ slot \in 0..2 => NextByte = pos
         /\ NextByte' = IF slot = 2 THEN Ahead(pos, 1) ELSE NextByte
         /\ Ahead(pos, 1) = NextPos
         /\ pos \in Places /\ pos' \in Places /\ NextByte \in Places
         /\ pos = NextByte \/ NextByte = Ahead(pos, 1)
<1>1. /\ slot' = IF slot = BYTE_CLKS - 1 THEN 0 ELSE slot + 1
      /\ BYTE_CLKS \in Nat /\ slot \in 0..(BYTE_CLKS - 1)
      /\ TICK \in Nat /\ 1 < TICK /\ TICK < BYTE_CLKS
  BY SlotStep, TimingAssumption DEF TimingAssumption, DriveReads
<1>2. pos \in Places /\ Len(Track) \in Nat /\ Len(Track) > 0
  BY InputAssumption DEF InputAssumption, DriveOK, Places
<1>3. Ahead(pos, 1) = NextPos /\ NextPos \in Places
  BY <1>2 DEF Ahead, NextPos, Places
<1>4. pos' = IF slot = TICK THEN NextPos ELSE pos
  BY DEF DriveReads
<1>5. NextByte' = IF 3 <= slot' /\ slot' <= TICK THEN NextPos' ELSE pos'
  BY DEF NextByte
<1>6. slot # TICK => pos' = pos /\ NextPos' = NextPos
  BY <1>4 DEF NextPos
<1>7. NextByte' = IF slot = 2 THEN NextPos ELSE NextByte
  <2>1. CASE slot = TICK
    <3>1. NextByte' = pos' /\ pos' = NextPos
      BY <1>1, <1>4, <1>5, <2>1
    <3>2. slot # 2 => NextByte = NextPos
      BY <1>1, <2>1 DEF NextByte
    <3> QED BY <1>1, <3>1, <3>2 DEF NextByte
  <2>2. CASE slot # TICK
    BY <1>1, <1>5, <1>6, <2>2 DEF NextByte
  <2> QED BY <2>1, <2>2
<1>8. /\ slot \in 0..2 => NextByte = pos
      /\ NextByte = pos \/ NextByte = NextPos
  BY <1>1 DEF NextByte
<1> QED BY <1>2, <1>3, <1>4, <1>7, <1>8

(* A place that is not the last of the track is followed by the next one.  *)
LEMMA NextPlace ==
  ASSUME NEW p \in Places, p + 1 \in Places
  PROVE  Ahead(p, 1) = p + 1
BY ImagePlaces DEF Ahead, Places

LEMMA AheadStep ==
  ASSUME NEW p \in Places, NEW k \in 1..6, Len(Track) > 7
  PROVE  Ahead(Ahead(p, k), 1) = Ahead(p, k + 1)
BY ImagePlaces DEF Ahead, Places

-----------------------------------------------------------------------------
(* The host and its buffer.                                                *)
Fresh == cmd_wr_stb \/ sec_wr_stb \/ type_stb # "none"
Appended(b) == IF Len(buffer) > SECTOR_LEN THEN buffer ELSE Append(buffer, b)

(* What a clock of the host is, for the buffer.                            *)
FreshCycle ==
  /\ cmd_wr_stb' \/ sec_wr_stb'
  /\ left = 0 /\ ~drq_s /\ buffer' = <<>> /\ bus' = "write" /\ ~drq_clr'
  /\ ~cmd_wr_stb' => ~hostWaits
Same == ~cmd_wr_stb' /\ ~sec_wr_stb' /\ command_r' = command_r
KeepCycle ==
  /\ Same /\ left > 0 /\ ~(bus = "data" /\ left = 1) /\ left' = left - 1
  /\ bus' = IF left = 1 THEN "none" ELSE bus
  /\ (drq_clr' <=> bus = "data") /\ data_i_r' = data_i_r /\ buffer' = buffer
TakeCycle ==   \* the end of a read of the data register
  /\ Same /\ bus = "data" /\ left = 1 /\ left' = 0 /\ bus' = "none" /\ drq_clr'
  /\ data_i_r' = data_i_r /\ buffer' = Appended(data_o_r)
FetchCycle ==   \* the begin of one
  /\ Same /\ left = 0 /\ drq_s /\ ~WritesDisk /\ bus' = "data" /\ drq_clr'
  /\ data_i_r' = data_i_r /\ buffer' = buffer
GiveCycle ==    \* a byte written for a request
  /\ Same /\ left = 0 /\ drq_s /\ WritesDisk /\ bus' = "write" /\ drq_clr'
  /\ data_i_r' \in DataVals /\ buffer' = Appended(data_i_r')
IdleCycle ==
  /\ Same /\ left = 0 /\ ~drq_s /\ buffer' = buffer
  /\ bus' \in {bus, "write", "status"}
  /\ ~hostWaits \/ (~drq_clr' /\ data_i_r' = data_i_r)

LEMMA SectorCycles ==
  ASSUME PROMPT, Host, HostBuffer, buffer \in Seq(Int), data_o_r \in Int, bus # "data" \/ left > 0,
         DataVals \cup SeekVals \subseteq Int
  PROVE  FreshCycle \/ KeepCycle \/ TakeCycle \/ FetchCycle \/ GiveCycle \/ IdleCycle
<1> DEFINE Kept == buffer' = buffer
<1>1. /\ \A b \in Int : buffer \o <<b>> = Append(buffer, b)
      /\ buffer \o <<>> = buffer
  OBVIOUS
<1>2. ~cmd_wr_stb' /\ ~sec_wr_stb' =>
        /\ BytesMoved = <<>> => Kept
        /\ \A b \in Int : BytesMoved = <<b>> => buffer' = Appended(b)
  BY <1>1 DEF HostBuffer, Appended
<1>3. CASE HoldAccess
  <2>1. Same /\ left > 0 /\ left' = left - 1 /\ (drq_clr' <=> bus = "data") /\ data_i_r' = data_i_r
        /\ bus' = IF left = 1 THEN "none" ELSE bus
    BY <1>3 DEF HoldAccess, Strobes, Clears, Same
  <2>2. BytesMoved = IF bus = "data" /\ left = 1 THEN <<data_o_r>> ELSE <<>>
    BY <2>1 DEF BytesMoved
  <2> QED BY <1>2, <2>1, <2>2 DEF KeepCycle, TakeCycle, Same
<1>4. CASE Read("data") /\ drq_s /\ ~WritesDisk
  <2>1. Same /\ left = 0 /\ bus' = "data" /\ drq_clr' /\ data_i_r' = data_i_r
    BY <1>4 DEF Read, Starts, Strobes, Clears, Same
  <2>2. BytesMoved = <<>>
    BY <2>1 DEF BytesMoved
  <2> QED BY <1>2, <1>4, <2>1, <2>2 DEF FetchCycle, Same
<1>5. ASSUME NEW v \in DataVals, WriteData(v), drq_s, WritesDisk PROVE GiveCycle
  <2>1. Same /\ left = 0 /\ bus' = "write" /\ drq_clr' /\ data_i_r' = v
    BY <1>5 DEF WriteData, Starts, Strobes, Clears, Same
  <2>2. BytesMoved = <<data_i_r'>> /\ data_i_r' \in Int
    BY <1>5, <2>1 DEF BytesMoved
  <2> QED BY <1>2, <1>5, <2>1, <2>2 DEF GiveCycle, Same
<1>6. CASE ~drq_s /\ (NoAccess \/ Read("status"))
  <2>1. Same /\ left = 0 /\ ~drq_clr' /\ data_i_r' = data_i_r /\ bus' \in {bus, "status"}
    BY <1>6 DEF NoAccess, Read, Starts, Strobes, Clears, hostVars, Same
  <2>2. BytesMoved = <<>>
    BY <1>6, <2>1 DEF BytesMoved
  <2> QED BY <1>2, <1>6, <2>1, <2>2 DEF IdleCycle, Same
<1>7. ASSUME NEW c, ~drq_s, WriteCommand(c) PROVE FreshCycle
  BY <1>7 DEF WriteCommand, Starts, Strobes, Clears, FreshCycle, HostBuffer
<1>8. ASSUME NEW v, ~drq_s, WriteSector(v) PROVE FreshCycle
  BY <1>8 DEF WriteSector, Starts, Strobes, Clears, FreshCycle, HostBuffer
<1>9. ASSUME NEW v, ~drq_s, WriteTrack(v) \/ (WriteData(v) /\ ~hostWaits) PROVE IdleCycle
  <2>1. Same /\ left = 0 /\ bus' = "write" /\ ~hostWaits
    BY <1>9 DEF WriteTrack, WriteData, Starts, Strobes, Same
  <2>2. BytesMoved = <<>>
    BY <1>9, <2>1 DEF BytesMoved
  <2> QED BY <1>2, <1>9, <2>1, <2>2 DEF IdleCycle, Same
<1>10. \/ HoldAccess
       \/ Read("data") /\ drq_s /\ ~WritesDisk
       \/ \E v \in DataVals : WriteData(v) /\ drq_s /\ WritesDisk
       \/ ~drq_s /\ (NoAccess \/ Read("status"))
       \/ \E c : ~drq_s /\ WriteCommand(c)
       \/ \E v : ~drq_s /\ WriteSector(v)
       \/ \E v : ~drq_s /\ (WriteTrack(v) \/ (WriteData(v) /\ ~hostWaits))
  BY Zenon DEF Host, MustServe
<1> QED BY <1>3, <1>4, <1>5, <1>6, <1>7, <1>8, <1>9, <1>10

LEMMA Cycles ==
  ASSUME SectorHost, Controlled, FreshInv, Host, HostBuffer
  PROVE  FreshCycle \/ KeepCycle \/ TakeCycle \/ FetchCycle \/ GiveCycle \/ IdleCycle
<1>1. DataVals \cup SeekVals \subseteq Int
  BY SizeAssumption, InputAssumption DEF SizeAssumption, InputAssumption
<1>2. PROMPT /\ (bus # "data" \/ left > 0)
  BY DEF SectorHost, ServingHost, Controlled, ServeInv, DataBusInv
<1>3. buffer \in Seq(Int) /\ data_o_r \in Int
  BY DEF FreshInv
<1> QED BY <1>1, <1>2, <1>3, SectorCycles

(* Nothing aborts a command of this host.                                  *)
LEMMA Calm ==
  ASSUME SectorHost, Controlled, TypeII, TypeIII
  PROVE  /\ ~Aborted /\ ~IsForce(command_r) /\ command_r \in 0..255
         /\ \/ T2Idle \/ T2WaitIdam \/ T2WaitDam \/ T2ReadSector \/ T2WaitCrc
            \/ T2WriteDam \/ T2WriteData \/ T2Done
         /\ \/ T3Idle \/ T3ReadAddrWait \/ T3ReadAddr \/ T3WaitTrack
            \/ T3ReadTrack \/ T3WriteTrack \/ T3WriteByte \/ T3Done
<1>1. ~Aborted
  BY DEF Controlled, KeptInv, CalmInv, Aborted
<1>2. command_r \in Commands \cup {0} /\ command_r \in 0..255
  BY InputAssumption DEF InputAssumption, Controlled, KeptInv, CalmInv, BusOK
<1>3. ~IsForce(command_r)
  BY <1>2, NeverForced DEF SectorHost
<1> QED BY <1>1, <1>2, <1>3 DEF TypeII, T2Abort, TypeIII, T3Abort

(* A sector or a command is only given to a machine at rest.               *)
LEMMA FreshStep ==
  ASSUME SectorHost, Controlled, FreshInv, Host, ProcDrq, TypeII, TypeIII, FreshCycle
  PROVE  /\ Rests /\ buffer' = <<>> /\ ~Out' /\ ~Request' /\ ~drq_s'
         /\ t2' = "IDLE" /\ t3' = "IDLE"
<1>1. left = 0 /\ ~drq_s /\ buffer' = <<>> /\ bus' = "write" /\ (~cmd_wr_stb' => ~hostWaits)
  BY DEF FreshCycle
<1>2. cmd_wr_stb' => ~hostWaits
  <2>1. BusOK'
    BY BusTypes DEF Controlled, KeptInv, CalmInv
  <2>2. ~IsForce(command_r')
    BY <2>1, NeverForced DEF SectorHost, BusOK
  <2> QED BY <2>2, HostStep DEF Commanding, Accessing, Holding, Resting, SameWait
<1>3. Rests
  BY <1>1, <1>2, FreeMeansRest DEF Controlled, ServeInv
<1>4. ~Request
  BY <1>3 DEF Rests, Quiet, Controlled, ServeInv, DataBusInv
<1>5. ~Request'
  BY <1>3, OwnRequest DEF Rests, Quiet, Controlled, KeptInv
<1>6. ~drq_s'
  BY <1>1, <1>4 DEF ProcDrq, Request
<1>7. t2' = "IDLE"
  BY <1>3, Calm DEF Rests, Quiet, T2Idle, T2WaitIdam, T2WaitDam, T2ReadSector, T2WaitCrc,
                    T2WriteDam, T2WriteData, T2Done
<1>8. t3' = "IDLE"
  BY <1>3, Calm DEF Rests, Quiet, T3Idle, T3ReadAddrWait, T3ReadAddr, T3WaitTrack,
                    T3ReadTrack, T3WriteTrack, T3WriteByte, T3Done
<1> QED BY <1>1, <1>3, <1>5, <1>6, <1>7, <1>8 DEF Out

(* The kind of a strobe is that of the command.                            *)
LEMMA StrobeKinds ==
  ASSUME ProcCmd, CmdTypeOK, command_r \in 0..255
  PROVE  /\ type_stb' # "none" => cmd_wr_stb
         /\ type_stb' = "II" => ReadsSector \/ WritesSector
         /\ type_stb' = "III" => ~ReadsSector /\ ~WritesSector
<1>1. /\ IsTypeII(command_r) => ReadsSector \/ WritesSector
      /\ ~IsTypeI(command_r) /\ ~IsTypeII(command_r) => ~ReadsSector /\ ~WritesSector
  BY DEF IsTypeI, IsTypeII, ReadsSector, WritesSector, Is, CMD_READ_SECTOR, CMD_WRITE_SECTOR
<1>2. CASE CmdForce
  BY <1>2 DEF CmdForce
<1>3. CASE CmdIdle
  BY <1>1, <1>3 DEF CmdIdle
<1>4. CASE CmdWait
  BY <1>4 DEF CmdWait
<1> QED BY <1>2, <1>3, <1>4 DEF ProcCmd

(* Nor is anything on its way while a command is taken.                    *)
LEMMA CommandStep ==
  ASSUME SectorHost, Controlled, FreshInv, Host, HostBuffer, ProcDrq, TypeII, TypeIII, cmd_wr_stb
  PROVE  /\ command_r' = command_r /\ buffer' = <<>> /\ ~Out'
         /\ t2' = "IDLE" /\ t3' = "IDLE"
<1>1. left > 0 /\ bus = "write"
  BY TimingAssumption DEF TimingAssumption, Controlled, KeptInv, HostInv, BusInv
<1>2. type_stb = "none" /\ cmd_state = "IDLE"
  <2>1. ~IsForce(command_r) /\ CmdTypeOK /\ type_stb # "IV" /\ StrobeInv /\ WaitInv
    BY Calm DEF Controlled, KeptInv, HostInv, CalmInv, ProcInv
  <2> QED BY <2>1 DEF CmdTypeOK, StrobeInv, WaitInv
<1>3. buffer = <<>> /\ ~Out /\ t2 = "IDLE" /\ t3 = "IDLE"
  BY DEF FreshInv
<1>4. KeepCycle
  BY <1>1, Cycles DEF FreshCycle, TakeCycle, FetchCycle, GiveCycle, IdleCycle
<1>5. ~Request'
  BY <1>2, <1>3, OwnRequest DEF Controlled, KeptInv
<1>6. ~drq_s' /\ bus' # "data"
  BY <1>1, <1>3, <1>4 DEF Out, Request, ProcDrq, KeepCycle
<1>7. t2' = "IDLE"
  BY <1>2, <1>3, Calm DEF T2Idle, T2WaitIdam, T2WaitDam, T2ReadSector, T2WaitCrc,
                          T2WriteDam, T2WriteData, T2Done
<1>8. t3' = "IDLE"
  BY <1>2, <1>3, Calm DEF T3Idle, T3ReadAddrWait, T3ReadAddr, T3WaitTrack,
                          T3ReadTrack, T3WriteTrack, T3WriteByte, T3Done
<1> QED BY <1>3, <1>4, <1>5, <1>6, <1>7, <1>8 DEF KeepCycle, Same, Out

LEMMA FreshClock ==
  ASSUME SectorHost, Controlled, FreshInv, MediaInv, RawInv, DriveOK, SramNext
  PROVE  FreshInv'
<1> USE DEF SramNext, Controller
<1>1. CmdTypeOK /\ ~IsForce(command_r) /\ command_r \in 0..255 /\ ~Aborted
  BY Calm DEF Controlled, KeptInv, HostInv
<1>2. buffer' \in Seq(Int) /\ data_o_r' \in Int /\ raw' \in Int
  <2>1. data_o_r' \in Int
    BY DEF FreshInv, ReadLogic, RdQuiet
  <2>2. raw' \in Int
    <3>1. pos \in Places
      BY DEF DriveOK, Places
    <3>2. Floating \in Int /\ media[pos] \in Int
      BY <3>1, ImagePlaces DEF MediaInv
    <3> QED BY <3>2 DEF SramDrive, DriveReads, NoByte
  <2>3. buffer \in Seq(Int) /\ data_o_r \in Int
    BY DEF FreshInv
  <2>4. \A b \in Int : Appended(b) \in Seq(Int)
    BY <2>3 DEF Appended
  <2>5. DataVals \subseteq Int
    BY SizeAssumption, InputAssumption DEF SizeAssumption, InputAssumption
  <2>6. buffer' \in Seq(Int)
    <3>1. buffer' = <<>> \/ buffer' = buffer \/ \E b \in Int : buffer' = Appended(b)
      BY <2>3, <2>5, Cycles
         DEF FreshCycle, KeepCycle, TakeCycle, FetchCycle, GiveCycle, IdleCycle
    <3>2. <<>> \in Seq(Int)
      OBVIOUS
    <3> QED BY <2>3, <2>4, <3>1, <3>2, Zenon
  <2> QED BY <2>1, <2>2, <2>6
<1>3. ASSUME Fresh' PROVE buffer' = <<>> /\ ~Out' /\ t2' = "IDLE" /\ t3' = "IDLE"
  <2>1. CASE cmd_wr_stb' \/ sec_wr_stb'
    <3>1. FreshCycle
      BY <2>1, Cycles DEF KeepCycle, TakeCycle, FetchCycle, GiveCycle, IdleCycle, Same
    <3> QED BY <3>1, FreshStep
  <2>2. CASE type_stb' # "none"
    <3>1. cmd_wr_stb
      BY <1>1, <2>2, StrobeKinds
    <3> QED BY <3>1, CommandStep
  <2> QED BY <1>3, <2>1, <2>2 DEF Fresh
<1>4. CASE FreshCycle
  <2>1. /\ Rests /\ ~drq_s' /\ t2' = "IDLE" /\ t3' = "IDLE" /\ bus' = "write"
    BY <1>4, FreshStep DEF FreshCycle
  <2>2. type_stb' = "none"
    BY <1>1, <2>1, StrobeKinds DEF Rests
  <2> QED BY <1>2, <1>3, <2>1, <2>2 DEF FreshInv, Fresh
<1>5. CASE ~FreshCycle
  <2>1. command_r' = command_r
    BY <1>5, Cycles DEF KeepCycle, TakeCycle, FetchCycle, GiveCycle, IdleCycle, Same
  <2>2. /\ ReadsSector' <=> ReadsSector
        /\ WritesSector' <=> WritesSector
        /\ WritesDisk' <=> WritesDisk
    BY <2>1 DEF ReadsSector, WritesSector, WritesDisk, Is
  <2>3. type_stb' = "II" \/ t2' # "IDLE" => ReadsSector \/ WritesSector
    <3>1. t2' # "IDLE" => t2 # "IDLE" \/ type_stb = "II"
      BY DEF TypeII, T2Abort, T2Idle, T2WaitIdam, T2WaitDam, T2ReadSector, T2WaitCrc,
             T2WriteDam, T2WriteData, T2Done
    <3> QED BY <1>1, <3>1, StrobeKinds DEF FreshInv
  <2>4. type_stb' = "III" \/ t3' # "IDLE" => ~ReadsSector /\ ~WritesSector
    <3>1. t3' # "IDLE" => t3 # "IDLE" \/ type_stb = "III"
      BY DEF TypeIII, T3Abort, T3Idle, T3ReadAddrWait, T3ReadAddr, T3WaitTrack,
             T3ReadTrack, T3WriteTrack, T3WriteByte, T3Done
    <3> QED BY <1>1, <3>1, StrobeKinds DEF FreshInv
  <2>5. bus = "data" => left > 0 /\ drq_clr /\ ~Request
    BY DEF Controlled, ServeInv, DataBusInv
  <2>6. drq_s' <=> Request \/ (drq_s /\ ~drq_clr)
    BY DEF ProcDrq, Request
  <2>7. Request => hostWaits \/ left # 0
    BY FreeMeansRest DEF Controlled, ServeInv, DataBusInv, Rests, Quiet
  <2>8. /\ bus' = "data" => ~WritesDisk
        /\ drq_s' /\ drq_clr' => bus' = "data" \/ WritesDisk
    <3>1. CASE KeepCycle
      BY <2>5, <2>6, <3>1 DEF KeepCycle, FreshInv
    <3>2. CASE TakeCycle
      BY <2>5, <2>6, <3>2 DEF TakeCycle
    <3>3. CASE FetchCycle
      BY <3>3 DEF FetchCycle
    <3>4. CASE GiveCycle
      BY <3>4 DEF GiveCycle
    <3>5. CASE IdleCycle
      BY <2>5, <2>6, <2>7, <3>5 DEF IdleCycle
    <3> QED BY <1>5, <3>1, <3>2, <3>3, <3>4, <3>5, Cycles
  <2> QED BY <1>2, <1>3, <2>2, <2>3, <2>4, <2>8 DEF FreshInv, Fresh
<1> QED BY <1>4, <1>5

LEMMA ControlClock ==
  ASSUME SectorHost, Controlled, SramNext PROVE Controlled'
<1>1. Host /\ Controller
  BY DEF SramNext
<1>2. PICK found : DriveReads(found)
  BY DEF SramNext, SramDrive
<1>3. ServeInv' /\ NoByteLost'
  BY <1>1, <1>2, ServeClock DEF SectorHost, Controlled
<1>4. KeptInv' /\ GateInv'
  BY <1>1, KeptClock, GateClock DEF SectorHost, Controlled, Controller
<1>5. TypeIIOK' /\ IrqOK'
  BY <1>1, TypeIITypes, IrqTypes DEF Controlled, Controller, KeptInv, CalmInv
<1> QED BY <1>3, <1>4, <1>5 DEF Controlled

(* What the host still owes, and the byte a read or a write has asked for. *)
LEMMA OwedOpen ==
  ASSUME Controlled
  PROVE  /\ Owed \in Nat /\ (Out => Owed >= 1) /\ (Open => Owed >= 2)
<1>1. ACCESS_CLKS \in Nat /\ ACCESS_CLKS >= 2 /\ left \in Nat
  BY TimingAssumption DEF TimingAssumption, Controlled, KeptInv, CalmInv, BusOK
<1>2. bus = "data" => drq_clr /\ left > 0
  BY DEF Controlled, ServeInv, DataBusInv
<1> QED BY <1>1, <1>2 DEF Owed, Out, Open

LEMMA OwedOut ==
  ASSUME Controlled' PROVE Out' => Owed' >= 1
<1>1. ACCESS_CLKS \in Nat /\ ACCESS_CLKS >= 2 /\ left' \in 0..(ACCESS_CLKS - 1)
  BY TimingAssumption DEF TimingAssumption, Controlled, KeptInv, CalmInv, BusOK
<1>2. PICK n \in 0..(ACCESS_CLKS - 1) : n = left'
  BY <1>1
<1>3. bus' = "data" => drq_clr' /\ n > 0
  BY <1>2 DEF Controlled, ServeInv, DataBusInv
<1>4. Owed' = IF Request' THEN 2 * ACCESS_CLKS
              ELSE IF drq_s' /\ ~drq_clr' THEN n + ACCESS_CLKS
              ELSE IF bus' = "data" THEN n
              ELSE IF drq_s' THEN 1 ELSE 0
  BY <1>2 DEF Owed
<1>5. Out' <=> Request' \/ drq_s' \/ bus' = "data"
  BY DEF Out
<1> QED BY <1>1, <1>3, <1>4, <1>5

LEMMA OutStep ==
  ASSUME SectorHost, Controlled, FreshInv, Host, HostBuffer, ProcDrq, ~WritesDisk, ~FreshCycle
  PROVE  \/ buffer' = buffer /\ (Out' <=> Out \/ Request')
         \/ Out /\ ~Request /\ Owed = 1 /\ buffer' = Appended(data_o_r) /\ (Out' <=> Request')
<1>1. /\ bus = "data" => left > 0 /\ drq_clr /\ ~Request
      /\ Request => ~drq_s
      /\ drq_s /\ drq_clr => bus = "data"
  BY DEF Controlled, ServeInv, DataBusInv, NoByteLost, Request, FreshInv
<1>2. drq_s' <=> Request \/ (drq_s /\ ~drq_clr)
  BY DEF ProcDrq, Request
<1>3. CASE KeepCycle
  <2>1. left \in Nat
    BY DEF Controlled, KeptInv, HostInv, BusInv
  <2> QED BY <1>1, <1>2, <1>3, <2>1 DEF KeepCycle, Out
<1>4. CASE TakeCycle
  <2>1. Owed = 1
    BY <1>1, <1>4 DEF TakeCycle, Owed
  <2> QED BY <1>1, <1>2, <1>4, <2>1 DEF TakeCycle, Out
<1>5. CASE FetchCycle
  BY <1>1, <1>2, <1>5 DEF FetchCycle, Out
<1>6. CASE GiveCycle
  BY <1>6 DEF GiveCycle
<1>7. CASE IdleCycle
  BY <1>1, <1>2, <1>7 DEF IdleCycle, Out
<1> QED BY <1>3, <1>4, <1>5, <1>6, <1>7, Cycles

LEMMA OpenStep ==
  ASSUME SectorHost, Controlled, FreshInv, Host, HostBuffer, ProcDrq, WritesDisk, ~FreshCycle
  PROVE  \/ buffer' = buffer /\ (Open' <=> Open \/ Request') /\ (data_i_r' = data_i_r \/ Rests)
         \/ /\ Open /\ ~Request /\ data_i_r' \in DataVals
            /\ buffer' = Appended(data_i_r') /\ (Open' <=> Request')
<1>1. /\ bus # "data" /\ (Request => ~drq_s)
      /\ drq_s /\ drq_clr => left > 0
  BY DEF Controlled, ServeInv, DataBusInv, NoByteLost, Request, FreshInv
<1>2. drq_s' <=> Request \/ (drq_s /\ ~drq_clr)
  BY DEF ProcDrq, Request
<1>3. CASE KeepCycle
  BY <1>1, <1>2, <1>3 DEF KeepCycle, Open
<1>4. CASE TakeCycle \/ FetchCycle
  BY <1>1, <1>4 DEF TakeCycle, FetchCycle
<1>5. CASE GiveCycle
  BY <1>1, <1>2, <1>5 DEF GiveCycle, Open
<1>6. CASE IdleCycle
  <2>1. ~hostWaits => Rests
    BY <1>6, FreeMeansRest DEF IdleCycle, Controlled, ServeInv
  <2>2. Rests => ~Request
    BY DEF Rests, Quiet, Controlled, ServeInv, DataBusInv
  <2> QED BY <1>1, <1>2, <1>6, <2>1, <2>2 DEF IdleCycle, Open
<1> QED BY <1>3, <1>4, <1>5, <1>6, Cycles

-----------------------------------------------------------------------------
(* The bytes under the head.                                               *)
LEMMA GateHeld ==
  ASSUME SectorHost, Controlled, RawInv, WriteInv, TypeII, TypeIII, slot = 1
  PROVE  type_ii_wg' <=> type_ii_wg
<1>1. CASE T2WaitDam
  <2>1. "data_mark_next" \notin rdy
    BY DEF RawInv
  <2> QED BY <1>1, <2>1, Zenon DEF T2WaitDam
<1>2. CASE T2Done
  <2>1. type_ii_wg => WritesSector
    BY DEF Controlled, GateInv
  <2>2. ~type_ii_wg
    BY <1>2, <2>1 DEF T2Done, WriteInv, WritingLast
  <2>3. ~type_ii_wg'
    BY <1>2 DEF T2Done
  <2> QED BY <2>2, <2>3
<1> QED BY <1>1, <1>2, Calm DEF T2Idle, T2WaitIdam, T2ReadSector, T2WaitCrc, T2WriteDam, T2WriteData

LEMMA RawClock ==
  ASSUME SectorHost, Controlled, Controlled', RawInv, MediaInv, WriteInv, SramNext
  PROVE  RawInv'
<1> USE DEF SramNext, Controller
<1>1. DriveOK /\ \E found : DriveReads(found)
  BY DEF Controlled, ServeInv, CoreInv, SramDrive
<1>2. /\ slot' = IF slot = BYTE_CLKS - 1 THEN 0 ELSE slot + 1
      /\ BYTE_CLKS \in Nat /\ slot \in 0..(BYTE_CLKS - 1) /\ BYTE_CLKS > 4 /\ TICK >= 2
  BY <1>1, SlotStep, SlotBounds DEF DriveReads, SectorHost
<1>3. pos \in Places /\ media[pos] \in Nat /\ Floating \in Nat
  BY <1>1, ImagePlaces DEF DriveOK, Places, MediaInv
<1>4. ~type_iii_wg'
  <2>1. command_r' \in Commands \cup {0}
    BY DEF Controlled, KeptInv, CalmInv, BusOK
  <2>2. ~Is(command_r', CMD_WRITE_TRACK)
    BY <2>1 DEF SectorHost, Is, CMD_WRITE_TRACK
  <2> QED BY <2>2 DEF Controlled, GateInv, Is
<1>5. wg <=> type_ii_wg
  BY DEF RawInv, wg
<1>6. slot' = 2 <=> slot = 1
  BY <1>2
<1>7. slot = 1 => /\ pos' = pos /\ media' = media /\ (type_ii_wg' <=> type_ii_wg)
                  /\ \/ raw' = media[pos]
                     \/ raw' = Floating /\ (type_ii_wg \/ pos \in Damaged)
  <2> SUFFICES ASSUME slot = 1
               PROVE  /\ pos' = pos /\ media' = media
                      /\ \/ raw' = media[pos]
                         \/ raw' = Floating /\ (type_ii_wg \/ pos \in Damaged)
    BY GateHeld
  <2>1. pos' = pos
    BY <1>2 DEF SramDrive, DriveReads
  <2>2. media' = media
    BY DEF SramDrive, RawInv
  <2>3. raw' \in IF wg THEN {Floating}
                 ELSE IF pos \in Damaged THEN {Floating, media[pos]} ELSE {media[pos]}
    BY DEF SramDrive, DriveReads
  <2>4. CASE wg
    BY <1>5, <2>1, <2>2, <2>3, <2>4
  <2>5. CASE ~wg
    BY <2>1, <2>2, <2>3, <2>5
  <2> QED BY <2>4, <2>5
<1>8. /\ raw' # NoByte <=> slot' = 2
      /\ slot' = 2 => \/ raw' = media'[pos']
                      \/ raw' = Floating /\ (type_ii_wg' \/ pos' \in Damaged)
  <2>1. CASE slot = 1
    <3>1. raw' \in Nat
      BY <1>3, <1>7, <2>1
    <3>2. raw' # NoByte
      BY <3>1 DEF NoByte
    <3> QED BY <1>6, <1>7, <2>1, <3>1, <3>2
  <2>2. CASE slot # 1
    BY <1>6, <2>2 DEF SramDrive, DriveReads
  <2> QED BY <2>1, <2>2
<1>9. rdy' # {} => slot' = 3
  BY <1>2, RdyStep DEF RawInv
<1>10. ip' => pos' <= INDEX_LEN
  BY <1>1 DEF DriveReads, RawInv
<1>11. media_wr' <=> slot' = 2 /\ type_ii_wg'
  BY <1>5, <1>6, <1>7 DEF WriteLogic
<1> QED BY <1>4, <1>8, <1>9, <1>10, <1>11 DEF RawInv

-----------------------------------------------------------------------------
(* What reaches the disk: the mark, then the bytes the host gave, each at  *)
(* its place of the data field.                                            *)
LEMMA WriteStrobe ==
  ASSUME Controlled, RawInv, WriteInv, media_wr
  PROVE  /\ sector_r \in DOMAIN DataField
         /\ \E i \in 0..SECTOR_LEN :
              /\ pos = Place(i) /\ wr_dat_s = Want(i)
              /\ i > 0 => buffer[i] \in DataVals
<1>1. slot = 2 /\ type_ii_wg
  BY DEF RawInv
<1>2. WritesSector /\ t2 \in {"WRITE_SECTOR_DAM", "WRITE_SECTOR_DATA", "DONE"} /\ wr_dat_s = sec_dat_o
  BY <1>1, GateSelects DEF Controlled, GateInv, KeptInv, CalmInv, GateDiscipline
<1>3. NextByte = pos
  BY <1>1 DEF NextByte
<1>4. SECTOR_LEN \in Nat \ {0} /\ byte_count \in 0..(SECTOR_LEN - 1)
  BY ReaderAssumption DEF ReaderAssumption, Controlled, TypeIIOK
<1>5. \A i \in 1..Len(buffer) : buffer[i] \in DataVals
  BY <1>2 DEF WriteInv
<1>6. CASE t2 = "WRITE_SECTOR_DAM"
  BY <1>1, <1>2, <1>6 DEF WriteInv, WritingDam
<1>7. CASE t2 = "WRITE_SECTOR_DATA"
  <2>1. sector_r \in DOMAIN DataField /\ WritingData
    BY <1>2, <1>7 DEF WriteInv
  <2>2. /\ pos = Place(byte_count) /\ sec_dat_o = Want(byte_count)
        /\ Moved(Open) = byte_count + 1
    BY <1>1, <1>3, <2>1 DEF WritingData
  <2>3. Len(buffer) \in Nat
    BY <1>2 DEF WriteInv
  <2>4. byte_count > 0 => byte_count \in 1..Len(buffer)
    BY <1>4, <2>2, <2>3 DEF Moved
  <2> QED BY <1>2, <1>4, <1>5, <2>1, <2>2, <2>4
<1>8. CASE t2 = "DONE"
  <2>1. sector_r \in DOMAIN DataField /\ WritingLast
    BY <1>1, <1>2, <1>8 DEF WriteInv
  <2>2. pos = Place(SECTOR_LEN) /\ sec_dat_o = Want(SECTOR_LEN) /\ Len(buffer) = SECTOR_LEN
    BY <1>3, <2>1 DEF WritingLast
  <2>3. SECTOR_LEN \in 0..SECTOR_LEN /\ SECTOR_LEN \in 1..Len(buffer)
    BY <1>4, <2>2
  <2> QED BY <1>2, <1>5, <2>1, <2>2, <2>3
<1> QED BY <1>2, <1>6, <1>7, <1>8

LEMMA MediaClock ==
  ASSUME SectorHost, Controlled, RawInv, WriteInv, MediaInv, SramDrive
  PROVE  /\ MediaInv'
         /\ \A p \in Places : media'[p] # media[p] =>
              sector_r \in DOMAIN DataField /\ p \in Range(DataField[sector_r])
<1>1. CASE ~media_wr
  BY <1>1 DEF SramDrive, MediaInv
<1>2. CASE media_wr
  <2>1. sector_r \in DOMAIN DataField
    BY <1>2, WriteStrobe
  <2>2. PICK i \in 0..SECTOR_LEN :
          pos = Place(i) /\ wr_dat_s = Want(i) /\ (i > 0 => buffer[i] \in DataVals)
    BY <1>2, WriteStrobe
  <2>3. pos = First(sector_r) + i /\ pos \in Fields /\ pos \in Places
    BY <2>1, <2>2, FieldPlace DEF Place
  <2>4. wr_dat_s \in Nat /\ wr_dat_s \notin {XA1, GOOD_CRC} /\ (i = 0 => wr_dat_s # XFE)
    <3>1. CASE i = 0
      BY <2>2, <3>1 DEF Want, DamToWrite, XA1, GOOD_CRC, XFE
    <3>2. CASE i # 0
      <4>1. wr_dat_s = buffer[i] /\ buffer[i] \in DataVals
        BY <2>2, <3>2 DEF Want
      <4>2. DataVals \subseteq Nat
        BY SizeAssumption, InputAssumption DEF SizeAssumption, InputAssumption
      <4> QED BY <3>2, <4>1, <4>2 DEF SectorHost
    <3> QED BY <3>1, <3>2
  <2>5. DOMAIN media' = Places /\ \A p \in Places : media'[p] = IF p = pos THEN wr_dat_s ELSE media[p]
    BY <1>2 DEF SramDrive, MediaInv
  <2>6. \A s \in DOMAIN DataField : First(s) = pos => i = 0
    BY <2>1, <2>3, FirstOnly
  <2>7. \A s \in DOMAIN DataField : First(s) \in Places
    <3>1. 0 \in 0..SECTOR_LEN
      BY ReaderAssumption DEF ReaderAssumption
    <3> QED BY <3>1, FieldPlace
  <2>8. MediaInv'
    BY <2>3, <2>4, <2>5, <2>6, <2>7 DEF MediaInv
  <2>9. pos \in Range(DataField[sector_r])
    <3>1. DataField[sector_r][i + 1] = pos
      BY <2>1, <2>3, FieldPlace
    <3>2. DataField[sector_r] = [j \in 1..(SECTOR_LEN + 1) |-> First(sector_r) + j - 1]
      BY <2>1, FormatAssumption DEF FormatAssumption
    <3>3. i + 1 \in DOMAIN DataField[sector_r]
      BY <3>2, ReaderAssumption DEF ReaderAssumption
    <3> QED BY <3>1, <3>3 DEF Range
  <2> QED BY <2>1, <2>5, <2>8, <2>9
<1> QED BY <1>1, <1>2

-----------------------------------------------------------------------------
(* An ID being read.                                                       *)
LEMMA ReaderBytes ==
  ASSUME ReadLogic, raw # NoByte, rd # "UNKNOWN"
  PROVE  /\ data_o_r' = raw
         /\ rd' = "ID_ADDR_MARK" => raw = XA1 /\ "id_mark" \notin rdy'
         /\ rd' = "TRACK" => rd = "ID_ADDR_MARK" /\ raw = XFE /\ "id_mark" \notin rdy'
         /\ rd' = "SIDE" => rd = "TRACK"
         /\ rd' = "SECTOR" => rd = "SIDE"
         /\ rd' = "SEC_LEN" => rd = "SECTOR" /\ idam_sector' = raw
         /\ rd' = "CRC_1" => /\ idam_sector' = idam_sector
                             /\ \/ rd = "SEC_LEN" /\ rd_count' = 0
                                \/ rd = "CRC_1" /\ rd_count = 0 /\ rd_count' = 1
         /\ "id_mark" \in rdy' => /\ rd = "CRC_1" /\ rd_count # 0 /\ raw = GOOD_CRC
                                  /\ rd' = "GAP3_4E" /\ rd_count' = 0
                                  /\ idam_sector' = idam_sector
<1> USE DEF Reader, Ready, Lost, HeldId
<1>1. data_o_r' = raw
  BY DEF ReadLogic, RdQuiet
<1>2. CASE RdGaps
  BY <1>1, <1>2 DEF RdGaps, Gap
<1>3. CASE RdMarks
  BY <1>1, <1>3 DEF RdMarks, Marks
<1>4. CASE RdIdMark
  BY <1>1, <1>4 DEF RdIdMark
<1>5. CASE RdId
  BY <1>1, <1>5 DEF RdId
<1>6. CASE RdIdCrc
  BY <1>1, <1>6 DEF RdIdCrc
<1>7. CASE RdDam \/ RdUserData \/ RdUserCrc
  BY <1>1, <1>7 DEF RdDam, RdUserData, RdUserCrc
<1> QED BY <1>2, <1>3, <1>4, <1>5, <1>6, <1>7 DEF ReadLogic, RdQuiet

LEMMA ReaderQuiet ==
  ASSUME ReadLogic, raw = NoByte \/ rd = "UNKNOWN"
  PROVE  /\ rdy' = {} /\ idam_sector' = idam_sector /\ data_o_r' = data_o_r
         /\ IF rd = "UNKNOWN" THEN rd' = "GAP2_4E" ELSE rd' = rd /\ rd_count' = rd_count
BY DEF ReadLogic, RdQuiet, Reader, Ready, HeldId

(* The gate is open only in the data field.                                *)
LEMMA GateShut ==
  ASSUME Controlled, WriteInv, rd \notin {"DAM", "USER_DATA"}
  PROVE  ~type_ii_wg
<1> SUFFICES ASSUME type_ii_wg PROVE FALSE
  OBVIOUS
<1>1. WritesSector /\ t2 \in {"WRITE_SECTOR_DAM", "WRITE_SECTOR_DATA", "DONE"}
  BY DEF Controlled, GateInv
<1> QED BY <1>1 DEF WriteInv, WritingDam, WritingData, WritingLast

LEMMA HeadByte ==
  ASSUME RawInv, MediaInv, DriveOK, slot = 2
  PROVE  /\ pos \in Places
         /\ raw = XA1 \/ raw = GOOD_CRC => pos \notin Fields /\ Image[pos] = raw
         /\ raw = XFE => media[pos] = XFE
         /\ raw = media[pos] \/ type_ii_wg \/ pos \in Damaged
<1>1. pos \in Places
  BY DEF DriveOK, Places
<1>2. Floating \notin {XA1, XFE, GOOD_CRC}
  BY FormatAssumption DEF FormatAssumption
<1> QED BY <1>1, <1>2 DEF RawInv, MediaInv

LEMMA IdStays ==
  ASSUME DriveOK, SramDrive, slot # 2, idam_sector' = idam_sector, NEW k \in 1..7, IdBehind(k)
  PROVE  IdBehind(k)'
<1>1. NextByte' = NextByte
  BY PlaceStep DEF SramDrive
<1> QED BY <1>1 DEF IdBehind, Ahead

LEMMA IdPasses ==
  ASSUME DriveOK, RawInv, MediaInv, SramDrive, slot = 2, ~type_ii_wg, NEW k \in 1..6, IdBehind(k),
         k = 1 => raw = XFE,
         idam_sector' = IF k = 4 THEN raw ELSE idam_sector
  PROVE  IdBehind(k + 1)'
<1>1. NextByte = pos /\ NextByte' = Ahead(pos, 1) /\ pos \in Places
  BY PlaceStep DEF SramDrive
<1>2. PICK p \in Places :
        /\ Image[p] = XA1 /\ NextByte = Ahead(p, k)
        /\ k > 1 => Image[Ahead(p, 1)] = XFE
        /\ k > 4 => idam_sector = Image[Ahead(p, 4)] \/ Ahead(p, 4) \in Fields \cup Damaged
  BY DEF IdBehind
<1>3. NextByte' = Ahead(p, k + 1)
  <2>1. Len(Track) > 7
    BY ImagePlaces, FormatAssumption DEF FormatAssumption
  <2> QED BY <1>1, <1>2, <2>1, AheadStep
<1>4. Image[Ahead(p, 1)] = XFE
  <2>1. CASE k > 1
    BY <1>2, <2>1
  <2>2. CASE k = 1
    <3>1. media[pos] = XFE /\ pos = Ahead(p, 1)
      BY <1>1, <1>2, <2>2, HeadByte
    <3>2. CASE pos \notin Fields
      BY <1>1, <3>1, <3>2 DEF MediaInv
    <3>3. CASE pos \in Fields
      <4>1. PICK s \in DOMAIN DataField, i \in 0..SECTOR_LEN : pos = First(s) + i
        BY <3>3, FieldOf
      <4>2. SECTOR_LEN \in Nat /\ First(s) \in Places
        BY FieldPlace, ReaderAssumption DEF ReaderAssumption
      <4>3. CASE i = 0
        BY <3>1, <4>1, <4>2, <4>3 DEF MediaInv, Places
      <4>4. CASE i # 0
        <5>1. i - 1 \in 0..SECTOR_LEN
          BY <4>2, <4>4
        <5>2. First(s) + (i - 1) \in Fields
          BY <5>1, FieldPlace
        <5>3. p = First(s) + (i - 1)
          BY <1>1, <3>1, <4>1, <4>2, <4>4, ImagePlaces DEF Ahead, Places
        <5>4. Image[p] # XA1
          BY <5>2, <5>3, FormatAssumption DEF FormatAssumption
        <5> QED BY <1>2, <5>4
      <4> QED BY <4>3, <4>4
    <3> QED BY <3>2, <3>3
  <2> QED BY <2>1, <2>2
<1>5. k + 1 > 4 => idam_sector' = Image[Ahead(p, 4)] \/ Ahead(p, 4) \in Fields \cup Damaged
  <2>1. CASE k = 4
    <3>1. pos = Ahead(p, 4) /\ idam_sector' = raw
      BY <1>1, <1>2, <2>1
    <3>2. raw = media[pos] \/ pos \in Damaged
      BY HeadByte
    <3>3. pos \notin Fields => media[pos] = Image[pos]
      BY <1>1 DEF MediaInv
    <3> QED BY <3>1, <3>2, <3>3
  <2>2. CASE k # 4
    BY <1>2, <2>2
  <2> QED BY <2>1, <2>2
<1> QED BY <1>2, <1>3, <1>4, <1>5 DEF IdBehind, Ahead

(* An ID whose CRC agrees is one of the disk, and the reader has its        *)
(* sector.                                                                 *)
LEMMA IdEnds ==
  ASSUME DriveOK, RawInv, MediaInv, SramDrive, slot = 2, IdBehind(7), raw = GOOD_CRC,
         idam_sector' = idam_sector
  PROVE  IdSeen'
<1>1. NextByte = pos /\ NextByte' = Ahead(pos, 1) /\ pos \in Places
  BY PlaceStep DEF SramDrive
<1>2. PICK p \in Places :
        /\ Image[p] = XA1 /\ NextByte = Ahead(p, 7)
        /\ Image[Ahead(p, 1)] = XFE
        /\ idam_sector = Image[Ahead(p, 4)] \/ Ahead(p, 4) \in Fields \cup Damaged
  BY DEF IdBehind
<1>3. Image[Ahead(p, 7)] = GOOD_CRC
  BY <1>1, <1>2, HeadByte
<1> DEFINE s == Image[Ahead(p, 4)]
<1>4. s \in DOMAIN DataField /\ \E n1, n2 \in 1..Len(Image) : Leads(p, s, n1, n2)
  BY <1>2, <1>3, ImagePlaces, FormatAssumption DEF FormatAssumption
<1>5. PICK n1 \in Places, n2 \in Places : Leads(p, s, n1, n2)
  BY <1>4, ImagePlaces
<1>6. First(s) \in Places /\ SECTOR_LEN \in Nat /\ A1_RUN \in Nat
  <2>1. SECTOR_LEN \in Nat /\ A1_RUN \in Nat /\ 0 \in 0..SECTOR_LEN
    BY ReaderAssumption DEF ReaderAssumption
  <2> QED BY <1>4, <2>1, FieldPlace
<1>7. /\ p + 7 + n1 + n2 + A1_RUN + 1 = First(s)
      /\ \A q \in p..(First(s) - 1) : q \notin Fields /\ (q # p + 7 => q \notin Damaged)
  BY <1>5 DEF Leads
<1>8. /\ p + 8 \in Places /\ p \in Nat /\ First(s) \in Nat /\ p + 8 <= First(s)
      /\ First(s) <= Len(Track) /\ Len(Track) \in Nat
  BY <1>6, <1>7, ImagePlaces DEF Places
<1>9. Ahead(p, 4) = p + 4 /\ Ahead(p, 7) = p + 7
  BY <1>8 DEF Ahead
<1>10. NextByte' = p + 8
  BY <1>1, <1>2, <1>8, <1>9, NextPlace
<1>11. p + 4 \notin Fields \cup Damaged
  <2>1. p + 4 \in p..(First(s) - 1) /\ p + 4 # p + 7
    BY <1>8
  <2> QED BY <1>7, <2>1
<1>12. idam_sector' = s
  BY <1>2, <1>9, <1>11
<1> QED BY <1>4, <1>5, <1>10, <1>12 DEF IdSeen

LEMMA IdClock ==
  ASSUME SectorHost, Controlled, RawInv, MediaInv, WriteInv, IdInv, SramDrive, ReadLogic
  PROVE  IdInv'
<1>1. DriveOK
  BY DEF Controlled, ServeInv, CoreInv
<1>2. CASE raw = NoByte \/ rd = "UNKNOWN"
  <2>1. /\ rdy' = {} /\ idam_sector' = idam_sector
        /\ IF rd = "UNKNOWN" THEN rd' = "GAP2_4E" ELSE rd' = rd /\ rd_count' = rd_count
    BY <1>2, ReaderQuiet
  <2>2. CASE rd = "UNKNOWN"
    BY <2>1, <2>2 DEF IdInv
  <2>3. CASE rd # "UNKNOWN"
    <3>1. slot # 2
      BY <1>2, <2>3 DEF RawInv
    <3>2. \A k \in 1..7 : IdBehind(k) => IdBehind(k)'
      BY <1>1, <2>1, <3>1, IdStays
    <3> QED BY <2>1, <2>3, <3>2 DEF IdInv
  <2> QED BY <2>2, <2>3
<1>3. CASE raw # NoByte /\ rd # "UNKNOWN"
  <2>1. slot = 2 /\ NextByte = pos /\ NextByte' = Ahead(pos, 1) /\ pos \in Places
    BY <1>1, <1>3, PlaceStep DEF RawInv, SramDrive
  <2>2. ASSUME NEW k \in 1..6, IdBehind(k), rd \notin {"DAM", "USER_DATA"},
               k = 1 => raw = XFE, idam_sector' = IF k = 4 THEN raw ELSE idam_sector
        PROVE  IdBehind(k + 1)'
    BY <1>1, <2>1, <2>2, GateShut, IdPasses
  <2>3. rd' = "ID_ADDR_MARK" => IdBehind(1)'
    <3> SUFFICES ASSUME rd' = "ID_ADDR_MARK" PROVE IdBehind(1)'
      OBVIOUS
    <3>1. Image[pos] = XA1
      BY <1>1, <1>3, <2>1, ReaderBytes, HeadByte
    <3> QED BY <2>1, <3>1 DEF IdBehind, Ahead
  <2>4. /\ rd' = "TRACK" => rd = "ID_ADDR_MARK" /\ raw = XFE
        /\ rd' = "SIDE" => rd = "TRACK"
        /\ rd' = "SECTOR" => rd = "SIDE"
        /\ rd' = "SEC_LEN" => rd = "SECTOR" /\ idam_sector' = raw
        /\ rd' = "CRC_1" => /\ idam_sector' = idam_sector
                            /\ \/ rd = "SEC_LEN" /\ rd_count' = 0
                               \/ rd = "CRC_1" /\ rd_count = 0 /\ rd_count' = 1
        /\ "id_mark" \in rdy' => /\ rd = "CRC_1" /\ rd_count # 0 /\ raw = GOOD_CRC
                                 /\ rd' = "GAP3_4E" /\ rd_count' = 0
                                 /\ idam_sector' = idam_sector
    BY <1>3, ReaderBytes
  <2>5. rd' \in {"TRACK", "SIDE", "SECTOR"} => idam_sector' = idam_sector
    BY <1>3, <2>4 DEF ReadLogic, RdQuiet, RdGaps, Gap, RdMarks, Marks, RdIdMark, RdId, RdIdCrc,
                      RdDam, RdUserData, RdUserCrc, HeldId
  <2>6. rd' = "TRACK" => IdBehind(2)'
    BY <2>2, <2>4, <2>5 DEF IdInv
  <2>7. rd' = "SIDE" => IdBehind(3)'
    BY <2>2, <2>4, <2>5 DEF IdInv
  <2>8. rd' = "SECTOR" => IdBehind(4)'
    BY <2>2, <2>4, <2>5 DEF IdInv
  <2>9. rd' = "SEC_LEN" => IdBehind(5)'
    BY <2>2, <2>4 DEF IdInv
  <2>10. rd' = "CRC_1" => (rd_count' = 0 /\ IdBehind(6)') \/ (rd_count' = 1 /\ IdBehind(7)')
    BY <2>2, <2>4 DEF IdInv
  <2>11. "id_mark" \in rdy' => rd' = "GAP3_4E" /\ rd_count' = 0 /\ IdSeen'
    BY <1>1, <2>1, <2>4, IdEnds DEF IdInv
  <2> QED BY <2>3, <2>6, <2>7, <2>8, <2>9, <2>10, <2>11 DEF IdInv
<1> QED BY <1>2, <1>3

-----------------------------------------------------------------------------
(* From the ID to the data mark.                                           *)
LEMMA CommandHeld ==
  ASSUME SectorHost, Controlled, FreshInv, Host, TypeIII, t2 # "IDLE"
  PROVE  /\ command_r' = command_r /\ sector_r' = sector_r
         /\ ReadsSector' <=> ReadsSector
         /\ WritesSector' <=> WritesSector
         /\ ReadsSector <=> ~WritesSector
<1>1. command_r' = command_r
  BY CommandKept DEF SectorHost, Controlled, Rests, Quiet
<1>2. t3 = "IDLE" /\ type_stb # "IV"
  BY DEF Controlled, KeptInv, ProcInv, SoleInv, CalmInv
<1>3. ~sec_wr_stb /\ (ReadsSector \/ WritesSector)
  BY DEF FreshInv
<1>4. sector_r' = sector_r
  BY <1>2, <1>3 DEF TypeIII, T3Abort, Aborted, T3Idle, T3ReadAddrWait, T3ReadAddr, T3WaitTrack,
                    T3ReadTrack, T3WriteTrack, T3WriteByte, T3Done, LoadedSector
<1>5. ~(ReadsSector /\ WritesSector)
  BY DEF ReadsSector, WritesSector, Is, CMD_READ_SECTOR, CMD_WRITE_SECTOR
<1> QED BY <1>1, <1>3, <1>4, <1>5 DEF ReadsSector, WritesSector, Is

LEMMA LeadsPlaces ==
  ASSUME NEW p \in Places, NEW s \in DOMAIN DataField, NEW n1 \in Places, NEW n2 \in Places,
         Leads(p, s, n1, n2)
  PROVE  /\ p \in Nat /\ n1 \in Nat /\ n2 \in Nat /\ n1 >= 1 /\ n2 >= 1
         /\ A1_RUN \in Nat /\ A1_RUN >= 2 /\ INDEX_LEN \in Nat /\ INDEX_LEN < p + 7
         /\ First(s) = p + 7 + n1 + n2 + A1_RUN + 1
         /\ First(s) \in Places /\ First(s) + 1 \in Places
         /\ \A q \in p..(First(s) - 1) : q \notin Fields /\ (q # p + 7 => q \notin Damaged)
<1>1. SECTOR_LEN \in Nat \ {0} /\ A1_RUN \in Nat /\ A1_RUN >= 2 /\ INDEX_LEN \in Nat
  BY ReaderAssumption, InputAssumption DEF ReaderAssumption, InputAssumption
<1>2. 0 \in 0..SECTOR_LEN /\ 1 \in 0..SECTOR_LEN
  BY <1>1
<1>3. First(s) \in Places /\ First(s) + 1 \in Places
  BY <1>2, FieldPlace
<1>4. p \in Nat /\ n1 \in Nat /\ n2 \in Nat /\ n1 >= 1 /\ n2 >= 1
  BY ImagePlaces DEF Places
<1>5. /\ INDEX_LEN < p + 7 /\ First(s) = p + 7 + n1 + n2 + A1_RUN + 1
      /\ \A q \in p..(First(s) - 1) : q \notin Fields /\ (q # p + 7 => q \notin Damaged)
  BY DEF Leads
<1> QED BY <1>1, <1>3, <1>4, <1>5

(* No index pulse begins between an ID and its data.                       *)
LEMMA NoIndex ==
  ASSUME Controlled, RawInv, ProcIp, SramDrive, ~rnf_error,
         NEW c \in Nat, NEW k \in Nat, INDEX_LEN < c, k >= 1, NextByte = c + k
  PROVE  ~rnf_error'
<1>1. /\ pos \in Places /\ (pos = NextByte \/ NextByte = Ahead(pos, 1))
  BY PlaceStep DEF SramDrive, Controlled, ServeInv, CoreInv
<1>2. pos \in Nat /\ pos >= 1 /\ INDEX_LEN \in Nat /\ Len(Track) \in Nat
  BY <1>1, ImagePlaces, InputAssumption DEF InputAssumption, Places
<1>3. pos >= c
  BY <1>1, <1>2 DEF Ahead
<1>4. ~ip
  BY <1>2, <1>3 DEF RawInv
<1>5. ip_cnt \in Nat /\ RNF_LIMIT \in Nat /\ ip_cnt < RNF_LIMIT
  BY SizeAssumption DEF SizeAssumption, Controlled, IrqOK, rnf_error
<1>6. ip_cnt' = 0 \/ ip_cnt' = ip_cnt
  BY <1>4 DEF ProcIp
<1> QED BY <1>5, <1>6 DEF rnf_error

LEMMA GapByte ==
  ASSUME NEW p \in Places, NEW s \in DOMAIN DataField, NEW n1 \in Places, NEW n2 \in Places,
         Leads(p, s, n1, n2), NEW k \in Nat, InGap(k, n1, n2),
         ReadLogic, raw # NoByte, rdy = {}, WritesSector' <=> WritesSector, ReadsSector' <=> ReadsSector,
         ReadsSector <=> ~WritesSector, raw = Image[p + 7 + k] \/ k > n1 + n2 + A1_RUN
  PROVE  /\ InGap(k + 1, n1, n2)'
         /\ k \in 1..(n1 + n2 + A1_RUN + 1) /\ rd \in {"GAP3_4E", "GAP3_00", "GAP3_A1", "DAM"}
<1> USE DEF Reader, Ready, Capped
<1>1. /\ n1 \in Nat /\ n2 \in Nat /\ n1 >= 1 /\ n2 >= 1 /\ A1_RUN \in Nat /\ A1_RUN >= 2
      /\ p \in Nat
  BY LeadsPlaces
<1>2. /\ \A q \in 1..n1 : Image[p + 7 + q] = X4E
      /\ \A q \in 1..n2 : Image[p + 7 + n1 + q] = X00
      /\ \A q \in 1..A1_RUN : Image[p + 7 + n1 + n2 + q] = XA1
      /\ GAP3_4E_MIN <= n1 /\ GAP3_00_MIN <= n2
  BY DEF Leads
<1>3. /\ GAP3_4E_MIN \in Nat /\ GAP3_4E_MIN >= 1 /\ GAP3_00_MIN \in Nat /\ GAP3_00_MIN >= 1
      /\ X4E # X00 /\ X00 # XA1
  BY ReaderAssumption DEF ReaderAssumption, X4E, X00, XA1
<1>4. CASE rd = "GAP3_4E"
  <2>1. k \in 1..(n1 + 1) /\ rd_count = AtMost(k - 1, GAP3_4E_MIN)
    BY <1>4 DEF InGap
  <2>2. raw = Image[p + 7 + k]
    BY <1>1, <2>1
  <2>3. Gap("GAP3_4E", X4E, GAP3_4E_MIN, "GAP3_00", X00)
    BY <1>4 DEF ReadLogic, RdQuiet, RdGaps, Gap, RdMarks, Marks, RdIdMark, RdId, RdIdCrc, RdDam,
                RdUserData, RdUserCrc
  <2>4. CASE k <= n1
    <3>1. raw = X4E
      BY <1>1, <1>2, <2>1, <2>2, <2>4
    <3>2. rd' = "GAP3_4E" /\ rdy' = {} /\ rd_count' = Capped(rd_count, GAP3_4E_MIN)
      BY <2>3, <3>1 DEF Gap
    <3>3. rd_count' = AtMost(k, GAP3_4E_MIN)
      BY <1>3, <2>1, <3>2 DEF AtMost
    <3>4. k + 1 \in 1..(n1 + 1) /\ (k + 1) - 1 = k
      BY <1>1, <2>1, <2>4
    <3> QED BY <1>1, <1>4, <2>1, <3>2, <3>3, <3>4 DEF InGap, AtMost
  <2>5. CASE k > n1
    <3>1. k = n1 + 1 /\ p + 7 + k = p + 7 + n1 + 1 /\ 1 \in 1..n2
      BY <1>1, <2>1, <2>5
    <3>2. raw = X00
      BY <1>2, <2>2, <3>1
    <3>3. rd_count = GAP3_4E_MIN
      BY <1>1, <1>2, <1>3, <2>1, <3>1 DEF AtMost
    <3>4. rd' = "GAP3_00" /\ rdy' = {} /\ rd_count' = 1
      BY <1>3, <2>3, <3>2, <3>3 DEF Gap
    <3>5. k + 1 \in (n1 + 2)..(n1 + n2 + 1) /\ (k + 1) - 1 - n1 = 1 /\ k <= n1 + n2
      BY <1>1, <3>1
    <3>6. 1 = AtMost(1, GAP3_00_MIN)
      BY <1>3 DEF AtMost
    <3> QED BY <1>1, <1>4, <3>4, <3>5, <3>6 DEF InGap, AtMost
  <2> QED BY <1>1, <2>1, <2>4, <2>5
<1>5. CASE rd = "GAP3_00"
  <2>1. k \in (n1 + 2)..(n1 + n2 + 1) /\ rd_count = AtMost(k - 1 - n1, GAP3_00_MIN)
    BY <1>5 DEF InGap
  <2>2. raw = Image[p + 7 + k]
    BY <1>1, <2>1
  <2>3. Gap("GAP3_00", X00, GAP3_00_MIN, "GAP3_A1", XA1)
    BY <1>5 DEF ReadLogic, RdQuiet, RdGaps, Gap, RdMarks, Marks, RdIdMark, RdId, RdIdCrc, RdDam,
                RdUserData, RdUserCrc
  <2>4. CASE k <= n1 + n2
    <3>1. k - n1 \in 1..n2 /\ p + 7 + k = p + 7 + n1 + (k - n1)
      BY <1>1, <2>1, <2>4
    <3>2. raw = X00
      BY <1>2, <2>2, <3>1
    <3>3. rd' = "GAP3_00" /\ rdy' = {} /\ rd_count' = Capped(rd_count, GAP3_00_MIN)
      BY <2>3, <3>2 DEF Gap
    <3>4. rd_count' = AtMost(k - n1, GAP3_00_MIN)
      BY <1>1, <1>3, <2>1, <3>3 DEF AtMost
    <3>5. k + 1 \in (n1 + 2)..(n1 + n2 + 1) /\ (k + 1) - 1 - n1 = k - n1
      BY <1>1, <2>1, <2>4
    <3> QED BY <1>1, <1>5, <2>1, <3>3, <3>4, <3>5 DEF InGap, AtMost
  <2>5. CASE k > n1 + n2
    <3>1. k = n1 + n2 + 1 /\ p + 7 + k = p + 7 + n1 + n2 + 1 /\ 1 \in 1..A1_RUN
      BY <1>1, <2>1, <2>5
    <3>2. raw = XA1
      BY <1>2, <2>2, <3>1
    <3>3. rd_count = GAP3_00_MIN
      BY <1>1, <1>2, <1>3, <2>1, <3>1 DEF AtMost
    <3>4. rd' = "GAP3_A1" /\ rdy' = {} /\ rd_count' = 1
      BY <1>3, <2>3, <3>2, <3>3 DEF Gap
    <3>5. k + 1 \in (n1 + n2 + 2)..(n1 + n2 + A1_RUN) /\ (k + 1) - 1 - n1 - n2 = 1
      BY <1>1, <3>1
    <3> QED BY <1>1, <1>5, <2>1, <3>4, <3>5 DEF InGap
  <2> QED BY <1>1, <2>1, <2>4, <2>5
<1>6. CASE rd = "GAP3_A1"
  <2>1. k \in (n1 + n2 + 2)..(n1 + n2 + A1_RUN) /\ rd_count = k - 1 - n1 - n2
    BY <1>6 DEF InGap
  <2>2. k - n1 - n2 \in 1..A1_RUN /\ p + 7 + k = p + 7 + n1 + n2 + (k - n1 - n2)
    BY <1>1, <2>1
  <2>3. raw = XA1
    <3>1. raw = Image[p + 7 + k]
      BY <1>1, <2>1
    <3> QED BY <1>2, <2>2, <3>1
  <2>4. Marks("GAP3_A1", "DAM", {"data_mark_next"})
    BY <1>6 DEF ReadLogic, RdQuiet, RdGaps, Gap, RdMarks, Marks, RdIdMark, RdId, RdIdCrc, RdDam,
                RdUserData, RdUserCrc
  <2>5. CASE rd_count + 1 = A1_RUN
    <3>1. rd' = "DAM" /\ rdy' = {"data_mark_next"}
      BY <2>3, <2>4, <2>5 DEF Marks
    <3>2. k + 1 = n1 + n2 + A1_RUN + 1
      BY <1>1, <2>1, <2>5
    <3> QED BY <1>1, <1>6, <2>1, <3>1, <3>2 DEF InGap
  <2>6. CASE rd_count + 1 # A1_RUN
    <3>1. rd' = "GAP3_A1" /\ rdy' = {} /\ rd_count' = rd_count + 1
      BY <2>3, <2>4, <2>6 DEF Marks
    <3>2. k + 1 \in (n1 + n2 + 2)..(n1 + n2 + A1_RUN) /\ rd_count + 1 = (k + 1) - 1 - n1 - n2
      BY <1>1, <2>1, <2>6
    <3> QED BY <1>1, <1>6, <2>1, <3>1, <3>2 DEF InGap
  <2> QED BY <2>5, <2>6
<1>7. CASE rd = "DAM"
  <2>1. k = n1 + n2 + A1_RUN + 1 /\ ReadsSector
    BY <1>7 DEF InGap
  <2>2. RdDam
    BY <1>7 DEF ReadLogic, RdQuiet, RdGaps, Gap, RdMarks, Marks, RdIdMark, RdId, RdIdCrc, RdDam,
                RdUserData, RdUserCrc
  <2>3. rd' = "USER_DATA" /\ rd_count' = 0 /\ rdy' = {"data_mark"} /\ ReadsSector'
    BY <2>1, <2>2 DEF RdDam
  <2>4. k + 1 = n1 + n2 + A1_RUN + 2
    BY <1>1, <2>1
  <2> QED BY <1>1, <1>7, <2>1, <2>3, <2>4 DEF InGap
<1> QED BY <1>4, <1>5, <1>6, <1>7 DEF InGap

LEMMA GapClock ==
  ASSUME SectorHost, Controlled, FreshInv, RawInv, MediaInv, WriteInv, IdInv, GapInv, SramNext
  PROVE  GapInv'
<1> USE DEF SramNext, Controller
<1> SUFFICES ASSUME t2' = "WAIT_DAM"
             PROVE  /\ ~rnf_error' /\ sector_r' \in DOMAIN DataField
                    /\ \E p \in Places, n1, n2 \in Places, k \in Nat :
                         Leads(p, sector_r', n1, n2) /\ NextByte' = p + 7 + k /\ InGap(k, n1, n2)'
  BY DEF GapInv, Leads
<1>1. DriveOK /\ SramDrive
  BY DEF Controlled, ServeInv, CoreInv
<1>2. T2WaitIdam \/ T2WaitDam
  BY Calm DEF T2Idle, T2ReadSector, T2WaitCrc, T2WriteDam, T2WriteData, T2Done
<1>3. t2 \in {"WAIT_IDAM", "WAIT_DAM"}
  BY <1>2 DEF T2WaitIdam, T2WaitDam
<1>4. /\ sector_r' = sector_r /\ (ReadsSector' <=> ReadsSector) /\ (WritesSector' <=> WritesSector)
      /\ ReadsSector <=> ~WritesSector
  BY <1>3, CommandHeld
<1>5. CASE T2WaitIdam
  <2>1. "id_mark" \in rdy /\ idam_sector = sector_r /\ ~rnf_error
    BY <1>5 DEF T2WaitIdam, IdMatches
  <2>2. rd = "GAP3_4E" /\ rd_count = 0 /\ IdSeen /\ slot = 3 /\ raw = NoByte
    BY <2>1 DEF IdInv, RawInv
  <2>3. PICK p \in Places, n1 \in Places, n2 \in Places :
          Leads(p, sector_r, n1, n2) /\ NextByte = p + 8
    BY <2>1, <2>2 DEF IdSeen
  <2>4. rd' = "GAP3_4E" /\ rd_count' = 0 /\ rdy' = {}
    BY <2>2, ReaderQuiet
  <2>5. NextByte' = p + 7 + 1 /\ NextByte = p + 7 + 1
    BY <1>1, <2>2, <2>3, PlaceStep, ImagePlaces DEF SramDrive, Places
  <2>6. sector_r \in DOMAIN DataField
    BY <2>1, <2>2 DEF IdSeen
  <2>7. n1 \in Nat /\ p \in Nat /\ INDEX_LEN < p + 7
    BY <2>3, <2>6, LeadsPlaces
  <2>8. InGap(1, n1, n2)'
    <3>1. GAP3_4E_MIN \in Nat /\ GAP3_4E_MIN # 0
      BY ReaderAssumption DEF ReaderAssumption
    <3>2. 1 \in 1..(n1 + 1) /\ AtMost(1 - 1, GAP3_4E_MIN) = 0
      BY <2>7, <3>1 DEF AtMost
    <3> QED BY <2>4, <3>2 DEF InGap, AtMost
  <2>9. ~rnf_error'
    <3>1. p + 7 \in Nat /\ 1 \in Nat
      BY <2>7
    <3> QED BY <2>1, <2>5, <2>7, <3>1, NoIndex
  <2> QED BY <1>4, <2>3, <2>5, <2>6, <2>8, <2>9
<1>6. CASE T2WaitDam
  <2>1. /\ t2 = "WAIT_DAM" /\ ~(WritesSector /\ "data_mark_next" \in rdy)
        /\ ~(ReadsSector /\ "data_mark" \in rdy) /\ ~rnf_error
    BY <1>6 DEF T2WaitDam
  <2>2. sector_r \in DOMAIN DataField
    BY <2>1 DEF GapInv
  <2>3. PICK p \in Places, n1 \in Places, n2 \in Places, k \in Nat :
          Leads(p, sector_r, n1, n2) /\ NextByte = p + 7 + k /\ InGap(k, n1, n2)
    BY <2>1 DEF GapInv
  <2>4. /\ p \in Nat /\ n1 \in Nat /\ n2 \in Nat /\ n1 >= 1 /\ n2 >= 1 /\ A1_RUN \in Nat
        /\ A1_RUN >= 2 /\ INDEX_LEN < p + 7
        /\ First(sector_r) = p + 7 + n1 + n2 + A1_RUN + 1
        /\ First(sector_r) \in Places /\ First(sector_r) + 1 \in Places
        /\ \A q \in p..(First(sector_r) - 1) : q \notin Fields /\ (q # p + 7 => q \notin Damaged)
    BY <2>2, <2>3, LeadsPlaces
  <2>5. k >= 1 /\ rd # "UNKNOWN"
    BY <2>3, <2>4 DEF InGap
  <2>6. ~rnf_error'
    <3>1. p + 7 \in Nat
      BY <2>4
    <3> QED BY <2>1, <2>3, <2>4, <2>5, <3>1, NoIndex
  <2>7. CASE raw = NoByte
    <3>1. rd' = rd /\ rd_count' = rd_count /\ rdy' = {}
      BY <2>5, <2>7, ReaderQuiet
    <3>2. slot # 2
      BY <2>7 DEF RawInv
    <3>3. NextByte' = p + 7 + k
      BY <1>1, <2>3, <3>2, PlaceStep DEF SramDrive
    <3>4. InGap(k, n1, n2)'
      BY <1>4, <2>1, <2>3, <3>1 DEF InGap, AtMost
    <3> QED BY <1>4, <2>2, <2>3, <2>6, <3>3, <3>4
  <2>8. CASE raw # NoByte
    <3>1. slot = 2 /\ rdy = {}
      BY <2>8 DEF RawInv
    <3>2. NextByte = pos /\ NextByte' = Ahead(pos, 1) /\ pos \in Places
      BY <1>1, <3>1, PlaceStep DEF SramDrive
    <3>3. raw = Image[p + 7 + k] \/ k > n1 + n2 + A1_RUN
      <4> SUFFICES ASSUME k <= n1 + n2 + A1_RUN PROVE raw = Image[p + 7 + k]
        BY <2>4
      <4>1. p + 7 + k \in p..(First(sector_r) - 1) /\ p + 7 + k # p + 7
        BY <2>4, <2>5
      <4>2. pos = p + 7 + k /\ pos \notin Fields /\ pos \notin Damaged
        BY <2>3, <2>4, <3>2, <4>1
      <4>3. ~type_ii_wg
        BY <2>1 DEF Controlled, GateInv
      <4>4. raw = media[pos]
        BY <1>1, <3>1, <4>2, <4>3, HeadByte
      <4> QED BY <3>2, <4>2, <4>4 DEF MediaInv
    <3>4. InGap(k + 1, n1, n2)' /\ k \in 1..(n1 + n2 + A1_RUN + 1)
      BY <1>4, <2>2, <2>3, <2>5, <2>8, <3>1, <3>3, GapByte
    <3>5. NextByte' = p + 7 + (k + 1)
      <4>1. pos + 1 \in Places /\ pos + 1 = p + 7 + (k + 1)
        BY <2>3, <2>4, <3>2, <3>4, ImagePlaces DEF Places
      <4> QED BY <3>2, <4>1, NextPlace
    <3> QED BY <1>4, <2>2, <2>3, <2>6, <3>4, <3>5
  <2> QED BY <2>7, <2>8
<1> QED BY <1>2, <1>5, <1>6

-----------------------------------------------------------------------------
(* A read.                                                                 *)
LEMMA ReadOwed ==
  ASSUME SectorHost, Controlled, Controlled', SramNext, Owed = 0 \/ Owed <= Turn(2),
         Request' => slot = 3
  PROVE  /\ Owed' = 0 \/ Owed' <= Turn(2)'
         /\ slot = 2 => ~Out'
<1>1. DriveOK /\ ByteClock /\ PROMPT /\ BusOK /\ DataBusInv /\ Host /\ ProcDrq
  BY DEF Controlled, ServeInv, CoreInv, SramNext, SramDrive, DriveReads, Controller, SectorHost,
         ServingHost
<1>2. BYTE_CLKS \in Nat /\ ACCESS_CLKS \in Nat /\ BYTE_CLKS >= 2 + 2 * ACCESS_CLKS /\ ACCESS_CLKS >= 2
  BY SlotBounds DEF SectorHost
<1>3. /\ Turn(2) \in 1..BYTE_CLKS
      /\ Turn(2)' = IF Turn(2) = 1 THEN BYTE_CLKS ELSE Turn(2) - 1
      /\ Turn(2) = 1 <=> slot = 2
  BY <1>1, <1>2, TurnStep
<1>4. /\ Owed \in Nat /\ Owed' \in Nat
      /\ Request' => Owed' = 2 * ACCESS_CLKS
      /\ ~Request' => Owed' = 0 \/ Owed' <= Owed - 1
  BY <1>1, OwedStep
<1>5. Out' => Owed' >= 1
  BY OwedOut
<1>6. CASE Request'
  <2>1. slot = 3 /\ Turn(2) = BYTE_CLKS
    BY <1>1, <1>2, <1>6, SlotStep DEF Turn
  <2>2. Turn(2)' = BYTE_CLKS - 1
    BY <1>2, <1>3, <2>1
  <2> QED BY <1>2, <1>4, <1>6, <2>1, <2>2
<1>7. CASE ~Request'
  <2>1. PICK n \in Nat : n = Owed'
    BY <1>4
  <2>2. slot = 2 => n = 0
    BY <1>3, <1>4, <1>7, <2>1
  <2>3. n = 0 \/ n <= Turn(2)'
    BY <1>2, <1>3, <1>4, <1>7, <2>1
  <2> QED BY <1>5, <2>1, <2>2, <2>3
<1> QED BY <1>6, <1>7

(* Until the next byte is asked for, what has been read stays in place.    *)
LEMMA ReadPartStep ==
  ASSUME SectorHost, Controlled, FreshInv, Host, HostBuffer, ProcDrq, ~WritesDisk, ~FreshCycle,
         ReadPart, ~Request', sector_r' = sector_r, media' = media, Out' => data_o_r' = data_o_r
  PROVE  ReadPart' /\ Moved(Out)' = Moved(Out)
<1>1. SECTOR_LEN \in Nat /\ buffer \in Seq(Int) /\ Len(buffer) \in Nat /\ data_o_r \in Int
  BY ReaderAssumption DEF ReaderAssumption, FreshInv
<1>2. /\ sector_r \in DOMAIN DataField /\ Moved(Out) <= SECTOR_LEN
      /\ \A i \in 1..Len(buffer) : buffer[i] = media[Place(i)]
      /\ Out => data_o_r = media[Place(Len(buffer) + 1)]
  BY DEF ReadPart
<1>3. Moved(Out)' = Len(buffer') + (IF Out' THEN 1 ELSE 0)
  BY DEF Moved
<1>4. \A i : Place(i)' = Place(i)
  BY DEF Place
<1>5. CASE buffer' = buffer /\ (Out' <=> Out)
  <2>1. Moved(Out)' = Moved(Out)
    BY <1>3, <1>5 DEF Moved
  <2> QED BY <1>2, <1>4, <1>5, <2>1 DEF ReadPart
<1>6. CASE Out /\ buffer' = Appended(data_o_r) /\ ~Out'
  <2>1. Len(buffer) + 1 <= SECTOR_LEN /\ Moved(Out) = Len(buffer) + 1
    BY <1>2, <1>6 DEF Moved
  <2>2. buffer' = Append(buffer, data_o_r)
    BY <1>1, <1>6, <2>1 DEF Appended
  <2>3. /\ Len(buffer') = Len(buffer) + 1
        /\ \A i \in 1..Len(buffer) : buffer'[i] = buffer[i]
        /\ buffer'[Len(buffer) + 1] = data_o_r
    BY <1>1, <2>2, AppendProperties
  <2>4. Moved(Out)' = Moved(Out)
    <3>1. Moved(Out)' = Len(buffer') + 0
      BY <1>6 DEF Moved
    <3>2. Len(buffer') + 0 = Len(buffer) + 1
      BY <1>1, <2>3
    <3> QED BY <2>1, <3>1, <3>2
  <2>5. \A i \in 1..Len(buffer') : buffer'[i] = media'[Place(i)']
    <3> SUFFICES ASSUME NEW i \in 1..(Len(buffer) + 1) PROVE buffer'[i] = media[Place(i)]
      BY <1>4, <2>3
    <3>1. CASE i = Len(buffer) + 1
      BY <1>2, <1>6, <2>3, <3>1
    <3>2. CASE i # Len(buffer) + 1
      <4>1. i \in 1..Len(buffer)
        BY <1>1, <3>2
      <4> QED BY <1>2, <2>3, <3>2, <4>1
    <3> QED BY <3>1, <3>2
  <2> QED BY <1>2, <1>6, <2>4, <2>5 DEF ReadPart
<1> QED BY <1>5, <1>6, OutStep

(* A clock during a read, or after one, moves neither sector nor disk.     *)
LEMMA ReadHeld ==
  ASSUME SectorHost, Controlled, FreshInv, RawInv, SramNext, ReadsSector, ~FreshCycle
  PROVE  /\ ~WritesDisk /\ ~WritesSector /\ ~type_ii_wg /\ media' = media /\ ReadsSector'
         /\ t3 = "IDLE" /\ type_stb # "III"
         /\ ~sec_wr_stb => sector_r' = sector_r
<1> USE DEF SramNext, Controller
<1>1. ~WritesDisk /\ ~WritesSector
  BY DEF ReadsSector, WritesSector, WritesDisk, Is, CMD_READ_SECTOR, CMD_WRITE_SECTOR, CMD_WRITE_TRACK
<1>2. ~type_ii_wg
  BY <1>1 DEF Controlled, GateInv
<1>3. media' = media
  BY <1>2 DEF RawInv, SramDrive
<1>4. ReadsSector'
  BY Cycles DEF KeepCycle, TakeCycle, FetchCycle, GiveCycle, IdleCycle, Same, ReadsSector, Is
<1>5. t3 = "IDLE" /\ type_stb # "III"
  BY DEF FreshInv
<1>6. ~sec_wr_stb => sector_r' = sector_r
  BY <1>5, Calm DEF T3Idle, T3ReadAddrWait, T3ReadAddr, T3WaitTrack, T3ReadTrack, T3WriteTrack,
                    T3WriteByte, T3Done, LoadedSector
<1> QED BY <1>1, <1>2, <1>3, <1>4, <1>5, <1>6

(* The clocks of a read that ask for nothing.                              *)
LEMMA ReadQuiet ==
  ASSUME SectorHost, Controlled, Controlled', FreshInv, RawInv, ReadInv, SramNext, ReadsSector,
         ~FreshCycle, ~sec_wr_stb, ~Request'
  PROVE  /\ buffer = <<>> /\ ~Out => buffer' = <<>> /\ ~Out'
         /\ ReadPart => ReadPart' /\ Moved(Out)' = Moved(Out)
         /\ slot = 2 => ~Out'
<1> USE DEF SramNext, Controller
<1>1. /\ ~WritesDisk /\ media' = media /\ sector_r' = sector_r
  BY ReadHeld
<1>2. buffer = <<>> /\ ~Out => buffer' = <<>> /\ ~Out'
  BY <1>1, OutStep
<1>3. slot = 2 => ~Out'
  BY ReadOwed DEF ReadInv
<1>4. Out' => data_o_r' = data_o_r
  <2>1. raw # NoByte => ~Out'
    BY <1>3 DEF RawInv
  <2>2. raw = NoByte => data_o_r' = data_o_r
    BY ReaderQuiet
  <2> QED BY <2>1, <2>2
<1>5. ReadPart => ReadPart' /\ Moved(Out)' = Moved(Out)
  BY <1>1, <1>4, ReadPartStep
<1> QED BY <1>2, <1>3, <1>5

(* The data of the sector go by.                                           *)
LEMMA ReadingClock ==
  ASSUME SectorHost, Controlled, Controlled', FreshInv, RawInv, MediaInv, ReadInv, SramNext,
         ReadsSector, ~FreshCycle, t2 = "READ_SECTOR"
  PROVE  /\ t2' = "READ_SECTOR" => Reading'
         /\ t2' # "READ_SECTOR" => t2' = "WAIT_CRC" /\ ReadPart' /\ Moved(Out)' = SECTOR_LEN
         /\ Request' => slot = 3
<1> USE DEF SramNext, Controller
<1>1. /\ ~WritesDisk /\ ~type_ii_wg /\ media' = media /\ sector_r' = sector_r
      /\ ~sec_wr_stb
  BY ReadHeld DEF FreshInv
<1>2. T2ReadSector
  BY Calm DEF T2Idle, T2WaitIdam, T2WaitDam, T2WaitCrc, T2WriteDam, T2WriteData, T2Done
<1>3. Request' <=> "user_data" \in rdy
  BY OwnRequest, Calm DEF Controlled, KeptInv, TypeIIDrq
<1>4. ReadPart /\ Moved(Out) = byte_count /\ sector_r \in DOMAIN DataField
  BY DEF ReadInv, Reading, ReadPart
<1>5. /\ SECTOR_LEN \in Nat \ {0} /\ byte_count \in 0..(SECTOR_LEN - 1)
      /\ buffer \in Seq(Int) /\ Len(buffer) \in Nat
  BY ReaderAssumption DEF ReaderAssumption, Controlled, TypeIIOK, FreshInv
<1>6. DriveOK /\ \A i : Place(i)' = Place(i)
  BY <1>1 DEF Controlled, ServeInv, CoreInv, Place
<1>7. CASE "user_data" \notin rdy
  <2>1. /\ rdy = {} /\ rd = "USER_DATA" /\ rd_count = byte_count /\ NextByte = Place(byte_count + 1)
    BY <1>7 DEF ReadInv, Reading
  <2>2. t2' = t2 /\ byte_count' = byte_count /\ ~Request'
    BY <1>2, <1>3, <1>7 DEF T2ReadSector
  <2>3. /\ ReadPart' /\ Moved(Out)' = byte_count'
        /\ slot = 2 => ~Out'
    BY <1>1, <1>4, <2>2, ReadQuiet
  <2>4. CASE raw = NoByte
    <3>1. slot # 2 /\ rd' = rd /\ rd_count' = rd_count /\ rdy' = {}
      BY <2>1, <2>4, ReaderQuiet DEF RawInv
    <3>2. NextByte' = NextByte
      BY <1>6, <3>1, PlaceStep DEF SramDrive
    <3> QED BY <1>6, <2>1, <2>2, <2>3, <3>1, <3>2 DEF Reading
  <2>5. CASE raw # NoByte
    <3>1. slot = 2 /\ NextByte = pos /\ NextByte' = Ahead(pos, 1)
      BY <1>6, <2>5, PlaceStep DEF RawInv, SramDrive
    <3>2. byte_count + 1 \in 0..SECTOR_LEN
      BY <1>5
    <3>3. pos \in Fields /\ pos \in Places /\ pos = First(sector_r) + (byte_count + 1)
      BY <1>4, <2>1, <3>1, <3>2, FieldPlace DEF Place
    <3>4. raw = media[pos]
      <4>1. pos \notin Damaged
        BY <3>3, FormatAssumption DEF FormatAssumption
      <4> QED BY <1>1, <1>6, <3>1, <4>1, HeadByte
    <3>5. RdUserData /\ data_o_r' = raw
      BY <2>1, <2>5 DEF ReadLogic, RdQuiet, RdGaps, Gap, RdMarks, Marks, RdIdMark, RdId, RdIdCrc,
                        RdDam, RdUserCrc
    <3>6. /\ rdy' = {"user_data"}
          /\ byte_count # SECTOR_LEN - 1 => rd' = "USER_DATA" /\ rd_count' = byte_count + 1
      BY <1>5, <2>1, <3>5 DEF RdUserData, Ready, Reader
    <3>7. byte_count # SECTOR_LEN - 1 => NextByte' = Place(byte_count + 2)
      <4> SUFFICES ASSUME byte_count # SECTOR_LEN - 1 PROVE NextByte' = Place(byte_count + 2)
        OBVIOUS
      <4>1. byte_count + 2 \in 0..SECTOR_LEN
        BY <1>5
      <4>2. First(sector_r) + (byte_count + 2) \in Places /\ First(sector_r) \in Places
        BY <1>4, <4>1, FieldPlace
      <4>3. pos + 1 = First(sector_r) + (byte_count + 2)
        BY <1>5, <3>3, <4>2, ImagePlaces DEF Places
      <4> QED BY <3>1, <3>3, <4>2, <4>3, NextPlace DEF Place
    <3>8. data_o_r' = media'[First(sector_r') + (byte_count' + 1)] /\ ~Out'
      BY <1>1, <2>2, <2>3, <3>1, <3>3, <3>4, <3>5
    <3>9. byte_count' # SECTOR_LEN - 1 => /\ rd' = "USER_DATA" /\ rd_count' = byte_count' + 1
                                          /\ NextByte' = First(sector_r') + (byte_count' + 2)
      BY <1>1, <2>2, <3>6, <3>7 DEF Place
    <3> QED BY <2>2, <2>3, <3>6, <3>8, <3>9 DEF Reading, LastByte, Place
  <2> QED BY <1>3, <1>7, <2>2, <2>4, <2>5
<1>8. CASE "user_data" \in rdy
  <2>1. /\ rdy = {"user_data"} /\ ~Out /\ data_o_r = media[Place(byte_count + 1)]
        /\ ~LastByte => /\ rd = "USER_DATA" /\ rd_count = byte_count + 1
                        /\ NextByte = Place(byte_count + 2)
    BY <1>8 DEF ReadInv, Reading
  <2>2. slot = 3 /\ raw = NoByte
    BY <2>1 DEF RawInv
  <2>3. buffer' = buffer /\ Out' /\ Request'
    BY <1>1, <1>3, <1>8, <2>1, OutStep
  <2>4. rdy' = {} /\ data_o_r' = data_o_r
    BY <2>2, ReaderQuiet
  <2>5. Len(buffer) = byte_count
    BY <1>4, <1>5, <2>1 DEF Moved
  <2>6. Moved(Out)' = byte_count + 1
    <3>1. Moved(Out)' = Len(buffer') + 1
      BY <2>3 DEF Moved
    <3> QED BY <2>3, <2>5, <3>1
  <2>7. ReadPart'
    <3>1. Moved(Out)' <= SECTOR_LEN
      BY <1>5, <2>6
    <3>2. \A i \in 1..Len(buffer) : buffer[i] = media[Place(i)]
      BY <1>4 DEF ReadPart
    <3> QED BY <1>1, <1>4, <1>6, <2>1, <2>3, <2>4, <2>5, <3>1, <3>2 DEF ReadPart
  <2>8. CASE LastByte
    BY <1>2, <1>5, <1>8, <2>2, <2>6, <2>7, <2>8 DEF T2ReadSector, LastByte
  <2>9. CASE ~LastByte
    <3>1. t2' = "READ_SECTOR" /\ byte_count' = byte_count + 1
      BY <1>2, <1>8, <2>9 DEF T2ReadSector
    <3>2. rd' = "USER_DATA" /\ rd_count' = byte_count'
      BY <2>1, <2>2, <2>9, <3>1, ReaderQuiet
    <3>3. NextByte' = First(sector_r') + (byte_count' + 1)
      <4>1. NextByte' = NextByte
        BY <1>6, <2>2, PlaceStep DEF SramDrive
      <4>2. (byte_count + 1) + 1 = byte_count + 2
        BY <1>5
      <4> QED BY <1>1, <2>1, <2>9, <3>1, <4>1, <4>2 DEF Place
    <3>4. Moved(Out)' = byte_count'
      BY <2>6, <3>1
    <3> QED BY <2>2, <2>4, <2>7, <3>1, <3>2, <3>3, <3>4 DEF Reading, Place
  <2> QED BY <2>8, <2>9
<1> QED BY <1>7, <1>8

LEMMA ReadClock ==
  ASSUME SectorHost, Controlled, Controlled', FreshInv, RawInv, MediaInv, GapInv, ReadInv, SramNext
  PROVE  ReadInv'
<1> USE DEF SramNext, Controller
<1>1. CASE FreshCycle
  <2>1. buffer' = <<>> /\ ~Out' /\ t2' = "IDLE"
    BY <1>1, FreshStep
  <2>2. Owed' = 0
    BY <2>1 DEF Out, Owed
  <2> QED BY <2>1, <2>2 DEF ReadInv
<1>2. CASE ~FreshCycle
  <2> SUFFICES ASSUME ReadsSector' PROVE ReadInv'
    BY DEF ReadInv
  <2>1. ReadsSector
    BY <1>2, Cycles DEF KeepCycle, TakeCycle, FetchCycle, GiveCycle, IdleCycle, Same, ReadsSector, Is
  <2>2. /\ ~WritesDisk /\ ~WritesSector /\ media' = media /\ t3 = "IDLE" /\ type_stb # "III"
        /\ ~sec_wr_stb => sector_r' = sector_r
    BY <1>2, <2>1, ReadHeld
  <2>3. t2 \notin {"WRITE_SECTOR_DAM", "WRITE_SECTOR_DATA"}
    BY <2>1 DEF ReadInv
  <2>4. Request' => t2 = "READ_SECTOR" /\ slot = 3
    <3>1. /\ t2 = "IDLE" => ~Request'
          /\ t2 # "IDLE" => (Request' <=> TypeIIDrq)
      BY <2>2, OwnRequest DEF Controlled, KeptInv
    <3>2. TypeIIDrq => t2 = "READ_SECTOR"
      BY <2>2, <2>3 DEF TypeIIDrq
    <3>3. Request' => t2 = "READ_SECTOR"
      BY <3>1, <3>2
    <3> QED BY <1>2, <2>1, <3>3, ReadingClock
  <2>5. Owed' = 0 \/ Owed' <= Turn(2)'
    BY <2>1, <2>4, ReadOwed DEF ReadInv
  <2>6. buffer = <<>> /\ ~Out /\ t2 # "READ_SECTOR" => buffer' = <<>> /\ ~Out'
    BY <1>2, <2>2, <2>4, OutStep
  <2>7. ~Fresh /\ ~Request' /\ ReadPart => ReadPart' /\ Moved(Out)' = Moved(Out)
    BY <1>2, <2>1, ReadQuiet DEF Fresh
  <2>8. CASE Fresh
    <3>1. buffer = <<>> /\ ~Out /\ t2 = "IDLE"
      BY <2>8 DEF Fresh, FreshInv
    <3>2. t2' \in {"IDLE", "WAIT_IDAM"}
      BY <3>1, Calm DEF T2Idle, T2WaitIdam, T2WaitDam, T2ReadSector, T2WaitCrc, T2WriteDam,
                        T2WriteData, T2Done
    <3> QED BY <2>5, <2>6, <3>1, <3>2 DEF ReadInv
  <2>9. CASE t2 \in {"IDLE", "WAIT_CRC", "DONE"} /\ ~Fresh
    <3>1. t2' \in {"IDLE", "DONE"}
      BY <2>9, Calm DEF T2Idle, T2WaitIdam, T2WaitDam, T2ReadSector, T2WaitCrc, T2WriteDam,
                        T2WriteData, T2Done, Fresh
    <3>2. (buffer = <<>> /\ ~Out) \/ (ReadPart /\ Moved(Out) = SECTOR_LEN)
      BY <2>1, <2>9 DEF ReadInv
    <3>3. (buffer' = <<>> /\ ~Out') \/ (ReadPart' /\ Moved(Out)' = SECTOR_LEN)
      BY <2>4, <2>6, <2>7, <2>9, <3>2
    <3> QED BY <2>5, <3>1, <3>3 DEF ReadInv
  <2>10. CASE t2 = "WAIT_IDAM"
    <3>1. t2' \in {"WAIT_IDAM", "WAIT_DAM", "DONE"}
      BY <2>10, Calm DEF T2Idle, T2WaitIdam, T2WaitDam, T2ReadSector, T2WaitCrc, T2WriteDam,
                         T2WriteData, T2Done
    <3>2. buffer' = <<>> /\ ~Out'
      BY <2>1, <2>6, <2>10 DEF ReadInv
    <3> QED BY <2>5, <3>1, <3>2 DEF ReadInv
  <2>11. CASE t2 = "WAIT_DAM" /\ ~Fresh
    <3>1. T2WaitDam
      BY <2>11, Calm DEF T2Idle, T2WaitIdam, T2ReadSector, T2WaitCrc, T2WriteDam, T2WriteData, T2Done
    <3>2. buffer' = <<>> /\ ~Out'
      BY <2>1, <2>6, <2>11 DEF ReadInv
    <3>3. t2' = "READ_SECTOR" => Reading'
      <4> SUFFICES ASSUME t2' = "READ_SECTOR" PROVE Reading'
        OBVIOUS
      <4>1. "data_mark" \in rdy /\ byte_count' = 0
        BY <2>2, <3>1 DEF T2WaitDam
      <4>2. slot = 3 /\ raw = NoByte
        BY <4>1 DEF RawInv
      <4>3. sector_r \in DOMAIN DataField
        BY <2>11 DEF GapInv
      <4>4. PICK p \in Places, n1 \in Places, n2 \in Places, k \in Nat :
              Leads(p, sector_r, n1, n2) /\ NextByte = p + 7 + k /\ InGap(k, n1, n2)
        BY <2>11 DEF GapInv
      <4>5. rd = "USER_DATA" /\ rd_count = 0 /\ k = n1 + n2 + A1_RUN + 2
        BY <4>1, <4>4 DEF InGap
      <4>6. rd' = "USER_DATA" /\ rd_count' = 0 /\ rdy' = {}
        BY <4>2, <4>5, ReaderQuiet
      <4>7. NextByte' = NextByte
        BY <4>2, PlaceStep DEF SramDrive, Controlled, ServeInv, CoreInv
      <4>8. NextByte = First(sector_r) + 1
        <5>1. /\ p \in Nat /\ n1 \in Nat /\ n2 \in Nat /\ A1_RUN \in Nat
              /\ First(sector_r) = p + 7 + n1 + n2 + A1_RUN + 1
          BY <4>3, <4>4, LeadsPlaces
        <5> QED BY <4>4, <4>5, <5>1
      <4>9. NextByte' = First(sector_r') + (byte_count' + 1)
        BY <2>2, <2>11, <4>1, <4>7, <4>8 DEF Fresh
      <4>10. Moved(Out)' = 0
        <5>1. Moved(Out)' = Len(buffer') + 0
          BY <3>2 DEF Moved
        <5> QED BY <3>2, <5>1
      <4>11. ReadPart'
        <5>1. SECTOR_LEN \in Nat /\ sector_r' = sector_r
          BY <2>2, <2>11, ReaderAssumption DEF ReaderAssumption, Fresh
        <5> QED BY <3>2, <4>3, <4>10, <5>1 DEF ReadPart
      <4> QED BY <4>1, <4>6, <4>9, <4>10, <4>11 DEF Reading, Place
    <3>4. t2' \in {"WAIT_DAM", "READ_SECTOR", "DONE"}
      BY <2>2, <2>11, <3>1 DEF T2WaitDam
    <3> QED BY <2>5, <3>2, <3>3, <3>4 DEF ReadInv
  <2>12. CASE t2 = "READ_SECTOR"
    <3>1. /\ t2' = "READ_SECTOR" => Reading'
          /\ t2' # "READ_SECTOR" => t2' = "WAIT_CRC" /\ ReadPart' /\ Moved(Out)' = SECTOR_LEN
      BY <1>2, <2>1, <2>12, ReadingClock
    <3> QED BY <2>5, <3>1 DEF ReadInv
  <2>13. t2 \in T2States
    BY DEF Controlled, TypeIIOK
  <2>14. t2 # "IDLE" => ~Fresh
    BY DEF Fresh, FreshInv
  <2> QED BY <2>3, <2>8, <2>9, <2>10, <2>11, <2>12, <2>13, <2>14 DEF T2States
<1> QED BY <1>1, <1>2

-----------------------------------------------------------------------------
(* A write.                                                                *)
LEMMA WriteHeld ==
  ASSUME SectorHost, Controlled, FreshInv, RawInv, SramNext, WritesSector, ~FreshCycle
  PROVE  /\ WritesDisk /\ ~ReadsSector /\ command_r' = command_r /\ t3 = "IDLE" /\ type_stb # "III"
         /\ slot # 2 => media' = media
         /\ ~type_ii_wg => media' = media
         /\ ~sec_wr_stb => sector_r' = sector_r
<1> USE DEF SramNext, Controller
<1>1. WritesDisk /\ ~ReadsSector
  BY DEF ReadsSector, WritesSector, WritesDisk, Is, CMD_READ_SECTOR, CMD_WRITE_SECTOR, CMD_WRITE_TRACK
<1>2. command_r' = command_r
  BY Cycles DEF KeepCycle, TakeCycle, FetchCycle, GiveCycle, IdleCycle, Same
<1>3. ~media_wr => media' = media
  BY DEF SramDrive
<1>4. t3 = "IDLE" /\ type_stb # "III"
  BY DEF FreshInv
<1>5. ~sec_wr_stb => sector_r' = sector_r
  BY <1>4, Calm DEF T3Idle, T3ReadAddrWait, T3ReadAddr, T3WaitTrack, T3ReadTrack, T3WriteTrack,
                    T3WriteByte, T3Done, LoadedSector
<1> QED BY <1>1, <1>2, <1>3, <1>4, <1>5 DEF RawInv

(* The host adds the byte asked for, and only that.                        *)
LEMMA BufferStep ==
  ASSUME SectorHost, Controlled, FreshInv, RawInv, WriteInv, SramNext, WritesSector, ~FreshCycle,
         t2 # "IDLE", Moved(Open) <= SECTOR_LEN
  PROVE  /\ buffer' \in Seq(DataVals)
         /\ ~Open' /\ buffer' # <<>> => data_i_r' = buffer'[Len(buffer')]
         /\ ~Request' => Moved(Open)' = Moved(Open)
         /\ Request' => ~Open /\ Open'
         /\ ~Open => buffer' = buffer /\ (Open' <=> Request')
         /\ \A i \in 1..Len(buffer) : buffer'[i] = buffer[i]
<1> USE DEF SramNext, Controller
<1>1. /\ SECTOR_LEN \in Nat /\ buffer \in Seq(DataVals) /\ Len(buffer) \in Nat
      /\ ~Open /\ buffer # <<>> => data_i_r = buffer[Len(buffer)]
  BY ReaderAssumption DEF ReaderAssumption, WriteInv
<1>2. Request' => ~Open
  <2>1. Request' => Owed <= 1
    BY ServeIIClock DEF SectorHost, Controlled, ServeInv, SramDrive
  <2> QED BY <2>1, OwedOpen
<1>3. ~Rests
  BY DEF Rests, Quiet
<1>4. Moved(Open)' = Len(buffer') + (IF Open' THEN 1 ELSE 0)
  BY DEF Moved
<1>5. CASE buffer' = buffer /\ (Open' <=> Open \/ Request') /\ data_i_r' = data_i_r
  <2>1. ~Request' => Moved(Open)' = Moved(Open)
    BY <1>4, <1>5 DEF Moved
  <2> QED BY <1>1, <1>2, <1>5, <2>1
<1>6. CASE Open /\ data_i_r' \in DataVals /\ buffer' = Appended(data_i_r') /\ (Open' <=> Request')
  <2>1. ~Request' /\ ~Open'
    BY <1>2, <1>6
  <2>2. Len(buffer) + 1 <= SECTOR_LEN /\ Moved(Open) = Len(buffer) + 1
    BY <1>6 DEF Moved
  <2>3. PICK b \in DataVals : b = data_i_r' /\ buffer' = Append(buffer, b)
    BY <1>1, <1>6, <2>2 DEF Appended
  <2>4. /\ buffer' \in Seq(DataVals) /\ Len(buffer') = Len(buffer) + 1
        /\ \A i \in 1..Len(buffer) : buffer'[i] = buffer[i]
        /\ buffer'[Len(buffer) + 1] = b
    BY <1>1, <2>3, AppendProperties
  <2>5. Moved(Open)' = Moved(Open)
    <3>1. Moved(Open)' = Len(buffer') + 0
      BY <2>1 DEF Moved
    <3>2. Len(buffer') + 0 = Len(buffer) + 1
      BY <1>1, <2>4
    <3> QED BY <2>2, <3>1, <3>2
  <2> QED BY <1>6, <2>1, <2>3, <2>4, <2>5
<1>7. WritesDisk
  BY WriteHeld
<1> QED BY <1>3, <1>5, <1>6, <1>7, OpenStep

(* What is written stays.                                                  *)
LEMMA WrittenStep ==
  ASSUME command_r' = command_r, sector_r' = sector_r,
         \A i \in 1..Len(buffer) : buffer'[i] = buffer[i],
         buffer \in Seq(Int), NEW n \in Nat, n <= Len(buffer) + 1, Written(n),
         \A i \in 0..(n - 1) : media'[Place(i)] = media[Place(i)]
  PROVE  Written(n)'
<1> SUFFICES ASSUME NEW i \in 0..(n - 1) PROVE media'[Place(i)'] = Want(i)'
  BY DEF Written
<1>1. Place(i)' = Place(i)
  BY DEF Place
<1>2. Want(i)' = Want(i)
  <2>1. CASE i = 0
    BY <2>1 DEF Want, DamToWrite
  <2>2. CASE i # 0
    <3>1. i \in 1..Len(buffer)
      BY <2>2
    <3> QED BY <2>2, <3>1 DEF Want
  <2> QED BY <2>1, <2>2
<1> QED BY <1>1, <1>2 DEF Written

(* Where the byte clock of a write is.                                     *)
LEMMA WriteSlot ==
  ASSUME SectorHost, Controlled, RawInv, SramDrive, WriteLogic
  PROVE  /\ slot' = IF slot = BYTE_CLKS - 1 THEN 0 ELSE slot + 1
         /\ slot \in Nat /\ slot < BYTE_CLKS /\ BYTE_CLKS \in Nat /\ BYTE_CLKS > 5
         /\ ByteWritten => slot = 1
         /\ slot' = 1 /\ type_ii_wg => ByteWritten'
         /\ slot # 2 => raw = NoByte /\ NextByte' = NextByte
<1>1. /\ slot' = IF slot = BYTE_CLKS - 1 THEN 0 ELSE slot + 1
      /\ slot \in Nat /\ slot < BYTE_CLKS /\ BYTE_CLKS \in Nat /\ BYTE_CLKS > 5
  BY SlotStep, SlotBounds DEF SramDrive, DriveReads, SectorHost, Controlled, ServeInv, CoreInv
<1>2. write_data_written => slot \in 1..TICK /\ (slot > 1 => wdw_r)
  BY DEF Controlled, ServeInv, SlotInv
<1>3. ByteWritten => slot = 1
  BY <1>1, <1>2 DEF ByteWritten
<1>4. slot' = 1 /\ type_ii_wg => ByteWritten'
  <2> SUFFICES ASSUME slot' = 1, type_ii_wg PROVE ByteWritten'
    OBVIOUS
  <2>1. slot = 0
    BY <1>1
  <2>2. ~write_data_written
    BY <1>2, <2>1
  <2>3. write_data_written' /\ ~wdw_r'
    BY <2>1, <2>2 DEF WriteLogic, wg
  <2> QED BY <2>3 DEF ByteWritten
<1>5. slot # 2 => raw = NoByte /\ NextByte' = NextByte
  BY PlaceStep DEF RawInv, SramDrive, Controlled, ServeInv, CoreInv
<1> QED BY <1>1, <1>3, <1>4, <1>5

(* The mark follows the gap: the gate opens at the place of the mark.      *)
LEMMA WriteWaits ==
  ASSUME SectorHost, Controlled, FreshInv, RawInv, GapInv, WriteInv, SramNext, WritesSector,
         ~FreshCycle, t2 = "WAIT_DAM"
  PROVE  /\ t2' \in {"WAIT_DAM", "WRITE_SECTOR_DAM"} /\ Moved(Open)' = 1
         /\ t2' = "WRITE_SECTOR_DAM" => sector_r' \in DOMAIN DataField /\ WritingDam'
<1> USE DEF SramNext, Controller
<1>1. /\ ~ReadsSector /\ t3 = "IDLE" /\ type_stb # "III" /\ sector_r' = sector_r
      /\ SECTOR_LEN \in Nat \ {0} /\ Moved(Open) = 1
  BY WriteHeld, ReaderAssumption DEF ReaderAssumption, FreshInv, WriteInv
<1>2. T2WaitDam /\ ~Request'
  <2>1. T2WaitDam
    BY Calm DEF T2Idle, T2WaitIdam, T2ReadSector, T2WaitCrc, T2WriteDam, T2WriteData, T2Done
  <2>2. ~TypeIIDrq
    BY DEF TypeIIDrq
  <2> QED BY <1>1, <2>1, <2>2, OwnRequest DEF Controlled, KeptInv
<1>3. /\ ~rnf_error /\ sector_r \in DOMAIN DataField
      /\ \E p \in Places, n1, n2 \in Places, k \in Nat :
           Leads(p, sector_r, n1, n2) /\ NextByte = p + 7 + k /\ InGap(k, n1, n2)
  BY DEF GapInv
<1>4. /\ t2' \in {"WAIT_DAM", "WRITE_SECTOR_DAM"} /\ byte_count' = 0
      /\ t2' = "WRITE_SECTOR_DAM" => "data_mark_next" \in rdy /\ type_ii_wg'
  BY <1>1, <1>2, <1>3 DEF T2WaitDam
<1>5. Moved(Open)' = 1
  BY <1>1, <1>2, BufferStep
<1>6. ASSUME t2' = "WRITE_SECTOR_DAM" PROVE WritingDam'
  <2>1. "data_mark_next" \in rdy /\ type_ii_wg' /\ slot = 3
    BY <1>4, <1>6 DEF RawInv
  <2>2. slot' = 4 /\ raw = NoByte /\ NextByte' = NextByte
    BY <2>1, WriteSlot
  <2>3. PICK p \in Places, n1 \in Places, n2 \in Places, k \in Nat :
          Leads(p, sector_r, n1, n2) /\ NextByte = p + 7 + k /\ InGap(k, n1, n2)
    BY <1>3
  <2>4. rd = "DAM" /\ k = n1 + n2 + A1_RUN + 1
    BY <1>1, <2>1, <2>3 DEF InGap
  <2>5. rd' = "DAM"
    BY <2>2, <2>4, ReaderQuiet
  <2>6. NextByte' = First(sector_r') + 0
    <3>1. /\ p \in Nat /\ n1 \in Nat /\ n2 \in Nat /\ A1_RUN \in Nat
          /\ First(sector_r) = p + 7 + n1 + n2 + A1_RUN + 1
      BY <1>3, <2>3, LeadsPlaces
    <3> QED BY <1>1, <2>2, <2>3, <2>4, <3>1
  <2> QED BY <1>4, <1>5, <2>1, <2>2, <2>5, <2>6 DEF WritingDam, Place
<1> QED BY <1>1, <1>3, <1>4, <1>5, <1>6

(* The mark is handed over at slot 1 and written at slot 2.                *)
LEMMA WriteDamClock ==
  ASSUME SectorHost, Controlled, FreshInv, RawInv, WriteInv, SramNext, WritesSector,
         ~FreshCycle, t2 = "WRITE_SECTOR_DAM"
  PROVE  /\ t2' \in {"WRITE_SECTOR_DAM", "WRITE_SECTOR_DATA"}
         /\ sector_r' \in DOMAIN DataField
         /\ IF t2' = "WRITE_SECTOR_DAM" THEN WritingDam' ELSE WritingData'
<1> USE DEF SramNext, Controller
<1>1. /\ command_r' = command_r /\ t3 = "IDLE" /\ type_stb # "III" /\ sector_r' = sector_r
      /\ SECTOR_LEN \in Nat \ {0} /\ sector_r \in DOMAIN DataField /\ WritingDam
  BY WriteHeld, ReaderAssumption DEF ReaderAssumption, FreshInv, WriteInv
<1>2. T2WriteDam /\ ~Request'
  <2>1. T2WriteDam
    BY Calm DEF T2Idle, T2WaitIdam, T2WaitDam, T2ReadSector, T2WaitCrc, T2WriteData, T2Done
  <2>2. ~TypeIIDrq
    BY DEF TypeIIDrq
  <2> QED BY <1>1, <2>1, <2>2, OwnRequest DEF Controlled, KeptInv
<1>3. /\ Moved(Open) = 1 /\ type_ii_wg /\ slot \notin {2, 3} /\ (slot = 1 => ByteWritten)
      /\ byte_count = 0 /\ NextByte = First(sector_r) + 0 /\ rd = "DAM"
  BY <1>1 DEF WritingDam, Place
<1>4. Moved(Open)' = 1
  BY <1>1, <1>2, <1>3, BufferStep
<1>5. /\ byte_count' = 0 /\ type_ii_wg' /\ sec_dat_o' = DamToWrite' /\ DamToWrite' = Want(0)'
      /\ t2' = IF ByteWritten THEN "WRITE_SECTOR_DATA" ELSE "WRITE_SECTOR_DAM"
  BY <1>1, <1>2, <1>3 DEF T2WriteDam, DamToWrite, Want
<1>6. /\ slot' = IF slot = BYTE_CLKS - 1 THEN 0 ELSE slot + 1
      /\ slot \in Nat /\ BYTE_CLKS \in Nat /\ BYTE_CLKS > 5
      /\ ByteWritten => slot = 1
      /\ slot' = 1 => ByteWritten'
      /\ raw = NoByte /\ NextByte' = NextByte
  BY <1>3, WriteSlot
<1>7. rd' = "DAM" /\ NextByte' = First(sector_r') + 0
  BY <1>1, <1>3, <1>6, ReaderQuiet
<1>8. CASE ByteWritten
  <2>1. slot' = 2 /\ Written(0)'
    BY <1>6, <1>8 DEF Written
  <2> QED BY <1>1, <1>4, <1>5, <1>7, <1>8, <2>1 DEF WritingData, Place
<1>9. CASE ~ByteWritten
  <2>1. slot' \notin {2, 3}
    BY <1>3, <1>6, <1>9
  <2> QED BY <1>1, <1>4, <1>5, <1>6, <1>7, <1>9, <2>1 DEF WritingDam, Place
<1> QED BY <1>8, <1>9

(* Each byte is handed over at slot 1 and written at slot 2.               *)
LEMMA WriteDataClock ==
  ASSUME SectorHost, Controlled, FreshInv, RawInv, MediaInv, WriteInv, SramNext, WritesSector,
         ~FreshCycle, t2 = "WRITE_SECTOR_DATA"
  PROVE  /\ t2' \in {"WRITE_SECTOR_DATA", "DONE"} /\ sector_r' \in DOMAIN DataField /\ type_ii_wg'
         /\ IF t2' = "DONE" THEN WritingLast' ELSE WritingData'
         /\ Moved(Open) <= SECTOR_LEN
<1> USE DEF SramNext, Controller
<1>1. /\ command_r' = command_r /\ t3 = "IDLE" /\ type_stb # "III" /\ sector_r' = sector_r
      /\ SECTOR_LEN \in Nat \ {0} /\ sector_r \in DOMAIN DataField /\ WritingData
      /\ slot # 2 => media' = media
  BY WriteHeld, ReaderAssumption DEF ReaderAssumption, FreshInv, WriteInv
<1>2. T2WriteData /\ (Request' <=> ByteWritten /\ ~LastByte)
  <2>1. T2WriteData /\ ~Aborted
    BY Calm DEF T2Idle, T2WaitIdam, T2WaitDam, T2ReadSector, T2WaitCrc, T2WriteDam, T2Done
  <2>2. TypeIIDrq <=> ByteWritten /\ ~LastByte
    BY <2>1 DEF TypeIIDrq
  <2> QED BY <2>1, <2>2, OwnRequest DEF Controlled, KeptInv
<1>3. PICK n \in 0..(SECTOR_LEN - 1) : n = byte_count
  BY DEF Controlled, TypeIIOK
<1>4. /\ Moved(Open) = n + 1 /\ type_ii_wg /\ (slot = 1 => ByteWritten)
      /\ buffer \in Seq(DataVals) /\ Len(buffer) \in Nat /\ buffer \in Seq(Int)
      /\ ~Open /\ buffer # <<>> => data_i_r = buffer[Len(buffer)]
      /\ Len(buffer) >= n
  BY <1>1, <1>3 DEF WritingData, WriteInv, FreshInv, Moved
<1>5. /\ Moved(Open) <= SECTOR_LEN
      /\ ~Request' => Moved(Open)' = Moved(Open)
      /\ Request' => ~Open /\ Open'
      /\ ~Open => buffer' = buffer /\ (Open' <=> Request')
      /\ \A i \in 1..Len(buffer) : buffer'[i] = buffer[i]
  <2>1. Moved(Open) <= SECTOR_LEN
    BY <1>1, <1>4
  <2> QED BY <2>1, BufferStep
<1>6. /\ slot' = IF slot = BYTE_CLKS - 1 THEN 0 ELSE slot + 1
      /\ slot \in Nat /\ BYTE_CLKS \in Nat /\ BYTE_CLKS > 5
      /\ ByteWritten => slot = 1
      /\ slot' = 1 => ByteWritten'
      /\ slot # 2 => raw = NoByte /\ NextByte' = NextByte
  BY <1>4, WriteSlot
<1>7. /\ sec_dat_o' = data_i_r /\ type_ii_wg'
      /\ t2' = IF ByteWritten /\ LastByte THEN "DONE" ELSE "WRITE_SECTOR_DATA"
      /\ byte_count' = IF ByteWritten /\ ~LastByte THEN n + 1 ELSE n
      /\ LastByte <=> n = SECTOR_LEN - 1
  BY <1>2, <1>3, <1>4 DEF T2WriteData, LastByte
<1>8. CASE slot # 2
  <2>1. /\ NextByte = First(sector_r) + (n + 1) /\ Written(n + 1)
        /\ rd = "USER_DATA" /\ rd_count = n
    BY <1>1, <1>3, <1>8 DEF WritingData, Place
  <2>2. rd' = "USER_DATA" /\ rd_count' = n /\ NextByte' = First(sector_r') + (n + 1)
    BY <1>1, <1>6, <1>8, <2>1, ReaderQuiet
  <2>3. Written(n + 1)'
    BY <1>1, <1>3, <1>4, <1>5, <1>8, <2>1, WrittenStep
  <2>4. CASE slot = 1
    <3>1. ByteWritten /\ slot' = 2
      BY <1>4, <1>6, <2>4
    <3>2. ~Open
      <4>1. Owed <= 1
        <5>1. Turn(1) = 1
          BY <2>4 DEF Turn
        <5> QED BY <5>1 DEF Controlled, ServeInv, ServeIIInv
      <4> QED BY <4>1, OwedOpen
    <3>3. Len(buffer) = n + 1 /\ buffer' = buffer
      BY <1>4, <1>5, <3>2 DEF Moved
    <3>4. sec_dat_o' = buffer'[n + 1] /\ n + 1 # 0
      BY <1>3, <1>4, <1>7, <3>2, <3>3
    <3>5. sec_dat_o' = Want(n + 1)'
      BY <3>4 DEF Want
    <3>6. CASE LastByte
      <4>1. t2' = "DONE" /\ n + 1 = SECTOR_LEN /\ ~Open' /\ Len(buffer') = SECTOR_LEN
        BY <1>1, <1>2, <1>5, <1>7, <3>1, <3>2, <3>3, <3>6
      <4>2. Written(SECTOR_LEN)' /\ sec_dat_o' = Want(SECTOR_LEN)'
        BY <2>3, <3>5, <4>1
      <4> QED BY <1>1, <1>5, <1>7, <2>2, <3>1, <4>1, <4>2 DEF WritingLast, Place
    <3>7. CASE ~LastByte
      <4>1. t2' = "WRITE_SECTOR_DATA" /\ byte_count' = n + 1 /\ Open'
        BY <1>2, <1>5, <1>7, <3>1, <3>7
      <4>2. Moved(Open)' = byte_count' + 1
        <5>1. Moved(Open)' = Len(buffer') + 1
          BY <4>1 DEF Moved
        <5> QED BY <3>3, <4>1, <5>1
      <4>3. Written(byte_count)' /\ sec_dat_o' = Want(byte_count)'
        BY <2>3, <3>5, <4>1 DEF Written, Want
      <4>4. rd' = "USER_DATA" /\ rd_count' = byte_count' - 1 /\ byte_count' # 0
            /\ NextByte' = First(sector_r') + byte_count'
        BY <1>3, <2>2, <4>1
      <4>5. /\ slot' = 2 /\ NextByte' = Place(byte_count)' /\ Written(byte_count)'
            /\ sec_dat_o' = Want(byte_count)'
            /\ IF byte_count' = 0 THEN rd' = "DAM" ELSE rd' = "USER_DATA" /\ rd_count' = byte_count' - 1
        BY <3>1, <4>3, <4>4 DEF Place
      <4>6. slot' # 1
        BY <3>1
      <4>7. WritingData'
        BY <1>7, <4>2, <4>5, <4>6 DEF WritingData
      <4> QED BY <1>1, <1>5, <1>7, <4>1, <4>7
    <3> QED BY <3>6, <3>7
  <2>5. CASE slot # 1
    <3>1. /\ t2' = "WRITE_SECTOR_DATA" /\ byte_count' = n /\ slot' # 2
          /\ Moved(Open)' = byte_count' + 1
      BY <1>2, <1>4, <1>5, <1>6, <1>7, <1>8, <2>5
    <3>2. Written(byte_count + 1)'
      BY <2>3, <3>1 DEF Written
    <3>3. NextByte' = First(sector_r') + (byte_count' + 1) /\ rd_count' = byte_count'
      BY <2>2, <3>1
    <3> QED BY <1>1, <1>5, <1>6, <1>7, <2>2, <3>1, <3>2, <3>3 DEF WritingData, Place
  <2> QED BY <2>4, <2>5
<1>9. CASE slot = 2
  <2>1. /\ NextByte = First(sector_r) + n /\ Written(n) /\ sec_dat_o = Want(n)
        /\ IF n = 0 THEN rd = "DAM" ELSE rd = "USER_DATA" /\ rd_count = n - 1
    BY <1>1, <1>3, <1>9 DEF WritingData, Place
  <2>2. /\ t2' = "WRITE_SECTOR_DATA" /\ byte_count' = n /\ slot' = 3
        /\ Moved(Open)' = byte_count' + 1
    BY <1>2, <1>4, <1>5, <1>6, <1>7, <1>9
  <2>3. NextByte = pos /\ NextByte' = Ahead(pos, 1)
    BY <1>9, PlaceStep DEF Controlled, ServeInv, CoreInv, SramDrive
  <2>4. First(sector_r) + n \in Places /\ First(sector_r) + (n + 1) \in Places
        /\ First(sector_r) \in Places
    BY <1>1, <1>3, FieldPlace
  <2>5. NextByte' = First(sector_r') + (byte_count' + 1)
    <3>1. pos + 1 = First(sector_r) + (n + 1)
      <4>1. n \in Nat /\ First(sector_r) \in Nat /\ pos = First(sector_r) + n
        BY <1>1, <1>3, <2>1, <2>3, <2>4, ImagePlaces DEF Places
      <4> QED BY <4>1
    <3> QED BY <1>1, <2>1, <2>2, <2>3, <2>4, <3>1, NextPlace
  <2>6. media'[pos] = Want(n) /\ \A p \in Places : p # pos => media'[p] = media[p]
    <3>1. media_wr /\ wr_dat_s = Want(n)
      BY <1>4, <1>9, <2>1, GateSelects
         DEF RawInv, Controlled, KeptInv, CalmInv, GateDiscipline
    <3>2. media' = [media EXCEPT ![pos] = Want(n)] /\ DOMAIN media = Places /\ pos \in Places
      BY <2>1, <2>3, <2>4, <3>1 DEF SramDrive, MediaInv
    <3> QED BY <3>2
  <2>7. \A i \in 0..(n - 1) : media'[Place(i)] = media[Place(i)]
    <3> SUFFICES ASSUME NEW i \in 0..(n - 1) PROVE media'[Place(i)] = media[Place(i)]
      OBVIOUS
    <3>1. i \in 0..SECTOR_LEN
      BY <1>1, <1>3
    <3>2. First(sector_r) + i \in Places /\ First(sector_r) + i # First(sector_r) + n
      BY <1>1, <1>3, <2>4, <3>1, FieldPlace, ImagePlaces DEF Places
    <3> QED BY <2>1, <2>3, <2>6, <3>2 DEF Place
  <2>8. Written(n)'
    BY <1>1, <1>3, <1>4, <1>5, <2>1, <2>7, WrittenStep
  <2>9. media'[Place(n)'] = Want(n)'
    <3>1. Want(n)' = Want(n)
      BY <1>1, <1>3, <1>4, <1>5 DEF Want, DamToWrite
    <3> QED BY <1>1, <2>1, <2>3, <2>6, <3>1 DEF Place
  <2>10. Written(byte_count + 1)'
    <3> SUFFICES ASSUME NEW i \in 0..n PROVE media'[Place(i)'] = Want(i)'
      BY <1>1, <1>3, <2>2 DEF Written
    <3>1. CASE i = n
      BY <2>9, <3>1
    <3>2. CASE i # n
      <4>1. i \in 0..(n - 1)
        BY <1>1, <1>3, <3>2
      <4> QED BY <2>8, <4>1 DEF Written
    <3> QED BY <3>1, <3>2
  <2>11. rd' = "USER_DATA" /\ rd_count' = byte_count'
    <3>1. raw # NoByte
      BY <1>9 DEF RawInv
    <3>2. CASE n = 0
      <4>1. RdDam
        BY <2>1, <3>1, <3>2 DEF ReadLogic, RdQuiet, RdGaps, Gap, RdMarks, Marks, RdIdMark, RdId, RdIdCrc,
                                RdUserData, RdUserCrc
      <4> QED BY <2>2, <3>2, <4>1 DEF RdDam, Reader
    <3>3. CASE n # 0
      <4>1. RdUserData /\ rd_count + 1 = n /\ n # SECTOR_LEN
        BY <1>1, <1>3, <2>1, <3>1, <3>3
           DEF ReadLogic, RdQuiet, RdGaps, Gap, RdMarks, Marks, RdIdMark, RdId, RdIdCrc, RdDam, RdUserCrc
      <4> QED BY <2>2, <4>1 DEF RdUserData, Reader
    <3> QED BY <3>2, <3>3
  <2>12. slot' # 2 /\ slot' # 1 /\ NextByte' = Place(byte_count + 1)'
    BY <2>2, <2>5 DEF Place
  <2>13. WritingData'
    BY <1>7, <2>2, <2>10, <2>11, <2>12 DEF WritingData
  <2> QED BY <1>1, <1>5, <1>7, <2>2, <2>13
<1> QED BY <1>8, <1>9

(* The last byte is written on the clock on which the gate closes.         *)
LEMMA WriteDoneClock ==
  ASSUME SectorHost, Controlled, FreshInv, RawInv, MediaInv, WriteInv, SramNext, WritesSector,
         ~FreshCycle, t2 = "DONE"
  PROVE  /\ t2' = "IDLE" /\ buffer' = buffer /\ ~Open'
         /\ buffer # <<>> => Wrote'
<1> USE DEF SramNext, Controller
<1>1. /\ command_r' = command_r /\ t3 = "IDLE" /\ type_stb # "III" /\ sector_r' = sector_r
      /\ SECTOR_LEN \in Nat \ {0}
  BY WriteHeld, ReaderAssumption DEF ReaderAssumption, FreshInv
<1>2. T2Done /\ ~Request'
  <2>1. T2Done
    BY Calm DEF T2Idle, T2WaitIdam, T2WaitDam, T2ReadSector, T2WaitCrc, T2WriteDam, T2WriteData
  <2>2. ~TypeIIDrq
    BY DEF TypeIIDrq
  <2> QED BY <1>1, <2>1, <2>2, OwnRequest DEF Controlled, KeptInv
<1>3. IF type_ii_wg THEN sector_r \in DOMAIN DataField /\ WritingLast
                    ELSE buffer = <<>> /\ ~Open
  BY DEF WriteInv
<1>4. ~Open /\ Len(buffer) <= SECTOR_LEN
  BY <1>1, <1>3 DEF WritingLast
<1>5. buffer' = buffer /\ ~Open'
  <2>1. Moved(Open) <= SECTOR_LEN
    BY <1>4, <1>1 DEF Moved, FreshInv
  <2> QED BY <1>2, <1>4, <2>1, BufferStep
<1>6. ASSUME type_ii_wg PROVE Wrote'
  <2>1. /\ slot = 2 /\ NextByte = First(sector_r) + SECTOR_LEN /\ Written(SECTOR_LEN)
        /\ sec_dat_o = Want(SECTOR_LEN) /\ Len(buffer) = SECTOR_LEN
        /\ sector_r \in DOMAIN DataField
    BY <1>3, <1>6 DEF WritingLast, Place
  <2>2. pos = First(sector_r) + SECTOR_LEN
    BY <2>1, PlaceStep DEF Controlled, ServeInv, CoreInv, SramDrive
  <2>3. First(sector_r) + SECTOR_LEN \in Places /\ First(sector_r) \in Nat
    <3>1. SECTOR_LEN \in 0..SECTOR_LEN
      BY <1>1
    <3> QED BY <2>1, <3>1, FieldPlace, ImagePlaces DEF Places
  <2>4. media'[pos] = Want(SECTOR_LEN) /\ \A p \in Places : p # pos => media'[p] = media[p]
    <3>1. media_wr /\ wr_dat_s = Want(SECTOR_LEN)
      BY <1>6, <2>1, GateSelects DEF RawInv, Controlled, KeptInv, CalmInv, GateDiscipline
    <3>2. media' = [media EXCEPT ![pos] = Want(SECTOR_LEN)] /\ DOMAIN media = Places /\ pos \in Places
      BY <2>2, <2>3, <3>1 DEF SramDrive, MediaInv
    <3> QED BY <3>2
  <2>5. \A i \in 0..(SECTOR_LEN - 1) : media'[Place(i)] = media[Place(i)]
    <3> SUFFICES ASSUME NEW i \in 0..(SECTOR_LEN - 1) PROVE media'[Place(i)] = media[Place(i)]
      OBVIOUS
    <3>1. i \in 0..SECTOR_LEN
      BY <1>1
    <3>2. First(sector_r) + i \in Places /\ First(sector_r) + i # First(sector_r) + SECTOR_LEN
      BY <1>1, <2>1, <2>3, <3>1, FieldPlace
    <3> QED BY <2>2, <2>4, <3>2 DEF Place
  <2>6. \A i \in 1..Len(buffer) : buffer'[i] = buffer[i]
    BY <1>5
  <2>7. Written(SECTOR_LEN)'
    BY <1>1, <2>1, <2>5, <2>6, WrittenStep DEF FreshInv
  <2>8. media'[Place(SECTOR_LEN)'] = Want(SECTOR_LEN)'
    <3>1. Want(SECTOR_LEN)' = Want(SECTOR_LEN)
      BY <1>1, <1>5 DEF Want, DamToWrite
    <3> QED BY <1>1, <2>2, <2>4, <3>1 DEF Place
  <2>9. Written(SECTOR_LEN + 1)'
    <3> SUFFICES ASSUME NEW i \in 0..SECTOR_LEN PROVE media'[Place(i)'] = Want(i)'
      BY <1>1 DEF Written
    <3>1. CASE i = SECTOR_LEN
      BY <2>8, <3>1
    <3>2. CASE i # SECTOR_LEN
      <4>1. i \in 0..(SECTOR_LEN - 1)
        BY <1>1, <3>2
      <4> QED BY <2>7, <4>1 DEF Written
    <3> QED BY <3>1, <3>2
  <2> QED BY <1>1, <1>5, <2>1, <2>9 DEF Wrote
<1> QED BY <1>2, <1>3, <1>5, <1>6 DEF T2Done

LEMMA WriteClock ==
  ASSUME SectorHost, Controlled, FreshInv, RawInv, MediaInv, GapInv, WriteInv, SramNext
  PROVE  WriteInv'
<1> USE DEF SramNext, Controller
<1>1. <<>> \in Seq(DataVals) /\ (Out \/ ~Open) /\ (Out' \/ ~Open')
  BY DEF Out, Open
<1>2. CASE FreshCycle
  <2>1. buffer' = <<>> /\ ~Out' /\ t2' = "IDLE"
    BY <1>2, FreshStep
  <2> QED BY <1>1, <2>1 DEF WriteInv
<1>3. CASE ~FreshCycle
  <2> SUFFICES ASSUME WritesSector' PROVE WriteInv'
    BY DEF WriteInv
  <2>1. WritesSector
    BY <1>3, Cycles DEF KeepCycle, TakeCycle, FetchCycle, GiveCycle, IdleCycle, Same, WritesSector, Is
  <2>2. /\ WritesDisk /\ ~ReadsSector /\ command_r' = command_r /\ t3 = "IDLE" /\ type_stb # "III"
        /\ ~type_ii_wg => media' = media
        /\ ~sec_wr_stb => sector_r' = sector_r
    BY <1>3, <2>1, WriteHeld
  <2>3. SECTOR_LEN \in Nat \ {0} /\ buffer \in Seq(DataVals) /\ Len(buffer) \in Nat
    BY <2>1, ReaderAssumption DEF ReaderAssumption, WriteInv
  <2>4. ASSUME t2 # "IDLE", Moved(Open) <= SECTOR_LEN
        PROVE  /\ buffer' \in Seq(DataVals)
               /\ ~Open' /\ buffer' # <<>> => data_i_r' = buffer'[Len(buffer')]
    BY <1>3, <2>1, <2>4, BufferStep
  <2>5. t2 = "IDLE" => ~Request'
    BY <2>2, OwnRequest DEF Controlled, KeptInv
  <2>6. CASE Fresh
    <3>1. buffer = <<>> /\ ~Open /\ t2 = "IDLE"
      BY <1>1, <2>6 DEF Fresh, FreshInv
    <3>2. t2' \in {"IDLE", "WAIT_IDAM"}
      BY <3>1, Calm DEF T2Idle, T2WaitIdam, T2WaitDam, T2ReadSector, T2WaitCrc, T2WriteDam,
                        T2WriteData, T2Done
    <3>3. buffer' = <<>> /\ ~Open'
      BY <1>3, <2>2, <2>5, <3>1, OpenStep
    <3> QED BY <1>1, <3>2, <3>3 DEF WriteInv
  <2>7. CASE t2 = "IDLE" /\ ~Fresh
    <3>1. t2' = "IDLE"
      BY <2>7, Calm DEF T2Idle, T2WaitIdam, T2WaitDam, T2ReadSector, T2WaitCrc, T2WriteDam,
                        T2WriteData, T2Done, Fresh
    <3>2. ~Open /\ (buffer # <<>> => Wrote) /\ ~type_ii_wg
      BY <2>1, <2>7 DEF WriteInv, Controlled, GateInv
    <3>3. buffer' = buffer /\ ~Open'
      BY <1>3, <2>2, <2>5, <2>7, <3>2, OpenStep
    <3>4. sector_r' = sector_r /\ media' = media
      BY <2>2, <2>7, <3>2 DEF Fresh
    <3>5. Wrote => Wrote'
      BY <2>2, <3>3, <3>4 DEF Wrote, Written, Place, Want, DamToWrite
    <3> QED BY <2>3, <3>1, <3>2, <3>3, <3>5 DEF WriteInv
  <2>8. CASE t2 = "WAIT_IDAM"
    <3>1. T2WaitIdam /\ ~Aborted
      BY <2>8, Calm DEF T2Idle, T2WaitDam, T2ReadSector, T2WaitCrc, T2WriteDam, T2WriteData, T2Done
    <3>2. Request' <=> TypeIIDrq
      BY <2>8, OwnRequest DEF Controlled, KeptInv
    <3>3. Request' <=> ~rnf_error /\ IdMatches
      BY <2>1, <2>8, <3>1, <3>2 DEF TypeIIDrq
    <3>4. buffer = <<>> /\ ~Open /\ Moved(Open) <= SECTOR_LEN
      BY <2>1, <2>3, <2>8 DEF WriteInv, Moved
    <3>5. buffer' = <<>> /\ (Open' <=> Request')
      BY <1>3, <2>1, <2>8, <3>4, BufferStep
    <3>6. t2' \in {"WAIT_IDAM", "WAIT_DAM", "DONE"} /\ (t2' = "WAIT_DAM" <=> Request') /\ ~type_ii_wg'
      BY <2>8, <3>1, <3>3 DEF T2WaitIdam, Controlled, GateInv
    <3>7. Open' => Moved(Open)' = 1
      <4> SUFFICES ASSUME Open' PROVE Moved(Open)' = 1
        OBVIOUS
      <4>1. Moved(Open)' = Len(<<>>) + 1
        BY <3>5 DEF Moved
      <4>2. Len(<<>>) + 1 = 1
        OBVIOUS
      <4> QED BY <4>1, <4>2, Zenon
    <3> QED BY <1>1, <3>5, <3>6, <3>7 DEF WriteInv
  <2>9. CASE t2 = "WAIT_DAM"
    <3>1. Moved(Open) <= SECTOR_LEN
      BY <2>1, <2>3, <2>9 DEF WriteInv
    <3>2. /\ t2' \in {"WAIT_DAM", "WRITE_SECTOR_DAM"} /\ Moved(Open)' = 1
          /\ t2' = "WRITE_SECTOR_DAM" => sector_r' \in DOMAIN DataField /\ WritingDam'
      BY <1>3, <2>1, <2>9, WriteWaits
    <3> QED BY <2>4, <2>9, <3>1, <3>2 DEF WriteInv
  <2>10. CASE t2 = "WRITE_SECTOR_DAM"
    <3>1. Moved(Open) <= SECTOR_LEN
      BY <2>1, <2>3, <2>10 DEF WriteInv, WritingDam
    <3>2. /\ t2' \in {"WRITE_SECTOR_DAM", "WRITE_SECTOR_DATA"} /\ sector_r' \in DOMAIN DataField
          /\ IF t2' = "WRITE_SECTOR_DAM" THEN WritingDam' ELSE WritingData'
      BY <1>3, <2>1, <2>10, WriteDamClock
    <3> QED BY <2>4, <2>10, <3>1, <3>2 DEF WriteInv
  <2>11. CASE t2 = "WRITE_SECTOR_DATA"
    <3>1. /\ t2' \in {"WRITE_SECTOR_DATA", "DONE"} /\ sector_r' \in DOMAIN DataField /\ type_ii_wg'
          /\ IF t2' = "DONE" THEN WritingLast' ELSE WritingData'
          /\ Moved(Open) <= SECTOR_LEN
      BY <1>3, <2>1, <2>11, WriteDataClock
    <3> QED BY <2>4, <2>11, <3>1 DEF WriteInv
  <2>12. CASE t2 = "DONE"
    <3>1. /\ t2' = "IDLE" /\ buffer' = buffer /\ ~Open'
          /\ buffer # <<>> => Wrote'
      BY <1>3, <2>1, <2>12, WriteDoneClock
    <3> QED BY <2>3, <3>1 DEF WriteInv
  <2>13. t2 \in T2States /\ t2 \notin {"READ_SECTOR", "WAIT_CRC"}
    BY <2>1 DEF Controlled, TypeIIOK, WriteInv
  <2> QED BY <2>6, <2>7, <2>8, <2>9, <2>10, <2>11, <2>12, <2>13 DEF T2States
<1> QED BY <1>2, <1>3

-----------------------------------------------------------------------------
(* The invariant, and what it says of the disk and of the host's bytes.    *)
LEMMA SectorInit == SramInit => SectorInv /\ Controlled
<1> SUFFICES ASSUME SramInit PROVE SectorInv /\ Controlled
  OBVIOUS
<1>1. Init /\ media = Image /\ buffer = <<>>
  BY DEF SramInit
<1>2. Controlled
  <2>1. ServeInv /\ NoByteLost /\ KeptInv /\ TypeOK
    BY <1>1, ServeInit, KeptInit, InitTypes
  <2>2. GateInv
    BY <1>1 DEF Init, GateInv
  <2> QED BY <2>1, <2>2 DEF Controlled, TypeOK
<1>3. ~Out /\ ~Open /\ Owed = 0
  BY <1>1 DEF Init, Out, Open, Request, Owed
<1>4. FreshInv
  BY <1>1, <1>3 DEF Init, ReaderInit, NoByte, FreshInv
<1>5. RawInv
  BY <1>1 DEF Init, ReaderInit, RawInv
<1>6. MediaInv
  <2>1. DOMAIN Image = Places
    BY ImagePlaces, MediaAssumption DEF MediaAssumption
  <2>2. \A p \in Fields : Image[p] \notin {XA1, GOOD_CRC}
    BY FormatAssumption DEF FormatAssumption
  <2>3. \A s \in DOMAIN DataField : Image[First(s)] # XFE
    BY FormatAssumption DEF FormatAssumption
  <2> QED BY <1>1, <2>1, <2>2, <2>3, ImagePlaces DEF MediaInv
<1>7. IdInv
  BY <1>1 DEF Init, ReaderInit, IdInv
<1>8. GapInv
  BY <1>1 DEF Init, GapInv
<1>9. ReadInv /\ WriteInv
  BY <1>1, <1>3 DEF Init, ReadInv, WriteInv
<1> QED BY <1>2, <1>4, <1>5, <1>6, <1>7, <1>8, <1>9 DEF SectorInv

LEMMA SectorClock ==
  ASSUME SectorHost, SectorInv, Controlled, SramNext
  PROVE  SectorInv' /\ Controlled'
<1>1. Controlled' /\ DriveOK
  BY ControlClock DEF Controlled, ServeInv, CoreInv
<1>2. FreshInv' /\ RawInv'
  BY <1>1, FreshClock, RawClock DEF SectorInv
<1>3. MediaInv' /\ IdInv'
  BY MediaClock, IdClock DEF SectorInv, SramNext, Controller
<1>4. GapInv' /\ ReadInv' /\ WriteInv'
  BY <1>1, GapClock, ReadClock, WriteClock DEF SectorInv
<1> QED BY <1>1, <1>2, <1>3, <1>4 DEF SectorInv

LEMMA SectorStutter ==
  ASSUME SectorInv, Controlled, UNCHANGED sramVars
  PROVE  SectorInv' /\ Controlled'
<1>1. UNCHANGED vars /\ media' = media /\ buffer' = buffer
  BY DEF sramVars
<1>2. /\ UNCHANGED <<bus, left, command_r, data_i_r, cmd_wr_stb, sec_wr_stb, drq_clr, drq_s>>
      /\ UNCHANGED <<irq_mask, ip_cnt, irq_set, intrq, cmd_state, type_stb, latch_status>>
      /\ UNCHANGED <<t2, byte_count, sec_dat_o, type_ii_drq, type_ii_ack, type_ii_wg>>
      /\ UNCHANGED <<t3, sector_r, type_iii_drq, type_iii_wg>>
      /\ UNCHANGED <<write_data_written, wdw_r, media_wr, slot, pos, ip>>
      /\ UNCHANGED <<raw, rd, rd_count, rdy, idam_sector, data_o_r>>
  BY <1>1 DEF vars, hostVars, busVars, irqVars, cmdVars, t2Vars, t3Vars, writeVars, readVars, driveVars
<1>3. Controlled'
  <2>1. ServeInv' /\ NoByteLost' /\ KeptInv'
    BY <1>1, ServeStutter, KeptStutter DEF Controlled
  <2>2. GateInv' /\ TypeIIOK' /\ IrqOK'
    BY <1>2 DEF Controlled, GateInv, WritesSector, Is, TypeIIOK, IrqOK
  <2> QED BY <2>1, <2>2 DEF Controlled
<1>4. FreshInv' /\ RawInv' /\ MediaInv'
  BY <1>1, <1>2 DEF SectorInv, FreshInv, Out, Request, ReadsSector, WritesSector, WritesDisk, Is,
                    RawInv, MediaInv
<1>5. IdInv' /\ GapInv'
  BY <1>2 DEF SectorInv, IdInv, IdBehind, IdSeen, NextByte, NextPos, Ahead, GapInv, InGap, AtMost,
              ReadsSector, WritesSector, Is, rnf_error, Leads
<1>6. ReadInv'
  BY <1>1, <1>2 DEF SectorInv, ReadInv, ReadPart, Reading, ReadsSector, Is, Owed, Turn, Request, Out,
                    Moved, Place, NextByte, NextPos, LastByte
<1>7. WriteInv'
  BY <1>1, <1>2 DEF SectorInv, WriteInv, WritingDam, WritingData, WritingLast, Wrote, Written, Want,
                    WritesSector, Is, Request, Open, Moved, Place, NextByte, NextPos, ByteWritten,
                    DamToWrite
<1> QED BY <1>3, <1>4, <1>5, <1>6, <1>7 DEF SectorInv

LEMMA SectorInvariant ==
  ASSUME SectorHost PROVE SramSpec => [](SectorInv /\ Controlled)
<1>1. SectorInv /\ Controlled /\ [SramNext]_sramVars => (SectorInv /\ Controlled)'
  BY SectorClock, SectorStutter
<1> QED BY <1>1, SectorInit, PTL DEF SramSpec

LEMMA ContentIs ==
  ASSUME MediaInv, NEW s \in DOMAIN DataField
  PROVE  /\ Content(s) \in Seq(Int) /\ Len(Content(s)) = SECTOR_LEN + 1
         /\ \A i \in 0..SECTOR_LEN : Content(s)[i + 1] = media[First(s) + i]
         /\ Tail(Content(s)) \in Seq(Int) /\ Len(Tail(Content(s))) = SECTOR_LEN
         /\ \A i \in 1..SECTOR_LEN : Tail(Content(s))[i] = media[First(s) + i]
<1>1. SECTOR_LEN \in Nat \ {0}
  BY ReaderAssumption DEF ReaderAssumption
<1>2. \A i \in 0..SECTOR_LEN : DataField[s][i + 1] = First(s) + i /\ media[First(s) + i] \in Int
  BY FieldPlace DEF MediaInv
<1>3. \A j \in 1..(SECTOR_LEN + 1) : media[DataField[s][j]] \in Int
  <2> SUFFICES ASSUME NEW j \in 1..(SECTOR_LEN + 1) PROVE media[DataField[s][j]] \in Int
    OBVIOUS
  <2>1. j - 1 \in 0..SECTOR_LEN /\ (j - 1) + 1 = j
    BY <1>1
  <2> QED BY <1>2, <2>1
<1>4. Content(s) \in Seq(Int) /\ Len(Content(s)) = SECTOR_LEN + 1
  BY <1>1, <1>3 DEF Content
<1>5. \A i \in 0..SECTOR_LEN : Content(s)[i + 1] = media[First(s) + i]
  BY <1>1, <1>2 DEF Content
<1>6. Content(s) # <<>>
  BY <1>1, <1>4
<1>7. /\ Tail(Content(s)) \in Seq(Int) /\ Len(Tail(Content(s))) = SECTOR_LEN
      /\ \A i \in 1..SECTOR_LEN : Tail(Content(s))[i] = Content(s)[i + 1]
  BY <1>1, <1>4, <1>6, HeadTailProperties
<1> QED BY <1>1, <1>4, <1>5, <1>7

(* A host that has seen its command end has nothing left to move.          *)
LEMMA EndedRests ==
  ASSUME Controlled, Ended PROVE t2 = "IDLE" /\ ~Out /\ ~Open
<1>1. Rests
  BY IdleRests DEF Controlled, Ended
<1>2. ~Request /\ bus # "data"
  BY <1>1 DEF Rests, Quiet, Controlled, ServeInv, DataBusInv, Ended
<1> QED BY <1>1, <1>2 DEF Rests, Quiet, Ended, Out, Open

LEMMA ReadMeansSector ==
  ASSUME SectorInv, Controlled PROVE ReadsTheSector
<1> SUFFICES ASSUME ReadsSector, buffer # <<>>
             PROVE  /\ sector_r \in DOMAIN DataField
                    /\ IsPrefix(buffer, Tail(Content(sector_r)))
                    /\ Ended => buffer = Tail(Content(sector_r))
  BY DEF ReadsTheSector
<1>1. MediaInv /\ SECTOR_LEN \in Nat \ {0} /\ buffer \in Seq(Int) /\ Len(buffer) \in Nat
  BY ReaderAssumption DEF ReaderAssumption, SectorInv, FreshInv
<1>2. ReadPart /\ (t2 = "IDLE" => Moved(Out) = SECTOR_LEN)
  BY DEF SectorInv, ReadInv, Reading, Controlled, TypeIIOK, T2States
<1>3. sector_r \in DOMAIN DataField /\ Len(buffer) <= SECTOR_LEN
  BY <1>1, <1>2 DEF ReadPart, Moved
<1> DEFINE t == Tail(Content(sector_r))
<1>4. /\ t \in Seq(Int) /\ Len(t) = SECTOR_LEN
      /\ \A i \in 1..SECTOR_LEN : t[i] = media[First(sector_r) + i]
  BY <1>1, <1>3, ContentIs
<1>5. \A i \in 1..Len(buffer) : buffer[i] = t[i]
  BY <1>1, <1>2, <1>3, <1>4 DEF ReadPart, Place
<1> HIDE DEF t
<1>6. IsPrefix(buffer, t)
  <2>1. SubSeq(buffer, 1, Len(buffer)) = SubSeq(t, 1, Len(buffer))
    BY <1>1, <1>3, <1>4, <1>5
  <2> QED BY <1>3, <1>4, <2>1 DEF IsPrefix
<1>7. ASSUME Ended PROVE buffer = t
  <2>1. Len(buffer) = SECTOR_LEN
    BY <1>1, <1>2, <1>7, EndedRests DEF Moved
  <2> QED BY <1>1, <1>4, <1>5, <2>1, SeqEqual
<1> QED BY <1>3, <1>6, <1>7 DEF t

LEMMA WriteMeansSector ==
  ASSUME SectorInv, Controlled PROVE WritesTheSector
<1> SUFFICES ASSUME WritesSector, Ended, buffer # <<>>
             PROVE  Content(sector_r) = <<DamToWrite>> \o buffer
  BY DEF WritesTheSector
<1>1. MediaInv /\ SECTOR_LEN \in Nat \ {0} /\ buffer \in Seq(Int) /\ Len(buffer) \in Nat
  BY ReaderAssumption DEF ReaderAssumption, SectorInv, FreshInv
<1>2. Wrote
  BY EndedRests DEF SectorInv, WriteInv
<1>3. /\ sector_r \in DOMAIN DataField /\ Len(buffer) = SECTOR_LEN
      /\ \A i \in 0..SECTOR_LEN : media[First(sector_r) + i] = IF i = 0 THEN DamToWrite ELSE buffer[i]
  BY <1>1, <1>2 DEF Wrote, Written, Place, Want
<1> DEFINE c == Content(sector_r)
           b == <<DamToWrite>>
<1>4. /\ c \in Seq(Int) /\ Len(c) = SECTOR_LEN + 1
      /\ \A i \in 0..SECTOR_LEN : c[i + 1] = media[First(sector_r) + i]
  BY <1>1, <1>3, ContentIs
<1>5. b \in Seq(Int) /\ Len(b) = 1 /\ b[1] = DamToWrite
  BY DEF DamToWrite
<1> HIDE DEF b, c
<1>6. /\ b \o buffer \in Seq(Int) /\ Len(b \o buffer) = SECTOR_LEN + 1
      /\ \A i \in 1..(SECTOR_LEN + 1) : (b \o buffer)[i] = IF i <= 1 THEN b[i] ELSE buffer[i - 1]
  <2>1. /\ b \o buffer \in Seq(Int) /\ Len(b \o buffer) = Len(b) + Len(buffer)
        /\ \A i \in 1..(Len(b) + Len(buffer)) :
             (b \o buffer)[i] = IF i <= Len(b) THEN b[i] ELSE buffer[i - Len(b)]
    BY <1>1, <1>5, ConcatProperties
  <2>2. Len(b) + Len(buffer) = SECTOR_LEN + 1
    BY <1>1, <1>3, <1>5
  <2> QED BY <1>5, <2>1, <2>2
<1>7. \A i \in 1..(SECTOR_LEN + 1) : c[i] = (b \o buffer)[i]
  <2> SUFFICES ASSUME NEW i \in 1..(SECTOR_LEN + 1) PROVE c[i] = (b \o buffer)[i]
    OBVIOUS
  <2>1. i - 1 \in 0..SECTOR_LEN /\ (i - 1) + 1 = i
    BY <1>1
  <2>2. c[i] = IF i - 1 = 0 THEN DamToWrite ELSE buffer[i - 1]
    BY <1>3, <1>4, <2>1
  <2>3. (b \o buffer)[i] = IF i <= 1 THEN b[i] ELSE buffer[i - 1]
    BY <1>6
  <2>4. CASE i = 1
    BY <1>5, <2>2, <2>3, <2>4
  <2>5. CASE i # 1
    <3>1. i - 1 # 0 /\ ~(i <= 1)
      BY <1>1, <2>5
    <3> QED BY <2>2, <2>3, <3>1
  <2> QED BY <2>4, <2>5
<1>8. c = b \o buffer
  BY <1>4, <1>6, <1>7, SeqEqual
<1> QED BY <1>8 DEF b, c

-----------------------------------------------------------------------------
(* READ SECTOR gives the host the data of the sector asked for, in order,  *)
(* each byte once: all of it, or nothing when no record was found.         *)
THEOREM SectorsAreRead ==
  ASSUME SectorHost PROVE SramSpec => []ReadsTheSector
<1> QED BY SectorInvariant, ReadMeansSector, PTL

(* WRITE SECTOR leaves in the data field of the sector the mark of the     *)
(* command and the bytes the host gave.                                    *)
THEOREM SectorsAreWritten ==
  ASSUME SectorHost PROVE SramSpec => []WritesTheSector
<1> QED BY SectorInvariant, WriteMeansSector, PTL

(* Nothing but the data field of the sector asked for is overwritten.      *)
THEOREM FieldsAreKept ==
  ASSUME SectorHost PROVE SramSpec => WritesOnlyTheField
<1> DEFINE Kept == \A p \in DOMAIN media :
                     media'[p] # media[p] =>
                       sector_r \in DOMAIN DataField /\ p \in Range(DataField[sector_r])
<1>1. SectorInv /\ Controlled /\ [SramNext]_sramVars => [Kept]_sramVars
  <2> SUFFICES ASSUME SectorInv, Controlled, SramNext PROVE Kept
    OBVIOUS
  <2>1. \A p \in Places : media'[p] # media[p] =>
          sector_r \in DOMAIN DataField /\ p \in Range(DataField[sector_r])
    BY MediaClock DEF SectorInv, SramNext
  <2> QED BY <2>1 DEF SectorInv, MediaInv
<1> QED BY <1>1, SectorInvariant, PTL DEF SramSpec, WritesOnlyTheField

(* On a formatted disk, too, a request never meets one that is still open. *)
THEOREM SectorBytesAreNotLost ==
  ASSUME SectorHost PROVE SramSpec => []NoByteLost
<1>1. Controlled => NoByteLost
  BY DEF Controlled
<1> QED BY <1>1, SectorInvariant, PTL
=============================================================================
