----------------------------- MODULE SramFloppy -----------------------------
(***************************************************************************)
(* The controller with a disk in memory, as GEN_SRAM_FLOPPY of             *)
(* m3/platform.vhd wires it: the byte at the head's place is read from     *)
(* the memory while the write gate is closed, and media_wr stores          *)
(* wr_dat_s there.  The host keeps the bytes it moves for a command in a   *)
(* buffer, as the test bench does.                                         *)
(***************************************************************************)
EXTENDS WD179x, SequencesExt

CONSTANTS
  Image,       \* the bytes of the track at power on
  DataField,   \* for each sector, the places of its data mark and data
  Damaged,     \* places where a read may fail (the bus value is read)
  Floating     \* what the data bus reads while the memory is not driven

ASSUME MediaAssumption ==
  /\ Image \in Seq(Bytes) /\ Len(Image) = Len(Track) /\ Floating \in Bytes
  /\ Damaged \subseteq 1..Len(Image)
  /\ \A s \in DOMAIN DataField :
       /\ Len(DataField[s]) = SECTOR_LEN + 1
       /\ Range(DataField[s]) \subseteq 1..Len(Image)

Ahead(p, k) == IF p + k <= Len(Track) THEN p + k ELSE p + k - Len(Track)
Fields == UNION {Range(DataField[s]) : s \in DOMAIN DataField}
First(s) == DataField[s][1]

(* After the ID that begins with the A1 at place p come a gap of n1 bytes  *)
(* 4E and n2 bytes 00, the run of A1 and the data field of sector s.       *)
Leads(p, s, n1, n2) ==
  LET c == p + 7   \* its second CRC byte
  IN  /\ INDEX_LEN < c /\ c + n1 + n2 + A1_RUN + 1 = First(s)
      /\ GAP3_4E_MIN <= n1 /\ GAP3_00_MIN <= n2
      /\ \A q \in 1..n1 : Image[c + q] = X4E
      /\ \A q \in 1..n2 : Image[c + n1 + q] = X00
      /\ \A q \in 1..A1_RUN : Image[c + n1 + n2 + q] = XA1
      /\ \A q \in p..(First(s) - 1) : q \notin Fields /\ (q # c => q \notin Damaged)

(* The disk is formatted: every ID whose CRC agrees leads to the data      *)
(* field of the sector it names, and the data fields are whole.            *)
ASSUME FormatAssumption ==
  /\ Len(Image) > 7 /\ Floating \notin {XA1, XFE, GOOD_CRC}
  /\ \A s \in DOMAIN DataField :
       /\ DataField[s] = [i \in 1..(SECTOR_LEN + 1) |-> First(s) + i - 1]
       /\ Image[First(s)] # XFE
       /\ \A z \in DOMAIN DataField \ {s} : Range(DataField[s]) \cap Range(DataField[z]) = {}
  /\ \A p \in Fields : p \notin Damaged /\ Image[p] \notin {XA1, GOOD_CRC}
  /\ \A p \in 1..Len(Image) :
       Image[p] = XA1 /\ Image[Ahead(p, 1)] = XFE /\ Image[Ahead(p, 7)] = GOOD_CRC =>
         /\ Image[Ahead(p, 4)] \in DOMAIN DataField
         /\ \E n1, n2 \in 1..Len(Image) : Leads(p, Image[Ahead(p, 4)], n1, n2)

VARIABLES
  media,       \* the memory: one byte for each place of the track
  buffer       \* bytes the host moved since it last prepared a command

sramVars == <<vars, media, buffer>>

SramDrive ==
  /\ DriveReads(IF wg THEN {Floating}
                ELSE IF pos \in Damaged THEN {Floating, media[pos]} ELSE {media[pos]})
  /\ UNCHANGED tr00
  /\ media' = IF media_wr THEN [media EXCEPT ![pos] = wr_dat_s] ELSE media

(* The host serves a request: a read takes data_o_r at its end, a write    *)
(* puts its byte into data_i_r on its first clock.                         *)
BytesMoved ==
  IF bus = "data" /\ left = 1 THEN <<data_o_r>>
  ELSE IF left = 0 /\ drq_s /\ drq_clr' /\ bus' = "write" THEN <<data_i_r'>> ELSE <<>>

HostBuffer ==
  buffer' = IF cmd_wr_stb' \/ sec_wr_stb' THEN <<>>
            ELSE IF Len(buffer) > SECTOR_LEN THEN buffer ELSE buffer \o BytesMoved

SramInit == Init /\ media = Image /\ buffer = <<>>
SramNext == Host /\ SramDrive /\ Controller /\ HostBuffer
SramSpec == SramInit /\ [][SramNext]_sramVars
SramFair == SramSpec /\ WF_sramVars(SramNext)

-----------------------------------------------------------------------------
Content(s) == [i \in 1..(SECTOR_LEN + 1) |-> media[DataField[s][i]]]

(* The host has seen its command end and has served the last request.      *)
Ended == ~hostWaits /\ ~cmd_busy /\ ~cmd_wr_stb /\ ~drq_s /\ ~drq_clr /\ left = 0

(* READ SECTOR hands the host the data of the sector asked for, in order,  *)
(* each byte once: during the command a prefix of it, at its end all of it *)
(* or, when no record was found, nothing.                                  *)
ReadsTheSector ==
  ReadsSector /\ buffer # <<>> =>
    /\ sector_r \in DOMAIN DataField
    /\ IsPrefix(buffer, Tail(Content(sector_r)))
    /\ Ended => buffer = Tail(Content(sector_r))

(* A READ SECTOR that ends without "record not found" has requested every  *)
(* byte of the sector; the last may still be on its way to the host.       *)
Delivered == Len(buffer) + (IF drq_s \/ bus = "data" THEN 1 ELSE 0) = SECTOR_LEN
SectorDelivered == latch_status /\ ReadsSector /\ ~rnf_error => Delivered

(* A sector whose data CRC is wrong is reported as such when its READ      *)
(* SECTOR ends.  The CRC follows the data field at two places' distance.   *)
DataCrcReported ==
  latch_status /\ ReadsSector /\ sector_r \in DOMAIN DataField /\ Delivered
    => (crc_error <=> media[DataField[sector_r][SECTOR_LEN + 1] + 2] # GOOD_CRC)

(* WRITE SECTOR leaves in the data field of the sector asked for the mark  *)
(* of the command and the bytes the host gave, in order.                   *)
WritesTheSector ==
  WritesSector /\ Ended /\ buffer # <<>> =>
    Content(sector_r) = <<DamToWrite>> \o buffer

(* Nothing but the data field of the sector asked for is ever overwritten: *)
(* the gate opens and closes exactly at its ends.                          *)
WritesOnlyTheField ==
  [][ \A p \in DOMAIN media :
        media'[p] # media[p] =>
          sector_r \in DOMAIN DataField /\ p \in Range(DataField[sector_r]) ]_sramVars
=============================================================================
