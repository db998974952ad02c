----------------------------- MODULE IdamReader -----------------------------
(***************************************************************************)
(* PROC_I_DAM of wd179x.vhd: the process that finds the ID and data        *)
(* address marks in the byte stream of the disk and tells the command      *)
(* processors what has just gone by.                                       *)
(*                                                                         *)
(* `raw' is the byte PROC_RAW_READ has just assembled, or NoByte on the    *)
(* clocks between two bytes.  A CRC is only right or wrong: GOOD_CRC       *)
(* stands for the second CRC byte that makes it right.                     *)
(***************************************************************************)
EXTENDS Integers

CONSTANTS
  Bytes,                      \* bytes the medium may deliver
  SECTOR_LEN,                 \* 256: data bytes of a sector
  GAP2_4E_MIN, GAP2_00_MIN,   \* 15 and 8: shortest gap before an ID mark
  GAP3_4E_MIN, GAP3_00_MIN,   \* 22 and 8: shortest gap before a data mark
  A1_RUN                      \* 3: bytes A1 before a mark

ASSUME ReaderAssumption ==
  /\ SECTOR_LEN \in Nat \ {0} /\ A1_RUN \in Nat /\ A1_RUN >= 2
  /\ {GAP2_4E_MIN, GAP2_00_MIN, GAP3_4E_MIN, GAP3_00_MIN} \subseteq Nat \ {0}
  /\ Bytes \subseteq Nat

(* Bytes of the medium that the read logic tells apart.                    *)
NoByte   == -1      \* raw_data_rdy = '0'
GOOD_CRC == 256     \* a second CRC byte after which the CRC agrees
X4E == 78
X00 == 0
XA1 == 161
XFE == 254
CRC_HI == 258       \* the two bytes an F7 of WRITE TRACK generates
CRC_LO == 259

VARIABLES
  raw,           \* the byte just read, or NoByte
  rd, rd_count,  \* state and variable "count" of PROC_I_DAM
  rdy,           \* the ready strobes raised on the last clock
  idam_track, idam_sector, idam_dam,   \* fields of the last marks
  crc_error, data_o_r

readVars == <<rd, rd_count, rdy, idam_track, idam_sector, idam_dam, crc_error, data_o_r>>


Reader(st, n) == rd' = st /\ rd_count' = n
Ready(what) == rdy' = what
Lost == Reader("UNKNOWN", rd_count) /\ Ready({})
Capped(n, max) == IF n < max THEN n + 1 ELSE n
HeldId == UNCHANGED <<idam_track, idam_sector, idam_dam>>

RdQuiet ==   \* one clock to leave UNKNOWN, and the clocks between bytes
  /\ rd = "UNKNOWN" \/ raw = NoByte
  /\ IF rd = "UNKNOWN" THEN Reader("GAP2_4E", 0) ELSE Reader(rd, rd_count)
  /\ Ready({})
  /\ UNCHANGED <<crc_error, data_o_r>> /\ HeldId

(* A gap is a run of byte x of at least min bytes, then the first byte of  *)
(* the next run; `min' caps the count.                                     *)
Gap(here, x, min, next, first) ==
  /\ rd = here
  /\ IF raw = x THEN Reader(here, Capped(rd_count, min)) /\ Ready({})
     ELSE IF raw = first /\ rd_count = min THEN Reader(next, 1) /\ Ready({})
     ELSE Lost
  /\ UNCHANGED crc_error /\ HeldId

RdGaps == \/ Gap("GAP2_4E", X4E, GAP2_4E_MIN, "GAP2_00", X00)
          \/ Gap("GAP2_00", X00, GAP2_00_MIN, "GAP2_A1", XA1)
          \/ Gap("GAP3_4E", X4E, GAP3_4E_MIN, "GAP3_00", X00)
          \/ Gap("GAP3_00", X00, GAP3_00_MIN, "GAP3_A1", XA1)

Marks(here, next, what) ==
  /\ rd = here
  /\ IF raw # XA1 THEN Lost
     ELSE IF rd_count + 1 = A1_RUN THEN Reader(next, rd_count + 1) /\ Ready(what)
     ELSE Reader(here, rd_count + 1) /\ Ready({})
  /\ UNCHANGED crc_error /\ HeldId

RdMarks == \/ Marks("GAP2_A1", "ID_ADDR_MARK", {})
           \/ Marks("GAP3_A1", "DAM", {"data_mark_next"})

RdIdMark ==
  /\ rd = "ID_ADDR_MARK"
  /\ IF raw = XFE THEN Reader("TRACK", rd_count) /\ Ready({}) ELSE Lost
  /\ UNCHANGED crc_error /\ HeldId

RdId ==   \* the four bytes of an ID; side and length are not kept
  /\ rd \in {"TRACK", "SIDE", "SECTOR", "SEC_LEN"}
  /\ Ready({"addr_data"})
  /\ Reader(CASE rd = "TRACK" -> "SIDE" [] rd = "SIDE" -> "SECTOR"
              [] rd = "SECTOR" -> "SEC_LEN" [] OTHER -> "CRC_1",
            IF rd = "SEC_LEN" THEN 0 ELSE rd_count)
  /\ idam_track' = IF rd = "TRACK" THEN raw ELSE idam_track
  /\ idam_sector' = IF rd = "SECTOR" THEN raw ELSE idam_sector
  /\ crc_error' = (crc_error /\ rd # "SEC_LEN")
  /\ UNCHANGED idam_dam

RdIdCrc_BadAccepted ==   \* mutant: an ID with a bad CRC is announced all the same
  /\ rd = "CRC_1"
  /\ IF rd_count = 0
     THEN Reader("CRC_1", 1) /\ Ready({"addr_data"}) /\ UNCHANGED crc_error
     ELSE IF raw = GOOD_CRC
     THEN Reader("GAP3_4E", 0) /\ Ready({"addr_data", "id_mark"}) /\ UNCHANGED crc_error
     ELSE Reader("UNKNOWN", 2) /\ Ready({"addr_data", "id_mark"}) /\ crc_error' = TRUE
  /\ HeldId

RdIdCrc ==
  /\ rd = "CRC_1"
  /\ IF rd_count = 0
     THEN Reader("CRC_1", 1) /\ Ready({"addr_data"}) /\ UNCHANGED crc_error
     ELSE IF raw = GOOD_CRC
     THEN Reader("GAP3_4E", 0) /\ Ready({"addr_data", "id_mark"}) /\ UNCHANGED crc_error
     ELSE Reader("UNKNOWN", 2) /\ Ready({"addr_data"}) /\ crc_error' = TRUE
  /\ HeldId

RdDam ==
  /\ rd = "DAM"
  /\ idam_dam' = raw
  /\ Reader("USER_DATA", 0) /\ Ready({"data_mark"})
  /\ UNCHANGED <<crc_error, idam_track, idam_sector>>

RdUserData ==
  /\ rd = "USER_DATA"
  /\ Ready({"user_data"})
  /\ IF rd_count + 1 = SECTOR_LEN
     THEN Reader("CRC_2", 0) /\ crc_error' = FALSE
     ELSE Reader("USER_DATA", rd_count + 1) /\ UNCHANGED crc_error
  /\ HeldId

RdUserCrc ==
  /\ rd = "CRC_2"
  /\ IF rd_count = 0
     THEN Reader("CRC_2", 1) /\ Ready({}) /\ UNCHANGED crc_error
     ELSE /\ Reader("UNKNOWN", 2) /\ Ready({"user_crc"})
          /\ crc_error' = (crc_error \/ raw # GOOD_CRC)
  /\ HeldId

ReadLogic ==
  \/ RdQuiet
  \/ /\ rd # "UNKNOWN" /\ raw # NoByte
     /\ data_o_r' = raw
     /\ \/ RdGaps \/ RdMarks \/ RdIdMark \/ RdId \/ RdIdCrc
        \/ RdDam \/ RdUserData \/ RdUserCrc


ReaderInit ==
  /\ raw = NoByte /\ rd = "UNKNOWN" /\ rd_count = 0 /\ rdy = {}
  /\ idam_track = 0 /\ idam_sector = 0 /\ idam_dam = 0
  /\ crc_error = FALSE /\ data_o_r = 0
=============================================================================
