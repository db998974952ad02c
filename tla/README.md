# The floppy disk path and the two game ports in TLA+

This directory holds TLA+ models of the parts of the repository that have a protocol of their own,
written here:

* the floppy disk path of the TRS-80 platforms in PACE: the controller `wd179x.vhd`, the drives
  `floppy_if.vhd`, the memory disk of `m3/platform.vhd`, and the FIFO with its `floppy_app`
  firmware. A CPU, three command processors, a rotating disk and an interrupt line meet on one clock;
* the C port of *Lode Runner*, `lr.c`: a player, guards, gold, holes and an exit ladder on two maps
  that must stay consistent with each other, the guards moving one at a time between his turns;
* the C port of *Knight Lore*, `kl.c`: objects that go between a table, the screen, the inventory and
  a cauldron, while night, death and new rooms come in between.

All paths are under `src/sw/`.

## 1. Inventory

| Component | State it keeps | Operations | Talks to | What is hard |
|---|---|---|---|---|
| **FDC controller**, `src/platform/trs80/wd179x.vhd` | registers, strobes, INTRQ, DRQ, index counter, `PROC_CMD_SM`, the three command processors, address mark reader, write gate, latched status | bus reads and writes; RESTORE, SEEK, STEP, READ/WRITE SECTOR, READ ADDRESS, READ/WRITE TRACK, FORCE INTERRUPT; reset | host bus; drive pins; byte stream | every process sees the values of the clock before; completions race with reads and with FORCE INTERRUPT; searches must end; one byte per 640 clocks |
| **Drives**, `src/platform/trs80/floppy_if.vhd` | a head position per drive, step edge, place on the track | step, select, read a byte, write a byte | controller; FIFO or memory | steps counted twice, once on each side; one track register for four heads |
| **Memory floppy**, `GEN_SRAM_FLOPPY` of `src/platform/trs80/m3/platform.vhd` (partly) | the image | read at the head, write on a strobe | controller, drive | write gate at exactly the right bytes |
| **FIFO and firmware**, `src/platform/trs80/target_top_ep4c.vhd`, `synth/platform/trs80/m1/s5a_r2c0/software/floppy_app/main.cpp` (partly) | FIFO, edge capture, flag, place in the sector | fill, flush on step, interrupt, read the track again | drive, soft CPU | interrupt against main loop; bytes in flight when the head moves |
| **Lode Runner port**, `re/platform/appleii/loderun/c/src/lr/lr.c` (partly) | the maps `ldu1` and `ldu2`, player, guards, holes, `no_gold`, exit ladder, dig, lives, level | a turn of the player, of a guard, of the world; level and life | keys | what is true of two maps, three lists and a counter while everybody moves in turn; full tables; bytes |
| **Knight Lore port**, `re/platform/zxspectrum/filmation/c/src/kl/kl.c` (partly) | `special_objs_tbl`, `special_objs_here`, `objects_carried`, cauldron, sun and moon, shape, lives | a frame: player, objects, drawing; pick up, drop, leave the room, die, dusk, dawn | keys | one object in three tables; a change of shape, a death and dusk in any order |
| Interrupts and wait state, `m3/trs80_interrupts.vhd` and `m3/platform.vhd` | latches, masks | RTC, NMI, DRQ wait | Z80, controller | wait state that ends by DRQ, INTRQ or timeout |
| SPI controller, `fdc_ctl.vhd`, `fdc_regs.vhd`, `fdc_spi.vhd`, and AVR firmware `dev/platform/trs80/osd` | registers, SPI mailbox | command forwarding | AVR | two processors, one mailbox |
| C64 disk interface, `platform/c64/c1541_*` | GCR FIFO, track | fill, track change | firmware, 1541 logic | as FIFO and firmware above |
| SD card, `component/diskio/sd` | command and data FSMs | block read and write | host, card | timeouts, CRC |
| PS/2 host, `component/ps2` | shift registers | receive, send | keyboard | bus turnaround, timeouts |
| RTC, `component/rtc/upd4990a.vhd` | shift register, counters | shift, load, count | host | register boundaries |
| Maple bus, LPC emulator, PACE core, arcade platforms, CPU and sound cores, tools, disassemblies | - | - | - | no protocol of the project's own, or third-party code |

What makes each modelled component correct:

* *Controller, towards the host*: each command has one life (accepted, started, worked on,
  acknowledged, interrupt); never two processors at once; no completion lost, none early; every
  command ends.
* *Controller, towards the disk*: the right sector, all of it, in order, once; nothing overwritten
  but its data field; the gate open only for a write command; no request over an open request.
* *Controller and drive*: counter and head agree; verification finds out when they do not.
* *Firmware*: every step is noticed; at most one byte of the old track follows it; the new track
  comes through.
* *Lode Runner*: the gold counter is the gold there is, wherever it is; every brick that is gone
  comes back; the marks on the dynamic map are those of who is there; the exit opens when the gold
  is gone, and whole.
* *Knight Lore*: an object is in one place; the player has the shape of the hour; the keys come back
  after an object has gone into the cauldron.

## 2. Modules

```
CommandLife (abstract) ──┐
IdamReader ──────────────┴── WD179x ──┬── MCWD179x
                                      ├── WD179x_proofs (also below FdcSystem_proofs)
                                      ├── SramFloppy ──┬── MCSramFloppy
                                      │                └── SramFloppy_proofs (over WD179x_proofs)
FloppyIf ─────────────────────────────┴── FdcSystem ──┬── MCFdcSystem
                                                      └── FdcSystem_proofs
FloppyIf ── FloppyFeed ── FloppyFeed_proofs

LodeBoard ── GuardAI ── LodeRunner ──┬── MCLodeRunner
GoldLedger (abstract) ──────┘        └── LodeRunner_proofs ──┬── LodeGold_proofs
                                                             └── LodeMarks_proofs

ObjectLife (abstract) ── KnightLore ──┬── MCKnightLore
                                      └── KnightLore_proofs
```

### Floppy disk path

**A step is a clock.** A clocked VHDL process computes the next value of its signals from the
values all signals had before the edge. `WD179x.tla` has one operator per process, which gives the
next values of the signals that process drives (`ProcIrq`, `InterruptLogic`, `ProcDrq`, `ProcIp`,
`ProcCmd`, `TypeI`, `TypeII`, `TypeIII`, `StepPulse`, `ReadLogic`, `WriteLogic`, `StatusLatch`), and
`Controller` is their conjunction. A process that is a state machine is a disjunction with one
disjunct per state, named after it (`T1Seek`, `T2WaitDam`, `T3WriteByte`, ...). Names of states,
signals and variables are those of the source; the three variables called `state` are `t1`, `t2`,
`t3`, and active low pins are positive (`ip` for `not ip_n`). This is what makes the one clock races
visible: a signal set in one process is seen by another one clock later, here as there.

* **IdamReader** is `PROC_I_DAM`: gaps, marks, ID, data, CRC. `rdy` is the set of ready strobes
  raised on the last clock. A gap count stops at its minimum, since nothing looks beyond it. A CRC
  is right or wrong: `GOOD_CRC` stands for the second CRC byte that makes it right. `READ_ADDR`
  asks for a byte in the strobe `addr_data`.
* **WD179x** is the rest of the entity, with the host's bus cycles (`Host`) and a drive with free
  pins (`Drive`) as its environment. The serial side is byte-wise. In the clocks of a byte
  (`slot`), slot 0 is the byte boundary of the shift registers, on slot 1 a byte read is handed
  over and a byte written is strobed out, and slot `TICK` is the 1 MHz tick that resets the
  written flag and moves the head.
  `Reset` says what the reset branches reach, and leaves what they do not.
* **CommandLife** is the abstract specification of a command: idle, issued, working, finished,
  with the interrupt exactly one clock after it is due. `ImplementsLife` in WD179x gives the
  refinement mapping (`stage`, `late`, `armed`, `due`).
* **FloppyIf** is the drives: heads, selection, step edges. **FdcSystem** joins it to the
  controller: `TrackImage(t)` is the track with number `t`, and an ID whose bytes come from two
  tracks (`mixed`) has a bad CRC.
* **SramFloppy** joins the controller to a memory; places in `Damaged` may read as the floating bus.
  `buffer` is the host's buffer, as the test bench keeps it.
* **FloppyFeed** is the firmware with the FIFO. Here a step is what the program does between two
  accesses another party can see, not a clock: the CPU is free running against the disk. A byte is
  the track it was made for and its place in the sector.

The host (the Z80 and its ROM, modelled from how the platform and the test bench drive the chip)
makes bus cycles of `ACCESS_CLKS` clocks. It writes a command or a register only when it waits
for no command, except FORCE INTERRUPT, which it may write at any time. `hostWaits` is what it
believes: set when it writes a command, cleared when a status read shows not busy. Named
assumptions, each a constant:

* `PROMPT`: it serves a request within the byte and does nothing else first (the DRQ wait state
  of the Model 3 does this). All data properties need it; the chip promises nothing without.
* `AHEAD`: WRITE TRACK is issued only if the index pulse does not start with the next tick, that is
  at least a byte before it. Without it a byte is
  lost at the index (hazard at `wd179x.vhd:303`).
* `POLLING`: it may read the status at any time, not only after INTRQ.
* `RESETS`: the platform may be reset, and with `MID_COMMAND` also while a command runs, which the
  command state machine does not notice.

Kept as they are in the source: `re_n_r` is never updated (`wd179x.vhd:208`), so a read clears INTRQ
or DRQ on every clock it is held; `if user_crc_rdy <= '1'` (line 619) is a comparison and always true.
The status byte is represented by busy and the latched bits. The step rates (6 us where the comment
says 6 ms) are the constant `StepClks`.

### Lode Runner

A step is a turn. `phase` says whose it is: the player (`handle_player`), the world (exit ladder,
end of the level, respawns, holes), then one step per brick that comes back (`BrickReturns`), then one
per guard whose turn it is in this tick (`updates` counts them, from `guard_params` at `byte_64`).

* **LodeBoard** has the maps and how things move on them. A position is a cell (`at`) and an offset
  within it (`x`, `y`); the four directions, each a function in C, are one operator with a direction.
* **GuardAI** is `guard_ai` with its scanning loops, each given by what it finds: the farthest
  column with a floor all the way, the farthest row up or down with a way off, the best of the
  distances. Its odd places are kept (the rope looked for a row too low, `BugRow`; the map read to the
  left is `ldu1` and to the right `ldu2`).
* **LodeRunner** is the game loop. A step of the player or of a guard is the step within the cell or
  the step into the next one, with gold taken, picked up, carried, dropped or lost, and the marks on
  `ldu1` set and cleared. Bytes are bytes: `no_gold` goes below zero to 255.
* **GoldLedger** is the abstract specification of a level's gold: a piece is taken, picked up, put
  down or lost, one at a time, and the exit opens when there is none. `ImplementsLedger` maps the
  static map, the guards' states and `no_gold` to it.

`met` is a history variable: the player has walked into a guard. The port has only a comment where
the assembler tests the collision (`loderun_6809.asm:1945`), and everything that relies on the marks
is wrong from then on; those properties are stated up to it.

### Knight Lore

A step is the update of one sprite, the player's or that of a special object, and the end of a frame
with the drawing. Where things are within a room is left open, so a test on it (near enough to pick up,
overlapped, landed, dead) may come out either way, on every frame; so are the times of day.

* **KnightLore** has the special objects (`tbl`, `here`, `carried`), the cauldron, sun and moon, the
  player's shape and lives. A new room is written back and found in one step (`BuildScreen`), as
  the code does it. `here` goes on behind its two places, where `find_special_objs_here` writes
  a third one.
* **ObjectLife** is the abstract specification of the objects: each lies in a room, is carried, or
  is gone; only in the player's room does anything happen to it. `ImplementsObjectLife` maps the
  three tables to it.

Entry 0 is one of them, though the bubbles have its index (finding 4 below): it may be lost under them,
which `ObjectLife` says with `Fragile`, the objects that may be gone when the next room is built; it is
never in two places either.

## 3. What is checked

| Run | Question | Properties |
|---|---|---|
| Handshake | does each command have one clean life, whatever the host polls and forces; does F7 write two bytes, write protected or not? | `TypeOK`, `NoLostCompletion`, `NoEarlyIrq`, `CommandOwned`, `ImplementsLife`, `CrcPair` |
| Terminate | does every type II and III command end on a formatted track, with the gate open only to write and no byte lost, also after resets between commands? | `GateDiscipline`, `NoByteLost`, `CommandsTerminate` |
| SramFloppy | the right sector, all of it, and nothing else, with an ID that cannot be read on some turns | `ReadsTheSector`, `WritesTheSector`, `NoByteLost`, `WritesOnlyTheField` |
| Seek | two drives, one track register: do verified commands end, and does verification find out? | `VerifiedSeek`, `CommandsTerminate` |
| SystemReset | a reset at any clock: two processors at work, steps too close, counter and head apart? | `OneProcessor`, `StepsSeparate`, `HeadFollows` |
| Feed | does the firmware follow the head? | `StepsNoticed`, `OneStaleByte`, `InOrder`, `TrackServed` |
| LodeRunner | is the gold counted, is every hole closed, do the marks and the exit ladder hold, in every order of turns? | `TypeOK`, `GoldConserved`, `HolesAccounted`, `MarksTrue`, `LadderUnbroken`, `ImplementsLedger` |
| KnightLore | is every object in one place, does the shape follow the sun, do the keys come back? | `TypeOK`, `OnePlace`, `ShapeFollowsSun`, `KeysComeBack`, `ImplementsObjectLife` |
| ShortRead | does READ SECTOR deliver its sector if it reports no error? | `SectorDelivered`, violated |
| BadData | is a bad data CRC reported? | `DataCrcReported`, violated |
| FeedRace | does the firmware notice every step, however fast they come? | `StepsNoticed`, violated |
| BubblesZap | is only an object written into the table of objects? | `EntriesAreObjects`, violated |

Every property also has a mutant: a changed definition of the model, next to the one it changes
(`ProcIrq_ClearFirst`, `Vacated_Refilled`, ...), under which TLC finds it violated.

### Bounds

The constants are scaled down; what the code compares for equality or order is kept.

*Floppy disk path*

* A byte lasts 5 to 9 clocks instead of 640, with the tick at 3 or 4 instead of 20. What the processes
  distinguish is the order boundary, strobe, tick, and that several clocks lie between a tick and the
  next boundary; a bus cycle of 2 or 3 clocks fits into a byte at every offset. `Handshake` has
  9 clocks, `Terminate` and `SramFloppy` 7 (bus cycles of 3, 2 and 2): the tick and two bus cycles, which
  is what `NoByteIsLost` asks for (`ServingHost`); 640 clocks are ample for that.
* Gaps of one byte, runs of two A1 (the first is not counted by the state it starts), sectors of two
  data bytes: first, last and last but one byte are the cases of the code.
* `RNF_LIMIT` 1 or 2 of `IP_MOD` 2 to 4, instead of 5 of 16: zero, below, at the limit and wrap-around.
* Tracks of 20 to 41 bytes with one or two sectors. Two are needed where the wrong one could be
  taken. `MC_Blank` is an unformatted track of three bytes, for runs that need only time to pass. The ID of
  `MC_Image` (Terminate) says track 1, sector 0: READ ADDRESS moves the 1 into the sector register, so that
  READ SECTOR finds its sector before one and none after it, without the host writing a register.
* Two or three cylinders, one or two drives. Two drives are needed for a head that is not where
  the register says; three cylinders for a head in the middle.
* Commands and data bytes are those the run is about; `Handshake` takes a command of each type
  and FORCE INTERRUPT without a condition and with "index pulse" armed.
* FIFO of 4 and sectors of 3 bytes: the FIFO holds more than a sector, so that sectors of two tracks
  could meet in it. The Feed run has the steps apart (`SLOW`).

*Lode Runner*

* Two boards of 4 by 3 cells instead of 16 by 28: one with a ladder, ropes, a false brick, an exit
  ladder, gold and two guards, one to dig in. Cells have 3 by 3 offsets instead of 5 by 5: centre, one
  side, the other.
* `MAX_HOLES` 5, `DIG_FRAMES` 3, `HOLE_TICKS` 20 instead of 30, 12 and 180. `HolesAccounted` holds
  because a full list is never met: digging takes `DIG_FRAMES + 1` ticks, and that many for each entry is
  at least as long as a hole stays open. This is `HolesAssumption`, of the code 180 <= 30 * 13 (14 entries
  would do) and here 20 <= 5 * 4, the least it allows. With fewer entries, and more bricks than entries,
  the property fails, as it should.
* A guard's counts keep their order and thresholds (6, 5, 3 instead of 38, 13, 7), so that he is
  trapped, wriggles, climbs out, or is buried while he climbs.
* Every level has a SPACE below its first row (`level_data.c`), the last level cannot be finished:
  what the code reads beyond its table is not in the code.
* One life, so that the end of the game is reached too.

*Knight Lore*

* Three objects, of which one is an extra life, and two rooms: that of the cauldron and that to which the
  bubbles belong. The empty rooms on the way between them are left out; two exits lead straight to
  each other, which a walk through empty rooms comes to.
* The cauldron wants one object instead of 14; one life.
* The days are not counted: any dawn may be the last, in place of the fortieth day.
* `HalfDayIsLonger`: half a day is about 392 frames, a change of shape a few, so the one that dusk
  brings is over before dawn. The key must be released between two uses (`pressed`).

### Fairness

`FairSpec` is weak fairness of the clock: an edge always comes. The host is not assumed to do
anything, the disk turns with the clock. `SystemFair` is the same with the drives. `FeedFair` has
weak fairness of the main loop, of the interrupt routine, of the disk's read requests (the disk
turns) and of the end of a step pulse; no step is ever assumed to come. Interrupts are raised only
by steps, so they cannot starve the main loop.

The games have no liveness to promise: a guard may stand still for ever, a player need not play, and an
object thrown into the cauldron lands when the geometry, which is left open here, says so.
`KeysComeBack` is therefore stated as an invariant: keys are dead only while something falls.

### Disagreements found

Each is a run with expected violation and an entry in `PROJECT.json`.

1. **ShortRead**: `ip_cnt` is cleared by `type_ii_ip_clr` one clock after WAIT_IDAM first looks at
   it. READ SECTOR after some idle turns ends at once, with no data and no error bit.
2. **BadData**: WAIT_CRC does not wait (line 619); a bad data CRC is not reported.
3. **FeedRace**: the main loop of `floppy_app` clears the flag after a `printf`; a step in between
   is forgotten. With the steps apart (Feed) all properties hold.
4. **BubblesZap**: the bubbles of the cauldron have the table index of object 0 (`kl_dat.c:850`), and
   are written over it when the player leaves the room or dies in it while they bubble. The comment at
   `kl.c:2349` wants -1 for what is no object.

`ReadsTheSector` allows the empty result of ShortRead (no byte) and is silent on the CRC, so it
holds besides 1 and 2.

Seen on the way in the controller: a FORCE INTERRUPT (D0) that meets the end of a command leaves INTRQ
up, since the delayed clear (line 236) comes before the acknowledge (`late` in CommandLife); a FORCE
INTERRUPT during WRITE SECTOR leaves the gate open, and its own bit 6 selects the byte of WRITE TRACK
(line 1207); `type_iii_wg` survives a reset (line 673); RESTORE without verification reports a seek
error after idle turns (line 516); READ ADDRESS never ends on a track without IDs (line 713); a command
strobe that meets a reset is executed after it; the status bits are latched one clock after busy is
gone (line 1163).

In Lode Runner: no collision with a guard (`lr.c:742`); `guard_move_right` tests the tile on the left
for a false brick (`lr.c:1544`, as in the assembler); tables read or written past their end (`lr.c:503`,
`368`, `1836`, `1090`).

In Knight Lore: the search for a place to drop into does not advance (`kl.c:2480`; `knightlore.asm:5265`
does), so only the first place is tried; if entry 0 is falling into the cauldron when the player dies,
the bubbles overwrite it and the keys stay dead (`KeysComeBack` names the case); a player who is dying
when the last object lands sees no ending (`kl.c:2644`); `START_MENU` clears variables by their order
in memory, which C does not promise (`kl.c:698`, the constant `Clearings`).

## 4. What is proved

TLAPS proofs hold for every value of the constants: all timings, tracks, command sets and host
alphabets (`WD179x_proofs.tla`), the same for the drives and their tracks (`FdcSystem_proofs.tla`) and for the
contents of a formatted memory floppy (`SramFloppy_proofs.tla`), all
sizes of FIFO and sector (`FloppyFeed_proofs.tla`), all boards, numbers of guards and times of Lode
Runner (`LodeRunner_proofs.tla`, `LodeGold_proofs.tla`, `LodeMarks_proofs.tla`), all maps, numbers of objects and random starts of Knight Lore
(`KnightLore_proofs.tla`). "Assumptions" below are the named ASSUMEs on
constants, which TLC evaluates in every run; what else a theorem needs is a hypothesis in its statement.

| Theorem | Says | Needs |
|---|---|---|
| `OnlyOneProcessor` | `[]OneProcessor` | nothing; resets at any clock |
| `CommandsAreOwned` | `[]CommandOwned` | no resets |
| `CompletionsAreNotLost` | `[]NoLostCompletion` | no resets |
| `InterruptsAreNotEarly` | `[]NoEarlyIrq` | no resets, bus cycles of three clocks or more |
| `ControllerImplementsLife` | `Spec => ImplementsLife` | no resets |
| `SignalsInRange` | `[]TypeOK` | the assumptions on the constants; resets at any clock |
| `GateIsKept` | `[]GateDiscipline` | no FORCE INTERRUPT; resets between commands |
| `NoByteIsLost` | `[]NoByteLost` | `ServingHost`: a prompt host, two bus cycles between the tick and the end of a byte; resets between commands, or FORCE INTERRUPT and bus cycles of three clocks |
| `CrcsArePairs` | `Spec => CrcPair` | the same |
| `PulsesAreSeparate` | `[]StepsSeparate` | `LongSteps`: no step rate is shorter than the pulse; no FORCE INTERRUPT and resets at any clock, or no resets and bus cycles longer than the pulse |
| `TheHeadFollows` | `[]HeadFollows` | `SeeksOnly`, `OneDrive`: RESTORE and SEEK within the tracks of one drive |
| `VerifiedSeeksAreRight` | `[]VerifiedSeek` | `FormatAssumption`: an ID with a good CRC names its track; `GentleResets`: no resets, or resets between commands and no FORCE INTERRUPT |
| `SectorsAreRead` | `SramSpec => []ReadsTheSector` | `FormatAssumption`: every ID with a good CRC leads to the field of the sector it names; `SectorHost`: `ServingHost`, no FORCE INTERRUPT, no WRITE TRACK, and no byte written that passes for A1 or a good CRC; resets between commands |
| `SectorsAreWritten` | `SramSpec => []WritesTheSector` | the same |
| `FieldsAreKept` | `SramSpec => WritesOnlyTheField` | the same |
| `SectorBytesAreNotLost` | `SramSpec => []NoByteLost` | the same |
| `BytesInOrder` | `[]InOrder` | nothing; steps at any time |
| `StepsAreNoticed` | `[]StepsNoticed` | `SLOW`: the steps are apart |
| `AtMostOneStaleByte` | `[]OneStaleByte` | `SLOW` |
| `LodeRunnerTypes` | `[]TypeOK` | `TimesAssumption`, `LevelAssumption` |
| `GoldIsConserved` | `[]GoldConserved` | the same: fewer than 255 pieces in a level |
| `LadderIsUnbroken` | `[]LadderUnbroken` | the same |
| `LedgerIsKept` | `Spec => ImplementsLedger` | the same |
| `MarksAreTrue` | `[]MarksTrue` | the same |
| `HolesAreAccounted` | `[]HolesAccounted` | `HolesAssumption` besides |
| `ShapesFollowTheSun` | `[]ShapeFollowsSun` | nothing |
| `ObjectsAreInOnePlace` | `[]OnePlace` | `FALSE \notin Clearings`: a new game clears the variables |
| `KeysDoComeBack` | `[]KeysComeBack` | the same |
| `KnightLoreTypes` | `[]TypeOK` | the same |
| `ObjectsLive` | `Spec => ImplementsObjectLife` | the same |

`SLOW` is what the run Feed has too; without it StepsNoticed fails (finding 3). `FALSE \notin Clearings`
says that `START_MENU` clears what the assembler's order of variables clears; C does not promise it, but
a compiler that keeps the order of the declarations does it.

**Controller.** What the handshake needs of a processor is only when it leaves IDLE, when it returns
and when it acknowledges. `Stage(state, ack, stb)` says that in two lines, and the lemmas
`TypeIStage`, `TypeIIStage` and `TypeIIIStage` prove it of each, case by case over its states. From
there on the proofs do not look into a processor.

`OneProcessor` is not inductive. Its strengthening `ProcInv` has three parts: the state machine's
range (`CmdTypeOK`); what a strobe finds (`StrobeInv`: a start strobe is only there when the
machine is busy and all processors are quiet; "IV" and the idle machine go together); and
`SoleInv`, that one at work excludes every other one at work or acknowledging. A reset sends all
processors to IDLE and keeps the strobes and the machine as they are, which `ProcInv` survives.

`CommandOwned` fails after a reset in mid command (the machine stays busy with nobody at work,
because its reset branch is empty), so it is proved for `~RESETS`, by `OwnerInv` over `ProcInv`.

`NoLostCompletion` needs to know what bus cycle is under way when INTRQ is cleared. `BusInv` ties the
strobes to the bus cycle they belong to: a write strobe is one clock old, a start strobe two, and no
status read is in progress then. `WaitInv` says that the host knows when it waits: a command it waits
for meets an idle machine, and a machine it does not wait for is idle. `ToldInv` is the property
with the pending clear in it: an INTRQ that reports an end nobody has seen is up and is not being
cleared. `HostStep` reduces the host's actions to the four things that matter (commanding, accessing,
holding, resting).

`NoEarlyIrq` adds `EarlyInv`: a command finds the request clear and clears INTRQ, and while it runs
neither comes back. The acknowledge of a command that FORCE INTERRUPT met in DONE reaches `irq_set`
three clocks after the write, hence the condition on the length of a bus cycle: with two clocks the
next command could be written in time to be interrupted by it. (The Z80's cycles are longer by far.)

`ControllerImplementsLife` is a step simulation. `LifeClock` shows that a clock is one of Accept,
Begin, Finish, Complete, Wait and Force of CommandLife, together with its Interrupt: by `StrobeInv` a
start strobe finds the processors quiet, by `OwnerInv` a busy machine without a strobe has one at work
or acknowledging, by `Stage` the one started leaves IDLE on the next clock.

`TypeOK` is inductive as it stands; its conjuncts follow the processes, and so do the lemmas. It
needs the assumptions on constants `TimingAssumption`, `SizeAssumption`, `InputAssumption` and
`ReaderAssumption`.

`GateIsKept` assumes that no interrupt is forced (`NoForce`; with one it fails, hazard at
`wd179x.vhd:581`). `KeptInv` says of such a host that its command stays in the register until the machine
and all processors rest, also across a reset between commands; `GateInv` says which command has the gate,
and that the track processor waits for the index only for a command that bit 6 tells from READ TRACK.

`NoByteIsLost` says that a request meets neither an open one nor the read, still held, that serves the
one before and would clear it too. It is an argument about time. `Owed` is the number of clocks in which
the host has served the request that is up, or on its way, and the bus cycle in which it does so is over;
every clock takes one off (`OwedStep`). `Turn(s)` counts the clocks to the end of the next slot `s`, and
`EdgeIn` those until WRITE TRACK takes its first byte. `SlotInv` ties the strobes to the slot: a byte read
is seen on slot 2, the reader's strobes on slot 3, the written flag from slot 1 to the tick. `ServeIIInv`
and `ServeIIIInv` then say for each state of the processors that what is owed is over before the state can
ask again; `StartInv`, that nothing is owed when a command starts. The narrowest place is WRITE TRACK: it
may ask two clocks after the tick, and takes the byte on slot 2 of the next one. Two bus cycles have to fit
between, 620 clocks for two cycles of the Z80. A forced interrupt reaches the processors a clock after it
has reached the state machine, and a request made on that clock must not meet the next command; hence the
three clocks again. `CrcPair` follows with `PairInv`: nothing is owed between the two bytes, so the F7 is
still in the data register. The constants of the run Terminate satisfy `ServingHost` with resets, those of
Handshake with forced interrupts.

**Drives.** `PulseLeft` counts the clocks until the step output is back. `WorkGap` compares it with the
counter of STEP_WAIT: a pulse is over before the processor that made it can make another. What is left is
a processor that does not come to its STEP_WAIT. After a reset in mid command the
state machine waits for an acknowledge that never comes, so that no command can start (`Stuck`, in
`UnforcedGap`). After a forced interrupt the next command is at least a bus cycle away: `ForcedGap` says
`PulseLeft <= left + 3`. A reset that meets a step and a host that forces interrupts would together free the
machine at once, which the theorem excludes.

`TheHeadFollows` is a simulation of the two step counters: `HeadInv` says that the counter in the
controller is the drive's, except for the one step the drive has not seen yet (`Pending`), and that the
track register is the head's track while nothing counts. `SeekInv` is needed for the end of the disk: a
seek inward stops at its target, which is a track, so the drive never ignores a step that is counted.
RESTORE relies on the track 0 switch instead. Only a reset in mid command tears the two apart (`torn`).
The constants of the run SystemReset satisfy the hypotheses of both theorems.

`VerifiedSeeksAreRight` allows any number of drives, registers loaded at will and a seek that has lost
its way: it is the verification that is right. An ID the reader announces was read byte by byte while the
head went over it: `IdBehind(k)` says that there is a place FE on the track under the head, that its mark
went by k bytes ago, and that the head has not moved since (`~mixed`, what the CRC sees of it). `VerifyInv`
gives the k for each state of the reader, so that the byte with the good CRC is six places after the FE and
`FormatAssumption` applies. This holds only while the head is at rest and the drive stays selected:
`SettledInv` says that a step is made while its processor still counts, or has been stopped and has nothing
to announce; `BusyHost`, that the host owns the bus, so that neither the drive nor the command changes
under a running command but by FORCE INTERRUPT. The ID that only synchronises (`VERIFY_WAIT_IDAM`) matters:
it may have been under way while the head moved, and the first one compared starts after it. `FoundInv`
carries what was found through the acknowledge to the clock on which the status is latched; `KindInv` keeps
the acknowledges of other commands out of it.

**Sectors.** The three theorems about sectors follow the head over the memory byte by byte
(`SramFloppy_proofs`). `MediaInv` says what the memory is while it is being written: the formatted image
outside the data fields, and inside them no byte that is a mark's A1 or a good CRC, so that neither the
reader nor the controller can ever be caught by data. `RawInv` is the byte under the head. `IdInv` gives,
for each state of the reader, how many places ago an ID began, and where it is complete `FormatAssumption`
leads on (`Leads`): `GapInv` counts from its CRC through 4E, 00 and A1 to the mark of exactly the sector
the command compared. The model's mark is always found there because the run of A1 is whole; with damage to
it the controller would go on to another sector's mark (hazard at `wd179x.vhd:599`), so the assumption
keeps damage out of the way from an ID to its data, and leaves the CRC behind the data open to it.
`ReadInv` then relates three counts while a sector is read: the place of the head in the field,
`byte_count`, and how many bytes the host has, including the one that is requested or on the bus (`Out`).
`WriteInv` does the same for a write, where two moments of a byte matter: on slot 1 the register is handed
over, on slot 2 the memory takes it (`Written`, `Want`). That the host's byte is the one the register
holds when it is handed over is `Owed <= Turn` from the argument for `NoByteIsLost`. `FreshInv` closes the
circle: a command is given only to a machine at rest, with nothing in the host's buffer. That data hold no A1 and no byte that
stands for a good CRC is a limit of the theorems: the controller knows its marks by value alone, without
the missing clock bits of a real one, and which bytes are a good CRC depends on those before them. The
constants of the run SramFloppy satisfy all of it.

**Firmware.** `OrderInv` says what the byte to be made next, or the one on its way to the port, owes to
the last one in the FIFO; that `PushByte` finds the room `PollFifo` saw matters, since a byte the FIFO
refused would leave a hole in the sector. A drive can only take from the front or empty the FIFO
(`Drains`), which keeps any such order. `FollowInv` is the chain from a step to the program: a head on
another track has an edge, a pending clear or the flag on its way, and until the program restarts only
the byte it was making is of the old track.

**Lode Runner.** A step of this game has many cases that differ only in what the player or guard looks
at, so the proofs go in two stages. The first (`LodeRunner_proofs`) reduces every action to one of five
shapes: `PlayerTurn` (stays in his cell, perhaps taking gold or digging; or goes to the next), `GuardTurn`
(stays or goes, with gold kept, taken up, put down or lost), `World`, `BrickBack` and `Fresh`, a level
begun. `GameInv` is proved with them: the types; when each phase is reached; `DeadInv`, that a guard who
waits to come back does not count down to where he would wriggle out of his hole (one signed byte counts
both; hence `WRIGGLE + 2 <= DEAD`); and `BoardInv`, that the two maps agree but for marks and dug bricks,
that open holes are bricks of the static map, and that a cell still to become exit ladder is empty or has
gold on it. The search for a cell to come back in (`FirstFree`) needs that a finite set of cells
ordered by rank has a least one (`Ranked`).

The second stage does not look at actions again. `LodeGold_proofs`: every shape does one of six things to
the gold (`GoldMoves`), and each of them keeps `GoldInv`, the equation with the byte's range (`no_gold`
reaches 255 only through `ExitOpens`, and is not counted down from there because nobody has any gold
left). `LadderUnbroken` follows, and so does the refinement of GoldLedger, move by move.

`LodeMarks_proofs`: `MarkInv` is `MarksTrue` with one thing more, that a guard who waits is not in a hole:
a brick that closes there would find him in place of a living one. `HolesAccounted` is about a full list
that is ignored (`lr.c:1192`), so it is an argument about time. `TimeInv` says that the counts of two holes
are at least `DIG_FRAMES + 1` apart, and those of all at least as far from `HOLE_TICKS` as the player has
got with the next one. `HoleIsFree` is then the pigeonhole principle: if all entries were taken when a
brick gives way, each entry with each of the frames of a dig would be an injection of
`MAX_HOLES * (DIG_FRAMES + 1)` into `HOLE_TICKS - 1` numbers. With it `HoleInv` (a brick is dug exactly if
it is in the list, and once) is inductive.

**Knight Lore.** `ShapeInv` strengthens the shape property to an equivalence (a change is due exactly
while shape and sky differ) and adds that he changes only when one is due. `Unshaped` covers the steps
that touch neither. A change that ends flips the shape while it is wrong; dusk and dawn find it right;
death takes it from the sky.

`PlaceInv` is `OnePlace` with what is needed to carry it through a step. `Records` is the shape of the
three tables. `Apart` says that no entry but 0 is twice among what is carried and shown, and that what is
carried is not in the table. `Clean` is the part that matters when a room is built: an emptied place
(`INVALID`) is drawn away before the player's next turn, so that `update_special_objs` never writes the
object he has just picked up back to the table. `FadesStep` disposes of the many steps in which objects
only disappear; `FoundOnce` shows that a search of the table finds each entry once, by the number of
entries before it; `BuildStep` puts the two halves of a new room together; `PickUpStep` and `DropStep` are
the player's hands, `UpdateStep` and `DrawnPlaces` the rest of a frame.

`KeysInv`: at most one object falls, the table knows none that falls elsewhere, and if the keys are dead
with nothing falling then the bubbles have entry 0 and nothing in the room can give it back. `CountInv`
bounds the lives: each is taken from an entry that holds one, so lives and entries together never grow.

`ObjectsLive` maps each step to ObjectLife. `PlaceFacts` reads off `PlaceInv` where an entry is,
`HandsSwap` is a pick-up, a drop or both at once, and building a room changes nothing but what the bubbles
may overwrite: all `Crumbles` has to allow is entry 0.

Every invariant and every action property of the passing runs is a theorem.

**Only model-checked**: liveness (`CommandsTerminate`, `TrackServed`), since liveness under fairness is
outside what the proofs reach; and the four runs that are expected to fail.

## 5. Not modelled, and why

* Bit cells, clock recovery and the shift registers (`PROC_RAW_READ`, the inside of `PROC_WR`): no
  state that survives a byte, apart from alignment, which an emulated disk never loses.
* CRC arithmetic. The firmware presets its CRC at bytes 34 and 77 (`main.cpp:138`), the controller
  elsewhere; whether they agree depends on the byte each starts with.
* Two changes in one clock of pins that the platforms tie together (side select, motor, density).
* Damage to gaps and data marks in `SramFloppy` with the properties above: WAIT_DAM does not see
  another ID go by and takes the next sector's data (hazard at `wd179x.vhd:599`).
* FORCE INTERRUPT during a write with `GateDiscipline`, and with `HeadFollows`: both fail (hazards at
  `wd179x.vhd:581` and `469`).
* `ready` is constant in the runs (the platforms tie it), and a drive's enable switch does not move
  in mid command.
* Lode Runner's attract mode, score, high scores, sound and drawing: they only follow the game.
* Knight Lore's geometry, the other sprites of a room, drawing, sound and menu: they decide when
  something happens, which is left open, and not what.
* The components marked so in the inventory. Imported cores, generated tables, disassemblies and board
  files, which are most of the repository by size, have no protocol of the project's own.

## 6. Plan

Done: IdamReader, WD179x, CommandLife, FloppyIf, FdcSystem, SramFloppy, FloppyFeed; LodeBoard, GuardAI,
GoldLedger, LodeRunner; ObjectLife, KnightLore; and the proofs of section 4.

Modules that are left, in this order:

1. *Model 3 interrupts and wait state* (`trs80_interrupts.vhd`, `platform.vhd`): latches, masks, the
   DRQ wait that halts the Z80. Compose it with the controller as the host; `PROMPT` becomes a
   theorem of the composition, or a finding.
2. *C1541 interface and firmware* (`c1541_diskif.vhd`, `c1541_main.c`): like FloppyFeed; an abstract
   "the head hears its own track" which both implement.
3. *fdc_ctl/fdc_regs/fdc_spi* with the AVR's SPI slave: a mailbox refined to an abstract command
   queue of length one.
4. *PS/2 host*, *upd4990a*, *SD card* state machines.

Proofs that are left: those of the modules above, and `ReadsTheSector` for a drive behind `FdcSystem`'s
head, which can be on the wrong track.
