----------------------------- MODULE LodeRunner -----------------------------
(***************************************************************************)
(* The game loop of the Lode Runner port (lr.c).  A tick is the player's   *)
(* turn, then the exit ladders, the respawns and the holes, then the       *)
(* guards' turns, some ticks none and some one or two.  phase says which   *)
(* of them comes next.                                                     *)
(***************************************************************************)
EXTENDS GuardAI, Sequences

CONSTANTS
  MAX_GUARDS, MAX_HOLES,
  DIG_FRAMES,    \* 12: dig_sprite when the brick gives way
  HOLE_TICKS,    \* 180: how long a hole stays open
  TRAPPED,       \* 0x26: guard_trap_cnt_init
  WRIGGLE,       \* 13: below it a trapped guard wriggles,
  CLIMB,         \* 7: below it he climbs
  RESPAWN,       \* 20: ticks until a dead guard may come back
  DEAD,          \* 0x7f: his state until then
  NO_LIVES,
  Levels,        \* the boards, in order
  Controls       \* the pairs of keys read_controls can deliver

ASSUME TimesAssumption ==
  /\ {MAX_GUARDS, MAX_HOLES, NO_LIVES} \subseteq Nat \ {0}
  /\ {DIG_FRAMES, HOLE_TICKS, TRAPPED, WRIGGLE, CLIMB, RESPAWN, DEAD} \subseteq Nat \ {0}
  /\ CLIMB < WRIGGLE /\ WRIGGLE - CLIMB <= 6 /\ WRIGGLE + 2 <= DEAD
  /\ DEAD < 128 /\ TRAPPED < 128 /\ LastCol < 127
  /\ MAX_GUARDS <= 5 /\ NO_LIVES <= 255

(* To dig takes so long that the list of holes is never full.              *)
ASSUME HolesAssumption == HOLE_TICKS <= MAX_HOLES * (DIG_FRAMES + 1)

ASSUME LevelAssumption ==
  /\ Levels \in Seq([Cells -> Tiles]) /\ Len(Levels) > 0
  /\ \A l \in 1..Len(Levels) :
       /\ \E c \in Cells : Levels[l][c] = "PLAYER"
       /\ Cardinality({c \in Cells : Levels[l][c] = "GOLD"}) < 255

Holes == 0..(MAX_HOLES - 1)
NoHole == [at |-> <<0, 0>>, cnt |-> 0]

VARIABLES
  phase,               \* "player", "world", "bricks", "guards" or "dead"
  level, no_lives, level_active,
  no_gold,             \* a byte; 255 once the exit is open
  eos,                 \* the exit ladder's cells that are not drawn yet
  dig_dir, dig_sprite,
  hole,                \* hole_row, hole_col and hole_cnt
  expired,             \* the holes whose count has run out, to be closed in this tick
  no_guards,
  guard,               \* of each guard: at, x, y, state, cnt
  curr_guard,
  guard_respawn_col,
  byte_64, updates,    \* place in the cycle of three, guard turns left in this tick
  met                  \* history: the player has walked into a guard in this level

board == <<ldu1, ldu2, player>>
digVars == <<dig_dir, dig_sprite>>
guardVars == <<no_guards, guard, curr_guard>>
lifeVars == <<level, no_lives, level_active>>
turnVars == <<byte_64, updates>>
vars == <<board, phase, lifeVars, no_gold, eos, digVars, hole, expired, guardVars,
          guard_respawn_col, turnVars, met>>

Guards == 1..no_guards
Decremented(n) == IF n = 0 THEN 255 ELSE n - 1     \* --no_gold, a byte

-----------------------------------------------------------------------------
(* init_read_unpack_display_level and init_and_draw_level: the board is    *)
(* scanned from its last cell to its first.                                *)

Scanned(c) == (LastRow - c[1]) * (LastCol + 1) + (LastCol - c[2])
CellsOf(b, tile) == {c \in Cells : b[c] = tile}
Nth(S, n) == CHOOSE c \in S : Cardinality({d \in S : Scanned(d) < Scanned(c)}) = n - 1

GuardCount(b) ==
  LET n == Cardinality(CellsOf(b, "GUARD")) IN IF n > MAX_GUARDS THEN MAX_GUARDS ELSE n
GuardStart(b, n) == Nth(CellsOf(b, "GUARD"), n)
PlayerStart(b) == Nth(CellsOf(b, "PLAYER"), 1)

Static_ShowsExit(b) ==
  [c \in Cells |-> IF b[c] \in {"GUARD", "PLAYER"} THEN "SPACE" ELSE b[c]]
Static(b) ==
  [c \in Cells |-> IF b[c] \in {"EOS_LADDER", "GUARD", "PLAYER"} THEN "SPACE" ELSE b[c]]
Dynamic(b) ==
  [c \in Cells |->
     IF c = PlayerStart(b) THEN "PLAYER"
     ELSE IF \E n \in 1..GuardCount(b) : c = GuardStart(b, n) THEN "GUARD" ELSE Static(b)[c]]
StartGuards(b) ==
  [n \in 1..GuardCount(b) |->
     [at |-> GuardStart(b, n), x |-> MID, y |-> MID, state |-> 0, cnt |-> 0]]

Init ==
  /\ level = 1 /\ no_lives = NO_LIVES /\ level_active = TRUE
  /\ ldu1 = Dynamic(Levels[1]) /\ ldu2 = Static(Levels[1])
  /\ player = [at |-> PlayerStart(Levels[1]), x |-> MID, y |-> MID]
  /\ no_gold = Cardinality(CellsOf(Levels[1], "GOLD"))
  /\ eos = CellsOf(Levels[1], "EOS_LADDER")
  /\ dig_dir = "none" /\ dig_sprite = 0
  /\ hole = [n \in Holes |-> NoHole] /\ expired = {}
  /\ no_guards = GuardCount(Levels[1]) /\ guard = StartGuards(Levels[1]) /\ curr_guard = 0
  /\ guard_respawn_col = 0 /\ byte_64 = 0 /\ updates = 0 /\ met = FALSE
  /\ phase = "player"

(* A level is started over; byte_64 and guard_respawn_col are not reset.   *)
StartLevel(l) ==
  /\ level' = l /\ level_active' = TRUE
  /\ ldu1' = Dynamic(Levels[l]) /\ ldu2' = Static(Levels[l])
  /\ player' = [at |-> PlayerStart(Levels[l]), x |-> MID, y |-> MID]
  /\ no_gold' = Cardinality(CellsOf(Levels[l], "GOLD"))
  /\ eos' = CellsOf(Levels[l], "EOS_LADDER")
  /\ dig_dir' = "none" /\ dig_sprite' = 0
  /\ hole' = [n \in Holes |-> NoHole] /\ expired' = {}
  /\ no_guards' = GuardCount(Levels[l]) /\ guard' = StartGuards(Levels[l]) /\ curr_guard' = 0
  /\ updates' = 0 /\ byte_64' = byte_64 /\ met' = FALSE
  /\ phase' = "player"

-----------------------------------------------------------------------------
(* The player's turn: handle_player.                                       *)

(* check_for_gold, for a step through the positions in Ts.                 *)
TakesGold(Ts) == ldu2[player.at] = "GOLD" /\ \E t \in Ts : Centred(t)
GoldTaken(Ts) ==
  IF TakesGold(Ts)
  THEN no_gold' = Decremented(no_gold) /\ ldu2' = [ldu2 EXCEPT ![player.at] = "SPACE"]
  ELSE UNCHANGED <<no_gold, ldu2>>

(* The player goes one step; his mark goes with him.  A step out of a cell *)
(* does not pass its centre.                                               *)
PlayerSteps(d) ==
  LET t == Adjusted(player, d)
  IN IF Leaves(t, d)
     THEN /\ player' = Into(t, d)
          /\ ldu1' = [ldu1 EXCEPT ![player.at] = Vacated(player.at),
                                  ![Beside(player.at, d)] = "PLAYER"]
          /\ met' = (met \/ ldu1[Beside(player.at, d)] = "GUARD")
          /\ UNCHANGED <<no_gold, ldu2>>
     ELSE /\ GoldTaken({t, Within(t, d)})
          /\ player' = Within(t, d)
          /\ UNCHANGED <<ldu1, met>>

PlayerCanMove(d) ==
  IF d = "UP" /\ ldu2[player.at] # "LADDER"
  THEN player.y > MID /\ ldu2[Below(player.at)] = "LADDER"
  ELSE \/ BeforeCentre(player, d)
       \/ /\ ~AtEdge(player.at, d)
          /\ ldu1[Beside(player.at, d)] \notin
               (IF d = "DOWN" THEN Wall ELSE Wall \cup {"FALLTHRU"})

(* What the keys come to.  A key for digging hides the keys for walking.   *)
Intent(keys) ==
  IF keys[1] = "I" /\ PlayerCanMove("UP") THEN "UP"
  ELSE IF keys[1] = "K" /\ PlayerCanMove("DOWN") THEN "DOWN"
  ELSE IF keys[1] \in {"U", "O"} THEN "DIG"
  ELSE IF keys[2] = "J" /\ PlayerCanMove("LEFT") THEN "LEFT"
  ELSE IF keys[2] = "L" /\ PlayerCanMove("RIGHT") THEN "RIGHT" ELSE "none"

(* add_hole_entry: without a free entry nobody will close the hole.        *)
HoleAdded(c) ==
  LET free == {n \in Holes : hole[n].cnt = 0}
  IN hole' = IF free = {} THEN hole
             ELSE [hole EXCEPT ![Lowest(free)] = [at |-> c, cnt |-> HOLE_TICKS]]

(* digging_left and digging_right, at frame n.                             *)
Dig(d, n) ==
  LET side == Beside(player.at, d)
      centred == Adjusted(Adjusted(player, "UP"), d)
  IN IF \/ player.at[1] = LastRow \/ AtEdge(player.at, d)
        \/ ldu1[Below(side)] # "BRICK" \/ ldu1[side] # "SPACE"
     THEN /\ dig_dir' = "none" /\ dig_sprite' = 0
          /\ UNCHANGED <<board, no_gold, hole, met>>
     ELSE /\ player' = centred
          /\ met' = met
          /\ GoldTaken({Adjusted(player, "UP"), centred})
          /\ IF n = DIG_FRAMES
             THEN /\ dig_dir' = "none" /\ dig_sprite' = 0
                  /\ ldu1' = [ldu1 EXCEPT ![Below(side)] = "SPACE"]
                  /\ HoleAdded(Below(side))
             ELSE /\ dig_dir' = d /\ dig_sprite' = n + 1
                  /\ UNCHANGED <<ldu1, hole>>

PlayerDone ==
  /\ phase' = "world"
  /\ UNCHANGED <<lifeVars, eos, expired, guardVars, guard_respawn_col, turnVars>>

PlayerDigsOn ==
  /\ phase = "player" /\ dig_dir # "none"
  /\ Dig(dig_dir, dig_sprite)
  /\ PlayerDone

PlayerFalls ==
  /\ phase = "player" /\ dig_dir = "none" /\ Unsupported(player, {"SPACE"})
  /\ PlayerSteps("DOWN")
  /\ UNCHANGED <<digVars, hole>>
  /\ PlayerDone

PlayerMoves(keys) ==
  /\ phase = "player" /\ dig_dir = "none" /\ ~Unsupported(player, {"SPACE"})
  /\ Intent(keys) \in Directions
  /\ PlayerSteps(Intent(keys))
  /\ UNCHANGED <<digVars, hole>>
  /\ PlayerDone

PlayerDigs(keys) ==
  /\ phase = "player" /\ dig_dir = "none" /\ ~Unsupported(player, {"SPACE"})
  /\ Intent(keys) = "DIG"
  /\ Dig(IF keys[1] = "U" THEN "LEFT" ELSE "RIGHT", 0)
  /\ PlayerDone

PlayerRests(keys) ==
  /\ phase = "player" /\ dig_dir = "none" /\ ~Unsupported(player, {"SPACE"})
  /\ Intent(keys) = "none"
  /\ UNCHANGED <<board, no_gold, digVars, hole, met>>
  /\ PlayerDone

-----------------------------------------------------------------------------
(* draw_end_of_screen_ladder, the end of the level, the respawns and the   *)
(* holes: main_game_loop and respawn_guards_and_update_holes.              *)

(* guard_params: how many turns the guards have in this tick.              *)
UpdatesAt(n, i) ==
  CASE n = 1 -> <<0, 1, 1>>[i + 1]
    [] n = 2 -> <<1, 1, 1>>[i + 1]
    [] n = 3 -> <<1, 2, 1>>[i + 1]
    [] n = 4 -> <<1, 2, 2>>[i + 1]
    [] n = 5 -> <<2, 2, 2>>[i + 1]

(* What comes when exp holes are still to be closed: the rest of them, the *)
(* guards (handle_guards), or the next tick.                               *)
WorldDone(exp) ==
  /\ expired' = exp
  /\ IF exp # {} THEN phase' = "bricks" /\ UNCHANGED turnVars
     ELSE IF ~level_active' THEN phase' = "dead" /\ UNCHANGED turnVars
     ELSE IF no_guards = 0 THEN phase' = "player" /\ UNCHANGED turnVars
     ELSE LET i == IF byte_64 + 1 >= 3 THEN 0 ELSE byte_64 + 1
          IN /\ byte_64' = i
             /\ updates' = UpdatesAt(no_guards, i)
             /\ phase' = IF updates' = 0 THEN "player" ELSE "guards"

Drawn == IF no_gold = 0 THEN {c \in eos : ldu2[c] = "SPACE"} ELSE {}

(* check_and_handle_respawn: a guard comes back where nobody is, of two in *)
(* one place the later one.                                                *)
Returns_Anyway(g, map) == guard[g].cnt = 1
Returns(g, map) ==
  /\ guard[g].cnt = 1
  /\ map[guard[g].at] = "SPACE"
  /\ \A h \in Guards : h > g /\ guard[h].at = guard[g].at => guard[h].cnt # 1

LevelDone == player.at[1] = 0 /\ player.y = MID /\ no_gold \in {0, 255}

NextRespawnCol_NoWrap == guard_respawn_col + 1
NextRespawnCol == IF guard_respawn_col = LastCol THEN 0 ELSE guard_respawn_col + 1

World ==
  LET laid == [c \in Cells |-> IF c \in Drawn /\ ldu1[c] = "SPACE" THEN "LADDER" ELSE ldu1[c]]
      back == {g \in Guards : Returns(g, laid)}
  IN /\ phase = "world" /\ ~LevelDone
     /\ ldu2' = [c \in Cells |-> IF c \in Drawn THEN "LADDER" ELSE ldu2[c]]
     /\ eos' = eos \ Drawn
     /\ no_gold' = IF no_gold = 0 /\ eos' = {} THEN 255 ELSE no_gold
     /\ ldu1' = [c \in Cells |-> IF \E g \in back : guard[g].at = c THEN "GUARD" ELSE laid[c]]
     /\ guard' = [g \in Guards |->
          IF guard[g].cnt = 0 THEN guard[g]
          ELSE IF g \in back THEN [guard[g] EXCEPT !.state = 0, !.cnt = 0]
          ELSE [guard[g] EXCEPT !.state = DEAD,
                                !.cnt = IF guard[g].cnt = 1 THEN 1 ELSE guard[g].cnt - 1]]
     /\ guard_respawn_col' = NextRespawnCol
     /\ hole' = [n \in Holes |->
          IF hole[n].cnt = 0 THEN hole[n] ELSE [hole[n] EXCEPT !.cnt = hole[n].cnt - 1]]
     /\ UNCHANGED <<player, lifeVars, digVars, no_guards, curr_guard, met>>
     /\ WorldDone({n \in Holes : hole[n].cnt = 1})

(* The cell from which a dead guard comes back: the first free one of the  *)
(* static map, from row 1 on, starting at guard_respawn_col.               *)
Rank(c) == c[1] * (LastCol + 1) + c[2]
FreeCells(map) ==
  {c \in Cells : map[c] = "SPACE" /\ Rank(c) >= Rank(<<1, guard_respawn_col>>)}
FirstFree(map) ==
  CHOOSE c \in FreeCells(map) : \A d \in FreeCells(map) : Rank(c) <= Rank(d)

(* A guard who is still in the hole dies, with his gold.                   *)
GoldBuried_Always(g) == TRUE
GoldBuried(g) == guard[g].state < 0

Buries(c) ==
  LET g == Highest({h \in Guards : guard[h].at = c})
  IN /\ FreeCells(ldu2) # {}
     /\ no_gold' = IF GoldBuried(g) THEN Decremented(no_gold) ELSE no_gold
     /\ curr_guard' = g
     /\ guard' = [guard EXCEPT ![g] =
          [at |-> FirstFree(ldu2), x |-> MID, y |-> MID, state |-> DEAD, cnt |-> RESPAWN]]
     /\ guard_respawn_col' = FirstFree(ldu2)[2]

BrickReturns ==
  LET n == Highest(expired)
      c == hole[n].at
  IN /\ phase = "bricks"
     /\ ldu1' = [ldu1 EXCEPT ![c] = "BRICK"]
     /\ level_active' = (level_active /\ ldu1[c] # "PLAYER")
     /\ hole' = [hole EXCEPT ![n] = NoHole]
     /\ IF ldu1[c] = "GUARD"
        THEN /\ ldu2' = [ldu2 EXCEPT ![c] = "BRICK"]
             /\ IF \E h \in Guards : guard[h].at = c THEN Buries(c)
                ELSE UNCHANGED <<no_gold, guard, curr_guard, guard_respawn_col>>
        ELSE /\ no_gold' = IF ldu1[c] = "GOLD" THEN Decremented(no_gold) ELSE no_gold
             /\ UNCHANGED <<ldu2, guard, curr_guard, guard_respawn_col>>
     /\ UNCHANGED <<player, level, no_lives, eos, digVars, no_guards, met>>
     /\ WorldDone(expired \ {n})

-----------------------------------------------------------------------------
(* A guard's turn: update_guards.  Turn is the guard, Me what he is after  *)
(* the count of his trap went down.                                        *)

Turn == IF curr_guard + 1 > no_guards THEN 1 ELSE curr_guard + 1
Counting == guard[Turn].state > 0
Me == IF Counting THEN [guard[Turn] EXCEPT !.state = guard[Turn].state - 1] ELSE guard[Turn]

GuardDone ==
  /\ phase = "guards"
  /\ curr_guard' = Turn
  /\ updates' = IF level_active' THEN updates - 1 ELSE 0
  /\ phase' = IF ~level_active' THEN "dead" ELSE IF updates = 1 THEN "player" ELSE "guards"
  /\ UNCHANGED <<player, level, no_lives, eos, digVars, hole, expired, no_guards,
                 guard_respawn_col, byte_64, met>>

Saved(t) == guard' = [guard EXCEPT ![Turn] = t]     \* copy_curr_to_guard

GuardWaits ==
  /\ Counting /\ Me.state >= WRIGGLE
  /\ Saved(Me)
  /\ UNCHANGED <<ldu1, ldu2, no_gold, level_active>>
  /\ GuardDone

Sway == <<0, -1, 0, 1, 0, -1>>    \* wriggle_tbl, from the centre
GuardWriggles ==
  /\ Counting /\ Me.state < WRIGGLE /\ Me.state >= CLIMB
  /\ Saved([Me EXCEPT !.x = MID + Sway[Me.state - CLIMB + 1]])
  /\ UNCHANGED <<ldu1, ldu2, no_gold, level_active>>
  /\ GuardDone

(* check_guard_pickup_gold, for a step through the positions in Ts.        *)
PicksUp(Ts) == ldu2[Me.at] = "GOLD" /\ Me.state >= 0 /\ \E t \in Ts : Centred(t)
Carrying_OffByOne == -guard_respawn_col
Carrying == -1 - guard_respawn_col

(* He leaves his cell in direction d with the state s, and kills the       *)
(* player if he is there.                                                  *)
GuardEnters(t, d, s) ==
  /\ Saved([Into(t, d) EXCEPT !.state = s])
  /\ level_active' = (level_active /\ ldu1[Beside(t.at, d)] # "PLAYER")

(* check_guard_drop_gold: gold is dropped when its count is up and there   *)
(* is room for it; else it is tried again at the next cell.                *)
Drops == Me.state = -1 /\ ldu2[Me.at] = "SPACE"

GuardLeaves(d) ==
  LET t == Adjusted(Me, d)
      s == IF Drops THEN 0 ELSE IF Me.state < -1 THEN Me.state + 1 ELSE Me.state
  IN /\ Leaves(t, d)
     /\ ldu2' = IF Drops THEN [ldu2 EXCEPT ![Me.at] = "GOLD"] ELSE ldu2
     /\ ldu1' = [ldu1 EXCEPT ![Me.at] = IF Drops THEN "GOLD" ELSE Vacated(Me.at),
                             ![Beside(Me.at, d)] = "GUARD"]
     /\ GuardEnters(t, d, s)
     /\ UNCHANGED no_gold

(* A step within the cell.  adjust_guard_x_offset and its twin look for    *)
(* gold only when they move him.                                           *)
Path(d) ==
  LET t == Adjusted(Me, d) IN {Within(t, d)} \cup (IF t = Me THEN {} ELSE {t})
GuardStays(d) ==
  LET t == Adjusted(Me, d)
  IN /\ ~Leaves(t, d)
     /\ IF PicksUp(Path(d))
        THEN /\ Saved([Within(t, d) EXCEPT !.state = Carrying])
             /\ ldu2' = [ldu2 EXCEPT ![Me.at] = "SPACE"]
        ELSE Saved(Within(t, d)) /\ UNCHANGED ldu2
     /\ UNCHANGED <<ldu1, no_gold, level_active>>

GuardBlock(d) == IF d = "UP" THEN Wall \cup {"GUARD", "FALLTHRU"} ELSE Wall \cup {"GUARD"}

(* The tile guard_move_left and guard_move_right test for FALLTHRU, both   *)
(* in column - 1: from column 0 that is the end of the row above, and in   *)
(* the first cell of the map whatever is in memory before it.              *)
TileBehind(c) ==
  IF c[2] > 0 THEN {ldu2[Beside(c, "LEFT")]}
  ELSE IF c[1] > 0 THEN {ldu2[<<c[1] - 1, LastCol>>]} ELSE Tiles

GuardCanMove(d, behind) ==
  \/ BeforeCentre(Me, d)
  \/ /\ ~AtEdge(Me.at, d)
     /\ ldu1[Beside(Me.at, d)] \notin GuardBlock(d)
     /\ d \in Sideways => behind # "FALLTHRU"

GuardFree == ~Counting /\ Unsupported(Me, {"SPACE", "PLAYER"})
GuardThinks == IF Counting THEN Me.state < CLIMB ELSE ~Unsupported(Me, {"SPACE", "PLAYER"})

GuardWalks ==
  \E behind \in TileBehind(Me.at) :
    LET d == guard_ai(Me)
    IN /\ GuardThinks /\ d # "NO_MOVE"
       /\ GuardCanMove(d, behind)
       /\ GuardLeaves(d) \/ GuardStays(d)
       /\ GuardDone

(* guard_cant_climb: a trapped guard's count does not go on meanwhile.     *)
GuardBlocked ==
  \E behind \in TileBehind(Me.at) :
    LET d == guard_ai(Me)
    IN /\ GuardThinks /\ d # "NO_MOVE"
       /\ ~GuardCanMove(d, behind)
       /\ Saved(IF d = "UP" /\ Me.state > 0 THEN [Me EXCEPT !.state = Me.state + 1] ELSE Me)
       /\ UNCHANGED <<ldu1, ldu2, no_gold, level_active>>
       /\ GuardDone

GuardIdles ==     \* GUARD_NO_MOVE: nothing is saved
  /\ GuardThinks /\ guard_ai(Me) = "NO_MOVE"
  /\ UNCHANGED <<ldu1, ldu2, guard, no_gold, level_active>>
  /\ GuardDone

(* Falling within a cell: at its centre he takes gold, or is trapped.      *)
GuardSinks ==
  LET t == Within(Adjusted(Me, "DOWN"), "DOWN")
      trapped == t.y = MID /\ ldu2[Me.at] = "BRICK"
  IN /\ GuardFree /\ ~Leaves(Me, "DOWN")
     /\ IF PicksUp(Path("DOWN"))
        THEN /\ Saved([t EXCEPT !.state = Carrying])
             /\ ldu2' = [ldu2 EXCEPT ![Me.at] = "SPACE"]
             /\ UNCHANGED no_gold
        ELSE /\ Saved(IF trapped THEN [t EXCEPT !.state = TRAPPED] ELSE t)
             /\ no_gold' = IF trapped /\ Me.state < 0 THEN Decremented(no_gold) ELSE no_gold
             /\ UNCHANGED ldu2
     /\ UNCHANGED <<ldu1, level_active>>
     /\ GuardDone

(* Falling into the row below: into a hole he does not take his gold, it   *)
(* stays above if there is room, or is gone.                               *)
GuardDrops ==
  LET intoHole == ldu2[Below(Me.at)] = "BRICK" /\ Me.state < 0
      room == ldu2[Me.at] = "SPACE"
  IN /\ GuardFree /\ Leaves(Me, "DOWN")
     /\ GuardEnters(Adjusted(Me, "DOWN"), "DOWN", IF intoHole THEN 0 ELSE Me.state)
     /\ no_gold' = IF intoHole /\ ~room THEN Decremented(no_gold) ELSE no_gold
     /\ ldu2' = IF intoHole /\ room THEN [ldu2 EXCEPT ![Me.at] = "GOLD"] ELSE ldu2
     /\ ldu1' = [ldu1 EXCEPT ![Me.at] = IF intoHole /\ room THEN "GOLD" ELSE Vacated(Me.at),
                             ![Below(Me.at)] = "GUARD"]
     /\ GuardDone

-----------------------------------------------------------------------------
(* The end of a level and of a life.  Beyond the last level of the table   *)
(* there is none to start.                                                 *)

NextLevel ==
  /\ phase = "world" /\ LevelDone /\ level < Len(Levels)
  /\ StartLevel(level + 1)
  /\ no_lives' = IF no_lives = 255 THEN 255 ELSE no_lives + 1
  /\ UNCHANGED guard_respawn_col

LoseLife ==
  /\ phase = "dead"
  /\ IF no_lives > 1
     THEN StartLevel(level) /\ no_lives' = no_lives - 1 /\ UNCHANGED guard_respawn_col
     ELSE StartLevel(1) /\ no_lives' = NO_LIVES /\ guard_respawn_col' = 0

Next ==
  \/ PlayerDigsOn \/ PlayerFalls
  \/ \E keys \in Controls : PlayerMoves(keys) \/ PlayerDigs(keys) \/ PlayerRests(keys)
  \/ NextLevel \/ World \/ BrickReturns
  \/ GuardWaits \/ GuardWriggles \/ GuardWalks \/ GuardBlocked \/ GuardIdles
  \/ GuardSinks \/ GuardDrops
  \/ LoseLife

Spec == Init /\ [][Next]_vars
-----------------------------------------------------------------------------
Thing == [at : Cells, x : Offsets, y : Offsets]
Guardian == [at : Cells, x : Offsets, y : Offsets, state : -128..127, cnt : 0..RESPAWN]

TypeOK ==
  /\ ldu1 \in [Cells -> Tiles] /\ ldu2 \in [Cells -> Tiles] /\ player \in Thing
  /\ phase \in {"player", "world", "bricks", "guards", "dead"}
  /\ level \in 1..Len(Levels) /\ no_lives \in 1..255 /\ level_active \in BOOLEAN
  /\ no_gold \in 0..255 /\ eos \subseteq Cells
  /\ dig_dir \in Sideways \cup {"none"} /\ dig_sprite \in 0..DIG_FRAMES
  /\ hole \in [Holes -> [at : Cells, cnt : 0..HOLE_TICKS]] /\ expired \subseteq Holes
  /\ no_guards \in 0..MAX_GUARDS /\ guard \in [Guards -> Guardian] /\ curr_guard \in 0..no_guards
  /\ guard_respawn_col \in 0..LastCol /\ byte_64 \in 0..2 /\ updates \in 0..2

(* no_gold is exactly the gold that is left, on the board or with a guard: *)
(* no piece is lost or counted twice when it is taken, carried, dropped,   *)
(* buried or goes down a hole, and the exit opens only when none is left.  *)
Gold == CellsOf(ldu2, "GOLD")
Carriers == {g \in Guards : guard[g].state < 0}
GoldConserved ==
  \/ no_gold = Cardinality(Gold) + Cardinality(Carriers)
  \/ no_gold = 255 /\ Gold = {} /\ Carriers = {}

(* Every brick that is gone is in the list of holes exactly once, and      *)
(* nothing else is: none stays open for ever, none closes over another.    *)
(* A player who walks into a guard upsets this (his mark hides the         *)
(* guard's, the brick closes over a guard who is not found and is gone     *)
(* for good when he climbs out), hence met.                                *)
HolesAccounted ==
  ~met => \A c \in Cells :
    LET entries == {n \in Holes : hole[n].at = c /\ (hole[n].cnt # 0 \/ n \in expired)}
    IN Cardinality(entries) = IF ldu2[c] = "BRICK" /\ ldu1[c] # "BRICK" THEN 1 ELSE 0

(* The marks of the dynamic map.  None is left without somebody to take it *)
(* away, which would be a wall for the guards for the rest of the level;   *)
(* and until the player walks into a guard, everybody has his mark, so     *)
(* nobody is in another's cell and no brick closes over anybody unseen.    *)
MarksTrue ==
  /\ \A c \in Cells :
       /\ ldu1[c] = "GUARD" => \E g \in Guards : guard[g].at = c /\ guard[g].cnt = 0
       /\ ldu1[c] = "PLAYER" => player.at = c
  /\ ~met /\ level_active =>
       /\ ldu1[player.at] = "PLAYER"
       /\ \A g \in Guards : guard[g].cnt = 0 => ldu1[guard[g].at] = "GUARD"
       /\ \A g, h \in Guards :
            guard[g].cnt = 0 /\ guard[h].cnt = 0 /\ guard[g].at = guard[h].at => g = h

(* The exit ladder is drawn whole, at once: with the gold gone nothing is  *)
(* left on its cells (the `ladder problem` of the code does not happen).   *)
LadderUnbroken == no_gold = 0 => \A c \in eos : ldu2[c] = "SPACE"

(* The level keeps the promises of GoldLedger.                             *)
Ledger == INSTANCE GoldLedger WITH
  Places <- Cells, Bearers <- 1..MAX_GUARDS,
  onBoard <- Gold, carriers <- Carriers, exit <- no_gold = 255
ImplementsLedger == Ledger!LedgerSpec
=============================================================================
