----------------------------- MODULE KnightLore -----------------------------
(***************************************************************************)
(* The special objects of the Knight Lore port (kl.c): the table of all of *)
(* them, the two places of the room on the screen, the inventory, the      *)
(* cauldron, and what the player, the night and death do to them.  Where   *)
(* things are within a room (nearness, overlap, heights, times) is left    *)
(* open: each test on it may come out either way.                          *)
(***************************************************************************)
EXTENDS Integers, FiniteSets, Sequences

CONSTANTS
  NUM_OBJS,          \* 32: entries of special_objs_tbl
  Rooms, Exits, StartScrn, StartRooms,
  CAULDRON_SCREEN,   \* 136
  BUBBLES_SCREEN,    \* 180: the scrn of cauldron_bubbles
  ObjectsRequired,   \* the 14 kinds, in the order of objects_required_rom
  FirstKinds,        \* 0..7: the random r of init_special_objects
  NO_LIVES,          \* 5
  Clearings          \* whether the loop at START_MENU clears the variables

Entries == 0..(NUM_OBJS - 1)
Slots == Entries       \* special_objs_here and what lies behind it
Places == {0, 1}       \* the two that are special_objs_here

ASSUME SizeAssumption ==
  /\ NUM_OBJS \in Nat /\ NUM_OBJS >= 2 /\ NO_LIVES \in Nat \ {0}
  /\ FirstKinds \subseteq 0..7 /\ FirstKinds # {} /\ Clearings \subseteq BOOLEAN
  /\ ObjectsRequired \in Seq(0..6) /\ Len(ObjectsRequired) > 0
ASSUME MapAssumption ==
  /\ Rooms \subseteq Nat /\ {CAULDRON_SCREEN, BUBBLES_SCREEN} \subseteq Rooms
  /\ Exits \in [Rooms -> SUBSET Rooms] /\ StartScrn \in [Entries -> Rooms]
  /\ StartRooms \subseteq Rooms /\ StartRooms # {}

(* graphic_no                                                              *)
NONE == 0
INVALID == 1
SpecialObject == 96..102
EXTRA_LIFE == 103
Falling == 104..110    \* a special object on its way into the cauldron
LIFE_TAKEN == 111
BUBBLES == 160         \* 160 to 163, and 168 to 175: a bubble with a hint
SPELL == 164           \* 164 to 167
OVERLAPPED == 187

VARIABLES
  tbl,          \* special_objs_tbl: graphic and curr_scrn
  here,         \* special_objs_here: graphic, scrn, ptr
  carried,      \* objects_carried: graphic, ptr
  scrn,         \* graphic_objs_tbl[0].scrn
  wulf, body,   \* what the player is, and "appearing", "walking", "changing", "dying"
  lives, moon,
  transform,    \* transform_flag_graphic: a change of shape is due, or going on
  pressed,      \* pickup_drop_pressed
  dropping,     \* obj_dropping_into_cauldron
  put,          \* objects_put_in_cauldron
  all,          \* all_objs_in_cauldron
  lit,          \* the blocks of the room are sparkles (graphic 131)
  required,     \* objects_required
  first,        \* history: r of this game
  turn          \* whose update is next

roomVars == <<tbl, here, lit>>
gameVars == <<moon, put, all, required, first>>
vars == <<roomVars, carried, scrn, wulf, body, lives, transform, pressed, dropping, gameVars, turn>>

LEGS == -1
FRAME_END == NUM_OBJS

Nobody == [graphic |-> NONE, scrn |-> 0, ptr |-> 0]
Nothing == [graphic |-> NONE, ptr |-> 0]

(* The next of the slots whose update does something, else the drawing.    *)
Acts(g) == g \in Falling \cup {EXTRA_LIFE, LIFE_TAKEN, BUBBLES, SPELL, OVERLAPPED}
After(n, slots) ==
  LET later == {m \in Slots : m > n /\ Acts(slots[m].graphic)}
  IN IF later = {} THEN {FRAME_END} ELSE {m \in later : \A k \in later : m <= k}

-----------------------------------------------------------------------------
(* A room is built: update_special_objs, of two that have the same entry   *)
(* the second wins, and find_special_objs_here, in the order of the table. *)

LastWith(shown, e) ==
  LET mine == {n \in Places : shown[n].graphic # NONE /\ shown[n].ptr = e}
  IN {n \in mine : \A m \in mine : m <= n}

Saved_InNewRoom(shown) ==
  [e \in Entries |->
     IF LastWith(shown, e) = {} THEN tbl[e]
     ELSE [graphic |-> shown[CHOOSE n \in LastWith(shown, e) : TRUE].graphic, scrn |-> scrn']]
Saved(shown) ==
  [e \in Entries |->
     IF LastWith(shown, e) = {} THEN tbl[e]
     ELSE LET last == shown[CHOOSE n \in LastWith(shown, e) : TRUE]
          IN [graphic |-> last.graphic, scrn |-> last.scrn]]

Found(t, r) ==
  LET present == {e \in Entries : t[e].graphic # NONE /\ t[e].scrn = r}
      Nth(n) == {e \in present : Cardinality({d \in present : d < e}) = n}
  IN [n \in Slots |->
        IF Nth(n) = {} THEN Nobody
        ELSE LET e == CHOOSE d \in Nth(n) : TRUE
             IN [graphic |-> t[e].graphic, scrn |-> r, ptr |-> e]]

BuildScreen(shown, r) ==
  /\ tbl' = Saved(shown) /\ here' = Found(tbl', r) /\ lit' = FALSE
  /\ turn' = LEGS

(* A new game: the variables are cleared, unless the compiler has not laid *)
(* them out in the order they are written in; then everything is set up,   *)
(* and lose_life takes the first life.                                     *)
Rotated(s, k) == SubSeq(s, k + 1, Len(s)) \o SubSeq(s, 1, k)
Shuffles(s) == {Rotated(s, k % Len(s)) : k \in 4..7}    \* shuffle_objects_required
KindOf(r, e) == 96 + ((r + e) % 8)
FreshTable(r) == [e \in Entries |-> [graphic |-> KindOf(r, e), scrn |-> StartScrn[e]]]

NewGame ==
  \E r \in FirstKinds, s \in StartRooms, cleared \in Clearings :
    /\ first' = r /\ tbl' = FreshTable(r)
    /\ scrn' = s /\ here' = Found(tbl', s)
    /\ required' \in Shuffles(required)
    /\ wulf' = FALSE /\ body' = "appearing" /\ moon' = FALSE /\ transform' = FALSE
    /\ lives' = NO_LIVES - 1 /\ lit' = FALSE /\ turn' = LEGS
    /\ IF cleared
       THEN /\ carried' = <<Nothing, Nothing, Nothing>> /\ pressed' = FALSE
            /\ dropping' = FALSE /\ put' = 0 /\ all' = FALSE
       ELSE UNCHANGED <<carried, pressed, dropping, put, all>>

Init ==
  \E r \in FirstKinds, s \in StartRooms :
    /\ first = r /\ tbl = FreshTable(r)
    /\ scrn = s /\ here = Found(tbl, s)
    /\ required \in Shuffles(ObjectsRequired)
    /\ wulf = FALSE /\ body = "appearing" /\ moon = FALSE /\ transform = FALSE
    /\ lives = NO_LIVES - 1 /\ lit = FALSE /\ turn = LEGS
    /\ carried = <<Nothing, Nothing, Nothing>> /\ pressed = FALSE
    /\ dropping = FALSE /\ put = 0 /\ all = FALSE

-----------------------------------------------------------------------------
(* The player's turn: upd_player_bottom and what it is in his other states *)

LegsDone == turn = LEGS /\ turn' \in After(LEGS, here')
Deaf == all \/ dropping        \* check_user_input: no key is read

PlayerGlitters ==              \* sparkles: upd_120_to_126, upd_112_to_118_184
  /\ body \in {"appearing", "dying"}
  /\ UNCHANGED <<roomVars, carried, scrn, wulf, body, lives, transform, pressed, dropping, gameVars>>
  /\ LegsDone

PlayerAppears ==               \* upd_127: he acts in the same frame
  /\ turn = LEGS /\ body = "appearing" /\ body' = "walking"
  /\ UNCHANGED <<roomVars, carried, scrn, wulf, lives, transform, pressed, dropping, gameVars, turn>>

PlayerDies ==
  /\ body \in {"walking", "changing"} /\ ~all
  /\ body' = "dying"
  /\ UNCHANGED <<roomVars, carried, scrn, wulf, lives, transform, pressed, dropping, gameVars>>
  /\ LegsDone

(* chk_and_init_transform and upd_92_to_95                                 *)
TransformStarts ==
  /\ body = "walking" /\ transform /\ body' = "changing"
  /\ UNCHANGED <<roomVars, carried, scrn, wulf, lives, transform, pressed, dropping, gameVars>>
  /\ LegsDone

TransformGoesOn ==
  /\ body = "changing"
  /\ UNCHANGED <<roomVars, carried, scrn, wulf, body, lives, transform, pressed, dropping, gameVars>>
  /\ LegsDone

TransformEnds ==
  /\ body = "changing"
  /\ body' = "walking" /\ wulf' = ~wulf /\ transform' = FALSE
  /\ UNCHANGED <<roomVars, carried, scrn, lives, pressed, dropping, gameVars>>
  /\ LegsDone

(* A frame in which nothing is picked up or dropped, as the first in a     *)
(* room, when he shuffles in, and those of a jump: a change of shape waits *)
(* for them.                                                               *)
PlayerWalks ==
  /\ body = "walking"
  /\ pressed' \in (IF Deaf THEN {FALSE} ELSE BOOLEAN)
  /\ UNCHANGED <<roomVars, carried, scrn, wulf, body, lives, transform, dropping, gameVars>>
  /\ LegsDone

(* handle_pickup_drop: the key is newly pressed, he does not jump, so no   *)
(* change of shape is due.                                                 *)
Presses == body = "walking" /\ ~transform /\ ~Deaf /\ ~pressed /\ pressed' = TRUE
Shifted(new) == <<new, carried[1], carried[2]>>
Dropped(g) == [graphic |-> g, scrn |-> scrn, ptr |-> carried[3].ptr]

Pickable_AnyOfEight == SpecialObject \cup {EXTRA_LIFE}
Pickable == SpecialObject      \* can_pickup_spec_obj

PickUp_LeavesEntry(n) == tbl
PickUpZaps(n) == [tbl EXCEPT ![here[n].ptr].graphic = NONE]
PlayerPicksUp(n) ==
  /\ Presses /\ here[n].graphic \in Pickable
  /\ tbl' = PickUpZaps(n)
  /\ here' = [here EXCEPT ![n] = IF carried[3].graphic = NONE
                                 THEN [here[n] EXCEPT !.graphic = INVALID]
                                 ELSE Dropped(carried[3].graphic)]
  /\ carried' = Shifted([graphic |-> here[n].graphic, ptr |-> here[n].ptr])
  /\ UNCHANGED <<lit, scrn, wulf, body, lives, transform, dropping, gameVars>>
  /\ LegsDone

(* Only the first place is tried: the loop does not go on to the second.   *)
RoomToDrop == here[0].graphic = NONE

PlayerShifts ==
  /\ Presses /\ RoomToDrop /\ carried[3].graphic = NONE
  /\ carried' = Shifted(Nothing)
  /\ UNCHANGED <<roomVars, scrn, wulf, body, lives, transform, dropping, gameVars>>
  /\ LegsDone

PlayerDrops ==
  /\ Presses /\ RoomToDrop /\ carried[3].graphic # NONE
  /\ \E falls \in {FALSE, scrn = CAULDRON_SCREEN} :
       /\ here' = [here EXCEPT ![0] = Dropped(carried[3].graphic + (IF falls THEN 8 ELSE 0))]
       /\ dropping' = (dropping \/ falls)
  /\ carried' = Shifted(Nothing)
  /\ UNCHANGED <<tbl, lit, scrn, wulf, body, lives, transform, gameVars>>
  /\ LegsDone

(* handle_exit_screen, and the next room.  He cannot leave while an object *)
(* falls or after the last: no key moves him.                              *)
PlayerLeaves ==
  /\ turn = LEGS /\ body = "walking" /\ ~Deaf
  /\ scrn' \in Exits[scrn]
  /\ BuildScreen(here, scrn')
  /\ pressed' \in BOOLEAN
  /\ UNCHANGED <<carried, wulf, body, lives, transform, dropping, gameVars>>

-----------------------------------------------------------------------------
(* The updates of what is in the slots.                                    *)

OnLegs == body = "walking"    \* the graphic is one of the legs
SlotDone(n) == turn = n /\ turn' \in After(n, here')
Becomes(n, g) == here' = [here EXCEPT ![n].graphic = g]
Zapped(n) == [tbl EXCEPT ![here[n].ptr].graphic = NONE]

SlotWaits(n) ==     \* a life nobody touches, an object that still falls
  /\ here[n].graphic \in Falling \cup {EXTRA_LIFE}
  /\ UNCHANGED <<roomVars, carried, scrn, wulf, body, lives, transform, pressed, dropping, gameVars>>
  /\ SlotDone(n)

LifeTaken(n) ==     \* upd_103
  /\ here[n].graphic = EXTRA_LIFE
  /\ tbl' = Zapped(n) /\ Becomes(n, LIFE_TAKEN) /\ lives' = lives + 1
  /\ UNCHANGED <<lit, carried, scrn, wulf, body, transform, pressed, dropping, gameVars>>
  /\ SlotDone(n)

(* add_obj_to_cauldron of upd_104_to_110.  With the last object            *)
(* prepare_final_animation clears the room, but not the first place.       *)
Right(n) == here[n].graphic % 8 = required[put + 1]
Last(n) == Right(n) /\ put + 1 = Len(required)
Lands_StillDropping == dropping
Lands == FALSE

ObjectLands(n) ==
  /\ here[n].graphic \in Falling
  /\ put' = IF Right(n) THEN put + 1 ELSE put
  /\ all' = (all \/ Last(n)) /\ lit' = (lit \/ Last(n))
  /\ dropping' = Lands
  /\ tbl' = Zapped(n)
  /\ here' = [m \in Slots |->
       IF m = n \/ (m > 0 /\ Last(n))
       THEN [here[m] EXCEPT !.graphic = INVALID] ELSE here[m]]
  /\ UNCHANGED <<carried, scrn, wulf, body, lives, transform, pressed, moon, required, first>>
  /\ SlotDone(n)

(* The bubbles go when something lies in the first place; under the eyes   *)
(* of a wulf they may turn into a spell.  The spell's own test is for an   *)
(* object of the cauldron room, which the bubbles are not.                 *)
BubblesUpdate(n) ==
  /\ here[n].graphic = BUBBLES
  /\ IF here[0].graphic # NONE THEN Becomes(n, INVALID)
     ELSE \E g \in {BUBBLES} \cup (IF wulf /\ OnLegs THEN {SPELL} ELSE {}) : Becomes(n, g)
  /\ UNCHANGED <<tbl, lit, carried, scrn, wulf, body, lives, transform, pressed, dropping, gameVars>>
  /\ SlotDone(n)

SpellUpdate(n) ==
  /\ here[n].graphic = SPELL
  /\ Becomes(n, IF here[n].scrn = CAULDRON_SCREEN /\ ~OnLegs THEN INVALID ELSE SPELL)
  /\ UNCHANGED <<tbl, lit, carried, scrn, wulf, body, lives, transform, pressed, dropping, gameVars>>
  /\ SlotDone(n)

ObjectVanishes(n) ==    \* upd_185_187, upd_111
  /\ here[n].graphic \in {OVERLAPPED, LIFE_TAKEN}
  /\ tbl' = IF here[n].graphic = OVERLAPPED THEN Zapped(n) ELSE tbl
  /\ Becomes(n, INVALID)
  /\ UNCHANGED <<lit, carried, scrn, wulf, body, lives, transform, pressed, dropping, gameVars>>
  /\ SlotDone(n)

-----------------------------------------------------------------------------
(* The end of a frame: init_cauldron_bubbles, and the drawing, which drops *)
(* what is invalid and finds the objects that overlap another.             *)

cauldron_bubbles == [graphic |-> BUBBLES, scrn |-> BUBBLES_SCREEN, ptr |-> 0]
Bubbling ==
  IF scrn = CAULDRON_SCREEN /\ here[1].graphic = NONE /\ ~all
  THEN [here EXCEPT ![1] = cauldron_bubbles] ELSE here

Drawings ==
  {[n \in Slots |->
      IF n \in overlaps THEN [here[n] EXCEPT !.graphic = OVERLAPPED]
      ELSE IF here[n].graphic = INVALID THEN [here[n] EXCEPT !.graphic = NONE]
      ELSE Bubbling[n]] :
     overlaps \in SUBSET {n \in Slots : here[n].graphic \in Pickable \cup {EXTRA_LIFE}}}

FrameEnds == turn = FRAME_END /\ turn' = LEGS

(* print_sun_moon, the end of the drawing.  Half a day is about 392        *)
(* frames: the change of shape it brings is over before the next.  The     *)
(* days are not counted: any dawn may be the last.                         *)
HalfDayIsLonger == ~transform
SunMoves == FrameEnds /\ ~all /\ HalfDayIsLonger

Dusk ==
  /\ SunMoves /\ ~moon
  /\ here' \in Drawings
  /\ moon' = TRUE /\ transform' = TRUE
  /\ UNCHANGED <<tbl, lit, carried, scrn, wulf, body, lives, pressed, dropping,
                 put, all, required, first>>

Dawn ==
  /\ SunMoves /\ moon
  /\ here' \in Drawings
  /\ moon' = FALSE /\ transform' = TRUE
  /\ UNCHANGED <<tbl, lit, carried, scrn, wulf, body, lives, pressed, dropping,
                 put, all, required, first>>

NextFrame ==
  /\ FrameEnds /\ here' \in Drawings
  /\ UNCHANGED <<tbl, lit, carried, scrn, wulf, body, lives, transform, pressed, dropping, gameVars>>

(* Both halves of the player are gone: player_dies, lose_life.             *)
LoseLife_KeepsShape == wulf
LoseLife_Shape == moon
LoseLife ==
  /\ turn = FRAME_END /\ body = "dying" /\ lives > 0
  /\ lives' = lives - 1 /\ transform' = FALSE
  /\ wulf' = LoseLife_Shape /\ body' = "appearing"
  /\ UNCHANGED scrn /\ \E shown \in Drawings : BuildScreen(shown, scrn)
  /\ UNCHANGED <<carried, pressed, dropping, gameVars>>

(* The game ends with the last life or the last day, or when the sparkles  *)
(* of the cauldron room's blocks have met the player (upd_131_to_133).     *)
GameOver ==
  /\ turn = FRAME_END
  /\ \/ body = "dying" /\ lives = 0
     \/ SunMoves /\ moon
     \/ lit
  /\ NewGame

Next ==
  \/ PlayerGlitters \/ PlayerAppears \/ PlayerDies
  \/ TransformStarts \/ TransformGoesOn \/ TransformEnds
  \/ PlayerWalks \/ PlayerShifts \/ PlayerDrops \/ PlayerLeaves
  \/ \E n \in Places : PlayerPicksUp(n)
  \/ \E n \in Slots :
       \/ SlotWaits(n) \/ LifeTaken(n) \/ ObjectLands(n)
       \/ BubblesUpdate(n) \/ SpellUpdate(n) \/ ObjectVanishes(n)
  \/ Dusk \/ Dawn \/ NextFrame \/ LoseLife \/ GameOver

Spec == Init /\ [][Next]_vars
-----------------------------------------------------------------------------
Graphics == SpecialObject \cup Falling \cup {NONE, EXTRA_LIFE, LIFE_TAKEN, BUBBLES, SPELL, OVERLAPPED}

TypeOK ==
  /\ tbl \in [Entries -> [graphic : Graphics, scrn : Rooms]]
  /\ here \in [Slots -> [graphic : Graphics \cup {INVALID}, scrn : Rooms \cup {0}, ptr : Entries]]
  /\ carried \in [1..3 -> [graphic : SpecialObject \cup {NONE}, ptr : Entries]]
  /\ scrn \in Rooms /\ lives \in 0..(NO_LIVES + NUM_OBJS)
  /\ {wulf, moon, transform, pressed, dropping, all, lit} \subseteq BOOLEAN
  /\ body \in {"appearing", "walking", "changing", "dying"}
  /\ put \in 0..Len(ObjectsRequired) /\ required \in Seq(0..6) /\ first \in 0..7
  /\ turn \in LEGS..FRAME_END

(* An object is never in two places: not twice in the inventory and on the *)
(* screen, and never in the table while it is carried, from where it would *)
(* come back a second time.  This holds for entry 0 too, though the bubbles *)
(* of the cauldron room have its index.                                    *)
Bubble == {BUBBLES, SPELL}
Live == SpecialObject \cup Falling \cup {EXTRA_LIFE, OVERLAPPED}
Held(e) == {i \in 1..3 : carried[i].graphic # NONE /\ carried[i].ptr = e}
Shown(e) == {n \in Slots : here[n].graphic \in Live /\ here[n].ptr = e}
OnePlace ==
  \A e \in Entries :
    /\ Cardinality(Held(e)) + Cardinality(Shown(e)) <= 1
    /\ Held(e) # {} => tbl[e].graphic \notin Live

(* Wulf by night and human by day, through jumps, deaths, new rooms and    *)
(* interrupted changes, unless a change is due.                            *)
ShapeFollowsSun == ~transform => (wulf <=> moon)

(* The keys are dead while an object falls into the cauldron, and only     *)
(* then: whatever happens to the player meanwhile, they come back.  But if *)
(* it is entry 0 that falls and the player dies, the bubbles may overwrite *)
(* it, and the keys stay dead.                                             *)
BubblesSaved == tbl[0].graphic \in Bubble
KeysComeBack ==
  LET falling == \E n \in Slots : here[n].graphic \in Falling
  IN (falling => dropping) /\ (dropping => falling \/ BubblesSaved)

(* The entries of the table are those of special objects: what is none is  *)
(* not written into it.                                                    *)
EntriesAreObjects == \A e \in Entries : tbl[e].graphic \notin Bubble

(* What becomes of the objects is what ObjectLife promises: nothing        *)
(* appears out of nowhere, changes rooms by itself, comes back when it is  *)
(* gone, or gives its life twice; and nothing is lost between two rooms,   *)
(* but entry 0, which the bubbles may overwrite.                           *)
CARRIED == -1
GONE == -2
Place(e) ==
  IF Held(e) # {} THEN CARRIED
  ELSE IF Shown(e) # {} THEN scrn
  ELSE IF tbl[e].graphic \in Live THEN tbl[e].scrn ELSE GONE

Life == INSTANCE ObjectLife WITH
  Objects <- Entries, Fragile <- {0},
  place <- [e \in Entries |-> Place(e)], room <- scrn,
  life <- {e \in Entries : KindOf(first, e) = EXTRA_LIFE}
ImplementsObjectLife == Life!LifeSpec
=============================================================================
