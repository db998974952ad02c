----------------------------- MODULE ObjectLife -----------------------------
(***************************************************************************)
(* What Knight Lore promises about its special objects.  Each is in one    *)
(* place: it lies in a room, is carried, or is gone.  Only the player      *)
(* moves it, in the room where he is; what is gone stays gone until a new  *)
(* game; and an extra life is worth one life, once.  A fragile object may  *)
(* not be found again when a room is built.                                *)
(***************************************************************************)
EXTENDS Integers

CONSTANTS
  Objects, Rooms, CARRIED, GONE,
  Fragile   \* objects that may be gone when the next room is built

VARIABLES
  place,    \* of each object: a room, CARRIED or GONE
  room,     \* where the player is
  life,     \* the objects that are extra lives
  lives

lifeVars == <<place, room, life, lives>>

LifeInit == place \in [Objects -> Rooms] /\ room \in Rooms /\ life \subseteq Objects /\ lives \in Nat

Here == {o \in Objects : place[o] = room}
Moved(S, p) == [o \in Objects |-> IF o \in S THEN p ELSE place[o]]

Swap(picked, dropped) ==
  /\ picked \subseteq Here \ life /\ \A o \in dropped : place[o] = CARRIED
  /\ place' = [o \in Objects |-> IF o \in picked THEN CARRIED
                                 ELSE IF o \in dropped THEN room ELSE place[o]]
  /\ UNCHANGED <<room, life, lives>>

Vanish(S) ==
  /\ S \subseteq Here
  /\ place' = Moved(S, GONE)
  /\ UNCHANGED <<room, life, lives>>

TakeLife(o) ==
  /\ o \in Here \cap life
  /\ place' = Moved({o}, GONE) /\ lives' = lives + 1
  /\ UNCHANGED <<room, life>>

Crumbles ==
  \E S \in SUBSET {o \in Fragile : place[o] # CARRIED} : place' = Moved(S, GONE)

Leave == room' \in Rooms /\ Crumbles /\ UNCHANGED <<life, lives>>

Die == lives' = lives - 1 /\ Crumbles /\ UNCHANGED <<room, life>>

NewGame ==
  /\ place' \in [Objects -> Rooms] /\ room' \in Rooms
  /\ life' \subseteq Objects /\ lives' \in Nat

LifeNext ==
  \/ \E S, D \in SUBSET Objects : Swap(S, D)
  \/ \E S \in SUBSET Objects : Vanish(S)
  \/ \E o \in Objects : TakeLife(o)
  \/ Leave \/ Die \/ NewGame

LifeSpec == LifeInit /\ [][LifeNext]_lifeVars
=============================================================================
