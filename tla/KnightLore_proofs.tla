-------------------------- MODULE KnightLore_proofs --------------------------
(***************************************************************************)
(* Proofs about the special objects of Knight Lore, for every map, every   *)
(* number of objects and every order in which the cauldron wants them.     *)
(***************************************************************************)
EXTENDS KnightLore, FiniteSetTheorems, SequenceTheorems, TLAPS

(* The strengthening of ShapeFollowsSun: a change is due, or going on,     *)
(* exactly while shape and sky differ.                                     *)
ShapeInv ==
  /\ {wulf, moon, transform} \subseteq BOOLEAN
  /\ transform <=> ~(wulf <=> moon)
  /\ body = "changing" => transform

LEMMA ShapeInit == Init => ShapeInv
  BY DEF Init, ShapeInv

(* Most steps touch neither shape nor sky.                                 *)
Unshaped == UNCHANGED <<wulf, moon, transform>> /\ body' \in {body, "walking", "dying"}

LEMMA UnshapedStep == ShapeInv /\ Unshaped => ShapeInv'
  BY DEF ShapeInv, Unshaped

LEMMA ShapeStep == ShapeInv /\ [Next]_vars => ShapeInv'
<1> SUFFICES ASSUME ShapeInv, [Next]_vars PROVE ShapeInv'
  OBVIOUS
<1> USE DEF gameVars
<1>1. ASSUME PlayerGlitters \/ PlayerAppears \/ PlayerDies \/ PlayerWalks PROVE Unshaped
  BY <1>1 DEF PlayerGlitters, PlayerAppears, PlayerDies, PlayerWalks, Unshaped
<1>2. ASSUME PlayerShifts PROVE Unshaped
  BY <1>2 DEF PlayerShifts, Unshaped
<1>3. ASSUME PlayerDrops PROVE Unshaped
  BY <1>3 DEF PlayerDrops, Unshaped
<1>4. ASSUME PlayerLeaves PROVE Unshaped
  BY <1>4 DEF PlayerLeaves, Unshaped
<1>5. ASSUME NEW n \in Places, PlayerPicksUp(n) PROVE Unshaped
  BY <1>5 DEF PlayerPicksUp, Unshaped
<1>6. ASSUME NEW n \in Slots, SlotWaits(n) \/ LifeTaken(n) \/ ObjectLands(n) PROVE Unshaped
  BY <1>6 DEF SlotWaits, LifeTaken, ObjectLands, Unshaped
<1>7. ASSUME NEW n \in Slots, BubblesUpdate(n) \/ SpellUpdate(n) \/ ObjectVanishes(n) PROVE Unshaped
  BY <1>7 DEF BubblesUpdate, SpellUpdate, ObjectVanishes, Unshaped
<1>8. ASSUME NextFrame \/ UNCHANGED vars PROVE Unshaped
  BY <1>8 DEF NextFrame, Unshaped, vars
<1>9. CASE TransformStarts \/ TransformGoesOn
  <2>1. transform /\ UNCHANGED <<wulf, moon, transform>>
    BY <1>9 DEF TransformStarts, TransformGoesOn, ShapeInv
  <2> QED BY <2>1 DEF ShapeInv
<1>10. CASE TransformEnds
  <2>1. body = "changing" /\ body' = "walking" /\ wulf' = ~wulf /\ transform' = FALSE /\ moon' = moon
    BY <1>10 DEF TransformEnds
  <2>2. wulf <=> ~moon
    BY <2>1 DEF ShapeInv
  <2> QED BY <2>1, <2>2 DEF ShapeInv
<1>11. CASE Dusk
  <2>1. ~transform /\ ~moon /\ moon' = TRUE /\ transform' = TRUE /\ UNCHANGED <<wulf, body>>
    BY <1>11 DEF Dusk, SunMoves, HalfDayIsLonger
  <2> QED BY <2>1 DEF ShapeInv
<1>12. CASE Dawn
  <2>1. ~transform /\ moon /\ moon' = FALSE /\ transform' = TRUE /\ UNCHANGED <<wulf, body>>
    BY <1>12 DEF Dawn, SunMoves, HalfDayIsLonger
  <2> QED BY <2>1 DEF ShapeInv
<1>13. CASE LoseLife
  BY <1>13 DEF LoseLife, LoseLife_Shape, ShapeInv
<1>14. CASE GameOver
  BY <1>14 DEF GameOver, NewGame, ShapeInv
<1> QED
  BY <1>1, <1>2, <1>3, <1>4, <1>5, <1>6, <1>7, <1>8, <1>9, <1>10, <1>11, <1>12, <1>13, <1>14, UnshapedStep DEF Next

(* Wulf by night and human by day, but while a change is due: through      *)
(* jumps, deaths, changes of room and interrupted changes of shape.        *)
THEOREM ShapesFollowTheSun == Spec => []ShapeFollowsSun
<1>1. ShapeInv => ShapeFollowsSun
  BY DEF ShapeInv, ShapeFollowsSun
<1> QED
  BY <1>1, ShapeInit, ShapeStep, PTL DEF Spec

-----------------------------------------------------------------------------
(* The strengthening of OnePlace.  It is written about a table t, slots h,  *)
(* hands c, a room r and the r of this game, k: a room is built from what   *)
(* is drawn, and not from what is here.                                     *)

(* What entry e may look like, wherever it is.                              *)
Looks(k, e) ==
  {OVERLAPPED}
  \cup (IF KindOf(k, e) = EXTRA_LIFE THEN {EXTRA_LIFE, LIFE_TAKEN}
        ELSE {KindOf(k, e), KindOf(k, e) + 8})
  \cup (IF e = 0 THEN Bubble ELSE {})

Empty == {NONE, INVALID}
NoObject == {NONE} \cup Bubble
Real(s) == s.graphic \notin Empty \cup Bubble
Lives(s) == s.graphic \in Live
Falls(s) == s.graphic \in Falling
Carries(c, i) == c[i].graphic # NONE

EntryRecord == [graphic : Graphics, scrn : Rooms]
SlotRecord == [graphic : Graphics \cup {INVALID}, scrn : Rooms \cup {0}, ptr : Entries]
CarriedRecord == [graphic : SpecialObject \cup {NONE}, ptr : Entries]

Table(k, t) ==
  t \in [Entries -> EntryRecord] /\ \A e \in Entries : t[e].graphic \in Looks(k, e) \cup {NONE}

Room(k, h, r) ==
  /\ h \in [Slots -> SlotRecord]
  /\ \A n \in Slots : h[n].graphic \in Looks(k, h[n].ptr) \cup Empty
  /\ \A n \in Slots : h[n].graphic \notin Empty => h[n].scrn \in Rooms
  /\ \A n \in Slots : Real(h[n]) => h[n].scrn = r

Hands(k, c) ==
  /\ c \in [1..3 -> CarriedRecord]
  /\ \A i \in 1..3 : c[i].graphic \in Looks(k, c[i].ptr) \cup {NONE}
  /\ \A i, j \in 1..3 : Carries(c, i) /\ Carries(c, j) /\ c[i].ptr = c[j].ptr => i = j

(* No object is in two places, and what is carried is not in the table.    *)
Apart(t, h, c) ==
  /\ \A n, m \in Slots : Real(h[n]) /\ Real(h[m]) /\ h[n].ptr = h[m].ptr => n = m
  /\ \A i \in 1..3, n \in Slots : Carries(c, i) /\ Real(h[n]) => c[i].ptr # h[n].ptr
  /\ \A i \in 1..3 : Carries(c, i) => t[c[i].ptr].graphic \in NoObject

(* What the table says of the objects in the room: it knows no other room   *)
(* for them, those without a place of special_objs_here are not written     *)
(* back to it, it has every life, and none that is taken.                  *)
InTable(t, h, r) ==
  /\ \A n \in Slots : Real(h[n]) /\ Lives(t[h[n].ptr]) => t[h[n].ptr].scrn = r
  /\ \A n \in Slots \ Places : Lives(h[n]) => Lives(t[h[n].ptr])
  /\ \A n \in Slots \ Places : Falls(h[n]) => Falls(t[h[n].ptr])
  /\ \A n \in Slots : h[n].graphic = EXTRA_LIFE => t[h[n].ptr].graphic = EXTRA_LIFE
  /\ \A n \in Slots : h[n].graphic = LIFE_TAKEN => ~Lives(t[h[n].ptr])

Good(k, t, h, r, c) ==
  /\ k \in FirstKinds /\ r \in Rooms
  /\ Table(k, t) /\ Room(k, h, r) /\ Hands(k, c) /\ Apart(t, h, c) /\ InTable(t, h, r)

(* Nothing is left to be emptied when a room is built.                     *)
Drawn(h) == \A n \in Slots : h[n].graphic # INVALID

PlaceInv == Good(first, tbl, here, scrn, carried) /\ (turn = LEGS => Drawn(here))

-----------------------------------------------------------------------------
(* Lemmas about the operators of the model.                                *)

LEMMA LooksFacts ==
  ASSUME NEW k \in FirstKinds, NEW e \in Entries
  PROVE  /\ Looks(k, e) \subseteq Graphics \ Empty
         /\ \A g \in Looks(k, e) \cap Bubble : e = 0
         /\ \A g \in Looks(k, e) \cap SpecialObject :
              g + 8 \in Looks(k, e) \cap Falling /\ KindOf(k, e) # EXTRA_LIFE
         /\ EXTRA_LIFE \in Looks(k, e) => KindOf(k, e) = EXTRA_LIFE /\ LIFE_TAKEN \in Looks(k, e)
         /\ OVERLAPPED \in Looks(k, e) /\ KindOf(k, e) \in Looks(k, e)
<1>1. k \in 0..7 /\ e \in Nat
  BY SizeAssumption DEF Entries
<1>2. KindOf(k, e) \in 96..103
  BY <1>1 DEF KindOf
<1> QED
  BY <1>2 DEF Looks, Graphics, Empty, Bubble, BUBBLES, SPELL, SpecialObject, Falling, NONE, INVALID,
              EXTRA_LIFE, LIFE_TAKEN, OVERLAPPED

LEMMA BubbleLooks == ASSUME NEW k \in FirstKinds PROVE Bubble \subseteq Looks(k, 0) /\ 0 \in Entries
  BY SizeAssumption DEF Looks, Entries

LEMMA PlacesAreSlots == Places \subseteq Slots /\ 0 \in Slots /\ 1 \in Slots
  BY SizeAssumption DEF Places, Slots, Entries

(* The graphics that tell the slots apart.                                 *)
LEMMA Kinds ==
  /\ Live \cap (Empty \cup Bubble) = {} /\ Falling \subseteq Live /\ SpecialObject \subseteq Live
  /\ SpecialObject \cap (Falling \cup {EXTRA_LIFE}) = {}
  /\ EXTRA_LIFE \in Live \ Falling /\ OVERLAPPED \in Live \ Falling
  /\ LIFE_TAKEN \notin Live \cup Empty \cup Bubble /\ Bubble \cap Empty = {}
  /\ Live \subseteq Graphics /\ Bubble \subseteq Graphics /\ LIFE_TAKEN \in Graphics
  /\ OVERLAPPED # EXTRA_LIFE /\ NONE \in Graphics \ Live
  /\ Graphics \ (Empty \cup Bubble) = Live \cup {LIFE_TAKEN}
  BY DEF Live, Graphics, Empty, Bubble, BUBBLES, SPELL, SpecialObject, Falling, NONE, INVALID,
         EXTRA_LIFE, LIFE_TAKEN, OVERLAPPED

(* find_special_objs_here: every entry of the room once, and no other.     *)
LEMMA FoundFacts ==
  ASSUME NEW t \in [Entries -> EntryRecord], NEW r \in Rooms
  PROVE  /\ Found(t, r) \in [Slots -> SlotRecord]
         /\ \A n \in Slots : Found(t, r)[n].graphic # NONE =>
              /\ Found(t, r)[n].graphic = t[Found(t, r)[n].ptr].graphic
              /\ Found(t, r)[n].scrn = r /\ t[Found(t, r)[n].ptr].scrn = r
         /\ \A n, m \in Slots :
              /\ Found(t, r)[n].graphic # NONE /\ Found(t, r)[m].graphic # NONE
              /\ Found(t, r)[n].ptr = Found(t, r)[m].ptr
              => n = m
         /\ \A e \in Entries : t[e].graphic # NONE /\ t[e].scrn = r =>
              \E n \in Slots : Found(t, r)[n].graphic = t[e].graphic /\ Found(t, r)[n].ptr = e
<1> DEFINE present == {e \in Entries : t[e].graphic # NONE /\ t[e].scrn = r}
           Before(e) == {d \in present : d < e}
           Nth(n) == {e \in present : Cardinality(Before(e)) = n}
           pick(n) == CHOOSE d \in Nth(n) : TRUE
           f == Found(t, r)
<1>1. f = [n \in Slots |-> IF Nth(n) = {} THEN Nobody
                            ELSE [graphic |-> t[pick(n)].graphic, scrn |-> r, ptr |-> pick(n)]]
  BY DEF Found
<1>2. \A n \in Slots : Nth(n) # {} => pick(n) \in Nth(n)
  OBVIOUS
<1>3. \A n \in Slots : Nth(n) # {} => pick(n) \in present /\ Cardinality(Before(pick(n))) = n
  BY <1>2
<1>4. \A e \in Entries : IsFiniteSet(Before(e)) /\ Cardinality(Before(e)) \in Slots
  <2> SUFFICES ASSUME NEW e \in Entries
               PROVE  IsFiniteSet(Before(e)) /\ Cardinality(Before(e)) \in Slots
    OBVIOUS
  <2>1. e \in Nat /\ NUM_OBJS \in Nat /\ e < NUM_OBJS
    BY SizeAssumption DEF Entries
  <2>2. IsFiniteSet(0..(e - 1)) /\ Cardinality(0..(e - 1)) = e
    <3>1. 0 \in Int /\ e - 1 \in Int /\ (IF 0 > e - 1 THEN 0 ELSE (e - 1) - 0 + 1) = e
      BY <2>1
    <3> QED BY <3>1, FS_Interval
  <2>3. Before(e) \subseteq 0..(e - 1)
    BY <2>1 DEF Entries
  <2>4. IsFiniteSet(Before(e)) /\ Cardinality(Before(e)) <= e
    BY <2>2, <2>3, FS_Subset
  <2>5. Cardinality(Before(e)) \in Nat
    BY <2>4, FS_CardinalityType
  <2> QED BY <2>1, <2>4, <2>5 DEF Slots, Entries
<1>5. \A d, e \in present : d < e => Cardinality(Before(d)) < Cardinality(Before(e))
  <2> SUFFICES ASSUME NEW d \in present, NEW e \in present, d < e
               PROVE  Cardinality(Before(d)) < Cardinality(Before(e))
    OBVIOUS
  <2>1. Before(d) \subseteq Before(e) /\ d \in Before(e) /\ d \notin Before(d)
    BY SizeAssumption DEF Entries
  <2>2. IsFiniteSet(Before(e)) /\ IsFiniteSet(Before(d))
    BY <1>4
  <2>3. Before(d) # Before(e)
    BY <2>1
  <2>4. Cardinality(Before(d)) \in Nat /\ Cardinality(Before(e)) \in Nat
    BY <2>2, FS_CardinalityType
  <2> HIDE DEF Before
  <2>5. Cardinality(Before(d)) <= Cardinality(Before(e)) /\ Cardinality(Before(d)) # Cardinality(Before(e))
    BY <2>1, <2>2, <2>3, FS_Subset
  <2> QED BY <2>4, <2>5
<1>6. \A e \in present : Cardinality(Before(e)) \in Slots /\ pick(Cardinality(Before(e))) = e
  <2> SUFFICES ASSUME NEW e \in present
               PROVE  Cardinality(Before(e)) \in Slots /\ pick(Cardinality(Before(e))) = e
    OBVIOUS
  <2> DEFINE n == Cardinality(Before(e))
  <2>1. n \in Slots /\ e \in Nth(n)
    BY <1>4
  <2>2. pick(n) \in present /\ Cardinality(Before(pick(n))) = Cardinality(Before(e))
    BY <1>3, <2>1
  <2> HIDE DEF pick, n, Nth
  <2>3. ~(pick(n) < e) /\ ~(e < pick(n))
    <3>1. \A d, b \in present : d < b => Cardinality(Before(d)) # Cardinality(Before(b))
      <4>1. \A d \in present : Cardinality(Before(d)) \in Nat
        BY <1>4, FS_CardinalityType
      <4> HIDE DEF Before, present
      <4> QED BY <1>5, <4>1
    <3> QED BY <2>2, <3>1
  <2>4. pick(n) \in Nat /\ e \in Nat
    BY <2>2, SizeAssumption DEF Entries
  <2>5. pick(n) = e
    BY <2>3, <2>4
  <2> QED BY <2>1, <2>5 DEF n
<1>7. \A e \in present : Nth(Cardinality(Before(e))) # {}
  OBVIOUS
<1> HIDE DEF pick, Nth, Before
<1>8. Nobody \in SlotRecord
  BY SizeAssumption, Kinds DEF Nobody, SlotRecord, Entries
<1>9. f \in [Slots -> SlotRecord]
  <2>1. \A n \in Slots : Nth(n) # {} =>
          [graphic |-> t[pick(n)].graphic, scrn |-> r, ptr |-> pick(n)] \in SlotRecord
    BY <1>3 DEF SlotRecord, EntryRecord
  <2> QED BY <1>1, <1>8, <2>1
<1>10. \A n \in Slots : f[n].graphic # NONE =>
        /\ f[n].ptr = pick(n) /\ Nth(n) # {} /\ f[n].graphic = t[pick(n)].graphic /\ f[n].scrn = r
  BY <1>1 DEF Nobody
<1>11. \A n \in Slots : f[n].graphic # NONE => n = Cardinality(Before(f[n].ptr)) /\ f[n].ptr \in present
  BY <1>3, <1>10
<1>12. \A e \in present : \E n \in Slots : f[n].graphic = t[e].graphic /\ f[n].ptr = e
  <2> SUFFICES ASSUME NEW e \in present
               PROVE  \E n \in Slots : f[n].graphic = t[e].graphic /\ f[n].ptr = e
    OBVIOUS
  <2>1. PICK n \in Slots : n = Cardinality(Before(e)) /\ pick(n) = e /\ Nth(n) # {}
    BY <1>6, <1>7
  <2>2. f[n] = [graphic |-> t[pick(n)].graphic, scrn |-> r, ptr |-> pick(n)]
    BY <1>1, <2>1
  <2> QED BY <2>1, <2>2
<1> HIDE DEF f
<1>13. Found(t, r) = f
  BY DEF f
<1>14. \A n \in Slots : f[n].graphic # NONE => t[f[n].ptr].scrn = r
  BY <1>11
<1>15. \A e \in Entries : t[e].graphic # NONE /\ t[e].scrn = r => e \in present
  OBVIOUS
<1> HIDE DEF present
<1> QED BY <1>9, <1>10, <1>11, <1>12, <1>13, <1>14, <1>15

(* update_special_objs: an entry is that of a place which has it, or stays  *)
(* as it is.                                                                *)
LEMMA SavedFacts ==
  ASSUME NEW h, NEW e \in Entries
  PROVE  \/ /\ Saved(h)[e] = tbl[e]
            /\ \A n \in Places : h[n].graphic # NONE => h[n].ptr # e
         \/ \E n \in Places : /\ h[n].graphic # NONE /\ h[n].ptr = e
                              /\ Saved(h)[e] = [graphic |-> h[n].graphic, scrn |-> h[n].scrn]
<1> DEFINE last == CHOOSE n \in LastWith(h, e) : TRUE
<1>1. Saved(h)[e] = IF LastWith(h, e) = {} THEN tbl[e]
                    ELSE [graphic |-> h[last].graphic, scrn |-> h[last].scrn]
  BY DEF Saved
<1>2. CASE LastWith(h, e) = {}
  <2>1. 1 \notin LastWith(h, e) /\ 0 \notin LastWith(h, e)
    BY <1>2
  <2>2. \A n \in Places : h[n].graphic # NONE => h[n].ptr # e
    BY <2>1 DEF LastWith, Places
  <2> QED BY <1>1, <1>2, <2>2
<1>3. CASE LastWith(h, e) # {}
  <2>1. last \in LastWith(h, e)
    BY <1>3
  <2>2. last \in Places /\ h[last].graphic # NONE /\ h[last].ptr = e
    BY <2>1 DEF LastWith
  <2> HIDE DEF last
  <2> QED BY <1>1, <1>3, <2>2
<1> QED BY <1>2, <1>3

(* What a drawing makes of a slot: an object may be overlapped, what is to  *)
(* be emptied is, and nothing is new but the bubbles.                       *)
LEMMA DrawnSlot ==
  ASSUME Good(first, tbl, here, scrn, carried), NEW shown \in Drawings, NEW n \in Slots
  PROVE  /\ shown[n] \in SlotRecord /\ shown[n].graphic # INVALID
         /\ shown[n].graphic \in Looks(first, shown[n].ptr) \cup {NONE}
         /\ shown[n].graphic # NONE => shown[n].scrn \in Rooms
         /\ Real(shown[n]) => Real(here[n]) /\ shown[n].ptr = here[n].ptr /\ shown[n].scrn = here[n].scrn
         /\ Lives(shown[n]) <=> Lives(here[n])
         /\ Falls(shown[n]) <=> Falls(here[n])
         /\ shown[n].graphic \in {EXTRA_LIFE, LIFE_TAKEN} => here[n].graphic = shown[n].graphic
<1>1. PICK overlaps \in SUBSET {m \in Slots : here[m].graphic \in Pickable \cup {EXTRA_LIFE}} :
        shown = [m \in Slots |->
                   IF m \in overlaps THEN [here[m] EXCEPT !.graphic = OVERLAPPED]
                   ELSE IF here[m].graphic = INVALID THEN [here[m] EXCEPT !.graphic = NONE]
                   ELSE Bubbling[m]]
  BY DEF Drawings
<1>2. /\ here \in [Slots -> SlotRecord] /\ here[n] \in SlotRecord /\ here[n].ptr \in Entries
      /\ here[n].graphic \in Looks(first, here[n].ptr) \cup Empty
      /\ here[n].graphic \notin Empty => here[n].scrn \in Rooms
      /\ first \in FirstKinds
  BY DEF Good, Room, SlotRecord
<1>3. CASE n \in overlaps
  <2>1. shown[n] = [here[n] EXCEPT !.graphic = OVERLAPPED] /\ here[n].graphic \in SpecialObject \cup {EXTRA_LIFE}
    BY <1>1, <1>3 DEF Pickable
  <2>2. /\ shown[n].graphic = OVERLAPPED /\ shown[n].ptr = here[n].ptr /\ shown[n].scrn = here[n].scrn
        /\ shown[n] \in SlotRecord
    BY <1>2, <2>1, Kinds DEF SlotRecord
  <2> QED BY <1>2, <2>1, <2>2, LooksFacts, Kinds DEF Real, Lives, Falls, Empty
<1>4. CASE n \notin overlaps /\ here[n].graphic = INVALID
  <2>1. shown[n] = [here[n] EXCEPT !.graphic = NONE]
    BY <1>1, <1>4
  <2>2. shown[n].graphic = NONE /\ shown[n] \in SlotRecord
    BY <1>2, <2>1, Kinds DEF SlotRecord
  <2> QED BY <1>4, <2>2, Kinds DEF Real, Lives, Falls, Empty, NONE, INVALID
<1>5. CASE n \notin overlaps /\ here[n].graphic # INVALID /\ shown[n] = here[n]
  BY <1>2, <1>5 DEF Empty
<1>6. CASE n \notin overlaps /\ here[n].graphic = NONE /\ shown[n] = cauldron_bubbles
  <2>1. /\ cauldron_bubbles.graphic = BUBBLES /\ cauldron_bubbles.ptr = 0
        /\ cauldron_bubbles.scrn \in Rooms /\ BUBBLES \in Bubble
    BY MapAssumption DEF cauldron_bubbles, Bubble
  <2>2. cauldron_bubbles \in SlotRecord
    BY MapAssumption, BubbleLooks, Kinds, <1>2 DEF cauldron_bubbles, SlotRecord, Bubble
  <2> QED BY <1>2, <1>6, <2>1, <2>2, BubbleLooks, Kinds DEF Real, Lives, Falls, Empty
<1>7. n \notin overlaps /\ here[n].graphic # INVALID =>
        shown[n] = here[n] \/ (here[n].graphic = NONE /\ shown[n] = cauldron_bubbles)
  <2>1. Bubbling[n] = here[n] \/ (here[n].graphic = NONE /\ Bubbling[n] = cauldron_bubbles)
    BY <1>2, PlacesAreSlots DEF Bubbling
  <2> QED BY <1>1, <2>1
<1> QED BY <1>3, <1>4, <1>5, <1>6, <1>7

LEMMA DrawKeeps ==
  ASSUME Good(first, tbl, here, scrn, carried), NEW shown \in Drawings
  PROVE  Good(first, tbl, shown, scrn, carried) /\ Drawn(shown)
<1>1. Room(first, shown, scrn) /\ Drawn(shown)
  <2>1. shown \in [Slots -> SlotRecord]
    <3>1. shown = [n \in Slots |-> shown[n]]
      BY DEF Drawings
    <3> QED BY <3>1, DrawnSlot
  <2>2. \A n \in Slots : Real(shown[n]) => shown[n].scrn = scrn
    BY DrawnSlot DEF Good, Room
  <2> QED BY <2>1, <2>2, DrawnSlot DEF Room, Drawn, Empty
<1>2. Apart(tbl, shown, carried)
  BY DrawnSlot DEF Good, Apart
<1>3. InTable(tbl, shown, scrn)
  <2>1. \A n \in Slots : Lives(shown[n]) => Real(shown[n])
    BY Kinds DEF Lives, Real
  <2>2. \A n \in Slots : Falls(shown[n]) => Real(shown[n])
    BY Kinds DEF Falls, Real
  <2>3. \A n \in Slots : shown[n].graphic \in {EXTRA_LIFE, LIFE_TAKEN} => Real(shown[n])
    BY Kinds DEF Real
  <2> QED BY <2>1, <2>2, <2>3, DrawnSlot DEF Good, InTable
<1> QED BY <1>1, <1>2, <1>3 DEF Good

(* A room is built from what was drawn.                                    *)
Built(shown, r) ==
  /\ Good(first, tbl, shown, scrn, carried) /\ Drawn(shown) /\ r \in Rooms
  /\ BuildScreen(shown, r) /\ scrn' = r /\ UNCHANGED <<carried, first>>

LEMMA BuiltTable ==
  ASSUME NEW shown, NEW r, Built(shown, r)
  PROVE  /\ Table(first, tbl')
         /\ \A e \in Entries :
              \/ /\ tbl'[e] = tbl[e]
                 /\ \A n \in Places : shown[n].graphic # NONE => shown[n].ptr # e
              \/ \E n \in Places : /\ shown[n].graphic # NONE /\ shown[n].ptr = e
                                   /\ tbl'[e].graphic = shown[n].graphic /\ tbl'[e].scrn = shown[n].scrn
<1>1. tbl' = Saved(shown)
  BY DEF Built, BuildScreen
<1>2. \A e \in Entries :
        \/ /\ tbl'[e] = tbl[e]
           /\ \A n \in Places : shown[n].graphic # NONE => shown[n].ptr # e
        \/ \E n \in Places : /\ shown[n].graphic # NONE /\ shown[n].ptr = e
                             /\ tbl'[e] = [graphic |-> shown[n].graphic, scrn |-> shown[n].scrn]
  BY <1>1, SavedFacts
<1>3. ASSUME NEW e \in Entries
      PROVE  tbl'[e] \in EntryRecord /\ tbl'[e].graphic \in Looks(first, e) \cup {NONE}
  <2>1. CASE tbl'[e] = tbl[e]
    BY <2>1 DEF Built, Good, Table
  <2>2. CASE \E n \in Places : /\ shown[n].graphic # NONE /\ shown[n].ptr = e
                               /\ tbl'[e] = [graphic |-> shown[n].graphic, scrn |-> shown[n].scrn]
    <3>1. PICK n \in Places : /\ shown[n].graphic # NONE /\ shown[n].ptr = e
                              /\ tbl'[e] = [graphic |-> shown[n].graphic, scrn |-> shown[n].scrn]
      BY <2>2
    <3>2. n \in Slots /\ shown[n].graphic \notin Empty
      BY <3>1, PlacesAreSlots DEF Built, Drawn, Empty
    <3>3. shown[n].graphic \in Looks(first, e) /\ shown[n].scrn \in Rooms /\ first \in FirstKinds
      BY <3>1, <3>2 DEF Built, Good, Room
    <3>4. shown[n].graphic \in Graphics
      BY <3>3, LooksFacts
    <3> QED BY <3>1, <3>3, <3>4 DEF EntryRecord
  <2> QED BY <1>2, <2>1, <2>2
<1>4. tbl' \in [Entries -> EntryRecord]
  BY <1>1, <1>3 DEF Saved
<1>5. Table(first, tbl')
  BY <1>3, <1>4 DEF Table
<1>6. ASSUME NEW e \in Entries, NEW n \in Places,
             tbl'[e] = [graphic |-> shown[n].graphic, scrn |-> shown[n].scrn]
      PROVE  tbl'[e].graphic = shown[n].graphic /\ tbl'[e].scrn = shown[n].scrn
  BY <1>6
<1> QED BY <1>2, <1>5, <1>6

LEMMA BuiltRoom ==
  ASSUME NEW shown, NEW r, Built(shown, r)
  PROVE  /\ here' \in [Slots -> SlotRecord]
         /\ \A n \in Slots : here'[n].graphic # NONE =>
              /\ here'[n].graphic = tbl'[here'[n].ptr].graphic
              /\ here'[n].scrn = r /\ tbl'[here'[n].ptr].scrn = r
         /\ \A n, m \in Slots : here'[n].graphic # NONE /\ here'[m].graphic # NONE
                                 /\ here'[n].ptr = here'[m].ptr => n = m
         /\ \A e \in Entries : tbl'[e].graphic # NONE /\ tbl'[e].scrn = r =>
              \E n \in Slots : here'[n].graphic = tbl'[e].graphic /\ here'[n].ptr = e
<1>1. here' = Found(tbl', r) /\ r \in Rooms
  BY DEF Built, BuildScreen
<1>2. tbl' \in [Entries -> EntryRecord]
  BY BuiltTable DEF Table
<1> QED BY <1>1, <1>2, FoundFacts

(* A slot found in the table is as good as the table.                      *)
LEMMA FoundRoom ==
  ASSUME NEW k \in FirstKinds, NEW r \in Rooms, NEW t, NEW h, Table(k, t),
         h \in [Slots -> SlotRecord],
         \A n \in Slots : h[n].graphic # NONE =>
           /\ h[n].graphic = t[h[n].ptr].graphic
           /\ h[n].scrn = r /\ t[h[n].ptr].scrn = r
  PROVE  Room(k, h, r) /\ InTable(t, h, r) /\ Drawn(h)
<1>1. ASSUME NEW n \in Slots
      PROVE  h[n].ptr \in Entries /\ (h[n].graphic \in Looks(k, h[n].ptr) \/ h[n].graphic = NONE)
  <2>1. h[n].ptr \in Entries
    BY DEF SlotRecord
  <2>2. h[n].graphic # NONE => h[n].graphic \in Looks(k, h[n].ptr)
    BY <2>1 DEF Table
  <2> QED BY <2>1, <2>2
<1>2. \A n \in Slots : h[n].graphic # INVALID
  BY <1>1, LooksFacts DEF Empty, NONE, INVALID
<1>3. Room(k, h, r)
  BY <1>1 DEF Room, Empty, Real
<1>4. InTable(t, h, r)
  BY Kinds DEF InTable, Real, Lives, Falls, Empty
<1> QED BY <1>2, <1>3, <1>4 DEF Drawn

LEMMA BuildStep ==
  ASSUME NEW shown, NEW r, Built(shown, r) PROVE PlaceInv'
<1> USE BuiltTable, BuiltRoom
<1>1. /\ first \in FirstKinds /\ r \in Rooms /\ Hands(first, carried)
      /\ scrn' = r /\ first' = first /\ carried' = carried
  BY DEF Built, Good
<1>2. Room(first, here', r) /\ InTable(tbl', here', r) /\ Drawn(here')
  BY <1>1, FoundRoom
<1>3. ASSUME NEW i \in 1..3, Carries(carried, i) PROVE tbl'[carried[i].ptr].graphic \in NoObject
  <2>1. carried[i].ptr \in Entries
    BY <1>1 DEF Hands, CarriedRecord
  <2>2. CASE tbl'[carried[i].ptr] = tbl[carried[i].ptr]
    BY <1>3, <2>2 DEF Built, Good, Apart
  <2>3. ASSUME NEW n \in Places, shown[n].graphic # NONE, shown[n].ptr = carried[i].ptr,
               tbl'[carried[i].ptr].graphic = shown[n].graphic
        PROVE  tbl'[carried[i].ptr].graphic \in NoObject
    <3>1. n \in Slots /\ ~Real(shown[n])
      BY <1>3, <2>3, PlacesAreSlots DEF Built, Good, Apart
    <3>2. shown[n].graphic \notin Empty
      BY <2>3, <3>1 DEF Built, Drawn, Empty
    <3> QED BY <2>3, <3>1, <3>2 DEF Real, NoObject
  <2> QED BY <2>1, <2>2, <2>3
<1>4. Apart(tbl', here', carried)
  <2>1. \A n \in Slots : Real(here'[n]) => here'[n].graphic # NONE
    BY DEF Real, Empty
  <2>2. \A n \in Slots : Real(here'[n]) => tbl'[here'[n].ptr].graphic \notin NoObject
    BY <2>1 DEF Real, Empty, NoObject
  <2>3. \A i \in 1..3, n \in Slots : Carries(carried, i) /\ Real(here'[n]) => carried[i].ptr # here'[n].ptr
    BY <1>3, <2>2
  <2> QED BY <1>3, <2>1, <2>3 DEF Apart
<1>5. Good(first', tbl', here', scrn', carried')
  BY <1>1, <1>2, <1>4 DEF Good
<1> QED BY <1>2, <1>5 DEF PlaceInv

(* A new game, if it clears the inventory.                                 *)
LEMMA FreshGood ==
  ASSUME NEW k \in FirstKinds, NEW r \in StartRooms, NEW t, t = FreshTable(k),
         NEW h, h = Found(t, r), NEW c, c = <<Nothing, Nothing, Nothing>>
  PROVE  Good(k, t, h, r, c) /\ Drawn(h)
<1>1. r \in Rooms /\ \A e \in Entries : StartScrn[e] \in Rooms
  BY MapAssumption
<1>2. \A e \in Entries : t[e].graphic = KindOf(k, e) /\ t[e].scrn = StartScrn[e] /\ t[e] = [graphic |-> KindOf(k, e), scrn |-> StartScrn[e]]
  BY DEF FreshTable
<1>3. \A e \in Entries : KindOf(k, e) \in Looks(k, e) /\ KindOf(k, e) \in Graphics
  BY LooksFacts
<1>4. Table(k, t)
  <2>1. ASSUME NEW e \in Entries PROVE t[e] \in EntryRecord
    <3>1. t[e] = [graphic |-> KindOf(k, e), scrn |-> StartScrn[e]]
      BY <1>2
    <3>2. KindOf(k, e) \in Graphics /\ StartScrn[e] \in Rooms
      BY <1>1, <1>3
    <3> QED BY <3>1, <3>2 DEF EntryRecord
  <2>2. t \in [Entries -> EntryRecord]
    BY <2>1 DEF FreshTable
  <2> QED BY <1>2, <1>3, <2>2 DEF Table
<1>5. /\ h \in [Slots -> SlotRecord]
      /\ \A n \in Slots : h[n].graphic # NONE =>
           h[n].graphic = t[h[n].ptr].graphic /\ h[n].scrn = r /\ t[h[n].ptr].scrn = r
      /\ \A n, m \in Slots : h[n].graphic # NONE /\ h[m].graphic # NONE /\ h[n].ptr = h[m].ptr => n = m
  BY <1>1, <1>4, FoundFacts DEF Table
<1>6. Room(k, h, r) /\ InTable(t, h, r) /\ Drawn(h)
  <2>1. \A n \in Slots : h[n].graphic # NONE =>
           h[n].graphic = t[h[n].ptr].graphic /\ h[n].scrn = r /\ t[h[n].ptr].scrn = r
    BY <1>5
  <2>2. r \in Rooms /\ h \in [Slots -> SlotRecord]
    BY <1>1, <1>5
  <2> QED BY <1>4, <2>1, <2>2, FoundRoom
<1>7. Hands(k, c) /\ \A i \in 1..3 : ~Carries(c, i)
  <2>1. Nothing \in CarriedRecord /\ Nothing.graphic = NONE
    BY BubbleLooks, SizeAssumption DEF Nothing, CarriedRecord
  <2>2. \A i \in 1..3 : c[i] = Nothing
    OBVIOUS
  <2>3. c \in [1..3 -> CarriedRecord]
    BY <2>1
  <2> QED BY <2>1, <2>2, <2>3 DEF Hands, Carries
<1>8. Apart(t, h, c)
  BY <1>5, <1>7 DEF Apart, Real, Empty
<1> QED BY <1>1, <1>4, <1>6, <1>7, <1>8 DEF Good

LEMMA PlaceInit == Init => PlaceInv
<1> SUFFICES ASSUME Init PROVE PlaceInv
  OBVIOUS
<1>1. /\ first \in FirstKinds /\ scrn \in StartRooms /\ tbl = FreshTable(first)
      /\ here = Found(tbl, scrn) /\ carried = <<Nothing, Nothing, Nothing>>
  BY DEF Init
<1> QED BY <1>1, FreshGood DEF PlaceInv

LEMMA NewGameStep == ASSUME FALSE \notin Clearings, NewGame PROVE PlaceInv'
<1>1. /\ first' \in FirstKinds /\ scrn' \in StartRooms /\ tbl' = FreshTable(first')
      /\ here' = Found(tbl', scrn') /\ carried' = <<Nothing, Nothing, Nothing>>
  BY SizeAssumption DEF NewGame
<1>2. Good(first', tbl', here', scrn', carried') /\ Drawn(here')
  BY <1>1, FreshGood
<1> QED BY <1>2 DEF PlaceInv

(* The turn goes on: after an update it is not the player's.               *)
LEMMA TurnPasses ==
  ASSUME LegsDone \/ \E n \in Slots : SlotDone(n) PROVE turn' # LEGS
<1>1. \A n, slots : LEGS \notin After(n, slots)
  BY SizeAssumption DEF After, Slots, Entries, LEGS, FRAME_END
<1> QED BY <1>1 DEF LegsDone, SlotDone

(* The player's turn without his hands.                                    *)
LEMMA LegsStep ==
  ASSUME PlaceInv, UNCHANGED <<roomVars, carried, scrn, first>>, turn' = turn \/ turn' # LEGS
  PROVE  PlaceInv'
  BY DEF PlaceInv, roomVars

(* His hands: the third thing carried leaves them for a place that held     *)
(* nothing else, at the head of them is what was picked up.                 *)
LEMMA HandsShift ==
  ASSUME NEW k \in FirstKinds, NEW c, Hands(k, c), NEW new \in CarriedRecord,
         new.graphic \in Looks(k, new.ptr) \cup {NONE},
         new.graphic # NONE => \A i \in 1..3 : Carries(c, i) => c[i].ptr # new.ptr
  PROVE  Hands(k, <<new, c[1], c[2]>>)
<1> DEFINE d == <<new, c[1], c[2]>>
<1>1. d[1] = new /\ d[2] = c[1] /\ d[3] = c[2]
  OBVIOUS
<1>2. d \in [1..3 -> CarriedRecord]
  BY DEF Hands
<1> HIDE DEF d
<1>3. \A i \in 1..3 : d[i].graphic \in Looks(k, d[i].ptr) \cup {NONE}
  BY <1>1 DEF Hands
<1>4. \A i, j \in 1..3 : Carries(d, i) /\ Carries(d, j) /\ d[i].ptr = d[j].ptr => i = j
  BY <1>1 DEF Hands, Carries
<1>5. Hands(k, d)
  BY <1>2, <1>3, <1>4 DEF Hands
<1> QED BY <1>5 DEF d

(* What Dropped makes of the third thing carried.                          *)
LEMMA DroppedFacts ==
  ASSUME PlaceInv, carried[3].graphic # NONE, NEW by \in {0, 8}
  PROVE  /\ Dropped(carried[3].graphic + by) \in SlotRecord
         /\ Dropped(carried[3].graphic + by).ptr = carried[3].ptr
         /\ Dropped(carried[3].graphic + by).scrn = scrn
         /\ Dropped(carried[3].graphic + by).graphic \in Looks(first, carried[3].ptr)
         /\ Dropped(carried[3].graphic + by).graphic \in IF by = 0 THEN SpecialObject ELSE Falling
         /\ Dropped(carried[3].graphic + 0) = Dropped(carried[3].graphic)
<1>1. /\ carried[3].graphic \in SpecialObject /\ carried[3].ptr \in Entries
      /\ carried[3].graphic \in Looks(first, carried[3].ptr) /\ first \in FirstKinds /\ scrn \in Rooms
  BY DEF PlaceInv, Good, Hands, CarriedRecord
<1>2. carried[3].graphic + 0 = carried[3].graphic
  BY <1>1 DEF SpecialObject
<1>3. /\ carried[3].graphic + by \in Looks(first, carried[3].ptr)
      /\ carried[3].graphic + by \in IF by = 0 THEN SpecialObject ELSE Falling
  BY <1>1, <1>2, LooksFacts
<1>4. carried[3].graphic + by \in Graphics
  BY <1>1, <1>3, LooksFacts
<1> QED BY <1>1, <1>2, <1>3, <1>4 DEF Dropped, SlotRecord

(* A place that holds nothing real, or whose object is picked up (e leaves  *)
(* the table), gets the third thing carried, or nothing.                    *)
HandMoves(n, gone, new) ==
  /\ \A m \in Slots : Real(here[m]) => (m = n <=> here[m].ptr \in gone)
  /\ tbl' \in [Entries -> EntryRecord]
  /\ \A e \in Entries : IF e \in gone THEN tbl'[e].graphic = NONE ELSE tbl'[e] = tbl[e]
  /\ here' \in [Slots -> SlotRecord] /\ \A m \in Slots \ {n} : here'[m] = here[m]
  /\ \/ here'[n].graphic \in Empty /\ ~Carries(carried, 3)
     \/ /\ Carries(carried, 3) /\ here'[n].ptr = carried[3].ptr /\ here'[n].scrn = scrn
        /\ here'[n].graphic \in Looks(first, carried[3].ptr) \cap (SpecialObject \cup Falling)
  /\ carried' = <<new, carried[1], carried[2]>>
  /\ new.graphic \in Looks(first, new.ptr) \cup {NONE}
  /\ gone = IF new.graphic = NONE THEN {} ELSE {new.ptr}
  /\ new.graphic # NONE =>
       /\ Real(here[n]) /\ new.graphic = here[n].graphic /\ new.ptr = here[n].ptr
       /\ new.graphic \in SpecialObject
  /\ UNCHANGED <<scrn, first>> /\ turn' # LEGS

LEMMA HandStep ==
  ASSUME PlaceInv, NEW n \in Places, NEW gone, NEW new \in CarriedRecord, HandMoves(n, gone, new)
  PROVE  PlaceInv'
<1> USE DEF HandMoves
<1>1. /\ first \in FirstKinds /\ scrn \in Rooms /\ n \in Slots
      /\ Table(first, tbl) /\ Room(first, here, scrn) /\ Hands(first, carried)
      /\ Apart(tbl, here, carried) /\ InTable(tbl, here, scrn)
  BY PlacesAreSlots DEF PlaceInv, Good
<1>2. Table(first, tbl')
  BY <1>1 DEF Table
<1>3. Room(first, here', scrn)
  <2>1. here'[n].graphic \in Looks(first, here'[n].ptr) \cup Empty
    OBVIOUS
  <2>2. here'[n].graphic \notin Empty => here'[n].scrn = scrn
    OBVIOUS
  <2>3. \A m \in Slots : m # n => here'[m] = here[m]
    OBVIOUS
  <2> QED BY <1>1, <2>1, <2>2, <2>3 DEF Room, Real
<1>4. new.graphic # NONE => \A i \in 1..3 : Carries(carried, i) => carried[i].ptr # new.ptr
  BY <1>1 DEF Apart
<1>5. Hands(first, carried')
  BY <1>1, <1>4, HandsShift
<1>6. carried'[1] = new /\ carried'[2] = carried[1] /\ carried'[3] = carried[2]
  OBVIOUS
<1>7. Apart(tbl', here', carried')
  <2>1. \A m, k \in Slots : Real(here'[m]) /\ Real(here'[k]) /\ here'[m].ptr = here'[k].ptr => m = k
    BY <1>1 DEF Apart, Real
  <2>2. \A i \in 1..3, m \in Slots : Carries(carried', i) /\ Real(here'[m]) => carried'[i].ptr # here'[m].ptr
    <3>1. \A m \in Slots : Real(here'[m]) /\ Carries(carried', 1) => here'[m].ptr # new.ptr
      BY <1>1, <1>4, <1>6 DEF Carries, Real
    <3>2. \A m \in Slots : Real(here'[m]) /\ Carries(carried, 1) => here'[m].ptr # carried[1].ptr
      BY <1>1 DEF Apart, Hands, Real, Empty
    <3>3. \A m \in Slots : Real(here'[m]) /\ Carries(carried, 2) => here'[m].ptr # carried[2].ptr
      BY <1>1 DEF Apart, Hands, Real, Empty
    <3> QED BY <1>6, <3>1, <3>2, <3>3 DEF Carries
  <2>3. \A i \in 1..3 : Carries(carried', i) => tbl'[carried'[i].ptr].graphic \in NoObject
    <3>1. \A i \in 1..3 : Carries(carried, i) => tbl'[carried[i].ptr].graphic \in NoObject
      BY <1>1 DEF Apart, NoObject, Hands, CarriedRecord
    <3>2. Carries(carried', 1) => tbl'[new.ptr].graphic \in NoObject
      BY <1>6 DEF Carries, NoObject, CarriedRecord
    <3> QED BY <1>6, <3>1, <3>2 DEF Carries
  <2> QED BY <2>1, <2>2, <2>3 DEF Apart
<1>8. InTable(tbl', here', scrn)
  <2>1. ASSUME NEW m \in Slots \ {n}, Real(here[m]) PROVE tbl'[here[m].ptr] = tbl[here[m].ptr]
    BY <1>1, <2>1 DEF Room, SlotRecord
  <2>2. Real(here'[n]) => ~Lives(tbl'[here'[n].ptr])
    <3> SUFFICES ASSUME Real(here'[n]) PROVE ~Lives(tbl'[here'[n].ptr])
      OBVIOUS
    <3>1. Carries(carried, 3) /\ here'[n].ptr = carried[3].ptr /\ carried[3].ptr \in Entries
      BY <1>1 DEF Real, Hands, CarriedRecord
    <3>2. tbl[carried[3].ptr].graphic \in NoObject
      BY <1>1, <3>1 DEF Apart
    <3>3. tbl'[carried[3].ptr].graphic \in NoObject
      BY <3>1, <3>2 DEF NoObject
    <3> QED BY <3>1, <3>3, Kinds DEF Lives, NoObject, Empty
  <2>3. here'[n].graphic \notin {EXTRA_LIFE, LIFE_TAKEN}
    BY Kinds
  <2>4. \A m \in Slots : \/ Lives(here[m]) \/ Falls(here[m]) \/ here[m].graphic \in {EXTRA_LIFE, LIFE_TAKEN}
                          => Real(here[m])
    BY Kinds DEF Lives, Falls, Real
  <2>5. \A m \in Slots \ {n} : here'[m] = here[m]
    OBVIOUS
  <2> QED BY <1>1, <2>1, <2>2, <2>3, <2>4, <2>5 DEF InTable
<1> QED BY <1>1, <1>2, <1>3, <1>5, <1>7, <1>8 DEF PlaceInv, Good

PickedUp(n) == [graphic |-> here[n].graphic, ptr |-> here[n].ptr]

LEMMA PickUpMoves ==
  ASSUME PlaceInv, NEW n \in Places, PlayerPicksUp(n)
  PROVE  PickedUp(n) \in CarriedRecord /\ HandMoves(n, {here[n].ptr}, PickedUp(n))
<1> DEFINE new == PickedUp(n)
           e == here[n].ptr
<1>1. /\ n \in Slots /\ here[n].graphic \in SpecialObject /\ here[n] \in SlotRecord
      /\ here \in [Slots -> SlotRecord] /\ e \in Entries /\ Real(here[n])
      /\ here[n].graphic \in Looks(first, e) /\ tbl \in [Entries -> EntryRecord]
  BY PlacesAreSlots, Kinds DEF PlayerPicksUp, Pickable, PlaceInv, Good, Room, Table, SlotRecord, Real, Empty
<1>2. /\ new \in CarriedRecord /\ new.graphic = here[n].graphic /\ new.ptr = e
      /\ new.graphic # NONE /\ new.graphic \in SpecialObject
  BY <1>1, Kinds DEF CarriedRecord, PickedUp, Real, Empty
<1>3. carried' = <<new, carried[1], carried[2]>> /\ UNCHANGED <<scrn, first>> /\ turn' # LEGS
  BY TurnPasses DEF PlayerPicksUp, PickedUp, Shifted, gameVars
<1>4. /\ tbl' \in [Entries -> EntryRecord]
      /\ \A d \in Entries : IF d \in {e} THEN tbl'[d].graphic = NONE ELSE tbl'[d] = tbl[d]
  BY <1>1, Kinds DEF PlayerPicksUp, PickUpZaps, EntryRecord
<1>5. \A m \in Slots : Real(here[m]) => (m = n <=> here[m].ptr \in {e})
  BY <1>1 DEF PlaceInv, Good, Apart
<1>6. /\ here' \in [Slots -> SlotRecord] /\ \A m \in Slots \ {n} : here'[m] = here[m]
      /\ \/ here'[n].graphic \in Empty /\ ~Carries(carried, 3)
         \/ /\ Carries(carried, 3) /\ here'[n].ptr = carried[3].ptr /\ here'[n].scrn = scrn
            /\ here'[n].graphic \in Looks(first, carried[3].ptr) \cap (SpecialObject \cup Falling)
  <2>1. CASE carried[3].graphic = NONE
    <3>1. here' = [here EXCEPT ![n] = [here[n] EXCEPT !.graphic = INVALID]]
      BY <2>1 DEF PlayerPicksUp
    <3> QED BY <1>1, <2>1, <3>1 DEF SlotRecord, Empty, Carries
  <2>2. CASE carried[3].graphic # NONE
    <3>1. here' = [here EXCEPT ![n] = Dropped(carried[3].graphic)]
      BY <2>2 DEF PlayerPicksUp
    <3>2. /\ Dropped(carried[3].graphic) \in SlotRecord
          /\ Dropped(carried[3].graphic).ptr = carried[3].ptr
          /\ Dropped(carried[3].graphic).scrn = scrn
          /\ Dropped(carried[3].graphic).graphic \in Looks(first, carried[3].ptr) \cap SpecialObject
      <4>1. 0 \in {0, 8}
        OBVIOUS
      <4> QED BY <2>2, <4>1, DroppedFacts
    <3> QED BY <1>1, <2>2, <3>1, <3>2 DEF Carries
  <2> QED BY <2>1, <2>2
<1> QED BY <1>1, <1>2, <1>3, <1>4, <1>5, <1>6 DEF HandMoves

(* What is dropped leaves the hands for a place that was empty.            *)
LEMMA DropMoves ==
  ASSUME PlaceInv, PlayerShifts \/ PlayerDrops
  PROVE  0 \in Places /\ Nothing \in CarriedRecord /\ HandMoves(0, {}, Nothing)
<1>1. /\ 0 \in Places /\ 0 \in Slots /\ here[0].graphic = NONE
      /\ tbl' = tbl /\ UNCHANGED <<scrn, first>> /\ turn' # LEGS
      /\ carried' = <<Nothing, carried[1], carried[2]>>
  BY PlacesAreSlots, TurnPasses
  DEF PlayerShifts, PlayerDrops, RoomToDrop, Shifted, roomVars, gameVars, Places
<1>2. here \in [Slots -> SlotRecord] /\ tbl \in [Entries -> EntryRecord]
  BY DEF PlaceInv, Good, Room, Table
<1>3. /\ here' \in [Slots -> SlotRecord] /\ \A m \in Slots \ {0} : here'[m] = here[m]
      /\ \/ here'[0].graphic \in Empty /\ ~Carries(carried, 3)
         \/ /\ Carries(carried, 3) /\ here'[0].ptr = carried[3].ptr /\ here'[0].scrn = scrn
            /\ here'[0].graphic \in Looks(first, carried[3].ptr) \cap (SpecialObject \cup Falling)
  <2>1. CASE PlayerShifts
    BY <1>1, <1>2, <2>1 DEF PlayerShifts, roomVars, Empty, Carries
  <2>2. CASE PlayerDrops
    <3>1. PICK by \in {0, 8} : here' = [here EXCEPT ![0] = Dropped(carried[3].graphic + by)]
      BY <2>2 DEF PlayerDrops
    <3>2. carried[3].graphic # NONE
      BY <2>2 DEF PlayerDrops
    <3> DEFINE d == Dropped(carried[3].graphic + by)
    <3>3. /\ d \in SlotRecord /\ d.ptr = carried[3].ptr /\ d.scrn = scrn
          /\ d.graphic \in Looks(first, carried[3].ptr) \cap (SpecialObject \cup Falling)
      BY <3>2, DroppedFacts
    <3> HIDE DEF d
    <3>4. here' = [here EXCEPT ![0] = d]
      BY <3>1 DEF d
    <3> QED BY <1>1, <1>2, <3>2, <3>3, <3>4 DEF Carries
  <2> QED BY <2>1, <2>2
<1>4. Nothing \in CarriedRecord /\ Nothing.graphic = NONE
  BY SizeAssumption, BubbleLooks DEF Nothing, CarriedRecord
<1>5. ~Real(here[0]) /\ \A m \in Slots : Real(here[m]) => m # 0
  BY <1>1 DEF Real, Empty
<1> QED BY <1>1, <1>2, <1>3, <1>4, <1>5 DEF HandMoves

(* An update of a slot changes what is in it, or in others to what is to be *)
(* emptied, and at most takes its own entry out of the table.               *)
Updates(n, g, M) ==
  /\ here[n].graphic \notin Empty
  /\ g = INVALID \/ (g \in Looks(first, here[n].ptr) \ Live /\ (g \in Bubble \/ Real(here[n])))
  /\ M \subseteq Slots \ {n}
  /\ here' = [m \in Slots |-> IF m = n THEN [here[m] EXCEPT !.graphic = g]
                               ELSE IF m \in M THEN [here[m] EXCEPT !.graphic = INVALID]
                               ELSE here[m]]
  /\ tbl' = tbl \/ (tbl' = Zapped(n) /\ Real(here[n]))
  /\ g = LIFE_TAKEN => tbl' = Zapped(n)
  /\ SlotDone(n) /\ UNCHANGED <<carried, scrn, first>>

LEMMA UpdatedSlots ==
  ASSUME PlaceInv, NEW n \in Slots, NEW g, NEW M, Updates(n, g, M)
  PROVE  /\ here' \in [Slots -> SlotRecord] /\ tbl' \in [Entries -> EntryRecord]
         /\ here'[n].graphic = g /\ g \notin Live
         /\ \A m \in Slots : here'[m].ptr = here[m].ptr /\ here'[m].scrn = here[m].scrn
         /\ \A m \in Slots \ {n} : here'[m] = here[m] \/ (m \in M /\ here'[m].graphic = INVALID)
         /\ \A e \in Entries : tbl'[e].graphic \in {tbl[e].graphic, NONE} /\ tbl'[e].scrn = tbl[e].scrn
         /\ \A m \in Slots \ {n} : Real(here[m]) => tbl'[here[m].ptr] = tbl[here[m].ptr]
         /\ tbl' = Zapped(n) => tbl'[here[n].ptr].graphic = NONE
         /\ \A e \in Entries \ {here[n].ptr} : tbl'[e] = tbl[e]
<1>1. /\ here \in [Slots -> SlotRecord] /\ tbl \in [Entries -> EntryRecord] /\ here[n].ptr \in Entries
      /\ first \in FirstKinds
  BY DEF PlaceInv, Good, Room, Table, SlotRecord
<1>2. INVALID \notin Live /\ g \in Graphics \cup {INVALID} /\ g \notin Live
  <2>1. INVALID \notin Live
    BY Kinds DEF Empty
  <2>2. g \in Graphics \cup {INVALID}
    BY <1>1, LooksFacts DEF Updates
  <2> QED BY <2>1, <2>2 DEF Updates
<1>3. ASSUME NEW m \in Slots
      PROVE  /\ here'[m] \in SlotRecord /\ here'[m].ptr = here[m].ptr /\ here'[m].scrn = here[m].scrn
             /\ m = n => here'[m].graphic = g
             /\ m # n => here'[m] = here[m] \/ (m \in M /\ here'[m].graphic = INVALID)
  <2>1. here[m] \in SlotRecord
    BY <1>1
  <2>2. \A a \in Graphics \cup {INVALID} :
          LET s == [here[m] EXCEPT !.graphic = a]
          IN s \in SlotRecord /\ s.graphic = a /\ s.ptr = here[m].ptr /\ s.scrn = here[m].scrn
    BY <2>1 DEF SlotRecord
  <2>3. here'[m] = IF m = n THEN [here[m] EXCEPT !.graphic = g]
                   ELSE IF m \in M THEN [here[m] EXCEPT !.graphic = INVALID] ELSE here[m]
    BY DEF Updates
  <2> QED BY <1>2, <2>1, <2>2, <2>3
<1>4. here' \in [Slots -> SlotRecord]
  BY <1>3 DEF Updates
<1>5. tbl' = Zapped(n) =>
        /\ tbl' \in [Entries -> EntryRecord]
        /\ \A e \in Entries : tbl'[e].graphic \in {tbl[e].graphic, NONE} /\ tbl'[e].scrn = tbl[e].scrn
        /\ \A e \in Entries \ {here[n].ptr} : tbl'[e] = tbl[e]
        /\ tbl'[here[n].ptr].graphic = NONE
  BY <1>1, Kinds DEF Zapped, EntryRecord
<1>6. ASSUME tbl' = Zapped(n), Real(here[n]), NEW m \in Slots \ {n}, Real(here[m])
      PROVE  tbl'[here[m].ptr] = tbl[here[m].ptr]
  <2>1. here[m].ptr # here[n].ptr /\ here[m].ptr \in Entries
    BY <1>1, <1>6 DEF PlaceInv, Good, Apart, SlotRecord
  <2> QED BY <1>5, <1>6, <2>1
<1>7. /\ tbl' \in [Entries -> EntryRecord]
      /\ \A e \in Entries : tbl'[e].graphic \in {tbl[e].graphic, NONE} /\ tbl'[e].scrn = tbl[e].scrn
  BY <1>1, <1>5 DEF Updates
<1>8. \A m \in Slots \ {n} : Real(here[m]) => tbl'[here[m].ptr] = tbl[here[m].ptr]
  BY <1>6 DEF Updates
<1>9. \A e \in Entries \ {here[n].ptr} : tbl'[e] = tbl[e]
  BY <1>5 DEF Updates
<1> QED BY <1>2, <1>3, <1>4, <1>5, <1>7, <1>8, <1>9

LEMMA UpdateStep ==
  ASSUME PlaceInv, NEW n \in Slots, NEW g, NEW M, Updates(n, g, M) PROVE PlaceInv'
<1> USE UpdatedSlots
<1>1. /\ first \in FirstKinds /\ scrn \in Rooms /\ UNCHANGED <<carried, scrn, first>> /\ turn' # LEGS
      /\ Table(first, tbl) /\ Room(first, here, scrn) /\ Hands(first, carried)
      /\ Apart(tbl, here, carried) /\ InTable(tbl, here, scrn)
  BY TurnPasses DEF PlaceInv, Good, Updates
<1>2. \A m \in Slots : Real(here'[m]) => Real(here[m])
  BY DEF Real, Updates, Empty
<1>3. \A m \in Slots : Lives(here'[m]) \/ Falls(here'[m]) \/ here'[m].graphic = EXTRA_LIFE
                        => m # n /\ here'[m] = here[m] /\ Real(here[m])
  BY Kinds DEF Lives, Falls, Real, Empty
<1>4. Table(first, tbl')
  BY <1>1 DEF Table
<1>5. Room(first, here', scrn)
  <2>1. \A m \in Slots : here'[m].graphic \in Looks(first, here'[m].ptr) \cup Empty
    BY <1>1 DEF Room, Updates, Empty
  <2>2. \A m \in Slots : here'[m].graphic \notin Empty => here'[m].scrn \in Rooms
    BY <1>1 DEF Room, Updates, Empty
  <2> QED BY <1>1, <1>2, <2>1, <2>2 DEF Room
<1>6. Apart(tbl', here', carried)
  <2>1. \A i \in 1..3 : Carries(carried, i) => tbl'[carried[i].ptr].graphic \in NoObject
    BY <1>1 DEF Apart, Hands, CarriedRecord, NoObject
  <2> QED BY <1>1, <1>2, <2>1 DEF Apart
<1>7. InTable(tbl', here', scrn)
  <2>1. \A m \in Slots : Real(here'[m]) /\ Lives(tbl'[here'[m].ptr]) => tbl'[here'[m].ptr].scrn = scrn
    <3> SUFFICES ASSUME NEW m \in Slots, Real(here'[m]), Lives(tbl'[here'[m].ptr])
                 PROVE  tbl'[here'[m].ptr].scrn = scrn
      OBVIOUS
    <3>1. Real(here[m]) /\ here'[m].ptr = here[m].ptr /\ here[m].ptr \in Entries
      BY <1>1, <1>2 DEF Room, SlotRecord
    <3>2. tbl'[here[m].ptr].graphic \in {tbl[here[m].ptr].graphic, NONE}
      BY <3>1
    <3>3. Lives(tbl[here[m].ptr])
      BY <3>1, <3>2, Kinds DEF Lives
    <3> QED BY <1>1, <3>1, <3>3 DEF InTable
  <2>2. \A m \in Slots \ Places : Lives(here'[m]) => Lives(tbl'[here'[m].ptr])
    BY <1>1, <1>3 DEF InTable, Lives
  <2>3. \A m \in Slots \ Places : Falls(here'[m]) => Falls(tbl'[here'[m].ptr])
    BY <1>1, <1>3 DEF InTable, Falls
  <2>4. \A m \in Slots : here'[m].graphic = EXTRA_LIFE => tbl'[here'[m].ptr].graphic = EXTRA_LIFE
    BY <1>1, <1>3 DEF InTable
  <2>5. ASSUME NEW m \in Slots, here'[m].graphic = LIFE_TAKEN PROVE ~Lives(tbl'[here'[m].ptr])
    <3>1. CASE m = n
      <4>1. g = LIFE_TAKEN /\ here'[m].ptr = here[n].ptr
        BY <2>5, <3>1
      <4>2. tbl' = Zapped(n)
        BY <4>1 DEF Updates
      <4>3. tbl'[here[n].ptr].graphic = NONE
        BY <4>2
      <4> QED BY <4>1, <4>3, Kinds DEF Lives
    <3>2. CASE m # n
      <4>1. here'[m] = here[m] /\ Real(here[m])
        BY <2>5, <3>2, Kinds DEF Real, Empty
      <4> QED BY <1>1, <2>5, <3>2, <4>1 DEF InTable, Lives
    <3> QED BY <3>1, <3>2
  <2> QED BY <2>1, <2>2, <2>3, <2>4, <2>5 DEF InTable
<1> QED BY <1>1, <1>4, <1>5, <1>6, <1>7 DEF PlaceInv, Good

(* Every update is one, with what its slot becomes.                        *)
NoMore == {LIFE_TAKEN, INVALID, BUBBLES, SPELL}

LEMMA BecomesUpdates ==
  ASSUME PlaceInv, NEW n \in Slots, here[n].graphic \notin Empty, NEW g, Becomes(n, g),
         g = INVALID \/ (g \in Looks(first, here[n].ptr) \ Live /\ (g \in Bubble \/ Real(here[n]))),
         tbl' = tbl \/ (tbl' = Zapped(n) /\ Real(here[n])), g = LIFE_TAKEN => tbl' = Zapped(n),
         SlotDone(n), UNCHANGED <<carried, scrn, first>>
  PROVE  Updates(n, g, {})
<1>1. here \in [Slots -> SlotRecord]
  BY DEF PlaceInv, Good, Room
<1>2. here' = [m \in Slots |-> IF m = n THEN [here[m] EXCEPT !.graphic = g]
                                ELSE IF m \in {} THEN [here[m] EXCEPT !.graphic = INVALID]
                                ELSE here[m]]
  BY <1>1 DEF Becomes
<1> QED BY <1>2 DEF Updates

LEMMA SlotUpdates ==
  ASSUME PlaceInv, NEW n \in Slots
  PROVE  /\ LifeTaken(n) => Updates(n, LIFE_TAKEN, {})
         /\ BubblesUpdate(n) => \E g \in NoMore : Updates(n, g, {})
         /\ SpellUpdate(n) => \E g \in NoMore : Updates(n, g, {})
         /\ ObjectVanishes(n) => Updates(n, INVALID, {})
         /\ ObjectLands(n) => Updates(n, INVALID, {m \in Slots \ {n} : m > 0 /\ Last(n)})
<1>1. /\ here \in [Slots -> SlotRecord] /\ here[n].ptr \in Entries /\ first \in FirstKinds
      /\ here[n].graphic \in Looks(first, here[n].ptr) \cup Empty
  BY DEF PlaceInv, Good, Room, SlotRecord
<1>2. ASSUME LifeTaken(n) PROVE Updates(n, LIFE_TAKEN, {})
  <2>1. here[n].graphic = EXTRA_LIFE /\ here[n].graphic \notin Empty /\ Real(here[n])
    BY <1>2, Kinds DEF LifeTaken, Real
  <2>2. LIFE_TAKEN \in Looks(first, here[n].ptr) \ Live
    BY <1>1, <2>1, LooksFacts, Kinds
  <2> QED BY <1>2, <2>1, <2>2, BecomesUpdates DEF LifeTaken, gameVars
<1>3. ASSUME here[n].graphic \in Bubble
      PROVE  /\ here[n].graphic \notin Empty
             /\ Bubble \subseteq Looks(first, here[n].ptr) \ Live
  <2>1. here[n].graphic \in Looks(first, here[n].ptr)
    BY <1>1, <1>3, Kinds
  <2>2. here[n].ptr = 0
    BY <1>1, <1>3, <2>1, LooksFacts
  <2> QED BY <1>1, <1>3, <2>2, BubbleLooks, Kinds
<1>4. ASSUME BubblesUpdate(n) PROVE \E g \in NoMore : Updates(n, g, {})
  <2>1. PICK g \in {INVALID} \cup Bubble : Becomes(n, g)
    BY <1>4 DEF BubblesUpdate, Bubble
  <2>2. here[n].graphic \in Bubble /\ g \in NoMore
    BY <1>4 DEF BubblesUpdate, Bubble, NoMore
  <2>3. UNCHANGED <<tbl, carried, scrn, first>> /\ SlotDone(n)
    BY <1>4 DEF BubblesUpdate, gameVars
  <2> QED BY <1>3, <2>1, <2>2, <2>3, Kinds, BecomesUpdates DEF Empty
<1>5. ASSUME SpellUpdate(n) PROVE \E g \in NoMore : Updates(n, g, {})
  <2>1. PICK g \in {INVALID} \cup Bubble : Becomes(n, g)
    BY <1>5 DEF SpellUpdate, Bubble
  <2>2. here[n].graphic \in Bubble /\ g \in NoMore
    BY <1>5 DEF SpellUpdate, Bubble, NoMore
  <2>3. UNCHANGED <<tbl, carried, scrn, first>> /\ SlotDone(n)
    BY <1>5 DEF SpellUpdate, gameVars
  <2> QED BY <1>3, <2>1, <2>2, <2>3, Kinds, BecomesUpdates DEF Empty
<1>6. ASSUME ObjectVanishes(n) PROVE Updates(n, INVALID, {})
  <2>1. here[n].graphic \notin Empty /\ Real(here[n])
    BY <1>6, Kinds DEF ObjectVanishes, Real
  <2>2. tbl' = tbl \/ tbl' = Zapped(n)
    BY <1>6 DEF ObjectVanishes
  <2>3. Becomes(n, INVALID) /\ SlotDone(n) /\ UNCHANGED <<carried, scrn, first>>
    BY <1>6 DEF ObjectVanishes, gameVars
  <2> QED BY <2>1, <2>2, <2>3, Kinds, BecomesUpdates DEF Empty
<1>7. ASSUME ObjectLands(n) PROVE Updates(n, INVALID, {m \in Slots \ {n} : m > 0 /\ Last(n)})
  <2> DEFINE M == {m \in Slots \ {n} : m > 0 /\ Last(n)}
  <2>1. here[n].graphic \notin Empty /\ Real(here[n])
    BY <1>7, Kinds DEF ObjectLands, Real
  <2>2. SlotDone(n) /\ UNCHANGED <<carried, scrn, first>> /\ tbl' = Zapped(n)
    BY <1>7 DEF ObjectLands
  <2>3. here' = [m \in Slots |-> IF m = n THEN [here[m] EXCEPT !.graphic = INVALID]
                                  ELSE IF m \in M THEN [here[m] EXCEPT !.graphic = INVALID]
                                  ELSE here[m]]
    BY <1>7 DEF ObjectLands
  <2>4. M \subseteq Slots \ {n}
    OBVIOUS
  <2> HIDE DEF M
  <2>5. Updates(n, INVALID, M)
    BY <2>1, <2>2, <2>3, <2>4 DEF Updates
  <2> QED BY <2>5 DEF M
<1> QED BY <1>2, <1>4, <1>5, <1>6, <1>7

LEMMA PlaceStep ==
  ASSUME FALSE \notin Clearings, PlaceInv, [Next]_vars PROVE PlaceInv'
<1> USE DEF gameVars
<1>1. CASE PlayerGlitters \/ PlayerDies \/ PlayerWalks
  BY <1>1, LegsStep, TurnPasses DEF PlayerGlitters, PlayerDies, PlayerWalks
<1>2. CASE TransformStarts \/ TransformGoesOn \/ TransformEnds
  BY <1>2, LegsStep, TurnPasses DEF TransformStarts, TransformGoesOn, TransformEnds
<1>3. CASE PlayerAppears \/ UNCHANGED vars
  BY <1>3, LegsStep DEF PlayerAppears, vars, roomVars
<1>4. CASE PlayerShifts \/ PlayerDrops
  BY <1>4, DropMoves, HandStep
<1>5. CASE \E n \in Places : PlayerPicksUp(n)
  BY <1>5, PickUpMoves, HandStep
<1>6. CASE PlayerLeaves
  <2>1. Built(here, scrn')
    BY <1>6, MapAssumption DEF PlayerLeaves, PlaceInv, Good, Built
  <2> QED BY <2>1, BuildStep
<1>7. CASE \E n \in Slots : SlotWaits(n)
  BY <1>7, LegsStep, TurnPasses DEF SlotWaits
<1>8. CASE \E n \in Slots : \/ LifeTaken(n) \/ ObjectLands(n) \/ BubblesUpdate(n)
                            \/ SpellUpdate(n) \/ ObjectVanishes(n)
  BY <1>8, SlotUpdates, UpdateStep
<1>9. CASE Dusk \/ Dawn \/ NextFrame
  <2>1. here' \in Drawings /\ UNCHANGED <<tbl, carried, scrn, first>>
    BY <1>9 DEF Dusk, Dawn, NextFrame
  <2>2. PICK shown \in Drawings : shown = here'
    BY <2>1
  <2> QED BY <2>1, <2>2, DrawKeeps DEF PlaceInv
<1>10. CASE LoseLife
  <2>1. PICK shown \in Drawings : BuildScreen(shown, scrn)
    BY <1>10 DEF LoseLife
  <2>2. Built(shown, scrn)
    BY <1>10, <2>1, DrawKeeps DEF LoseLife, PlaceInv, Good, Built
  <2> QED BY <2>2, BuildStep
<1>11. CASE GameOver
  BY <1>11, NewGameStep DEF GameOver
<1> QED
  BY <1>1, <1>2, <1>3, <1>4, <1>5, <1>6, <1>7, <1>8, <1>9, <1>10, <1>11 DEF Next

LEMMA OneAtMost ==
  ASSUME NEW S, \A x, y \in S : x = y PROVE Cardinality(S) \in {0, 1}
<1>1. CASE S = {}
  BY <1>1, FS_EmptySet
<1>2. CASE S # {}
  <2>1. PICK x \in S : S = {x}
    BY <1>2
  <2> QED BY <2>1, FS_Singleton
<1> QED BY <1>1, <1>2

LEMMA Placed == ASSUME FALSE \notin Clearings PROVE Spec => []PlaceInv
<1>1. PlaceInv /\ [Next]_vars => PlaceInv'
  BY PlaceStep
<1> QED BY <1>1, PlaceInit, PTL DEF Spec

(* Who holds an entry, and who shows it.                                   *)
LEMMA HeldAndShown ==
  ASSUME PlaceInv, NEW e \in Entries
  PROVE  /\ \A n \in Shown(e) : n \in Slots /\ Real(here[n]) /\ here[n].ptr = e
         /\ \A i \in Held(e) : i \in 1..3 /\ Carries(carried, i) /\ carried[i].ptr = e
         /\ \A n, m \in Shown(e) : n = m
         /\ \A i, j \in Held(e) : i = j
         /\ Held(e) = {} \/ Shown(e) = {}
         /\ Held(e) # {} => tbl[e].graphic \in NoObject
<1>1. \A n \in Shown(e) : n \in Slots /\ Real(here[n]) /\ here[n].ptr = e
  BY Kinds DEF Shown, Real
<1>2. \A i \in Held(e) : i \in 1..3 /\ Carries(carried, i) /\ carried[i].ptr = e
  BY DEF Held, Carries
<1> QED BY <1>1, <1>2 DEF PlaceInv, Good, Apart, Hands

(* An object is never in two places: not twice in the inventory and on the *)
(* screen, nor carried and in the table.                                   *)
THEOREM ObjectsAreInOnePlace ==
  ASSUME FALSE \notin Clearings PROVE Spec => []OnePlace
<1>1. PlaceInv => OnePlace
  <2> SUFFICES ASSUME PlaceInv, NEW e \in Entries
               PROVE  /\ Cardinality(Held(e)) + Cardinality(Shown(e)) <= 1
                      /\ Held(e) # {} => tbl[e].graphic \notin Live
    BY DEF OnePlace
  <2>1. Cardinality(Held(e)) \in {0, 1} /\ Cardinality(Shown(e)) \in {0, 1}
    BY HeldAndShown, OneAtMost
  <2>2. Cardinality(Held(e)) = 0 \/ Cardinality(Shown(e)) = 0
    BY HeldAndShown, FS_EmptySet
  <2>3. Held(e) # {} => tbl[e].graphic \notin Live
    BY HeldAndShown, Kinds DEF NoObject, Empty
  <2> QED BY <2>1, <2>2, <2>3
<1> QED BY <1>1, Placed, PTL

-----------------------------------------------------------------------------
(* The strengthening of KeysComeBack: at most one object falls, and the     *)
(* table knows none that falls elsewhere; if none falls and the keys are    *)
(* dead, the bubbles have entry 0 and nothing in the room can give it back. *)
OneFalls ==
  /\ \A n, m \in Slots : Falls(here[n]) /\ Falls(here[m]) => n = m
  /\ \A e \in Entries : Falls(tbl[e]) => \E n \in Slots : Falls(here[n]) /\ here[n].ptr = e

NothingFalls == \A n \in Slots : ~Falls(here[n])
Stuck == tbl[0].graphic \in Bubble /\ \A n \in Slots : Real(here[n]) => here[n].ptr # 0

KeysInv ==
  /\ OneFalls
  /\ ~NothingFalls => dropping /\ ~all
  /\ dropping /\ NothingFalls => Stuck

(* Most steps change neither what falls nor the flags.                     *)
SameFalls ==
  /\ \A n \in Slots : Falls(here'[n]) <=> Falls(here[n])
  /\ \A n \in Slots : Falls(here'[n]) => here'[n].ptr = here[n].ptr
  /\ \A e \in Entries : tbl'[e].graphic \in {tbl[e].graphic, NONE}
  /\ UNCHANGED <<dropping, all>>
  /\ Stuck /\ NothingFalls => Stuck'

LEMMA SameFallsStep == KeysInv /\ SameFalls => KeysInv'
<1> SUFFICES ASSUME KeysInv, SameFalls PROVE KeysInv'
  OBVIOUS
<1>1. NothingFalls' <=> NothingFalls
  BY DEF SameFalls, NothingFalls
<1>2. OneFalls'
  <2>1. \A n, m \in Slots : Falls(here'[n]) /\ Falls(here'[m]) => n = m
    BY DEF KeysInv, OneFalls, SameFalls
  <2>2. \A e \in Entries : Falls(tbl'[e]) => Falls(tbl[e])
    BY DEF SameFalls, Falls, Falling, NONE
  <2>3. \A e \in Entries : Falls(tbl'[e]) => \E n \in Slots : Falls(here'[n]) /\ here'[n].ptr = e
    BY <2>2 DEF KeysInv, OneFalls, SameFalls
  <2> QED BY <2>1, <2>3 DEF OneFalls
<1> QED BY <1>1, <1>2 DEF KeysInv, SameFalls

LEMMA QuietFalls == UNCHANGED <<roomVars, dropping, all>> => SameFalls
  BY DEF roomVars, SameFalls, Stuck

(* An update of something that does not fall.                              *)
LEMMA UpdateFalls ==
  ASSUME PlaceInv, NEW n \in Slots, NEW g, Updates(n, g, {}), ~Falls(here[n]),
         UNCHANGED <<dropping, all>>
  PROVE  SameFalls
<1>1. /\ here'[n].graphic = g /\ g \notin Live
      /\ \A m \in Slots : here'[m].ptr = here[m].ptr
      /\ \A m \in Slots \ {n} : here'[m] = here[m]
      /\ \A e \in Entries : tbl'[e].graphic \in {tbl[e].graphic, NONE}
  BY UpdatedSlots
<1>2. \A m \in Slots : Falls(here'[m]) <=> Falls(here[m])
  BY <1>1, Kinds DEF Falls
<1>3. ASSUME Stuck PROVE Stuck'
  <2>1. \A m \in Slots : Real(here'[m]) => Real(here[m])
    BY <1>1 DEF Real, Updates, Empty
  <2>2. tbl' = Zapped(n) /\ Real(here[n]) => tbl'[0] = tbl[0]
    <3>1. here[n].ptr \in Entries /\ tbl \in [Entries -> EntryRecord] /\ 0 \in Entries
      BY BubbleLooks, SizeAssumption DEF PlaceInv, Good, Room, Table, SlotRecord
    <3> QED BY <1>3, <3>1 DEF Stuck, Zapped
  <2> QED BY <1>1, <1>3, <2>1, <2>2 DEF Stuck, Updates
<1> QED BY <1>1, <1>2, <1>3 DEF SameFalls

LEMMA DrawFalls ==
  ASSUME PlaceInv, here' \in Drawings, UNCHANGED <<tbl, dropping, all>> PROVE SameFalls
<1>1. Good(first, tbl, here, scrn, carried)
  BY DEF PlaceInv
<1>2. \A n \in Slots : /\ Falls(here'[n]) <=> Falls(here[n])
                       /\ Real(here'[n]) => Real(here[n]) /\ here'[n].ptr = here[n].ptr
  BY <1>1, DrawnSlot
<1>3. \A n \in Slots : Falls(here'[n]) => Real(here'[n])
  BY Kinds DEF Falls, Real
<1> QED BY <1>2, <1>3 DEF SameFalls, Stuck

(* The last object of the room is taken by the cauldron.                   *)
LEMMA LandFalls == ASSUME PlaceInv, KeysInv, NEW n \in Slots, ObjectLands(n) PROVE KeysInv'
<1>1. Falls(here[n]) /\ dropping' = FALSE
  BY DEF ObjectLands, Lands, Falls
<1>2. PICK M : Updates(n, INVALID, M)
  BY SlotUpdates
<1>3. \A m \in Slots : ~Falls(here'[m])
  <2>1. ~Falls(here'[n])
    BY <1>2, UpdatedSlots, Kinds DEF Falls
  <2>2. ASSUME NEW m \in Slots \ {n} PROVE ~Falls(here'[m])
    <3>1. ~Falls(here[m])
      BY <1>1 DEF KeysInv, OneFalls
    <3>2. here'[m] = here[m] \/ here'[m].graphic = INVALID
      BY <1>2, UpdatedSlots
    <3>3. INVALID \notin Falling
      BY DEF INVALID, Falling
    <3> QED BY <3>1, <3>2, <3>3 DEF Falls
  <2> QED BY <2>1, <2>2
<1>4. \A e \in Entries : ~Falls(tbl'[e])
  <2>1. here[n].ptr \in Entries /\ tbl \in [Entries -> EntryRecord]
    BY DEF PlaceInv, Good, Room, Table, SlotRecord
  <2>2. tbl' = [tbl EXCEPT ![here[n].ptr].graphic = NONE]
    BY DEF ObjectLands, Zapped
  <2>3. \A e \in Entries : Falls(tbl[e]) => e = here[n].ptr
    BY <1>1 DEF KeysInv, OneFalls
  <2>4. tbl'[here[n].ptr].graphic = NONE /\ \A e \in Entries \ {here[n].ptr} : tbl'[e] = tbl[e]
    BY <2>1, <2>2 DEF EntryRecord
  <2>5. NONE \notin Falling
    BY DEF NONE, Falling
  <2> QED BY <2>3, <2>4, <2>5 DEF Falls
<1> QED BY <1>1, <1>3, <1>4 DEF KeysInv, OneFalls, NothingFalls

(* His hands work only while nothing falls, and let at most one go.        *)
LEMMA HandFalls ==
  ASSUME PlaceInv, KeysInv, PlayerShifts \/ PlayerDrops \/ \E n \in Places : PlayerPicksUp(n)
  PROVE  KeysInv'
<1>1. ~dropping /\ ~all /\ all' = all
  BY DEF PlayerShifts, PlayerDrops, PlayerPicksUp, Presses, Deaf, gameVars
<1>2. \A n \in Slots : ~Falls(here[n])
  BY <1>1 DEF KeysInv, NothingFalls
<1>3. \A e \in Entries : ~Falls(tbl[e])
  BY <1>2 DEF KeysInv, OneFalls
<1>4. here \in [Slots -> SlotRecord] /\ tbl \in [Entries -> EntryRecord]
  BY DEF PlaceInv, Good, Room, Table
<1>5. ASSUME \A n \in Slots : ~Falls(here'[n]), \A e \in Entries : ~Falls(tbl'[e]), ~dropping'
      PROVE  KeysInv'
  BY <1>5 DEF KeysInv, OneFalls, NothingFalls
<1>6. CASE PlayerShifts
  BY <1>1, <1>2, <1>3, <1>5, <1>6 DEF PlayerShifts, roomVars
<1>7. ASSUME NEW n \in Places, PlayerPicksUp(n) PROVE KeysInv'
  <2>1. here[n].ptr \in Entries /\ n \in Slots
    BY <1>4, PlacesAreSlots DEF SlotRecord
  <2>2. \A e \in Entries : tbl'[e].graphic \in {tbl[e].graphic, NONE}
    BY <1>4, <1>7, <2>1 DEF PlayerPicksUp, PickUpZaps, EntryRecord
  <2>3. \A e \in Entries : ~Falls(tbl'[e])
    BY <1>3, <2>2 DEF Falls, Falling, NONE
  <2>4. ~Falls(here'[n]) /\ \A m \in Slots \ {n} : here'[m] = here[m]
    <3>1. CASE carried[3].graphic = NONE
      <4>1. here' = [here EXCEPT ![n] = [here[n] EXCEPT !.graphic = INVALID]]
        BY <1>7, <3>1 DEF PlayerPicksUp
      <4> QED BY <1>4, <2>1, <4>1 DEF Falls, Falling, INVALID, SlotRecord
    <3>2. CASE carried[3].graphic # NONE
      <4>1. here' = [here EXCEPT ![n] = Dropped(carried[3].graphic)]
        BY <1>7, <3>2 DEF PlayerPicksUp
      <4>2. Dropped(carried[3].graphic).graphic \in SpecialObject
        <5>1. 0 \in {0, 8}
          OBVIOUS
        <5> QED BY <3>2, <5>1, DroppedFacts
      <4> QED BY <1>4, <2>1, <4>1, <4>2, Kinds DEF Falls
    <3> QED BY <3>1, <3>2
  <2>5. ~dropping'
    BY <1>1, <1>7 DEF PlayerPicksUp
  <2> QED BY <1>2, <1>5, <2>3, <2>4, <2>5
<1>8. CASE PlayerDrops
  <2>1. PICK falls \in {FALSE, scrn = CAULDRON_SCREEN} :
          /\ here' = [here EXCEPT ![0] = Dropped(carried[3].graphic + (IF falls THEN 8 ELSE 0))]
          /\ dropping' = (dropping \/ falls)
    BY <1>8 DEF PlayerDrops
  <2>2. carried[3].graphic # NONE /\ tbl' = tbl
    BY <1>8 DEF PlayerDrops
  <2>3. CASE falls
    <3>1. Dropped(carried[3].graphic + 8).graphic \in Falling
      <4>1. 8 \in {0, 8} /\ 8 # 0
        OBVIOUS
      <4> QED BY <2>2, <4>1, DroppedFacts
    <3>2. Falls(here'[0]) /\ 0 \in Slots /\ \A m \in Slots \ {0} : here'[m] = here[m]
      BY <1>4, <2>1, <2>3, <3>1, PlacesAreSlots DEF Falls
    <3>3. dropping'
      BY <2>1, <2>3
    <3>4. OneFalls'
      BY <1>2, <1>3, <2>2, <3>2 DEF OneFalls
    <3> QED BY <1>1, <3>2, <3>3, <3>4 DEF KeysInv, NothingFalls
  <2>4. CASE ~falls
    <3>1. Dropped(carried[3].graphic + 0).graphic \in SpecialObject
      <4>1. 0 \in {0, 8}
        OBVIOUS
      <4> QED BY <2>2, <4>1, DroppedFacts
    <3>2. ~Falls(here'[0]) /\ \A m \in Slots \ {0} : here'[m] = here[m]
      BY <1>4, <2>1, <2>4, <3>1, PlacesAreSlots, Kinds DEF Falls
    <3>3. ~dropping'
      BY <1>1, <2>1, <2>4
    <3> QED BY <1>2, <1>3, <1>5, <2>2, <3>2, <3>3
  <2> QED BY <2>3, <2>4
<1> QED BY <1>6, <1>7, <1>8

(* A room is built only while nothing falls, or anew where it falls: what   *)
(* falls comes back, unless the bubbles overwrite it.                       *)
LEMMA BuildFalls ==
  ASSUME NEW shown, NEW r, Built(shown, r), KeysInv, UNCHANGED <<dropping, all>>,
         r = scrn \/ ~dropping,
         \A n \in Slots : /\ Falls(shown[n]) <=> Falls(here[n])
                          /\ Real(shown[n]) => Real(here[n]) /\ shown[n].ptr = here[n].ptr
  PROVE  KeysInv'
<1> USE BuiltTable, BuiltRoom
<1>1. \A n \in Slots : Falls(shown[n]) => Real(shown[n]) /\ shown[n].ptr = here[n].ptr /\ shown[n].graphic # NONE
  BY Kinds DEF Falls, Real, Empty
<1>2. \A n, m \in Slots : Falls(shown[n]) /\ Falls(shown[m]) => n = m
  BY DEF KeysInv, OneFalls
<1>3. \A e \in Entries : Falls(tbl[e]) => \E n \in Slots : Falls(shown[n]) /\ shown[n].ptr = e
  BY <1>1 DEF KeysInv, OneFalls
<1>4. \A e \in Entries : Falls(tbl'[e]) => \E n \in Slots : Falls(shown[n]) /\ shown[n].ptr = e
  BY <1>3, PlacesAreSlots DEF Falls
<1>5. \A e \in Entries : Falls(tbl'[e]) => dropping /\ ~all /\ r = scrn
  BY <1>4 DEF KeysInv, NothingFalls
<1>6. \A n \in Slots : Falls(here'[n]) => /\ here'[n].graphic # NONE /\ here'[n].ptr \in Entries
                                          /\ Falls(tbl'[here'[n].ptr])
  BY Kinds DEF Falls, Empty, SlotRecord
<1>7. ASSUME NEW e \in Entries, Falls(tbl'[e]) PROVE tbl'[e].scrn = r
  <2>1. PICK n \in Slots : Falls(shown[n]) /\ shown[n].ptr = e
    BY <1>4, <1>7
  <2>2. Real(shown[n]) /\ shown[n].scrn = scrn /\ r = scrn
    BY <1>1, <1>5, <1>7, <2>1 DEF Built, Good, Room
  <2>3. CASE tbl'[e] = tbl[e]
    BY <1>7, <2>1, <2>2, <2>3, Kinds DEF Built, Good, InTable, Falls, Lives
  <2>4. ASSUME NEW m \in Places, shown[m].ptr = e, tbl'[e].graphic = shown[m].graphic, tbl'[e].scrn = shown[m].scrn
        PROVE  tbl'[e].scrn = r
    <3>1. m \in Slots /\ Falls(shown[m])
      BY <1>7, <2>4, PlacesAreSlots DEF Falls
    <3>2. m = n
      BY <1>2, <2>1, <3>1
    <3> QED BY <2>2, <2>4, <3>2
  <2> QED BY <2>3, <2>4
<1>8. OneFalls'
  <2>1. \A n, m \in Slots : Falls(here'[n]) /\ Falls(here'[m]) => n = m
    <3> SUFFICES ASSUME NEW n \in Slots, NEW m \in Slots, Falls(here'[n]), Falls(here'[m]) PROVE n = m
      OBVIOUS
    <3>1. PICK a \in Slots : Falls(shown[a]) /\ shown[a].ptr = here'[n].ptr
      BY <1>4, <1>6
    <3>2. PICK b \in Slots : Falls(shown[b]) /\ shown[b].ptr = here'[m].ptr
      BY <1>4, <1>6
    <3>3. here'[n].ptr = here'[m].ptr
      BY <1>2, <3>1, <3>2
    <3> QED BY <1>6, <3>3
  <2>2. ASSUME NEW e \in Entries, Falls(tbl'[e]) PROVE \E n \in Slots : Falls(here'[n]) /\ here'[n].ptr = e
    <3>1. tbl'[e].graphic # NONE
      BY <2>2, Kinds DEF Falls, Empty
    <3>2. tbl'[e].scrn = r
      BY <1>7, <2>2
    <3> QED BY <2>2, <3>1, <3>2 DEF Falls
  <2> QED BY <2>1, <2>2 DEF OneFalls
<1>9. ~NothingFalls' => dropping' /\ ~all'
  BY <1>5, <1>6 DEF NothingFalls
<1>10. ASSUME tbl'[0].graphic \in Bubble PROVE Stuck'
  <2>1. \A n \in Slots : Real(here'[n]) => here'[n].graphic = tbl'[here'[n].ptr].graphic
    BY DEF Real, Empty
  <2> QED BY <1>10, <2>1 DEF Stuck, Real
<1>11. ASSUME dropping, NothingFalls' PROVE tbl'[0].graphic \in Bubble
  <2>0. r = scrn /\ 0 \in Entries
    BY <1>11, PlacesAreSlots DEF Slots
  <2>1. ASSUME NEW m \in Places, shown[m].graphic # NONE, ~Real(shown[m]) PROVE shown[m].graphic \in Bubble /\ shown[m].ptr = 0
    <3>1. m \in Slots /\ shown[m].graphic \in Bubble
      BY <2>1, PlacesAreSlots DEF Built, Drawn, Real, Empty
    <3>2. shown[m].graphic \in Looks(first, shown[m].ptr) /\ shown[m].ptr \in Entries /\ first \in FirstKinds
      BY <3>1, Kinds DEF Built, Good, Room, SlotRecord
    <3> QED BY <3>1, <3>2, LooksFacts
  <2>2. CASE ~NothingFalls
    <3>1. PICK n \in Slots : Falls(here[n])
      BY <2>2 DEF NothingFalls
    <3> DEFINE e == shown[n].ptr
    <3>2. Falls(shown[n]) /\ Real(shown[n]) /\ shown[n].graphic # NONE /\ e \in Entries
      BY <1>1, <3>1 DEF Built, Good, Room, SlotRecord
    <3>3. ~Falls(tbl'[e])
      BY <1>8, <1>11, <3>2 DEF OneFalls, NothingFalls
    <3>4. CASE tbl'[e] = tbl[e] /\ \A m \in Places : shown[m].graphic # NONE => shown[m].ptr # e
      <4>1. n \notin Places
        BY <3>2, <3>4
      <4> QED BY <3>2, <3>3, <3>4, <4>1 DEF Built, Good, InTable
    <3>5. ASSUME NEW m \in Places, shown[m].graphic # NONE, shown[m].ptr = e, tbl'[e].graphic = shown[m].graphic
          PROVE  tbl'[0].graphic \in Bubble
      <4>1. m \in Slots /\ m # n
        BY <3>2, <3>3, <3>5, PlacesAreSlots DEF Falls
      <4>2. ~Real(shown[m])
        BY <3>2, <3>5, <4>1 DEF Built, Good, Apart
      <4> QED BY <2>1, <3>5, <4>2
    <3> QED BY <3>2, <3>4, <3>5
  <2>3. CASE NothingFalls
    <3>1. Stuck
      BY <1>11, <2>3 DEF KeysInv
    <3>2. \A m \in Slots : Real(shown[m]) => shown[m].ptr # 0
      BY <3>1 DEF Stuck
    <3>3. ASSUME NEW m \in Places, shown[m].graphic # NONE, shown[m].ptr = 0, tbl'[0].graphic = shown[m].graphic
          PROVE  tbl'[0].graphic \in Bubble
      BY <2>1, <3>2, <3>3, PlacesAreSlots
    <3> QED BY <2>0, <3>1, <3>3 DEF Stuck
  <2> QED BY <2>2, <2>3
<1> QED BY <1>8, <1>9, <1>10, <1>11 DEF KeysInv

LEMMA FreshFalls ==
  ASSUME NEW k \in FirstKinds, NEW r \in StartRooms, NEW t, t = FreshTable(k), NEW h, h = Found(t, r)
  PROVE  (\A e \in Entries : ~Falls(t[e])) /\ (\A n \in Slots : ~Falls(h[n]))
<1>1. \A e \in Entries : t[e].graphic \in 96..103
  <2>1. k \in 0..7 /\ \A e \in Entries : e \in Nat
    BY SizeAssumption DEF Entries
  <2> QED BY <2>1 DEF FreshTable, KindOf
<1>2. \A e \in Entries : ~Falls(t[e])
  BY <1>1 DEF Falls, Falling
<1>3. PICK c : c = <<Nothing, Nothing, Nothing>>
  OBVIOUS
<1>4. t \in [Entries -> EntryRecord] /\ r \in Rooms /\ h \in [Slots -> SlotRecord]
  BY <1>3, FreshGood DEF Good, Table, Room
<1>5. \A n \in Slots : h[n].graphic # NONE => h[n].graphic = t[h[n].ptr].graphic
  BY <1>4, FoundFacts
<1>6. ASSUME NEW n \in Slots PROVE ~Falls(h[n])
  <2>1. h[n].ptr \in Entries
    BY <1>4 DEF SlotRecord
  <2> QED BY <1>2, <1>5, <2>1 DEF Falls, Falling, NONE
<1> QED BY <1>2, <1>6

LEMMA KeysInit == Init => KeysInv
<1> SUFFICES ASSUME Init PROVE KeysInv
  OBVIOUS
<1>1. /\ first \in FirstKinds /\ scrn \in StartRooms /\ tbl = FreshTable(first)
      /\ here = Found(tbl, scrn) /\ dropping = FALSE
  BY DEF Init
<1> QED BY <1>1, FreshFalls DEF KeysInv, OneFalls, NothingFalls

LEMMA KeysStep ==
  ASSUME FALSE \notin Clearings, PlaceInv, KeysInv, [Next]_vars PROVE KeysInv'
<1> USE DEF gameVars
<1>1. CASE PlayerGlitters \/ PlayerDies \/ PlayerWalks \/ TransformStarts \/ TransformGoesOn \/ TransformEnds
  BY <1>1, QuietFalls, SameFallsStep
  DEF PlayerGlitters, PlayerDies, PlayerWalks, TransformStarts, TransformGoesOn, TransformEnds
<1>2. CASE PlayerAppears \/ UNCHANGED vars \/ \E n \in Slots : SlotWaits(n)
  BY <1>2, QuietFalls, SameFallsStep DEF PlayerAppears, SlotWaits, vars
<1>3. CASE PlayerShifts \/ PlayerDrops \/ \E n \in Places : PlayerPicksUp(n)
  BY <1>3, HandFalls
<1>4. CASE PlayerLeaves
  <2>1. Built(here, scrn') /\ ~dropping /\ UNCHANGED <<dropping, all>>
    BY <1>4, MapAssumption DEF PlayerLeaves, PlaceInv, Good, Built, Deaf
  <2> QED BY <2>1, BuildFalls
<1>5. ASSUME NEW n \in Slots, LifeTaken(n) \/ BubblesUpdate(n) \/ SpellUpdate(n) \/ ObjectVanishes(n)
      PROVE  KeysInv'
  <2>1. ~Falls(here[n]) /\ UNCHANGED <<dropping, all>>
    BY <1>5
    DEF LifeTaken, BubblesUpdate, SpellUpdate, ObjectVanishes, Falls, Falling, EXTRA_LIFE, LIFE_TAKEN,
        BUBBLES, SPELL, OVERLAPPED
  <2>2. \E g : Updates(n, g, {})
    BY <1>5, SlotUpdates
  <2> QED BY <2>1, <2>2, UpdateFalls, SameFallsStep
<1>6. ASSUME NEW n \in Slots, ObjectLands(n) PROVE KeysInv'
  BY <1>6, LandFalls
<1>7. CASE Dusk \/ Dawn \/ NextFrame
  <2>1. here' \in Drawings /\ UNCHANGED <<tbl, dropping, all>>
    BY <1>7 DEF Dusk, Dawn, NextFrame
  <2> QED BY <2>1, DrawFalls, SameFallsStep
<1>8. CASE LoseLife
  <2>1. PICK shown \in Drawings : BuildScreen(shown, scrn)
    BY <1>8 DEF LoseLife
  <2>2. Built(shown, scrn) /\ UNCHANGED <<dropping, all>>
    BY <1>8, <2>1, DrawKeeps DEF LoseLife, PlaceInv, Good, Built
  <2>3. \A n \in Slots : /\ Falls(shown[n]) <=> Falls(here[n])
                         /\ Real(shown[n]) => Real(here[n]) /\ shown[n].ptr = here[n].ptr
    BY DrawnSlot DEF PlaceInv
  <2> QED BY <2>2, <2>3, BuildFalls
<1>9. CASE GameOver
  <2>1. /\ first' \in FirstKinds /\ scrn' \in StartRooms /\ tbl' = FreshTable(first')
        /\ here' = Found(tbl', scrn') /\ dropping' = FALSE
    BY <1>9, SizeAssumption DEF GameOver, NewGame
  <2>2. (\A e \in Entries : ~Falls(tbl'[e])) /\ (\A n \in Slots : ~Falls(here'[n]))
    BY <2>1, FreshFalls
  <2> QED BY <2>1, <2>2 DEF KeysInv, OneFalls, NothingFalls
<1> QED
  BY <1>1, <1>2, <1>3, <1>4, <1>5, <1>6, <1>7, <1>8, <1>9 DEF Next

LEMMA Keyed == ASSUME FALSE \notin Clearings PROVE Spec => [](PlaceInv /\ KeysInv)
<1>1. PlaceInv /\ KeysInv /\ [Next]_vars => (PlaceInv /\ KeysInv)'
  BY PlaceStep, KeysStep
<1> QED BY <1>1, PlaceInit, KeysInit, PTL DEF Spec

(* The keys are dead only while an object falls into the cauldron, however  *)
(* the player dies meanwhile, unless the bubbles have overwritten it.       *)
THEOREM KeysDoComeBack ==
  ASSUME FALSE \notin Clearings PROVE Spec => []KeysComeBack
<1>1. KeysInv => KeysComeBack
  BY DEF KeysInv, KeysComeBack, NothingFalls, Stuck, BubblesSaved, Falls
<1> QED BY <1>1, Keyed, PTL

-----------------------------------------------------------------------------
(* The types.  A life is only taken from an entry that holds one, so that   *)
(* the lives and the entries still to be taken are never more than at first;*)
(* objects are only put in while one is wanted.                             *)
LivesLeft == {e \in Entries : tbl[e].graphic = EXTRA_LIFE}

CountInv ==
  /\ lives \in Nat /\ lives + Cardinality(LivesLeft) < NO_LIVES + NUM_OBJS
  /\ required \in Seq(0..6) /\ Len(required) = Len(ObjectsRequired)
  /\ put \in 0..Len(required) /\ (all <=> put = Len(required))
  /\ {wulf, moon, transform, pressed, dropping, all, lit} \subseteq BOOLEAN
  /\ body \in {"appearing", "walking", "changing", "dying"}
  /\ turn \in LEGS..FRAME_END

LEMMA EntriesFinite ==
  ASSUME NEW S \in SUBSET Entries PROVE IsFiniteSet(S) /\ Cardinality(S) \in 0..NUM_OBJS
<1>1. 0 \in Int /\ NUM_OBJS - 1 \in Int /\ (IF 0 > NUM_OBJS - 1 THEN 0 ELSE (NUM_OBJS - 1) - 0 + 1) = NUM_OBJS
  BY SizeAssumption
<1>2. IsFiniteSet(Entries) /\ Cardinality(Entries) = NUM_OBJS
  BY <1>1, FS_Interval DEF Entries
<1>3. IsFiniteSet(S) /\ Cardinality(S) <= NUM_OBJS
  BY <1>2, FS_Subset
<1>4. Cardinality(S) \in Nat
  BY <1>3, FS_CardinalityType
<1> QED BY <1>3, <1>4, SizeAssumption

LEMMA LivesLeftFinite == IsFiniteSet(LivesLeft) /\ Cardinality(LivesLeft) \in 0..NUM_OBJS
  BY EntriesFinite DEF LivesLeft

(* Lives are not made: an entry that holds one after a step held it before. *)
LEMMA FewerLives ==
  ASSUME \A e \in Entries : tbl'[e].graphic = EXTRA_LIFE => tbl[e].graphic = EXTRA_LIFE
  PROVE  Cardinality(LivesLeft') <= Cardinality(LivesLeft) /\ Cardinality(LivesLeft') \in Nat
<1>1. LivesLeft' \subseteq LivesLeft
  BY DEF LivesLeft
<1>2. IsFiniteSet(LivesLeft')
  BY <1>1, LivesLeftFinite, FS_Subset
<1> QED BY <1>1, <1>2, LivesLeftFinite, FS_Subset, FS_CardinalityType

(* The shuffled order is as long as before, and of the same kinds.         *)
LEMMA ShuffleFacts ==
  ASSUME NEW s \in Seq(0..6), Len(s) > 0, NEW q \in Shuffles(s)
  PROVE  q \in Seq(0..6) /\ Len(q) = Len(s)
<1>1. PICK k \in 4..7 : q = Rotated(s, k % Len(s))
  BY DEF Shuffles
<1>2. PICK j \in Nat : j = k % Len(s) /\ j < Len(s)
  OBVIOUS
<1>3. Len(s) \in Nat /\ \A i \in 1..Len(s) : s[i] \in 0..6
  OBVIOUS
<1>4. SubSeq(s, j + 1, Len(s)) \in Seq(0..6) /\ Len(SubSeq(s, j + 1, Len(s))) = Len(s) - j
  <2>1. /\ j + 1 \in Int /\ Len(s) \in Int /\ \A i \in (j + 1)..Len(s) : s[i] \in 0..6
        /\ j + 1 <= Len(s) /\ Len(s) - (j + 1) + 1 = Len(s) - j
    BY <1>2, <1>3
  <2> QED BY <2>1, SubSeqProperties
<1>5. SubSeq(s, 1, j) \in Seq(0..6) /\ Len(SubSeq(s, 1, j)) = j
  <2>1. /\ 1 \in Int /\ j \in Int /\ \A i \in 1..j : s[i] \in 0..6
        /\ (IF 1 <= j THEN j - 1 + 1 ELSE 0) = j
    BY <1>2, <1>3
  <2> QED BY <2>1, SubSeqProperties
<1>6. q = SubSeq(s, j + 1, Len(s)) \o SubSeq(s, 1, j)
  BY <1>1, <1>2 DEF Rotated
<1>7. q \in Seq(0..6) /\ Len(q) = (Len(s) - j) + j
  BY <1>4, <1>5, <1>6, ConcatProperties
<1> QED BY <1>2, <1>3, <1>7

(* The turn is a slot's, the player's or the drawing's.                    *)
LEMMA AfterTurn == \A n, slots : \A t \in After(n, slots) : t \in Slots \cup {FRAME_END}
  BY DEF After

LEMMA TurnType ==
  ASSUME turn \in LEGS..FRAME_END,
         \/ turn' \in {turn, LEGS} \/ LegsDone \/ \E n \in Slots : SlotDone(n)
  PROVE  turn' \in LEGS..FRAME_END
<1>1. Slots \cup {FRAME_END, LEGS} \subseteq LEGS..FRAME_END
  BY SizeAssumption DEF Slots, Entries, LEGS, FRAME_END
<1>2. (LegsDone \/ \E n \in Slots : SlotDone(n)) => turn' \in Slots \cup {FRAME_END}
  BY AfterTurn DEF LegsDone, SlotDone
<1> QED BY <1>1, <1>2

(* A step that takes no life and puts nothing in.                          *)
Uncounted ==
  /\ lives' \in Nat /\ lives' <= lives
  /\ \A e \in Entries : tbl'[e].graphic = EXTRA_LIFE => tbl[e].graphic = EXTRA_LIFE
  /\ UNCHANGED <<required, put, all>>
  /\ {wulf', moon', transform', pressed', dropping', lit'} \subseteq BOOLEAN
  /\ body' \in {"appearing", "walking", "changing", "dying"}
  /\ turn' \in {turn, LEGS} \/ LegsDone \/ \E n \in Slots : SlotDone(n)

LEMMA UncountedStep == CountInv /\ Uncounted => CountInv'
<1> SUFFICES ASSUME CountInv, Uncounted PROVE CountInv'
  OBVIOUS
<1>1. Cardinality(LivesLeft') <= Cardinality(LivesLeft) /\ Cardinality(LivesLeft') \in Nat
  BY FewerLives DEF Uncounted
<1>2. lives' \in Nat /\ lives' + Cardinality(LivesLeft') < NO_LIVES + NUM_OBJS
  <2>1. NO_LIVES + NUM_OBJS \in Nat /\ Cardinality(LivesLeft) \in Nat
    BY SizeAssumption, LivesLeftFinite
  <2> QED BY <1>1, <2>1 DEF CountInv, Uncounted
<1>3. turn' \in LEGS..FRAME_END
  BY TurnType DEF CountInv, Uncounted
<1>4. all' \in BOOLEAN
  BY DEF CountInv, Uncounted
<1>5. {wulf', moon', transform', pressed', dropping', all', lit'} \subseteq BOOLEAN
  BY <1>4 DEF Uncounted
<1> QED BY <1>2, <1>3, <1>5 DEF CountInv, Uncounted

LEMMA FreshCount ==
  ASSUME lives = NO_LIVES - 1
  PROVE  lives \in Nat /\ lives + Cardinality(LivesLeft) < NO_LIVES + NUM_OBJS
<1>1. NO_LIVES \in Nat \ {0} /\ NUM_OBJS \in Nat
  BY SizeAssumption
<1> QED BY <1>1, LivesLeftFinite

LEMMA CountInit == Init => CountInv
<1> SUFFICES ASSUME Init PROVE CountInv
  OBVIOUS
<1>1. lives \in Nat /\ lives + Cardinality(LivesLeft) < NO_LIVES + NUM_OBJS
  BY FreshCount DEF Init
<1>2. required \in Seq(0..6) /\ Len(required) = Len(ObjectsRequired)
  BY SizeAssumption, ShuffleFacts DEF Init
<1>3. put \in 0..Len(required) /\ (all <=> put = Len(required))
  BY <1>2, SizeAssumption DEF Init
<1>4. turn \in LEGS..FRAME_END
  BY SizeAssumption DEF Init, LEGS, FRAME_END
<1>5. /\ {wulf, moon, transform, pressed, dropping, all, lit} \subseteq BOOLEAN
      /\ body \in {"appearing", "walking", "changing", "dying"}
  BY DEF Init
<1> QED BY <1>1, <1>2, <1>3, <1>4, <1>5 DEF CountInv

LEMMA NewGameCount == ASSUME FALSE \notin Clearings, CountInv, NewGame PROVE CountInv'
<1>1. lives' \in Nat /\ lives' + Cardinality(LivesLeft') < NO_LIVES + NUM_OBJS
  <2>1. lives' = NO_LIVES - 1
    BY DEF NewGame
  <2>2. NO_LIVES \in Nat \ {0} /\ NUM_OBJS \in Nat
    BY SizeAssumption
  <2>3. Cardinality(LivesLeft') \in 0..NUM_OBJS
    BY EntriesFinite DEF LivesLeft
  <2> QED BY <2>1, <2>2, <2>3
<1>2. required' \in Seq(0..6) /\ Len(required') = Len(ObjectsRequired)
  BY SizeAssumption, ShuffleFacts DEF NewGame, CountInv
<1>3. all' = FALSE /\ put' = 0 /\ dropping' = FALSE /\ pressed' = FALSE
  BY SizeAssumption DEF NewGame
<1>4. put' \in 0..Len(required') /\ (all' <=> put' = Len(required'))
  BY <1>2, <1>3, SizeAssumption
<1>5. turn' \in LEGS..FRAME_END
  BY SizeAssumption DEF NewGame, LEGS, FRAME_END
<1>6. /\ {wulf', moon', transform', pressed', dropping', all', lit'} \subseteq BOOLEAN
      /\ body' \in {"appearing", "walking", "changing", "dying"}
  BY <1>3 DEF NewGame
<1> QED BY <1>1, <1>2, <1>4, <1>5, <1>6 DEF CountInv

LEMMA LifeTakenCount ==
  ASSUME PlaceInv, CountInv, NEW n \in Slots, LifeTaken(n) PROVE CountInv'
<1>1. /\ here[n].ptr \in Entries /\ tbl \in [Entries -> EntryRecord]
      /\ tbl[here[n].ptr].graphic = EXTRA_LIFE
  BY DEF PlaceInv, Good, Room, Table, InTable, SlotRecord, LifeTaken
<1>2. tbl' = [tbl EXCEPT ![here[n].ptr].graphic = NONE] /\ lives' = lives + 1
  BY DEF LifeTaken, Zapped
<1>3. LivesLeft' = LivesLeft \ {here[n].ptr} /\ here[n].ptr \in LivesLeft
  BY <1>1, <1>2 DEF LivesLeft, EntryRecord, NONE, EXTRA_LIFE
<1>4. Cardinality(LivesLeft') = Cardinality(LivesLeft) - 1
  BY <1>3, LivesLeftFinite, FS_RemoveElement
<1>5. lives' \in Nat /\ lives' + Cardinality(LivesLeft') < NO_LIVES + NUM_OBJS
  <2>1. Cardinality(LivesLeft) \in Nat /\ NO_LIVES + NUM_OBJS \in Nat
    BY LivesLeftFinite, SizeAssumption
  <2> QED BY <1>2, <1>4, <2>1 DEF CountInv
<1>6. turn' \in LEGS..FRAME_END
  BY TurnType DEF LifeTaken, CountInv
<1> QED BY <1>5, <1>6 DEF CountInv, LifeTaken, gameVars

LEMMA LandCount ==
  ASSUME PlaceInv, KeysInv, CountInv, NEW n \in Slots, ObjectLands(n) PROVE CountInv'
<1>1. ~all /\ put \in Nat /\ put < Len(required) /\ required' = required
  BY DEF ObjectLands, KeysInv, NothingFalls, Falls, CountInv
<1>2. put' \in 0..Len(required) /\ (Last(n) <=> put' = Len(required))
  BY <1>1 DEF ObjectLands, Last
<1>3. all' <=> Last(n)
  BY <1>1 DEF ObjectLands
<1>4. lives' = lives /\ UNCHANGED <<wulf, moon, transform, pressed, body>> /\ dropping' = FALSE
  BY DEF ObjectLands, Lands
<1>5. {all', lit'} \subseteq BOOLEAN
  <2>1. all' = (all \/ Last(n)) /\ lit' = (lit \/ Last(n))
    BY DEF ObjectLands
  <2> QED BY <2>1
<1>6. Cardinality(LivesLeft') <= Cardinality(LivesLeft) /\ Cardinality(LivesLeft') \in Nat
  <2>1. PICK M : Updates(n, INVALID, M)
    BY SlotUpdates
  <2>2. \A e \in Entries : tbl'[e].graphic \in {tbl[e].graphic, NONE}
    BY <2>1, UpdatedSlots
  <2>3. \A e \in Entries : tbl'[e].graphic = EXTRA_LIFE => tbl[e].graphic = EXTRA_LIFE
    BY <2>2 DEF NONE, EXTRA_LIFE
  <2> QED BY <2>3, FewerLives
<1>7. lives' \in Nat /\ lives' + Cardinality(LivesLeft') < NO_LIVES + NUM_OBJS
  <2>1. Cardinality(LivesLeft) \in Nat /\ NO_LIVES + NUM_OBJS \in Nat
    BY LivesLeftFinite, SizeAssumption
  <2> QED BY <1>4, <1>6, <2>1 DEF CountInv
<1>8. turn' \in LEGS..FRAME_END
  BY TurnType DEF ObjectLands, CountInv
<1>9. {wulf', moon', transform', pressed', dropping', all', lit'} \subseteq BOOLEAN
  BY <1>4, <1>5 DEF CountInv
<1> QED BY <1>1, <1>2, <1>3, <1>4, <1>7, <1>8, <1>9 DEF CountInv

(* A room is built from lives the table had.                               *)
LEMMA BuildLives ==
  ASSUME NEW shown, NEW r, Built(shown, r)
  PROVE  \A e \in Entries : tbl'[e].graphic = EXTRA_LIFE => tbl[e].graphic = EXTRA_LIFE
<1>1. \A n \in Places : shown[n].graphic = EXTRA_LIFE => tbl[shown[n].ptr].graphic = EXTRA_LIFE
  BY PlacesAreSlots DEF Built, Good, InTable
<1> QED BY <1>1, BuiltTable

LEMMA CountStep ==
  ASSUME FALSE \notin Clearings, PlaceInv, KeysInv, CountInv, [Next]_vars PROVE CountInv'
<1> USE DEF gameVars, roomVars
<1>0. /\ lives \in Nat /\ {wulf, moon, transform, pressed, dropping, all, lit} \subseteq BOOLEAN
      /\ body \in {"appearing", "walking", "changing", "dying"}
  BY DEF CountInv
<1>1. CASE PlayerGlitters \/ PlayerDies \/ PlayerWalks \/ TransformStarts \/ TransformGoesOn \/ TransformEnds
  <2>1. /\ UNCHANGED <<tbl, moon, dropping, lit, lives, required, put, all>> /\ LegsDone
        /\ body' \in {"appearing", "walking", "changing", "dying"}
    BY <1>0, <1>1 DEF PlayerGlitters, PlayerDies, PlayerWalks, TransformStarts, TransformGoesOn, TransformEnds
  <2>2. pressed' \in BOOLEAN
    BY <1>0, <1>1 DEF PlayerGlitters, PlayerDies, PlayerWalks, TransformStarts, TransformGoesOn, TransformEnds
  <2>3. wulf' \in BOOLEAN /\ transform' \in BOOLEAN
    BY <1>0, <1>1 DEF PlayerGlitters, PlayerDies, PlayerWalks, TransformStarts, TransformGoesOn, TransformEnds
  <2>4. {wulf', moon', transform', pressed', dropping', lit'} \subseteq BOOLEAN
    BY <1>0, <2>1, <2>2, <2>3
  <2>5. Uncounted
    BY <1>0, <2>1, <2>4 DEF Uncounted
  <2> QED BY <2>5, UncountedStep
<1>2. CASE PlayerAppears \/ UNCHANGED vars \/ \E n \in Slots : SlotWaits(n)
  <2>1. Uncounted
    BY <1>0, <1>2 DEF PlayerAppears, SlotWaits, vars, Uncounted
  <2> QED BY <2>1, UncountedStep
<1>3. CASE PlayerShifts
  <2>1. Uncounted
    BY <1>0, <1>3 DEF PlayerShifts, Presses, Uncounted
  <2> QED BY <2>1, UncountedStep
<1>4. CASE PlayerDrops
  <2>1. dropping' \in BOOLEAN
    BY <1>4 DEF PlayerDrops
  <2>2. Uncounted
    BY <1>0, <1>4, <2>1 DEF PlayerDrops, Presses, Uncounted
  <2> QED BY <2>2, UncountedStep
<1>5. ASSUME NEW n \in Places, PlayerPicksUp(n) PROVE CountInv'
  <2>1. here[n].ptr \in Entries /\ tbl \in [Entries -> EntryRecord]
    BY PlacesAreSlots DEF PlaceInv, Good, Room, Table, SlotRecord
  <2>2. \A e \in Entries : tbl'[e].graphic = EXTRA_LIFE => tbl[e].graphic = EXTRA_LIFE
    BY <1>5, <2>1 DEF PlayerPicksUp, PickUpZaps, EntryRecord, NONE, EXTRA_LIFE
  <2>3. Uncounted
    BY <1>0, <1>5, <2>2 DEF PlayerPicksUp, Presses, Uncounted
  <2> QED BY <2>3, UncountedStep
<1>6. CASE PlayerLeaves
  <2>1. Built(here, scrn')
    BY <1>6, MapAssumption DEF PlayerLeaves, PlaceInv, Good, Built
  <2>2. /\ UNCHANGED <<wulf, moon, transform, dropping, lives, body, required, put, all>>
        /\ pressed' \in BOOLEAN /\ lit' = FALSE /\ turn' = LEGS
    BY <1>6 DEF PlayerLeaves, BuildScreen
  <2>3. {wulf', moon', transform', pressed', dropping', lit'} \subseteq BOOLEAN
    BY <1>0, <2>2
  <2>4. Uncounted
    BY <1>0, <2>1, <2>2, <2>3, BuildLives DEF Uncounted
  <2> QED BY <2>4, UncountedStep
<1>7. ASSUME NEW n \in Slots, BubblesUpdate(n) \/ SpellUpdate(n) \/ ObjectVanishes(n) PROVE CountInv'
  <2>1. PICK g : Updates(n, g, {})
    BY <1>7, SlotUpdates
  <2>2. \A e \in Entries : tbl'[e].graphic \in {tbl[e].graphic, NONE}
    BY <2>1, UpdatedSlots
  <2>3. \A e \in Entries : tbl'[e].graphic = EXTRA_LIFE => tbl[e].graphic = EXTRA_LIFE
    BY <2>2 DEF NONE, EXTRA_LIFE
  <2>4. Uncounted
    BY <1>0, <1>7, <2>3 DEF BubblesUpdate, SpellUpdate, ObjectVanishes, Uncounted
  <2> QED BY <2>4, UncountedStep
<1>8. CASE \E n \in Slots : LifeTaken(n) \/ ObjectLands(n)
  BY <1>8, LifeTakenCount, LandCount
<1>9. CASE Dusk \/ Dawn \/ NextFrame
  <2>1. /\ UNCHANGED <<tbl, wulf, pressed, dropping, lit, lives, body, required, put, all>>
        /\ moon' \in BOOLEAN /\ transform' \in BOOLEAN /\ turn' = LEGS
    BY <1>0, <1>9 DEF Dusk, Dawn, NextFrame, SunMoves, FrameEnds
  <2>2. {wulf', moon', transform', pressed', dropping', lit'} \subseteq BOOLEAN
    BY <1>0, <2>1
  <2>3. Uncounted
    BY <1>0, <2>1, <2>2 DEF Uncounted
  <2> QED BY <2>3, UncountedStep
<1>10. CASE LoseLife
  <2>1. PICK shown \in Drawings : BuildScreen(shown, scrn)
    BY <1>10 DEF LoseLife
  <2>2. Built(shown, scrn)
    BY <1>10, <2>1, DrawKeeps DEF LoseLife, PlaceInv, Good, Built
  <2>3. lives' \in Nat /\ lives' <= lives
    BY <1>0, <1>10 DEF LoseLife
  <2>4. Uncounted
    BY <1>0, <1>10, <2>1, <2>2, <2>3, BuildLives DEF LoseLife, LoseLife_Shape, BuildScreen, Uncounted
  <2> QED BY <2>4, UncountedStep
<1>11. CASE GameOver
  BY <1>11, NewGameCount DEF GameOver
<1> QED
  BY <1>1, <1>2, <1>3, <1>4, <1>5, <1>6, <1>7, <1>8, <1>9, <1>10, <1>11 DEF Next

LEMMA Counted == ASSUME FALSE \notin Clearings PROVE Spec => [](PlaceInv /\ KeysInv /\ CountInv)
<1>1. PlaceInv /\ KeysInv /\ CountInv /\ [Next]_vars => (PlaceInv /\ KeysInv /\ CountInv)'
  BY PlaceStep, KeysStep, CountStep
<1> QED BY <1>1, PlaceInit, KeysInit, CountInit, PTL DEF Spec

(* Every entry looks like what it may be, wherever it is; the lives are     *)
(* never more than those the game began with and those in its rooms, and no *)
(* more objects are put in than are wanted.                                 *)
THEOREM KnightLoreTypes ==
  ASSUME FALSE \notin Clearings PROVE Spec => []TypeOK
<1>1. PlaceInv /\ CountInv => TypeOK
  <2> SUFFICES ASSUME PlaceInv, CountInv PROVE TypeOK
    OBVIOUS
  <2>1. lives \in 0..(NO_LIVES + NUM_OBJS)
    BY LivesLeftFinite, SizeAssumption DEF CountInv
  <2>2. first \in 0..7
    BY SizeAssumption DEF PlaceInv, Good
  <2>3. /\ tbl \in [Entries -> [graphic : Graphics, scrn : Rooms]]
        /\ here \in [Slots -> [graphic : Graphics \cup {INVALID}, scrn : Rooms \cup {0}, ptr : Entries]]
        /\ carried \in [1..3 -> [graphic : SpecialObject \cup {NONE}, ptr : Entries]]
        /\ scrn \in Rooms
    BY DEF PlaceInv, Good, Table, Room, Hands, EntryRecord, SlotRecord, CarriedRecord
  <2> QED BY <2>1, <2>2, <2>3 DEF CountInv, TypeOK
<1> QED BY <1>1, Counted, PTL


-----------------------------------------------------------------------------
(* Knight Lore keeps what ObjectLife promises: a step maps to an action of *)
(* ObjectLife or to a stutter.  Where an object is follows from what       *)
(* PlaceInv says of the table, the slots and the hands.                    *)
place == [e \in Entries |-> Place(e)]
life == {e \in Entries : KindOf(first, e) = EXTRA_LIFE}

(* An entry is carried, or it is shown or at most in the table.            *)
LEMMA PlaceFacts ==
  ASSUME PlaceInv, NEW e \in Entries
  PROVE  /\ Held(e) # {} => Place(e) = CARRIED
         /\ Held(e) = {} => Place(e) # CARRIED
         /\ Shown(e) # {} => Place(e) = scrn /\ Held(e) = {}
         /\ Held(e) = {} /\ Shown(e) = {} =>
              Place(e) = IF Lives(tbl[e]) THEN tbl[e].scrn ELSE GONE
         /\ scrn \notin {CARRIED, GONE}
<1>1. scrn \in Rooms /\ tbl[e].scrn \in Rooms
  BY DEF PlaceInv, Good, Table, EntryRecord
<1>2. \A r \in Rooms : r \notin {CARRIED, GONE}
  BY MapAssumption DEF CARRIED, GONE
<1>3. Shown(e) # {} => Held(e) = {}
  BY HeldAndShown
<1>4. GONE # CARRIED
  BY DEF GONE, CARRIED
<1> QED BY <1>1, <1>2, <1>3, <1>4 DEF Place, Lives

(* Nothing moves as long as the table, the hands and what lives in the     *)
(* slots stay the same.                                                    *)
LEMMA NothingMoves ==
  ASSUME UNCHANGED <<tbl, carried, scrn, first, lives>>,
         \A n \in Slots : /\ Lives(here'[n]) <=> Lives(here[n])
                          /\ Lives(here[n]) => here'[n].ptr = here[n].ptr
  PROVE  UNCHANGED <<place, scrn, life, lives>>
<1>1. \A e \in Entries : Shown(e)' = Shown(e) /\ Held(e)' = Held(e)
  BY DEF Shown, Held, Lives
<1>2. \A e \in Entries : Place(e)' = Place(e)
  BY <1>1 DEF Place
<1> QED BY <1>2 DEF place, life

(* His hands: what he picks up changes places with what he drops.          *)
LEMMA HandsSwap ==
  ASSUME PlaceInv, NEW n \in Places, NEW gone, NEW new \in CarriedRecord, HandMoves(n, gone, new),
         lives' = lives
  PROVE  \E S, D \in SUBSET Entries : Life!Swap(S, D)
<1> DEFINE third == {e \in Entries : Carries(carried, 3) /\ carried[3].ptr = e}
<1> USE DEF HandMoves
<1>1. /\ n \in Slots /\ first \in FirstKinds /\ here \in [Slots -> SlotRecord]
      /\ Hands(first, carried) /\ carried \in [1..3 -> CarriedRecord]
      /\ here[n].ptr \in Entries /\ here[n].graphic \in Looks(first, here[n].ptr) \cup Empty
  BY PlacesAreSlots DEF PlaceInv, Good, Room, Hands, SlotRecord
<1>2. carried'[1] = new /\ carried'[2] = carried[1] /\ carried'[3] = carried[2]
  OBVIOUS
<1>3. ASSUME NEW e \in gone
      PROVE  /\ e = here[n].ptr /\ Held(e)' # {}
             /\ n \in Shown(e) /\ e \in Entries /\ KindOf(first, e) # EXTRA_LIFE
  <2>1. /\ new.graphic # NONE /\ e = new.ptr /\ e = here[n].ptr
        /\ new.graphic = here[n].graphic /\ here[n].graphic \in SpecialObject
    OBVIOUS
  <2>2. 1 \in Held(e)'
    <3>1. carried'[1].graphic # NONE /\ carried'[1].ptr = e
      BY <1>2, <2>1
    <3> HIDE DEF HandMoves
    <3> QED BY <3>1 DEF Held
  <2>3. n \in Shown(e) /\ e \in Entries
    BY <1>1, <2>1, Kinds DEF Shown
  <2>4. here[n].graphic \in Looks(first, e)
    BY <1>1, <2>1, Kinds
  <2>5. KindOf(first, e) # EXTRA_LIFE
    BY <1>1, <2>1, <2>3, <2>4, LooksFacts
  <2> QED BY <2>1, <2>2, <2>3, <2>5
<1>4. ASSUME NEW e \in third
      PROVE  Held(e) # {} /\ e \notin gone /\ Held(e)' = {} /\ Shown(e)' # {}
  <2>1. Held(e) # {}
    BY DEF Held, Carries
  <2>2. e \notin gone
    BY <1>3, <2>1, HeldAndShown
  <2>3. n \in Shown(e)'
    BY <1>1, Kinds DEF Shown
  <2>4. \A i \in {1, 2} : Carries(carried, i) => carried[i].ptr # e
    BY <1>1 DEF Hands
  <2>5. Held(e)' = {}
    BY <1>2, <2>2, <2>4 DEF Held, Carries
  <2> QED BY <2>1, <2>2, <2>3, <2>5
<1>5. ASSUME NEW e \in Entries \ (gone \cup third)
      PROVE  /\ Held(e)' # {} <=> Held(e) # {}
             /\ Held(e) = {} => Shown(e)' = Shown(e)
             /\ tbl'[e] = tbl[e]
  <2>1. Held(e) = {} => Held(e)' = {}
    <3>1. ~(carried'[1].graphic # NONE /\ carried'[1].ptr = e)
      BY <1>2
    <3> QED BY <1>2, <3>1 DEF Held
  <2>2. Held(e) # {} => Held(e)' # {}
    <3>1. ASSUME NEW i \in Held(e) PROVE i + 1 \in Held(e)'
      <4>1. i \in {1, 2}
        BY <3>1 DEF Held, Carries
      <4>2. carried'[i + 1] = carried[i] /\ i + 1 \in 1..3
        BY <1>2, <4>1
      <4> QED BY <3>1, <4>2 DEF Held
    <3> QED BY <3>1
  <2>3. \A m \in Slots \ {n} : here'[m] = here[m]
    OBVIOUS
  <2>4. n \notin Shown(e)' /\ n \notin Shown(e)
    <3>1. Lives(here[n]) => here[n].ptr \in gone
      BY <1>1, Kinds DEF Lives, Real
    <3>2. Lives(here'[n]) => Carries(carried, 3) /\ here'[n].ptr = carried[3].ptr
      BY Kinds DEF Lives
    <3> QED BY <3>1, <3>2 DEF Shown, Lives
  <2>5. Shown(e)' = Shown(e)
    BY <2>3, <2>4 DEF Shown
  <2> QED BY <2>1, <2>2, <2>5
<1> HIDE DEF HandMoves, third
<1>6. ASSUME NEW e \in Entries
      PROVE  Place(e)' = IF e \in gone THEN CARRIED ELSE IF e \in third THEN scrn ELSE Place(e)
  <2>1. PlaceInv' /\ scrn' = scrn
    BY HandStep DEF HandMoves
  <2>2. CASE e \in gone
    BY <1>3, <2>2 DEF Place
  <2>3. CASE e \in third
    BY <1>4, <2>1, <2>3 DEF Place
  <2>4. CASE e \notin gone \cup third
    BY <1>5, <2>1, <2>4 DEF Place
  <2> QED BY <2>2, <2>3, <2>4
<1>7. gone \subseteq Life!Here \ life
  BY <1>3, PlaceFacts DEF Life!Here, place, life
<1>8. third \subseteq Entries /\ \A e \in third : place[e] = CARRIED
  BY <1>4, PlaceFacts DEF place, third
<1>9. UNCHANGED <<scrn, life, lives>>
  BY DEF HandMoves, life
<1>10. Life!Swap(gone, third)
  BY <1>6, <1>7, <1>8, <1>9 DEF Life!Swap, place, life, Life!Here
<1>11. gone \subseteq Entries
  BY <1>3
<1> QED BY <1>8, <1>10, <1>11

(* An update leaves every object where it is, or takes it from the room.   *)
LEMMA UpdateTakes ==
  ASSUME PlaceInv, NEW n \in Slots, NEW g, NEW M, Updates(n, g, M), NEW e \in Entries
  PROVE  Place(e)' = Place(e) \/ (Place(e) = scrn /\ Place(e)' = GONE)
<1>1. /\ UNCHANGED <<carried, scrn, first>> /\ here[n].ptr \in Entries
      /\ InTable(tbl, here, scrn) /\ Room(first, here, scrn)
  BY DEF Updates, PlaceInv, Good, Room, SlotRecord
<1>2. Held(e)' = Held(e) /\ Shown(e)' \subseteq Shown(e)
  <2>1. \A m \in Slots : Lives(here'[m]) => here'[m] = here[m]
    BY UpdatedSlots, Kinds DEF Lives, Empty
  <2> QED BY <1>1, <2>1 DEF Held, Shown, Lives
<1>3. /\ tbl'[e].scrn = tbl[e].scrn /\ Lives(tbl'[e]) => Lives(tbl[e])
      /\ e # here[n].ptr \/ ~Real(here[n]) => tbl'[e] = tbl[e]
      /\ tbl'[e] = tbl[e] \/ ~Lives(tbl'[e])
  <2>1. tbl'[e].graphic \in {tbl[e].graphic, NONE} /\ tbl'[e].scrn = tbl[e].scrn
    BY UpdatedSlots
  <2>2. e # here[n].ptr \/ ~Real(here[n]) => tbl'[e] = tbl[e]
    <3>1. e # here[n].ptr => tbl'[e] = tbl[e]
      BY UpdatedSlots
    <3> QED BY <3>1 DEF Updates
  <2>3. tbl' = Zapped(n) => tbl'[here[n].ptr].graphic = NONE
    BY UpdatedSlots
  <2>4. tbl'[e] = tbl[e] \/ ~Lives(tbl'[e])
    BY <2>2, <2>3, Kinds DEF Updates, Lives
  <2> QED BY <2>1, <2>2, <2>4, Kinds DEF Lives
<1>4. CASE Held(e) # {} \/ Shown(e)' # {}
  BY <1>1, <1>2, <1>4 DEF Place
<1>5. CASE Held(e) = {} /\ Shown(e)' = {}
  <2>1. Place(e)' = IF Lives(tbl'[e]) THEN tbl'[e].scrn ELSE GONE
    BY <1>2, <1>5 DEF Place, Lives
  <2>2. CASE Shown(e) # {}
    <3>1. PICK m \in Slots : Real(here[m]) /\ here[m].ptr = e
      BY <2>2, HeldAndShown
    <3>2. Lives(tbl[e]) => tbl[e].scrn = scrn
      BY <1>1, <3>1 DEF InTable
    <3> QED BY <1>3, <2>1, <2>2, <3>2, PlaceFacts
  <2>3. CASE Shown(e) = {}
    <3>1. Place(e) = IF Lives(tbl[e]) THEN tbl[e].scrn ELSE GONE
      BY <1>5, <2>3, PlaceFacts
    <3>2. CASE tbl'[e] = tbl[e]
      BY <2>1, <3>1, <3>2
    <3>3. CASE ~Lives(tbl'[e]) /\ e = here[n].ptr /\ Real(here[n])
      <4>1. Lives(tbl[e]) => tbl[e].scrn = scrn
        BY <1>1, <3>3 DEF InTable
      <4> QED BY <2>1, <3>1, <3>3, <4>1
    <3> QED BY <1>3, <3>2, <3>3
  <2> QED BY <2>2, <2>3
<1> QED BY <1>4, <1>5

LEMMA UpdateVanishes ==
  ASSUME PlaceInv, NEW n \in Slots, NEW g, NEW M, Updates(n, g, M), lives' = lives
  PROVE  \E S \in SUBSET Entries : Life!Vanish(S)
<1> DEFINE S == {e \in Entries : Place(e) = scrn /\ Place(e)' = GONE}
<1>1. UNCHANGED <<scrn, life, lives>>
  BY DEF Updates, life
<1>2. \A e \in Entries : Place(e)' = IF e \in S THEN GONE ELSE Place(e)
  BY UpdateTakes
<1>3. Life!Vanish(S)
  BY <1>1, <1>2 DEF Life!Vanish, Life!Here, Life!Moved, life
<1> QED BY <1>3

(* A life that is touched is worth one, and gone.                          *)
LEMMA LifeIsTaken ==
  ASSUME PlaceInv, NEW n \in Slots, LifeTaken(n) PROVE \E o \in Entries : Life!TakeLife(o)
<1>0. PICK o \in Entries : o = here[n].ptr
  BY DEF PlaceInv, Good, Room, SlotRecord
<1>1. /\ first \in FirstKinds /\ o \in Entries /\ Real(here[n])
      /\ here[n].graphic = EXTRA_LIFE /\ EXTRA_LIFE \in Looks(first, o) \cap Live
      /\ tbl' = Zapped(n) /\ lives' = lives + 1
  BY <1>0, Kinds DEF LifeTaken, PlaceInv, Good, Room, SlotRecord, Real
<1>2. Updates(n, LIFE_TAKEN, {})
  BY SlotUpdates
<1>3. n \in Shown(o) /\ o \in life
  BY <1>0, <1>1, LooksFacts DEF Shown, life
<1>4. /\ here'[n].graphic \notin Live /\ \A m \in Slots \ {n} : here'[m] = here[m]
      /\ tbl'[o].graphic = NONE /\ \A e \in Entries \ {o} : tbl'[e] = tbl[e]
  BY <1>0, <1>1, <1>2, UpdatedSlots
<1>5. UNCHANGED <<carried, scrn, first>>
  BY <1>2 DEF Updates
<1>6. Place(o) = scrn /\ Place(o)' = GONE
  <2>1. Held(o)' = {} /\ Shown(o)' = {}
    <3>1. Held(o) = {} /\ \A m \in Shown(o) : m = n
      BY <1>3, HeldAndShown
    <3> QED BY <1>4, <1>5, <3>1 DEF Held, Shown
  <2> QED BY <1>1, <1>3, <1>4, <2>1, PlaceFacts, Kinds DEF Place
<1>7. ASSUME NEW e \in Entries \ {o} PROVE Place(e)' = Place(e)
  <2>1. Held(e)' = Held(e) /\ Shown(e)' = Shown(e)
    BY <1>0, <1>4, <1>5 DEF Held, Shown
  <2> QED BY <1>4, <1>5, <2>1 DEF Place
<1>8. Life!TakeLife(o)
  BY <1>1, <1>3, <1>5, <1>6, <1>7 DEF Life!TakeLife, Life!Here, Life!Moved, life
<1> QED BY <1>1, <1>8

(* A room is built: everything is where it was, but what the bubbles       *)
(* overwrite.                                                              *)
LEMMA BuildKeeps ==
  ASSUME PlaceInv, NEW shown, NEW r, Built(shown, r),
         \A n \in Slots : /\ Lives(shown[n]) <=> Lives(here[n])
                          /\ Lives(shown[n]) => shown[n].ptr = here[n].ptr,
         NEW e \in Entries
  PROVE  \/ Place(e)' = Place(e)
         \/ e = 0 /\ Place(e) # CARRIED /\ Place(e)' = GONE
<1> USE BuiltTable, BuiltRoom
<1>1. /\ UNCHANGED <<carried, first>> /\ scrn' = r /\ Apart(tbl, shown, carried)
      /\ InTable(tbl, shown, scrn) /\ Room(first, shown, scrn) /\ Drawn(shown) /\ first \in FirstKinds
  BY DEF Built, Good
<1>2. Held(e)' = Held(e)
  BY <1>1 DEF Held
<1>3. CASE Held(e) # {}
  BY <1>2, <1>3 DEF Place
<1>4. CASE Held(e) = {}
  <2>1. Place(e)' = IF Lives(tbl'[e]) THEN tbl'[e].scrn ELSE GONE
    <3>1. \A n \in Shown(e)' : Lives(tbl'[e]) /\ tbl'[e].scrn = r
      BY Kinds DEF Shown, Lives, Empty
    <3> QED BY <1>1, <1>2, <1>4, <3>1 DEF Place, Lives
  <2>2. Place(e) # CARRIED
    BY <1>4, PlaceFacts
  <2>3. \A n \in Slots : n \in Shown(e) <=> Lives(shown[n]) /\ shown[n].ptr = e
    BY DEF Shown, Lives
  <2>4. ASSUME tbl'[e] = tbl[e], \A n \in Places : shown[n].graphic # NONE => shown[n].ptr # e
        PROVE  Place(e)' = Place(e)
    <3>1. CASE Shown(e) = {}
      BY <1>4, <2>1, <2>4, <3>1, PlaceFacts
    <3>2. CASE Shown(e) # {}
      <4>1. PICK n \in Slots : Lives(shown[n]) /\ Real(shown[n]) /\ shown[n].ptr = e
        BY <2>3, <3>2, Kinds DEF Shown, Lives, Real
      <4>2. n \notin Places
        BY <2>4, <4>1, Kinds DEF Lives, Empty
      <4>3. Lives(tbl[e]) /\ tbl[e].scrn = scrn
        BY <1>1, <4>1, <4>2 DEF InTable
      <4> QED BY <2>1, <2>4, <3>2, <4>3, PlaceFacts
    <3> QED BY <3>1, <3>2
  <2>5. ASSUME NEW m \in Places, shown[m].graphic # NONE, shown[m].ptr = e,
               tbl'[e].graphic = shown[m].graphic, tbl'[e].scrn = shown[m].scrn
        PROVE  Place(e)' = Place(e) \/ (e = 0 /\ Place(e)' = GONE)
    <3>1. m \in Slots /\ shown[m].graphic \notin Empty /\ shown[m].graphic \in Looks(first, e)
      BY <1>1, <2>5, PlacesAreSlots DEF Drawn, Empty, Room
    <3>2. CASE Lives(shown[m])
      <4>1. m \in Shown(e) /\ Real(shown[m])
        BY <2>3, <2>5, <3>1, <3>2, Kinds DEF Lives, Real
      <4>2. Place(e) = scrn /\ shown[m].scrn = scrn
        BY <1>1, <3>1, <4>1, PlaceFacts DEF Room
      <4> QED BY <2>1, <2>5, <3>2, <4>2 DEF Lives
    <3>3. CASE shown[m].graphic \in Bubble
      BY <1>1, <2>1, <2>5, <3>1, <3>3, LooksFacts, Kinds DEF Lives
    <3>4. CASE shown[m].graphic = LIFE_TAKEN
      <4>1. Real(shown[m]) /\ ~Lives(tbl[e]) /\ ~Lives(tbl'[e])
        BY <1>1, <2>5, <3>1, <3>4, Kinds DEF InTable, Real, Lives
      <4>2. Shown(e) = {}
        <5>1. \A n \in Slots : Lives(shown[n]) => Real(shown[n]) /\ n # m
          BY <3>4, Kinds DEF Lives, Real
        <5> QED BY <1>1, <2>3, <2>5, <3>1, <4>1, <5>1 DEF Apart, Shown
      <4> QED BY <1>4, <2>1, <4>1, <4>2, PlaceFacts
    <3>5. Lives(shown[m]) \/ shown[m].graphic \in Bubble \/ shown[m].graphic = LIFE_TAKEN
      BY <1>1, <3>1, LooksFacts, Kinds DEF Lives
    <3> QED BY <3>2, <3>3, <3>4, <3>5
  <2> QED BY <2>2, <2>4, <2>5
<1> QED BY <1>3, <1>4

LEMMA BuildCrumbles ==
  ASSUME PlaceInv, NEW shown, NEW r, Built(shown, r),
         \A n \in Slots : /\ Lives(shown[n]) <=> Lives(here[n])
                          /\ Lives(shown[n]) => shown[n].ptr = here[n].ptr
  PROVE  Life!Crumbles /\ life' = life /\ r \in Rooms
<1> DEFINE S == {e \in Entries : e = 0 /\ Place(e) # CARRIED /\ Place(e)' = GONE}
<1>1. \A e \in Entries : Place(e)' = IF e \in S THEN GONE ELSE Place(e)
  BY BuildKeeps
<1>2. S \in SUBSET {o \in {0} : place[o] # CARRIED}
  BY DEF place
<1>3. place' = Life!Moved(S, GONE)
  BY <1>1 DEF place, Life!Moved
<1>4. Life!Crumbles
  BY <1>2, <1>3 DEF Life!Crumbles, place
<1> QED BY <1>4 DEF Built, life

(* A new game, and the first.                                              *)
Fresh ==
  /\ first \in FirstKinds /\ scrn \in StartRooms /\ tbl = FreshTable(first)
  /\ here = Found(tbl, scrn) /\ carried = <<Nothing, Nothing, Nothing>> /\ lives = NO_LIVES - 1

LEMMA FreshLife == Fresh => Life!LifeInit
<1> SUFFICES ASSUME Fresh PROVE Life!LifeInit
  OBVIOUS
<1>1. scrn \in Rooms /\ \A e \in Entries : tbl[e].scrn \in Rooms
  BY MapAssumption DEF Fresh, FreshTable
<1>2. \A e \in Entries : Held(e) = {}
  BY DEF Held, Fresh, Nothing
<1>3. \A e \in Entries : Lives(tbl[e])
  <2>1. \A e \in Entries : KindOf(first, e) \in 96..103
    BY SizeAssumption DEF Fresh, KindOf, Entries
  <2> QED BY <2>1 DEF Fresh, FreshTable, Lives, Live, SpecialObject, EXTRA_LIFE
<1>4. \A e \in Entries : Place(e) \in Rooms
  BY <1>1, <1>2, <1>3 DEF Place, Lives
<1>5. lives \in Nat
  BY SizeAssumption DEF Fresh
<1> QED BY <1>1, <1>4, <1>5 DEF Life!LifeInit

LEMMA NewGameLife == ASSUME FALSE \notin Clearings, NewGame PROVE Life!NewGame
<1>1. Fresh'
  BY SizeAssumption DEF NewGame, Fresh
<1>2. Life!LifeInit'
  BY <1>1, FreshLife, PTL
<1> QED BY <1>2 DEF Life!LifeInit, Life!NewGame

LEMMA LifeStep ==
  ASSUME FALSE \notin Clearings, PlaceInv, [Next]_vars PROVE [Life!LifeNext]_(Life!lifeVars)
<1> USE DEF gameVars, roomVars
<1>1. ASSUME UNCHANGED <<place, scrn, life, lives>> PROVE UNCHANGED Life!lifeVars
  BY <1>1 DEF Life!lifeVars, place, life
<1>2. CASE PlayerGlitters \/ PlayerDies \/ PlayerWalks \/ PlayerAppears \/ UNCHANGED vars
  BY <1>1, <1>2, NothingMoves DEF PlayerGlitters, PlayerDies, PlayerWalks, PlayerAppears, vars
<1>3. CASE TransformStarts \/ TransformGoesOn \/ TransformEnds
  BY <1>1, <1>3, NothingMoves DEF TransformStarts, TransformGoesOn, TransformEnds
<1>4. CASE PlayerShifts \/ PlayerDrops
  <2>1. lives' = lives
    BY <1>4 DEF PlayerShifts, PlayerDrops
  <2> QED BY <1>4, <2>1, DropMoves, HandsSwap DEF Life!LifeNext
<1>5. ASSUME NEW n \in Places, PlayerPicksUp(n) PROVE Life!LifeNext
  <2>1. lives' = lives
    BY <1>5 DEF PlayerPicksUp
  <2> QED BY <1>5, <2>1, PickUpMoves, HandsSwap DEF Life!LifeNext
<1>6. CASE PlayerLeaves
  <2>1. Built(here, scrn') /\ lives' = lives
    BY <1>6, MapAssumption DEF PlayerLeaves, PlaceInv, Good, Built
  <2>2. Life!Leave
    BY <2>1, BuildCrumbles DEF Life!Leave, life
  <2> QED BY <2>2 DEF Life!LifeNext
<1>7. CASE \E n \in Slots : SlotWaits(n)
  BY <1>1, <1>7, NothingMoves DEF SlotWaits
<1>8. ASSUME NEW n \in Slots, LifeTaken(n) PROVE Life!LifeNext
  BY <1>8, LifeIsTaken DEF Life!LifeNext
<1>9. ASSUME NEW n \in Slots, ObjectLands(n) \/ BubblesUpdate(n) \/ SpellUpdate(n) \/ ObjectVanishes(n)
      PROVE  Life!LifeNext
  <2>1. lives' = lives
    BY <1>9 DEF ObjectLands, BubblesUpdate, SpellUpdate, ObjectVanishes
  <2>2. \E g, M : Updates(n, g, M)
    BY <1>9, SlotUpdates
  <2> QED BY <2>1, <2>2, UpdateVanishes DEF Life!LifeNext
<1>10. CASE Dusk \/ Dawn \/ NextFrame
  <2>1. here' \in Drawings /\ UNCHANGED <<tbl, carried, scrn, first, lives>>
    BY <1>10 DEF Dusk, Dawn, NextFrame
  <2>2. \A n \in Slots : /\ Lives(here'[n]) <=> Lives(here[n])
                         /\ Lives(here[n]) => here'[n].ptr = here[n].ptr
    BY <2>1, DrawnSlot, Kinds DEF PlaceInv, Lives, Real
  <2> QED BY <1>1, <2>1, <2>2, NothingMoves
<1>11. CASE LoseLife
  <2>1. PICK shown \in Drawings : BuildScreen(shown, scrn)
    BY <1>11 DEF LoseLife
  <2>2. Built(shown, scrn) /\ lives' = lives - 1 /\ scrn' = scrn
    BY <1>11, <2>1, DrawKeeps DEF LoseLife, PlaceInv, Good, Built
  <2>3. \A n \in Slots : /\ Lives(shown[n]) <=> Lives(here[n])
                         /\ Lives(shown[n]) => shown[n].ptr = here[n].ptr
    BY DrawnSlot, Kinds DEF PlaceInv, Lives, Real
  <2>4. Life!Die
    BY <2>2, <2>3, BuildCrumbles DEF Life!Die, life
  <2> QED BY <2>4 DEF Life!LifeNext
<1>12. CASE GameOver
  BY <1>12, NewGameLife DEF GameOver, Life!LifeNext
<1> QED
  BY <1>2, <1>3, <1>4, <1>5, <1>6, <1>7, <1>8, <1>9, <1>10, <1>11, <1>12 DEF Next

(* What becomes of the objects is what ObjectLife promises.                *)
THEOREM ObjectsLive ==
  ASSUME FALSE \notin Clearings PROVE Spec => ImplementsObjectLife
<1>1. Init => Life!LifeInit
  BY FreshLife DEF Init, Fresh
<1>2. PlaceInv /\ [Next]_vars => [Life!LifeNext]_(Life!lifeVars)
  BY LifeStep
<1> QED BY <1>1, <1>2, Placed, PTL DEF Spec, ImplementsObjectLife, Life!LifeSpec
=============================================================================
