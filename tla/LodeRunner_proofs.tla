-------------------------- MODULE LodeRunner_proofs --------------------------
(***************************************************************************)
(* Proofs about the game loop of Lode Runner, for every board, every       *)
(* number of guards and holes and all the times: what is true of every     *)
(* state, and the shapes its steps have.  The gold, the marks and the      *)
(* holes have modules of their own.                                        *)
(***************************************************************************)
EXTENDS LodeRunner, FiniteSetTheorems, TLAPS

(* A finite set in the order of a rank: each place in the order is taken.  *)
Under(S, r, c) == {d \in S : r[d] < r[c]}

LEMMA Ranked ==
  ASSUME NEW S, IsFiniteSet(S), NEW r \in [S -> Int], \A c, d \in S : r[c] = r[d] => c = d,
         NEW n \in 0..(Cardinality(S) - 1)
  PROVE  \E c \in S : Cardinality(Under(S, r, c)) = n
<1> DEFINE Before(c) == Under(S, r, c)
           N == Cardinality(S)
           f == [c \in S |-> Cardinality(Before(c))]
<1>1. N \in Nat
  BY FS_CardinalityType
<1>2. \A c \in S : IsFiniteSet(Before(c)) /\ Cardinality(Before(c)) \in 0..(N - 1)
  <2> SUFFICES ASSUME NEW c \in S
               PROVE  IsFiniteSet(Before(c)) /\ Cardinality(Before(c)) \in 0..(N - 1)
    OBVIOUS
  <2>1. Before(c) \subseteq S /\ c \notin Before(c)
    BY DEF Under
  <2> HIDE DEF Before
  <2>2. IsFiniteSet(Before(c)) /\ Cardinality(Before(c)) <= N /\ Cardinality(Before(c)) # N
    BY <2>1, FS_Subset
  <2>3. Cardinality(Before(c)) \in Nat
    BY <2>2, FS_CardinalityType
  <2> QED BY <1>1, <2>2, <2>3
<1>3. \A c, d \in S : r[c] < r[d] => Cardinality(Before(c)) # Cardinality(Before(d))
  <2> SUFFICES ASSUME NEW c \in S, NEW d \in S, r[c] < r[d]
               PROVE  Cardinality(Before(c)) # Cardinality(Before(d))
    OBVIOUS
  <2>1. Before(c) \subseteq Before(d) /\ c \in Before(d) /\ c \notin Before(c)
    BY DEF Under
  <2> HIDE DEF Before
  <2> QED BY <1>2, <2>1, FS_Subset
<1> HIDE DEF Before
<1>4. \A c, d \in S : f[c] = f[d] => c = d
  <2> SUFFICES ASSUME NEW c \in S, NEW d \in S, f[c] = f[d] PROVE c = d
    OBVIOUS
  <2>1. ~(r[c] < r[d]) /\ ~(r[d] < r[c])
    BY <1>3
  <2> QED BY <2>1
<1>5. f \in Injection(S, 0..(N - 1))
  BY <1>2, <1>4 DEF Injection, IsInjective
<1>6. IsFiniteSet(0..(N - 1)) /\ Cardinality(0..(N - 1)) = N
  <2>1. 0 \in Int /\ N - 1 \in Int /\ (IF 0 > N - 1 THEN 0 ELSE (N - 1) - 0 + 1) = N
    BY <1>1
  <2> QED BY <2>1, FS_Interval
<1> HIDE DEF f, N
<1>7. f \in Surjection(S, 0..(N - 1))
  BY <1>5, <1>6, FS_Injection DEF N
<1>8. PICK c \in S : f[c] = n
  BY <1>7 DEF Surjection, N
<1> QED BY <1>8 DEF f, Before

LEMMA HasHighest ==
  ASSUME NEW S \in SUBSET Int, IsFiniteSet(S), S # {}
  PROVE  Highest(S) \in S /\ \A m \in S : m <= Highest(S)
<1> DEFINE r == [c \in S |-> c]
           N == Cardinality(S)
<1>1. N \in Nat \ {0}
  BY FS_CardinalityType, FS_EmptySet
<1>2. r \in [S -> Int] /\ \A c, d \in S : r[c] = r[d] => c = d
  OBVIOUS
<1>3. N - 1 \in 0..(N - 1)
  BY <1>1
<1> HIDE DEF r
<1>4. PICK c \in S : Cardinality(Under(S, r, c)) = N - 1
  BY <1>2, <1>3, Ranked
<1> DEFINE Before == Under(S, r, c)
<1>5. ASSUME NEW m \in S, m > c PROVE FALSE
  <2>1. Before \subseteq S \ {c, m} /\ c # m
    BY <1>5 DEF r, Under
  <2>2. Before \cup {c} \subseteq S /\ c \notin Before /\ m \notin Before \cup {c}
    BY <2>1
  <2> HIDE DEF Before
  <2>3. IsFiniteSet(Before) /\ Cardinality(Before) = N - 1
    BY <1>4, <2>1, FS_Subset DEF Before
  <2>4. Cardinality(Before \cup {c}) = Cardinality(Before) + 1
    BY <2>2, <2>3, FS_AddElement
  <2>5. Cardinality(Before \cup {c}) = N
    BY <1>1, <2>3, <2>4
  <2> QED BY <2>2, <2>5, FS_Subset
<1>6. \A m \in S : m <= c
  BY <1>5
<1> QED BY <1>6 DEF Highest

LEMMA HasLowest ==
  ASSUME NEW S \in SUBSET Int, IsFiniteSet(S), S # {}
  PROVE  Lowest(S) \in S /\ \A m \in S : Lowest(S) <= m
<1> DEFINE r == [c \in S |-> c]
           N == Cardinality(S)
<1>1. N \in Nat \ {0}
  BY FS_CardinalityType, FS_EmptySet
<1>2. r \in [S -> Int] /\ \A c, d \in S : r[c] = r[d] => c = d
  OBVIOUS
<1>3. 0 \in 0..(N - 1)
  BY <1>1
<1> HIDE DEF r
<1>4. PICK c \in S : Cardinality(Under(S, r, c)) = 0
  BY <1>2, <1>3, Ranked
<1>5. Under(S, r, c) \subseteq S
  BY DEF Under
<1>6. Under(S, r, c) = {}
  <2>1. IsFiniteSet(Under(S, r, c))
    BY <1>5, FS_Subset
  <2> QED BY <1>4, <2>1, FS_EmptySet
<1>7. \A m \in S : ~(m < c)
  BY <1>6 DEF Under, r
<1>8. \A m \in S : c <= m
  BY <1>7
<1> QED BY <1>8 DEF Lowest

(* The cells, and their order.                                             *)
LEMMA CellsFinite == IsFiniteSet(Cells) /\ \A S \in SUBSET Cells : IsFiniteSet(S)
<1>1. IsFiniteSet(0..LastRow) /\ IsFiniteSet(0..LastCol)
  BY BoardAssumption, FS_Interval
<1> QED BY <1>1, FS_Product, FS_Subset DEF Cells

LEMMA CellFacts ==
  ASSUME NEW c \in Cells
  PROVE  c[1] \in 0..LastRow /\ c[2] \in 0..LastCol /\ c = <<c[1], c[2]>>
  BY DEF Cells

LEMMA Rows ==
  ASSUME NEW a \in Nat, NEW b \in Nat, NEW w \in Nat, NEW x \in 0..(w - 1), NEW y \in 0..(w - 1),
         a * w + x = b * w + y
  PROVE  a = b /\ x = y
<1>1. \A i, j \in Nat : i < j => i * w + w <= j * w
  <2> SUFFICES ASSUME NEW i \in Nat, NEW j \in Nat, i < j PROVE i * w + w <= j * w
    OBVIOUS
  <2>1. PICK k \in Nat : j = i + 1 + k
    <3>1. j - i - 1 \in Nat /\ j = i + 1 + (j - i - 1)
      OBVIOUS
    <3> QED BY <3>1
  <2>2. (i + 1 + k) * w = i * w + w + k * w /\ k * w >= 0
    OBVIOUS
  <2>3. i * w \in Nat
    OBVIOUS
  <2> QED BY <2>1, <2>2, <2>3
<1>2. a * w \in Nat /\ b * w \in Nat
  OBVIOUS
<1>3. ~(a < b) /\ ~(b < a)
  BY <1>1, <1>2
<1> QED BY <1>3

LEMMA ScannedOnce == \A c, d \in Cells : Scanned(c) \in Int /\ (Scanned(c) = Scanned(d) => c = d)
<1> SUFFICES ASSUME NEW c \in Cells, NEW d \in Cells
             PROVE  Scanned(c) \in Int /\ (Scanned(c) = Scanned(d) => c = d)
  OBVIOUS
<1> DEFINE a == LastRow - c[1]  b == LastRow - d[1]  w == LastCol + 1
           x == LastCol - c[2]  y == LastCol - d[2]
<1>1. a \in Nat /\ b \in Nat /\ w \in Nat /\ x \in 0..(w - 1) /\ y \in 0..(w - 1)
  BY BoardAssumption, CellFacts
<1>2. Scanned(c) = a * w + x /\ Scanned(d) = b * w + y
  BY DEF Scanned
<1>3. a = b /\ x = y => c = d
  BY BoardAssumption, CellFacts
<1> HIDE DEF a, b, w, x, y
<1>4. a * w + x \in Int
  BY <1>1
<1> QED BY <1>1, <1>2, <1>3, <1>4, Rows

LEMMA RankedOnce == \A c, d \in Cells : Rank(c) \in Int /\ (Rank(c) = Rank(d) => c = d)
<1> SUFFICES ASSUME NEW c \in Cells, NEW d \in Cells
             PROVE  Rank(c) \in Int /\ (Rank(c) = Rank(d) => c = d)
  OBVIOUS
<1> DEFINE w == LastCol + 1
<1>1. c[1] \in Nat /\ d[1] \in Nat /\ w \in Nat /\ c[2] \in 0..(w - 1) /\ d[2] \in 0..(w - 1)
  BY BoardAssumption, CellFacts
<1>2. Rank(c) = c[1] * w + c[2] /\ Rank(d) = d[1] * w + d[2]
  BY DEF Rank
<1> HIDE DEF w
<1>3. c[1] * w + c[2] \in Int
  BY <1>1
<1> QED BY <1>1, <1>2, <1>3, Rows, CellFacts

LEMMA NthFacts ==
  ASSUME NEW S \in SUBSET Cells
  PROVE  /\ Cardinality(S) \in Nat
         /\ \A n \in 1..Cardinality(S) : Nth(S, n) \in S
         /\ \A n, m \in 1..Cardinality(S) : Nth(S, n) = Nth(S, m) => n = m
<1> DEFINE N == Cardinality(S)
           r == [c \in S |-> Scanned(c)]
           P(n, c) == Cardinality({d \in S : Scanned(d) < Scanned(c)}) = n - 1
<1>1. IsFiniteSet(S) /\ N \in Nat
  BY CellsFinite, FS_CardinalityType
<1>2. r \in [S -> Int] /\ \A c, d \in S : r[c] = r[d] => c = d
  BY ScannedOnce
<1>3. \A n \in 1..N : \E c \in S : P(n, c)
  <2> SUFFICES ASSUME NEW n \in 1..N PROVE \E c \in S : P(n, c)
    OBVIOUS
  <2>1. n - 1 \in 0..(N - 1)
    BY <1>1
  <2> HIDE DEF r, N
  <2>2. PICK c \in S : Cardinality(Under(S, r, c)) = n - 1
    BY <1>1, <1>2, <2>1, Ranked DEF N
  <2>3. Under(S, r, c) = {d \in S : Scanned(d) < Scanned(c)}
    BY DEF r, Under
  <2> QED BY <2>2, <2>3
<1> HIDE DEF P
<1>4. \A n : Nth(S, n) = CHOOSE c \in S : P(n, c)
  BY DEF Nth, P
<1>5. \A n \in 1..N : Nth(S, n) \in S /\ P(n, Nth(S, n))
  BY <1>3, <1>4
<1>6. \A n, m \in 1..N : Nth(S, n) = Nth(S, m) => n = m
  <2>1. \A c : \A n, m \in 1..N : P(n, c) /\ P(m, c) => n = m
    BY <1>1 DEF P
  <2> QED BY <1>5, <2>1
<1> QED BY <1>1, <1>5, <1>6

LEMMA FirstFreeFacts ==
  ASSUME NEW map, FreeCells(map) # {}
  PROVE  FirstFree(map) \in Cells /\ map[FirstFree(map)] = "SPACE"
<1> DEFINE S == FreeCells(map)
           r == [c \in S |-> Rank(c)]
<1>1. S \subseteq Cells /\ \A c \in S : map[c] = "SPACE"
  BY DEF FreeCells
<1>2. IsFiniteSet(S) /\ Cardinality(S) \in Nat \ {0}
  BY <1>1, CellsFinite, FS_CardinalityType, FS_EmptySet
<1>3. r \in [S -> Int] /\ \A c, d \in S : r[c] = r[d] => c = d
  BY <1>1, RankedOnce
<1>4. 0 \in 0..(Cardinality(S) - 1)
  BY <1>2
<1>5. PICK c \in S : Cardinality(Under(S, r, c)) = 0
  <2> HIDE DEF r, S
  <2> QED BY <1>2, <1>3, <1>4, Ranked
<1>6. Under(S, r, c) = {}
  <2>1. Under(S, r, c) \subseteq S
    BY DEF Under
  <2>2. IsFiniteSet(Under(S, r, c))
    <3> HIDE DEF S
    <3> QED BY <1>2, <2>1, FS_Subset
  <2> QED BY <1>5, <2>2, FS_EmptySet
<1>7. \A d \in S : ~(Rank(d) < Rank(c))
  BY <1>6 DEF Under
<1>8. \A d \in S : Rank(c) <= Rank(d)
  <2>1. \A d \in S : Rank(d) \in Int
    BY <1>1, RankedOnce
  <2> QED BY <1>7, <2>1
<1>9. FirstFree(map) \in S
  BY <1>8 DEF FirstFree
<1> QED BY <1>1, <1>9

-----------------------------------------------------------------------------
(* A level when it starts: everybody has a cell of his own, with his mark. *)
Static_Tiles == Tiles \ {"GUARD", "PLAYER", "EOS_LADDER"}

LEMMA StartFacts ==
  ASSUME NEW l \in 1..Len(Levels), NEW b, b = Levels[l]
  PROVE  /\ b \in [Cells -> Tiles]
         /\ GuardCount(b) \in 0..MAX_GUARDS
         /\ PlayerStart(b) \in Cells /\ b[PlayerStart(b)] = "PLAYER"
         /\ \A n \in 1..GuardCount(b) : GuardStart(b, n) \in Cells /\ b[GuardStart(b, n)] = "GUARD"
         /\ \A n, m \in 1..GuardCount(b) : GuardStart(b, n) = GuardStart(b, m) => n = m
         /\ Cardinality(CellsOf(b, "GOLD")) \in 0..254
<1>1. /\ b \in [Cells -> Tiles] /\ \E c \in Cells : b[c] = "PLAYER"
      /\ Cardinality(CellsOf(b, "GOLD")) < 255
  BY LevelAssumption DEF CellsOf
<1>2. \A t : CellsOf(b, t) \in SUBSET Cells /\ \A c \in CellsOf(b, t) : b[c] = t
  BY DEF CellsOf
<1>3. Cardinality(CellsOf(b, "GOLD")) \in Nat
  BY <1>2, NthFacts
<1>4. PlayerStart(b) \in CellsOf(b, "PLAYER")
  <2>1. CellsOf(b, "PLAYER") # {}
    BY <1>1 DEF CellsOf
  <2>2. Cardinality(CellsOf(b, "PLAYER")) \in Nat \ {0}
    BY <1>2, <2>1, CellsFinite, FS_CardinalityType, FS_EmptySet
  <2>3. 1 \in 1..Cardinality(CellsOf(b, "PLAYER"))
    BY <2>2
  <2> QED BY <1>2, <2>3, NthFacts DEF PlayerStart
<1>5. /\ GuardCount(b) \in 0..MAX_GUARDS
      /\ GuardCount(b) <= Cardinality(CellsOf(b, "GUARD")) /\ Cardinality(CellsOf(b, "GUARD")) \in Nat
  <2>1. Cardinality(CellsOf(b, "GUARD")) \in Nat
    BY <1>2, NthFacts
  <2>2. MAX_GUARDS \in Nat
    BY TimesAssumption
  <2> QED BY <2>1, <2>2 DEF GuardCount
<1>6. \A n \in 1..GuardCount(b) : n \in 1..Cardinality(CellsOf(b, "GUARD"))
  BY <1>5
<1>7. \A n \in 1..GuardCount(b) : GuardStart(b, n) \in CellsOf(b, "GUARD")
  BY <1>2, <1>6, NthFacts DEF GuardStart
<1>8. \A n, m \in 1..GuardCount(b) : GuardStart(b, n) = GuardStart(b, m) => n = m
  BY <1>2, <1>6, NthFacts DEF GuardStart
<1>9. Cardinality(CellsOf(b, "GOLD")) \in 0..254
  <2> DEFINE n == Cardinality(CellsOf(b, "GOLD"))
  <2>1. n \in Nat /\ n < 255
    BY <1>1, <1>3
  <2> HIDE DEF n
  <2>2. n \in 0..254
    BY <2>1
  <2> QED BY <2>2 DEF n
<1>10. PlayerStart(b) \in Cells /\ b[PlayerStart(b)] = "PLAYER"
  BY <1>2, <1>4
<1>11. \A n \in 1..GuardCount(b) : GuardStart(b, n) \in Cells /\ b[GuardStart(b, n)] = "GUARD"
  BY <1>2, <1>7
<1> QED BY <1>1, <1>5, <1>8, <1>9, <1>10, <1>11

LEMMA StartBoard ==
  ASSUME NEW l \in 1..Len(Levels), NEW b, b = Levels[l]
  PROVE  /\ Static(b) \in [Cells -> Static_Tiles] /\ Dynamic(b) \in [Cells -> Tiles]
         /\ \A c \in Cells :
              /\ b[c] = "EOS_LADDER" => Static(b)[c] = "SPACE"
              /\ Static(b)[c] = "GOLD" <=> b[c] = "GOLD"
              /\ Dynamic(b)[c] \notin {"GUARD", "PLAYER"} => Dynamic(b)[c] = Static(b)[c]
              /\ Static(b)[c] = "BRICK" => Dynamic(b)[c] = "BRICK"
              /\ Dynamic(b)[c] = "PLAYER" <=> c = PlayerStart(b)
              /\ Dynamic(b)[c] = "GUARD" <=> \E n \in 1..GuardCount(b) : c = GuardStart(b, n)
         /\ StartGuards(b) \in [1..GuardCount(b) -> Guardian]
         /\ \A n \in 1..GuardCount(b) : /\ StartGuards(b)[n].at = GuardStart(b, n)
                                        /\ StartGuards(b)[n].state = 0 /\ StartGuards(b)[n].cnt = 0
<1>1. b \in [Cells -> Tiles]
  BY StartFacts
<1>2. Static(b) \in [Cells -> Static_Tiles]
  BY <1>1 DEF Static, Static_Tiles, Tiles
<1>3. ASSUME NEW c \in Cells
      PROVE  /\ Static(b)[c] = IF b[c] \in {"EOS_LADDER", "GUARD", "PLAYER"} THEN "SPACE" ELSE b[c]
             /\ Dynamic(b)[c] = IF c = PlayerStart(b) THEN "PLAYER"
                                 ELSE IF \E n \in 1..GuardCount(b) : c = GuardStart(b, n) THEN "GUARD"
                                 ELSE Static(b)[c]
  BY DEF Static, Dynamic
<1>4. Dynamic(b) \in [Cells -> Tiles]
  <2>1. \A c \in Cells : Dynamic(b)[c] \in Tiles
    BY <1>2, <1>3 DEF Tiles, Static_Tiles
  <2> QED BY <2>1 DEF Dynamic
<1>5. ASSUME NEW c \in Cells
      PROVE  /\ b[c] = "EOS_LADDER" => Static(b)[c] = "SPACE"
             /\ Static(b)[c] = "GOLD" <=> b[c] = "GOLD"
             /\ Dynamic(b)[c] \notin {"GUARD", "PLAYER"} => Dynamic(b)[c] = Static(b)[c]
             /\ Static(b)[c] = "BRICK" => Dynamic(b)[c] = "BRICK"
             /\ Dynamic(b)[c] = "PLAYER" <=> c = PlayerStart(b)
             /\ Dynamic(b)[c] = "GUARD" <=> \E n \in 1..GuardCount(b) : c = GuardStart(b, n)
  <2>1. c = PlayerStart(b) => b[c] = "PLAYER"
    BY StartFacts
  <2>2. \A n \in 1..GuardCount(b) : c = GuardStart(b, n) => b[c] = "GUARD"
    BY StartFacts
  <2>3. Static(b)[c] \in Static_Tiles
    BY <1>2
  <2> QED BY <1>3, <2>1, <2>2, <2>3 DEF Static_Tiles
<1>6. \A n \in 1..GuardCount(b) :
        [at |-> GuardStart(b, n), x |-> MID, y |-> MID, state |-> 0, cnt |-> 0] \in Guardian
  BY StartFacts, BoardAssumption, TimesAssumption DEF Guardian, Offsets
<1>7. \A n \in 1..GuardCount(b) :
        StartGuards(b)[n] = [at |-> GuardStart(b, n), x |-> MID, y |-> MID, state |-> 0, cnt |-> 0]
  BY DEF StartGuards
<1>8. StartGuards(b) \in [1..GuardCount(b) -> Guardian]
  BY <1>6 DEF StartGuards
<1>9. \A n \in 1..GuardCount(b) : /\ StartGuards(b)[n].at = GuardStart(b, n)
                                   /\ StartGuards(b)[n].state = 0 /\ StartGuards(b)[n].cnt = 0
  <2> SUFFICES ASSUME NEW n \in 1..GuardCount(b)
               PROVE  /\ StartGuards(b)[n].at = GuardStart(b, n)
                      /\ StartGuards(b)[n].state = 0 /\ StartGuards(b)[n].cnt = 0
    OBVIOUS
  <2>1. StartGuards(b)[n] = [at |-> GuardStart(b, n), x |-> MID, y |-> MID, state |-> 0, cnt |-> 0]
    BY <1>7
  <2> QED BY <2>1
<1> QED BY <1>2, <1>4, <1>5, <1>8, <1>9

-----------------------------------------------------------------------------
(* Moving about: steps stay on the board.                                  *)
LEMMA BesideFacts ==
  ASSUME NEW c \in Cells, NEW d \in Directions, ~AtEdge(c, d)
  PROVE  Beside(c, d) \in Cells /\ Beside(c, d) # c
<1>1. c[1] \in 0..LastRow /\ c[2] \in 0..LastCol /\ c = <<c[1], c[2]>>
  BY CellFacts
<1>2. LastRow \in Nat /\ LastCol \in Nat
  BY BoardAssumption
<1>3. \A i \in 0..LastRow, j \in 0..LastCol : <<i, j>> \in Cells
  BY DEF Cells
<1>4. CASE d = "LEFT"
  <2>1. Beside(c, d) = <<c[1], c[2] - 1>> /\ c[2] # 0
    BY <1>4 DEF Beside, AtEdge
  <2> QED BY <1>1, <1>2, <1>3, <2>1
<1>5. CASE d = "RIGHT"
  <2>1. Beside(c, d) = <<c[1], c[2] + 1>> /\ c[2] # LastCol
    BY <1>5 DEF Beside, AtEdge
  <2> QED BY <1>1, <1>2, <1>3, <2>1
<1>6. CASE d = "UP"
  <2>1. Beside(c, d) = <<c[1] - 1, c[2]>> /\ c[1] # 0
    BY <1>6 DEF Beside, AtEdge
  <2> QED BY <1>1, <1>2, <1>3, <2>1
<1>7. CASE d = "DOWN"
  <2>1. Beside(c, d) = <<c[1] + 1, c[2]>> /\ c[1] # LastRow
    BY <1>7 DEF Beside, AtEdge
  <2> QED BY <1>1, <1>2, <1>3, <2>1
<1> QED BY <1>4, <1>5, <1>6, <1>7 DEF Directions

LEMMA BelowFacts ==
  ASSUME NEW c \in Cells
  PROVE  Below(c) = Beside(c, "DOWN") /\ (c[1] # LastRow <=> ~AtEdge(c, "DOWN"))
  BY DEF Below, AtEdge

SameBut(S, t, u) ==
  u \in S /\ u.at = t.at /\ (S = Guardian => u.state = t.state /\ u.cnt = t.cnt)

LEMMA AdjustedFacts ==
  ASSUME NEW S \in {Thing, Guardian}, NEW t \in S, NEW d
  PROVE  /\ SameBut(S, t, Adjusted(t, d))
         /\ d \in Sideways => Adjusted(t, d).x = t.x
         /\ d \notin Sideways => Adjusted(t, d).y = t.y
<1>1. \A n \in Offsets : Towards(n) \in Offsets
  BY BoardAssumption DEF Towards, Offsets
<1>2. CASE S = Thing
  BY <1>1, <1>2 DEF SameBut, Adjusted, Thing, Guardian
<1>3. CASE S = Guardian
  BY <1>1, <1>3 DEF SameBut, Adjusted, Guardian
<1> QED BY <1>2, <1>3

LEMMA Fields ==
  ASSUME NEW S \in {Thing, Guardian}, NEW t \in S
  PROVE  t.at \in Cells /\ t.x \in Offsets /\ t.y \in Offsets
<1>1. CASE S = Thing
  BY <1>1 DEF Thing
<1>2. CASE S = Guardian
  BY <1>2 DEF Guardian
<1> QED BY <1>1, <1>2

Put(t, c, x, y) == [t EXCEPT !.at = c, !.x = x, !.y = y]

LEMMA Placed ==
  ASSUME NEW S \in {Thing, Guardian}, NEW t \in S,
         NEW c \in Cells, NEW x \in Offsets, NEW y \in Offsets
  PROVE  /\ Put(t, c, x, y) \in S /\ Put(t, c, x, y).at = c
         /\ S = Guardian => Put(t, c, x, y).state = t.state /\ Put(t, c, x, y).cnt = t.cnt
<1>1. ASSUME t \in Guardian
      PROVE  /\ Put(t, c, x, y) \in Guardian /\ Put(t, c, x, y).at = c
             /\ Put(t, c, x, y).state = t.state /\ Put(t, c, x, y).cnt = t.cnt
  BY <1>1 DEF Put, Guardian
<1>2. ASSUME t \in Thing
      PROVE  Put(t, c, x, y) \in Thing /\ Put(t, c, x, y).at = c
  BY <1>2 DEF Put, Thing
<1> QED BY <1>1, <1>2

LEMMA MovedOn ==
  ASSUME NEW t \in Thing \cup Guardian
  PROVE  /\ \A x : [t EXCEPT !.x = x] = Put(t, t.at, x, t.y)
         /\ \A y : [t EXCEPT !.y = y] = Put(t, t.at, t.x, y)
         /\ \A c, x : [t EXCEPT !.at = c, !.x = x] = Put(t, c, x, t.y)
<1>1. CASE t \in Thing
  BY <1>1 DEF Thing, Put
<1>2. CASE t \in Guardian
  BY <1>2 DEF Guardian, Put
<1> QED BY <1>1, <1>2

LEMMA MovedUpOrDown ==
  ASSUME NEW t \in Thing \cup Guardian, NEW c, NEW y
  PROVE  [t EXCEPT !.at = c, !.y = y] = Put(t, c, t.x, y)
<1>1. CASE t \in Thing
  BY <1>1 DEF Thing, Put
<1>2. CASE t \in Guardian
  BY <1>2 DEF Guardian, Put
<1> QED BY <1>1, <1>2

LEMMA WithinFacts ==
  ASSUME NEW S \in {Thing, Guardian}, NEW t \in S, NEW d \in Directions, ~Leaves(t, d)
  PROVE  SameBut(S, t, Within(t, d))
<1> t \in Thing \cup Guardian
  OBVIOUS
<1>1. t.at \in Cells /\ t.x \in Offsets /\ t.y \in Offsets
  BY Fields
<1>2. CASE d = "LEFT"
  <2>1. Within(t, d) = [t EXCEPT !.x = t.x - 1] /\ ~(t.x - 1 < 0)
    BY <1>2 DEF Within, Leaves
  <2>2. t.x - 1 \in Offsets
    BY <1>1, <2>1, BoardAssumption DEF Offsets
  <2>3. Within(t, d) = Put(t, t.at, t.x - 1, t.y)
    BY <2>1, MovedOn
  <2> QED BY <1>1, <2>1, <2>2, <2>3, Placed DEF SameBut
<1>3. CASE d = "RIGHT"
  <2>1. Within(t, d) = [t EXCEPT !.x = t.x + 1] /\ ~(t.x + 1 > 2 * MID)
    BY <1>3 DEF Within, Leaves
  <2>2. t.x + 1 \in Offsets
    BY <1>1, <2>1, BoardAssumption DEF Offsets
  <2>3. Within(t, d) = Put(t, t.at, t.x + 1, t.y)
    BY <2>1, MovedOn
  <2> QED BY <1>1, <2>1, <2>2, <2>3, Placed DEF SameBut
<1>4. CASE d = "UP"
  <2>1. Within(t, d) = [t EXCEPT !.y = t.y - 1] /\ ~(t.y - 1 < 0)
    BY <1>4 DEF Within, Leaves
  <2>2. t.y - 1 \in Offsets
    BY <1>1, <2>1, BoardAssumption DEF Offsets
  <2>3. Within(t, d) = Put(t, t.at, t.x, t.y - 1)
    BY <2>1, MovedOn
  <2> QED BY <1>1, <2>1, <2>2, <2>3, Placed DEF SameBut
<1>5. CASE d = "DOWN"
  <2>1. Within(t, d) = [t EXCEPT !.y = t.y + 1] /\ ~(t.y + 1 > 2 * MID)
    BY <1>5 DEF Within, Leaves
  <2>2. t.y + 1 \in Offsets
    BY <1>1, <2>1, BoardAssumption DEF Offsets
  <2>3. Within(t, d) = Put(t, t.at, t.x, t.y + 1)
    BY <2>1, MovedOn
  <2> QED BY <1>1, <2>1, <2>2, <2>3, Placed DEF SameBut
<1> QED BY <1>2, <1>3, <1>4, <1>5 DEF Directions

LEMMA IntoFacts ==
  ASSUME NEW S \in {Thing, Guardian}, NEW t \in S, NEW d \in Directions, ~AtEdge(t.at, d)
  PROVE  /\ Into(t, d) \in S /\ Into(t, d).at = Beside(t.at, d)
         /\ S = Guardian => Into(t, d).state = t.state /\ Into(t, d).cnt = t.cnt
<1> t \in Thing \cup Guardian
  OBVIOUS
<1>1. t.at \in Cells /\ t.x \in Offsets /\ t.y \in Offsets
  BY Fields
<1>2. Beside(t.at, d) \in Cells
  BY <1>1, BesideFacts
<1>3. 0 \in Offsets /\ 2 * MID \in Offsets
  BY BoardAssumption DEF Offsets
<1>4. PICK x \in Offsets, y \in Offsets :
        Into(t, d) = Put(t, Beside(t.at, d), x, y)
  <2>1. CASE d = "LEFT"
    <3>1. Into(t, d) = [t EXCEPT !.at = Beside(t.at, d), !.x = 2 * MID]
      BY <2>1 DEF Into
    <3>2. Into(t, d) = Put(t, Beside(t.at, d), 2 * MID, t.y)
      BY <3>1, MovedOn
    <3> QED BY <1>1, <1>3, <3>2
  <2>2. CASE d = "RIGHT"
    <3>1. Into(t, d) = [t EXCEPT !.at = Beside(t.at, d), !.x = 0]
      BY <2>2 DEF Into
    <3>2. Into(t, d) = Put(t, Beside(t.at, d), 0, t.y)
      BY <3>1, MovedOn
    <3> QED BY <1>1, <1>3, <3>2
  <2>3. CASE d = "UP"
    <3>1. Into(t, d) = [t EXCEPT !.at = Beside(t.at, d), !.y = 2 * MID]
      BY <2>3 DEF Into
    <3>2. Into(t, d) = Put(t, Beside(t.at, d), t.x, 2 * MID)
      BY <3>1, MovedUpOrDown
    <3> QED BY <1>1, <1>3, <3>2
  <2>4. CASE d = "DOWN"
    <3>1. Into(t, d) = [t EXCEPT !.at = Beside(t.at, d), !.y = 0]
      BY <2>4 DEF Into
    <3>2. Into(t, d) = Put(t, Beside(t.at, d), t.x, 0)
      BY <3>1, MovedUpOrDown
    <3> QED BY <1>1, <1>3, <3>2
  <2> QED BY <2>1, <2>2, <2>3, <2>4 DEF Directions
<1> QED BY <1>2, <1>4, Placed

LEMMA LeavesFacts ==
  ASSUME NEW S \in {Thing, Guardian}, NEW t \in S, NEW d \in Directions
  PROVE  /\ Leaves(Adjusted(t, d), d) <=> Leaves(t, d)
         /\ BeforeCentre(t, d) => ~Leaves(t, d)
<1>1. MID \in Nat /\ t.x \in Int /\ t.y \in Int
  BY Fields, BoardAssumption DEF Offsets
<1>2. d \in Sideways => Adjusted(t, d).x = t.x
  BY AdjustedFacts
<1>3. d \notin Sideways => Adjusted(t, d).y = t.y
  BY AdjustedFacts
<1> DEFINE u == Adjusted(t, d)
<1>4. Leaves(u, d) <=> Leaves(t, d)
  <2> HIDE DEF u
  <2>1. (d = "LEFT" \/ d = "RIGHT" => u.x = t.x) /\ (d = "UP" \/ d = "DOWN" => u.y = t.y)
    BY <1>2, <1>3 DEF Sideways, u
  <2> QED BY <2>1 DEF Leaves, Directions
<1>5. BeforeCentre(t, d) => ~Leaves(t, d)
  <2>1. CASE d = "LEFT"
    BY <1>1, <2>1 DEF Leaves, BeforeCentre
  <2>2. CASE d = "RIGHT"
    BY <1>1, <2>2 DEF Leaves, BeforeCentre
  <2>3. CASE d = "UP"
    BY <1>1, <2>3 DEF Leaves, BeforeCentre
  <2>4. CASE d = "DOWN"
    BY <1>1, <2>4 DEF Leaves, BeforeCentre
  <2> QED BY <2>1, <2>2, <2>3, <2>4 DEF Directions
<1> QED BY <1>4, <1>5

-----------------------------------------------------------------------------
(* What is true of every state, besides the types: when which phase is     *)
(* reached, and that a dead guard waits and does nothing else (his state   *)
(* does not run down before it is set again).                              *)
PhaseInv ==
  /\ phase = "bricks" <=> expired # {}
  /\ phase \in {"player", "world", "guards"} => level_active
  /\ phase = "guards" => updates > 0 /\ no_guards > 0
  /\ dig_dir = "none" => dig_sprite = 0

TurnsLeft == IF phase = "guards" THEN updates ELSE IF phase = "bricks" THEN 2 ELSE 0
DeadInv == \A g \in Guards : guard[g].cnt # 0 => guard[g].state >= DEAD - 2 + TurnsLeft

(* The two maps agree but for the marks and the dug bricks.                *)
Open(n) == hole[n].cnt # 0 \/ n \in expired
BoardInv ==
  /\ ldu2 \in [Cells -> Static_Tiles]
  /\ \A c \in Cells :
       /\ ldu1[c] \in Wall => ldu2[c] = ldu1[c]
       /\ ldu2[c] = "BRICK" => ldu1[c] \in {"BRICK", "SPACE", "PLAYER", "GUARD"}
  /\ \A n \in Holes : Open(n) => ldu2[hole[n].at] = "BRICK"
  /\ \A c \in eos : ldu2[c] \in {"SPACE", "GOLD"}

TypeInv == TypeOK /\ PhaseInv /\ DeadInv
GameInv == TypeInv /\ BoardInv

(* What a turn of the player comes to: he stays in his cell, where he may  *)
(* take gold and dig a hole, or goes to the next one.                      *)
GoldFrom(c) ==
  ldu2[c] = "GOLD" /\ no_gold' = Decremented(no_gold) /\ ldu2' = [ldu2 EXCEPT ![c] = "SPACE"]

PlayerGoes(d) ==
  /\ d \in Directions /\ ~AtEdge(player.at, d) /\ ldu1[Beside(player.at, d)] \notin Wall
  /\ player' \in Thing /\ player'.at = Beside(player.at, d)
  /\ ldu1' = [ldu1 EXCEPT ![player.at] = Vacated(player.at), ![Beside(player.at, d)] = "PLAYER"]
  /\ met' = (met \/ ldu1[Beside(player.at, d)] = "GUARD")
  /\ dig_dir = "none"
  /\ UNCHANGED <<no_gold, ldu2, digVars, hole>>

Digs ==
  \/ /\ dig_dir' \in Sideways \cup {"none"} /\ dig_sprite' \in 0..DIG_FRAMES
     /\ dig_dir' = "none" => dig_sprite' = 0
     /\ dig_sprite' <= dig_sprite + 1
     /\ UNCHANGED <<ldu1, hole>>
  \/ /\ dig_sprite = DIG_FRAMES /\ dig_dir' = "none" /\ dig_sprite' = 0
     /\ \E c \in Cells :
          ldu1[c] = "BRICK" /\ ldu1' = [ldu1 EXCEPT ![c] = "SPACE"] /\ HoleAdded(c)

PlayerStays ==
  /\ player' \in Thing /\ player'.at = player.at /\ met' = met
  /\ GoldFrom(player.at) \/ UNCHANGED <<no_gold, ldu2>>
  /\ Digs

PlayerTurn ==
  phase = "player" /\ PlayerDone /\ (PlayerStays \/ \E d \in Directions : PlayerGoes(d))

(* What a turn of a guard comes to.                                        *)
KeepsGold(t) == (t.state < 0 <=> guard[Turn].state < 0) /\ UNCHANGED <<no_gold, ldu2>>
TakesUp(t) ==
  /\ ~(guard[Turn].state < 0) /\ t.state < 0
  /\ ldu2[t.at] = "GOLD" /\ ldu2' = [ldu2 EXCEPT ![t.at] = "SPACE"] /\ no_gold' = no_gold
PutsDown(t) ==
  /\ guard[Turn].state < 0 /\ ~(t.state < 0)
  /\ ldu2[guard[Turn].at] = "SPACE" /\ ldu2' = [ldu2 EXCEPT ![guard[Turn].at] = "GOLD"]
  /\ no_gold' = no_gold
LosesGold(t) ==
  guard[Turn].state < 0 /\ ~(t.state < 0) /\ no_gold' = Decremented(no_gold) /\ ldu2' = ldu2

GuardStaysAs(t) ==
  /\ t.at = guard[Turn].at /\ UNCHANGED <<ldu1, level_active>>
  /\ guard[Turn].cnt # 0 => t.state = guard[Turn].state - 1
  /\ KeepsGold(t) \/ TakesUp(t) \/ LosesGold(t)

GuardGoes(t, d) ==
  /\ ~AtEdge(guard[Turn].at, d) /\ ldu1[Beside(guard[Turn].at, d)] \notin Wall \cup {"GUARD"}
  /\ guard[Turn].cnt = 0 /\ t.at = Beside(guard[Turn].at, d)
  /\ level_active' = (level_active /\ ldu1[Beside(guard[Turn].at, d)] # "PLAYER")
  /\ \E m \in {"GOLD", Vacated(guard[Turn].at)} :
       /\ ldu1' = [ldu1 EXCEPT ![guard[Turn].at] = m, ![Beside(guard[Turn].at, d)] = "GUARD"]
       /\ \/ m = "GOLD" /\ PutsDown(t)
          \/ m = Vacated(guard[Turn].at) /\ (KeepsGold(t) \/ LosesGold(t))

GuardTurn ==
  /\ GuardDone
  /\ \E t \in Guardian :
       /\ Saved(t) /\ t.cnt = guard[Turn].cnt
       /\ GuardStaysAs(t) \/ \E d \in Directions : GuardGoes(t, d)

-----------------------------------------------------------------------------
LEMMA PlayerCell ==
  ASSUME TypeOK
  PROVE  /\ player \in Thing /\ player.at \in Cells /\ player.x \in Offsets /\ player.y \in Offsets
         /\ ldu1 \in [Cells -> Tiles] /\ ldu2 \in [Cells -> Tiles]
  BY DEF TypeOK, Thing

LEMMA PlayerStepsShape ==
  ASSUME GameInv, NEW d \in Directions, PlayerSteps(d), UNCHANGED <<digVars, hole>>,
         dig_dir = "none",
         Leaves(player, d) => ~AtEdge(player.at, d) /\ ldu1[Beside(player.at, d)] \notin Wall
  PROVE  PlayerStays \/ PlayerGoes(d)
<1> DEFINE t == Adjusted(player, d)
<1>1. player \in Thing /\ player.at \in Cells
  BY PlayerCell DEF GameInv, TypeInv
<1>2. SameBut(Thing, player, t) /\ (Leaves(t, d) <=> Leaves(player, d))
  BY <1>1, AdjustedFacts, LeavesFacts
<1>3. t \in Thing /\ t.at = player.at
  BY <1>2 DEF SameBut
<1>4. CASE Leaves(t, d)
  <2>1. /\ player' = Into(t, d)
        /\ ldu1' = [ldu1 EXCEPT ![player.at] = Vacated(player.at),
                                ![Beside(player.at, d)] = "PLAYER"]
        /\ met' = (met \/ ldu1[Beside(player.at, d)] = "GUARD")
        /\ UNCHANGED <<no_gold, ldu2>>
    BY <1>4 DEF PlayerSteps
  <2>2. ~AtEdge(player.at, d) /\ ldu1[Beside(player.at, d)] \notin Wall
    BY <1>2, <1>4
  <2>3. Into(t, d) \in Thing /\ Into(t, d).at = Beside(player.at, d)
    <3> HIDE DEF t
    <3> QED BY <1>3, <2>2, IntoFacts
  <2> QED BY <2>1, <2>2, <2>3 DEF PlayerGoes
<1>5. CASE ~Leaves(t, d)
  <2>1. GoldTaken({t, Within(t, d)}) /\ player' = Within(t, d) /\ UNCHANGED <<ldu1, met>>
    BY <1>5 DEF PlayerSteps
  <2>2. SameBut(Thing, t, Within(t, d))
    <3> HIDE DEF t
    <3> QED BY <1>3, <1>5, WithinFacts
  <2>3. player' \in Thing /\ player'.at = player.at
    BY <1>3, <2>1, <2>2 DEF SameBut
  <2>4. GoldFrom(player.at) \/ UNCHANGED <<no_gold, ldu2>>
    BY <2>1 DEF GoldTaken, GoldFrom, TakesGold
  <2>5. Digs
    BY <2>1 DEF Digs, digVars, GameInv, TypeInv, TypeOK, PhaseInv
  <2> QED BY <2>1, <2>3, <2>4, <2>5 DEF PlayerStays
<1> QED BY <1>4, <1>5

LEMMA DigShape ==
  ASSUME GameInv, NEW d \in Sideways, NEW n \in 0..DIG_FRAMES, Dig(d, n), n = dig_sprite
  PROVE  PlayerStays
<1> DEFINE side == Beside(player.at, d)
           up == Adjusted(player, "UP")
           centred == Adjusted(up, d)
<1>1. player \in Thing /\ player.at \in Cells /\ dig_sprite \in 0..DIG_FRAMES /\ DIG_FRAMES \in Nat \ {0}
  BY PlayerCell, TimesAssumption DEF GameInv, TypeInv, TypeOK
<1>2. CASE \/ player.at[1] = LastRow \/ AtEdge(player.at, d)
           \/ ldu1[Below(side)] # "BRICK" \/ ldu1[side] # "SPACE"
  <2>1. dig_dir' = "none" /\ dig_sprite' = 0 /\ UNCHANGED <<board, no_gold, hole, met>>
    BY <1>2 DEF Dig
  <2>2. Digs
    BY <1>1, <2>1 DEF Digs, board
  <2> QED BY <1>1, <2>1, <2>2 DEF PlayerStays, board
<1>3. CASE ~(\/ player.at[1] = LastRow \/ AtEdge(player.at, d)
             \/ ldu1[Below(side)] # "BRICK" \/ ldu1[side] # "SPACE")
  <2>1. /\ player' = centred /\ met' = met
        /\ GoldTaken({up, centred})
        /\ IF n = DIG_FRAMES
           THEN /\ dig_dir' = "none" /\ dig_sprite' = 0
                /\ ldu1' = [ldu1 EXCEPT ![Below(side)] = "SPACE"]
                /\ HoleAdded(Below(side))
           ELSE /\ dig_dir' = d /\ dig_sprite' = n + 1
                /\ UNCHANGED <<ldu1, hole>>
    BY <1>3 DEF Dig
  <2>2. SameBut(Thing, player, up) /\ SameBut(Thing, up, centred)
    <3>1. SameBut(Thing, player, up)
      BY <1>1, AdjustedFacts
    <3>2. up \in Thing
      BY <3>1 DEF SameBut
    <3> HIDE DEF up
    <3> QED BY <3>1, <3>2, AdjustedFacts
  <2>3. player' \in Thing /\ player'.at = player.at
    BY <2>1, <2>2 DEF SameBut
  <2>4. GoldFrom(player.at) \/ UNCHANGED <<no_gold, ldu2>>
    BY <2>1 DEF GoldTaken, GoldFrom, TakesGold
  <2>5. Below(side) \in Cells /\ ldu1[Below(side)] = "BRICK"
    <3>1. side \in Cells /\ side[1] = player.at[1]
      BY <1>1, <1>3, BesideFacts DEF Beside, Sideways, Directions
    <3>2. ~AtEdge(side, "DOWN")
      BY <1>3, <3>1 DEF AtEdge
    <3> QED BY <1>3, <3>1, <3>2, BesideFacts DEF Below, Directions
  <2>6. Digs
    <3>1. CASE n = DIG_FRAMES
      BY <2>1, <2>5, <3>1 DEF Digs
    <3>2. CASE n # DIG_FRAMES
      <4>1. n + 1 \in 0..DIG_FRAMES /\ d # "none"
        BY <1>1, <3>2 DEF Sideways
      <4> QED BY <1>1, <2>1, <3>2, <4>1 DEF Digs
    <3> QED BY <3>1, <3>2
  <2> QED BY <2>1, <2>3, <2>4, <2>6 DEF PlayerStays
<1> QED BY <1>2, <1>3

(* The keys come to a step only where a step can be made.                  *)
LEMMA IntentFacts ==
  ASSUME NEW keys, Intent(keys) \in Directions
  PROVE  PlayerCanMove(Intent(keys))
  BY DEF Intent, Directions

LEMMA PlayerShape ==
  ASSUME GameInv,
         \/ PlayerDigsOn \/ PlayerFalls
         \/ \E keys \in Controls : PlayerMoves(keys) \/ PlayerDigs(keys) \/ PlayerRests(keys)
  PROVE  PlayerTurn
<1>1. player \in Thing /\ player.at \in Cells /\ player.y \in Offsets
  BY PlayerCell DEF GameInv, TypeInv
<1>2. CASE PlayerDigsOn
  <2>1. dig_dir \in Sideways /\ dig_sprite \in 0..DIG_FRAMES /\ Dig(dig_dir, dig_sprite)
    BY <1>2 DEF PlayerDigsOn, GameInv, TypeInv, TypeOK
  <2>2. PlayerStays
    BY <2>1, DigShape
  <2> QED BY <1>2, <2>2 DEF PlayerTurn, PlayerDigsOn
<1>3. CASE PlayerFalls
  <2>1. /\ Unsupported(player, {"SPACE"}) /\ PlayerSteps("DOWN") /\ dig_dir = "none"
        /\ UNCHANGED <<digVars, hole>> /\ "DOWN" \in Directions
    BY <1>3 DEF PlayerFalls, Directions
  <2>2. ASSUME Leaves(player, "DOWN")
        PROVE  ~AtEdge(player.at, "DOWN") /\ ldu1[Beside(player.at, "DOWN")] \notin Wall
    <3>1. ~(player.y < MID)
      BY <1>1, <2>2, BoardAssumption DEF Leaves, Offsets
    <3>2. /\ player.at[1] # LastRow
          /\ \/ ldu1[Below(player.at)] = "SPACE" \/ ldu2[Below(player.at)] \notin Wall
      BY <2>1, <3>1 DEF Unsupported
    <3>3. ~AtEdge(player.at, "DOWN") /\ Below(player.at) = Beside(player.at, "DOWN")
      BY <1>1, <3>2, BelowFacts
    <3>4. Below(player.at) \in Cells
      BY <1>1, <3>3, BesideFacts DEF Directions
    <3>5. ldu1[Below(player.at)] \in Wall => ldu2[Below(player.at)] = ldu1[Below(player.at)]
      BY <3>4 DEF GameInv, BoardInv
    <3> QED BY <3>2, <3>3, <3>5 DEF Wall
  <2>3. PlayerStays \/ PlayerGoes("DOWN")
    BY <2>1, <2>2, PlayerStepsShape
  <2> QED BY <1>3, <2>1, <2>3 DEF PlayerTurn, PlayerFalls
<1>4. ASSUME NEW keys \in Controls, PlayerMoves(keys) PROVE PlayerTurn
  <2> DEFINE d == Intent(keys)
  <2>1. d \in Directions /\ PlayerSteps(d) /\ dig_dir = "none" /\ UNCHANGED <<digVars, hole>>
    BY <1>4 DEF PlayerMoves
  <2>2. PlayerCanMove(d)
    BY <2>1, IntentFacts
  <2> HIDE DEF d
  <2>3. ASSUME Leaves(player, d)
        PROVE  ~AtEdge(player.at, d) /\ ldu1[Beside(player.at, d)] \notin Wall
    <3>1. ~BeforeCentre(player, d)
      BY <1>1, <2>1, <2>3, LeavesFacts
    <3>2. ASSUME d = "UP" PROVE ~(player.y > MID)
      <4>1. player.y - 1 < 0
        BY <2>3, <3>2 DEF Leaves
      <4> QED BY <1>1, <4>1, BoardAssumption DEF Offsets
    <3> QED BY <2>2, <3>1, <3>2 DEF PlayerCanMove
  <2>4. PlayerStays \/ PlayerGoes(d)
    BY <2>1, <2>3, PlayerStepsShape
  <2> QED BY <1>4, <2>1, <2>4 DEF PlayerTurn, PlayerMoves
<1>5. ASSUME NEW keys \in Controls, PlayerDigs(keys) PROVE PlayerTurn
  <2>1. dig_sprite = 0 /\ 0 \in 0..DIG_FRAMES
    BY <1>5, TimesAssumption DEF PlayerDigs, GameInv, TypeInv, PhaseInv
  <2>2. PICK d \in Sideways : Dig(d, 0)
    BY <1>5 DEF PlayerDigs, Sideways
  <2>3. PlayerStays
    BY <2>1, <2>2, DigShape
  <2> QED BY <1>5, <2>3 DEF PlayerTurn, PlayerDigs
<1>6. ASSUME NEW keys \in Controls, PlayerRests(keys) PROVE PlayerTurn
  <2>1. UNCHANGED <<board, no_gold, digVars, hole, met>> /\ dig_dir = "none"
    BY <1>6 DEF PlayerRests
  <2>2. Digs
    BY <2>1 DEF Digs, digVars, board, GameInv, TypeInv, TypeOK, PhaseInv
  <2>3. PlayerStays
    BY <1>1, <2>1, <2>2 DEF PlayerStays, board
  <2> QED BY <1>6, <2>3 DEF PlayerTurn, PlayerRests
<1> QED BY <1>2, <1>3, <1>4, <1>5, <1>6

-----------------------------------------------------------------------------
(* The guard whose turn it is.                                             *)
LEMMA MeFacts ==
  ASSUME GameInv, phase = "guards"
  PROVE  /\ Turn \in Guards /\ guard[Turn] \in Guardian /\ guard[Turn].state \in -128..127
         /\ Me \in Guardian /\ Me.at = guard[Turn].at /\ Me.at \in Cells
         /\ Me.cnt = guard[Turn].cnt /\ Me.state \in -128..127
         /\ Me.state < 0 <=> guard[Turn].state < 0
         /\ Me.state = IF Counting THEN guard[Turn].state - 1 ELSE guard[Turn].state
         /\ guard[Turn].cnt # 0 => Counting /\ Me.state >= WRIGGLE
<1>1. /\ no_guards \in 1..MAX_GUARDS /\ curr_guard \in 0..no_guards /\ MAX_GUARDS \in Nat
      /\ guard \in [Guards -> Guardian]
      /\ updates \in 1..2
  <2>1. MAX_GUARDS \in Nat
    BY TimesAssumption
  <2> QED BY <2>1 DEF GameInv, TypeInv, TypeOK, PhaseInv
<1>2. Turn \in Guards
  BY <1>1 DEF Turn, Guards
<1>3. PICK u \in Guardian : u = guard[Turn]
  BY <1>1, <1>2
<1>4. u.at \in Cells /\ u.state \in -128..127 /\ u.cnt \in 0..RESPAWN
  BY DEF Guardian
<1>5. CASE Counting
  <2>1. u.state - 1 \in 0..126 /\ u.state > 0
    BY <1>3, <1>4, <1>5 DEF Counting
  <2>2. Me = [u EXCEPT !.state = u.state - 1]
    BY <1>3, <1>5 DEF Me
  <2>3. Me \in Guardian /\ Me.at = u.at /\ Me.cnt = u.cnt /\ Me.state = u.state - 1
    BY <2>1, <2>2 DEF Guardian
  <2>4. ASSUME u.cnt # 0 PROVE Me.state >= WRIGGLE
    <3>1. u.state >= DEAD - 2 + updates
      BY <1>2, <1>3, <2>4 DEF GameInv, TypeInv, DeadInv, TurnsLeft
    <3>2. WRIGGLE + 2 <= DEAD /\ WRIGGLE \in Nat /\ DEAD \in Nat
      BY TimesAssumption
    <3> QED BY <1>1, <1>4, <2>3, <3>1, <3>2
  <2>5. -128..127 \subseteq Int /\ Me.state \in -128..127
    BY <2>1, <2>3
  <2> QED BY <1>2, <1>3, <1>4, <1>5, <2>1, <2>3, <2>4, <2>5
<1>6. CASE ~Counting
  <2>1. Me = u /\ ~(u.state > 0)
    BY <1>3, <1>6 DEF Me, Counting
  <2>2. u.cnt = 0
    <3> SUFFICES ASSUME u.cnt # 0 PROVE FALSE
      OBVIOUS
    <3>1. u.state >= DEAD - 2 + updates
      BY <1>2, <1>3 DEF GameInv, TypeInv, DeadInv, TurnsLeft
    <3>2. WRIGGLE + 2 <= DEAD /\ WRIGGLE \in Nat \ {0} /\ DEAD \in Nat
      BY TimesAssumption
    <3> QED BY <1>1, <1>4, <2>1, <3>1, <3>2
  <2> QED BY <1>2, <1>3, <1>4, <1>6, <2>1, <2>2
<1> QED BY <1>5, <1>6

(* A guard as he is after a change of his state, or of his place in the    *)
(* cell.                                                                   *)
LEMMA StateSet ==
  ASSUME NEW t \in Guardian, NEW s \in -128..127
  PROVE  /\ [t EXCEPT !.state = s] \in Guardian
         /\ [t EXCEPT !.state = s].at = t.at /\ [t EXCEPT !.state = s].cnt = t.cnt
         /\ [t EXCEPT !.state = s].state = s
  BY DEF Guardian

LEMMA SwaySet ==
  ASSUME NEW t \in Guardian, NEW x \in Offsets
  PROVE  /\ [t EXCEPT !.x = x] \in Guardian
         /\ [t EXCEPT !.x = x].at = t.at /\ [t EXCEPT !.x = x].cnt = t.cnt
         /\ [t EXCEPT !.x = x].state = t.state
  BY DEF Guardian

LEMMA CarryingFacts ==
  ASSUME GameInv
  PROVE  Carrying \in -128..127 /\ Carrying < 0
<1>1. guard_respawn_col \in 0..LastCol /\ LastCol \in Nat /\ LastCol < 127
  BY BoardAssumption, TimesAssumption DEF GameInv, TypeInv, TypeOK
<1> QED BY <1>1 DEF Carrying

(* Where his path can be followed on from here.                            *)
LEMMA MyPath ==
  ASSUME GameInv, phase = "guards", NEW d \in Directions
  PROVE  LET t == Adjusted(Me, d)
         IN /\ t \in Guardian /\ t.at = Me.at /\ t.state = Me.state /\ t.cnt = Me.cnt
            /\ Leaves(t, d) <=> Leaves(Me, d)
            /\ BeforeCentre(Me, d) => ~Leaves(Me, d)
            /\ ~Leaves(t, d) => /\ Within(t, d) \in Guardian /\ Within(t, d).at = Me.at
                                /\ Within(t, d).state = Me.state /\ Within(t, d).cnt = Me.cnt
            /\ ~AtEdge(Me.at, d) => /\ Into(t, d) \in Guardian /\ Into(t, d).at = Beside(Me.at, d)
                                    /\ Into(t, d).state = Me.state /\ Into(t, d).cnt = Me.cnt
<1>1. Me \in Guardian
  BY MeFacts
<1> DEFINE t == Adjusted(Me, d)
<1>2. SameBut(Guardian, Me, t) /\ (Leaves(t, d) <=> Leaves(Me, d))
      /\ (BeforeCentre(Me, d) => ~Leaves(Me, d))
  BY <1>1, AdjustedFacts, LeavesFacts
<1>3. t \in Guardian /\ t.at = Me.at /\ t.state = Me.state /\ t.cnt = Me.cnt
  BY <1>2 DEF SameBut
<1> HIDE DEF t
<1>4. ~Leaves(t, d) => SameBut(Guardian, t, Within(t, d))
  BY <1>3, WithinFacts
<1>5. ~AtEdge(Me.at, d) => /\ Into(t, d) \in Guardian /\ Into(t, d).at = Beside(Me.at, d)
                           /\ Into(t, d).state = Me.state /\ Into(t, d).cnt = Me.cnt
  BY <1>3, IntoFacts
<1>6. ~Leaves(t, d) => /\ Within(t, d) \in Guardian /\ Within(t, d).at = Me.at
                       /\ Within(t, d).state = Me.state /\ Within(t, d).cnt = Me.cnt
  BY <1>3, <1>4 DEF SameBut
<1> QED BY <1>2, <1>3, <1>5, <1>6 DEF t

LEMMA GuardStaysShape ==
  ASSUME GameInv, GuardDone, NEW t \in Guardian, Saved(t),
         t.at = Me.at, t.cnt = Me.cnt, UNCHANGED <<ldu1, level_active>>,
         guard[Turn].cnt # 0 => t.state = guard[Turn].state - 1,
         KeepsGold(t) \/ TakesUp(t) \/ LosesGold(t)
  PROVE  GuardTurn
<1>1. Me.at = guard[Turn].at /\ Me.cnt = guard[Turn].cnt
  BY MeFacts DEF GuardDone
<1> QED BY <1>1 DEF GuardTurn, GuardStaysAs

LEMMA GuardGoesShape ==
  ASSUME GameInv, GuardDone, NEW d \in Directions, NEW s \in -128..127,
         guard[Turn].cnt = 0, ~AtEdge(Me.at, d),
         ldu1[Beside(Me.at, d)] \notin Wall \cup {"GUARD"},
         GuardEnters(Adjusted(Me, d), d, s),
         NEW m \in {"GOLD", Vacated(Me.at)},
         ldu1' = [ldu1 EXCEPT ![Me.at] = m, ![Beside(Me.at, d)] = "GUARD"],
         LET t == [Into(Adjusted(Me, d), d) EXCEPT !.state = s]
         IN \/ m = "GOLD" /\ PutsDown(t)
            \/ m = Vacated(Me.at) /\ (KeepsGold(t) \/ LosesGold(t))
  PROVE  GuardTurn
<1> DEFINE u == Into(Adjusted(Me, d), d)
           t == [u EXCEPT !.state = s]
<1>1. /\ u \in Guardian /\ u.at = Beside(Me.at, d) /\ u.cnt = Me.cnt
      /\ Adjusted(Me, d).at = Me.at
  BY MyPath DEF GuardDone
<1>2. Me.at = guard[Turn].at /\ Me.cnt = guard[Turn].cnt
  BY MeFacts DEF GuardDone
<1>3. t \in Guardian /\ t.at = Beside(Me.at, d) /\ t.cnt = Me.cnt
  <2> HIDE DEF u
  <2> QED BY <1>1, StateSet
<1>4. Saved(t) /\ level_active' = (level_active /\ ldu1[Beside(Me.at, d)] # "PLAYER")
  BY <1>1 DEF GuardEnters
<1>5. \/ m = "GOLD" /\ PutsDown(t)
      \/ m = Vacated(Me.at) /\ (KeepsGold(t) \/ LosesGold(t))
  OBVIOUS
<1> HIDE DEF t
<1>6. \E n \in {"GOLD", Vacated(guard[Turn].at)} :
        /\ ldu1' = [ldu1 EXCEPT ![guard[Turn].at] = n, ![Beside(guard[Turn].at, d)] = "GUARD"]
        /\ \/ n = "GOLD" /\ PutsDown(t)
           \/ n = Vacated(guard[Turn].at) /\ (KeepsGold(t) \/ LosesGold(t))
  <2>1. m \in {"GOLD", Vacated(guard[Turn].at)}
    BY <1>2
  <2>2. ldu1' = [ldu1 EXCEPT ![guard[Turn].at] = m, ![Beside(guard[Turn].at, d)] = "GUARD"]
    BY <1>2
  <2>3. \/ m = "GOLD" /\ PutsDown(t)
        \/ m = Vacated(guard[Turn].at) /\ (KeepsGold(t) \/ LosesGold(t))
    <3>1. CASE m = "GOLD" /\ PutsDown(t)
      BY <3>1
    <3>2. CASE m = Vacated(Me.at) /\ (KeepsGold(t) \/ LosesGold(t))
      <4>1. m = Vacated(guard[Turn].at)
        BY <1>2, <3>2
      <4> QED BY <3>2, <4>1
    <3> QED BY <1>5, <3>1, <3>2
  <2> QED BY <2>1, <2>2, <2>3
<1>7. GuardGoes(t, d)
  BY <1>2, <1>3, <1>4, <1>6 DEF GuardGoes
<1> QED BY <1>2, <1>3, <1>4, <1>7 DEF GuardTurn

LEMMA GuardWaitsShape ==
  ASSUME GameInv, GuardWaits \/ GuardWriggles
  PROVE  GuardTurn
<1>1. /\ GuardDone /\ Counting /\ UNCHANGED <<ldu1, ldu2, no_gold, level_active>>
      /\ phase = "guards"
  BY DEF GuardWaits, GuardWriggles, GuardDone
<1>2. /\ Me \in Guardian /\ Me.state = guard[Turn].state - 1
      /\ (Me.state < 0 <=> guard[Turn].state < 0)
      /\ Me.state \in -128..127
      /\ guard[Turn].cnt # 0 => Me.state >= WRIGGLE
  BY <1>1, MeFacts
<1>3. CASE GuardWaits
  <2>1. Saved(Me)
    BY <1>3 DEF GuardWaits
  <2>2. KeepsGold(Me)
    BY <1>1, <1>2 DEF KeepsGold
  <2> QED BY <1>1, <1>2, <2>1, <2>2, GuardStaysShape
<1>4. CASE GuardWriggles
  <2> DEFINE i == Me.state - CLIMB + 1
             t == [Me EXCEPT !.x = MID + Sway[i]]
  <2>1. Saved(t) /\ Me.state < WRIGGLE /\ Me.state >= CLIMB
    BY <1>4 DEF GuardWriggles
  <2>2. i \in 1..6
    <3>1. WRIGGLE \in Nat /\ CLIMB \in Nat /\ WRIGGLE - CLIMB <= 6
      BY TimesAssumption
    <3>2. Me.state \in Int
      BY <1>2
    <3> QED BY <2>1, <3>1, <3>2
  <2>3. MID + Sway[i] \in Offsets
    <3>1. Sway[i] \in -1..1
      <4> HIDE DEF i
      <4> QED BY <2>2 DEF Sway
    <3> QED BY <3>1, BoardAssumption DEF Offsets
  <2>4. t \in Guardian /\ t.at = Me.at /\ t.cnt = Me.cnt /\ t.state = Me.state
    <3> HIDE DEF i
    <3> QED BY <1>2, <2>3, SwaySet
  <2> HIDE DEF t
  <2>5. guard[Turn].cnt = 0
    <3>1. WRIGGLE \in Nat
      BY TimesAssumption
    <3> QED BY <1>2, <2>1, <3>1
  <2>6. KeepsGold(t)
    BY <1>1, <1>2, <2>4 DEF KeepsGold
  <2> QED BY <1>1, <1>2, <2>1, <2>4, <2>5, <2>6, GuardStaysShape
<1> QED BY <1>3, <1>4

(* Gold in a cell that he does not leave.                                  *)
LEMMA TakesUpShape ==
  ASSUME GameInv, GuardDone, NEW d \in Directions, ~Leaves(Adjusted(Me, d), d),
         guard[Turn].cnt = 0, UNCHANGED <<ldu1, level_active, no_gold>>,
         PicksUp(Path(d)), Saved([Within(Adjusted(Me, d), d) EXCEPT !.state = Carrying]),
         ldu2' = [ldu2 EXCEPT ![Me.at] = "SPACE"]
  PROVE  GuardTurn
<1> DEFINE u == Within(Adjusted(Me, d), d)
           t == [u EXCEPT !.state = Carrying]
<1>1. u \in Guardian /\ u.at = Me.at /\ u.cnt = Me.cnt
  BY MyPath DEF GuardDone
<1>2. Carrying \in -128..127 /\ Carrying < 0
  BY CarryingFacts
<1>3. t \in Guardian /\ t.at = Me.at /\ t.cnt = Me.cnt /\ t.state = Carrying
  <2> HIDE DEF u
  <2> QED BY <1>1, <1>2, StateSet
<1>4. Me.state >= 0 /\ ldu2[Me.at] = "GOLD"
  BY DEF PicksUp
<1>5. Me.state < 0 <=> guard[Turn].state < 0
  BY MeFacts DEF GuardDone
<1>6. ~(guard[Turn].state < 0)
  BY <1>4, <1>5, MeFacts DEF GuardDone
<1> HIDE DEF t
<1>7. TakesUp(t)
  BY <1>2, <1>3, <1>4, <1>6 DEF TakesUp
<1>8. Saved(t)
  BY DEF t
<1> QED BY <1>3, <1>7, <1>8, GuardStaysShape

LEMMA GuardLeavesShape ==
  ASSUME GameInv, GuardDone, NEW d \in Directions, guard[Turn].cnt = 0,
         ~AtEdge(Me.at, d), ldu1[Beside(Me.at, d)] \notin Wall \cup {"GUARD"},
         GuardLeaves(d)
  PROVE  GuardTurn
<1> DEFINE s == IF Drops THEN 0 ELSE IF Me.state < -1 THEN Me.state + 1 ELSE Me.state
           m == IF Drops THEN "GOLD" ELSE Vacated(Me.at)
           u == Into(Adjusted(Me, d), d)
           t == [u EXCEPT !.state = s]
<1>1. /\ Me.state \in -128..127 /\ (Me.state < 0 <=> guard[Turn].state < 0)
      /\ Me.at = guard[Turn].at
  BY MeFacts DEF GuardDone
<1>2. s \in -128..127
  BY <1>1
<1>3. GuardEnters(Adjusted(Me, d), d, s) /\ no_gold' = no_gold
  BY DEF GuardLeaves
<1>4. ldu1' = [ldu1 EXCEPT ![Me.at] = m, ![Beside(Me.at, d)] = "GUARD"]
  BY DEF GuardLeaves
<1>5. ldu2' = IF Drops THEN [ldu2 EXCEPT ![Me.at] = "GOLD"] ELSE ldu2
  BY DEF GuardLeaves
<1>6. t.state = s
  <2>1. u \in Guardian
    BY MyPath DEF GuardDone
  <2> HIDE DEF u, s
  <2> QED BY <1>2, <2>1, StateSet
<1>7. CASE Drops
  <2>1. guard[Turn].state < 0 /\ ldu2[Me.at] = "SPACE" /\ s = 0 /\ m = "GOLD"
    BY <1>1, <1>7 DEF Drops
  <2> HIDE DEF t, s, m
  <2>2. PutsDown(t)
    BY <1>1, <1>3, <1>5, <1>6, <1>7, <2>1 DEF PutsDown
  <2> QED BY <1>2, <1>3, <1>4, <2>1, <2>2, GuardGoesShape DEF t
<1>8. CASE ~Drops
  <2>1. m = Vacated(Me.at) /\ (s < 0 <=> Me.state < 0)
    BY <1>1, <1>8
  <2> HIDE DEF t, s, m
  <2>2. KeepsGold(t)
    BY <1>1, <1>3, <1>5, <1>6, <1>8, <2>1 DEF KeepsGold
  <2> QED BY <1>2, <1>3, <1>4, <2>1, <2>2, GuardGoesShape DEF t
<1> QED BY <1>7, <1>8

(* A dead guard waits, he does not think or fall.                          *)
LEMMA Alive ==
  ASSUME GameInv, phase = "guards", GuardThinks \/ GuardFree
  PROVE  guard[Turn].cnt = 0
<1>1. CLIMB \in Nat /\ WRIGGLE \in Nat /\ CLIMB < WRIGGLE
  BY TimesAssumption
<1>2. /\ guard[Turn].cnt # 0 => Counting /\ Me.state >= WRIGGLE
      /\ Me.state \in -128..127
  BY MeFacts
<1>3. CASE GuardFree
  BY <1>2, <1>3 DEF GuardFree
<1>4. CASE GuardThinks
  <2>1. SUFFICES ASSUME guard[Turn].cnt # 0 PROVE FALSE
    OBVIOUS
  <2>2. Me.state < CLIMB /\ Me.state >= WRIGGLE
    BY <1>2, <1>4, <2>1 DEF GuardThinks
  <2>3. Me.state \in Int
    BY <1>2
  <2> QED BY <1>1, <2>2, <2>3
<1> QED BY <1>3, <1>4

LEMMA AIFacts == \A me : guard_ai(me) \in Directions \cup {"NO_MOVE"}
  BY DEF guard_ai, BestWay, Directions

LEMMA GuardStaysPut ==
  ASSUME GameInv, GuardDone, NEW d \in Directions, guard[Turn].cnt = 0, GuardStays(d)
  PROVE  GuardTurn
<1> DEFINE u == Within(Adjusted(Me, d), d)
<1>1. ~Leaves(Adjusted(Me, d), d) /\ UNCHANGED <<ldu1, no_gold, level_active>>
  BY DEF GuardStays
<1>2. CASE PicksUp(Path(d))
  BY <1>1, <1>2, TakesUpShape DEF GuardStays
<1>3. CASE ~PicksUp(Path(d))
  <2>1. Saved(u) /\ UNCHANGED ldu2
    BY <1>3 DEF GuardStays
  <2>2. u \in Guardian /\ u.at = Me.at /\ u.cnt = Me.cnt /\ u.state = Me.state
    BY <1>1, MyPath DEF GuardDone
  <2>3. Me.state < 0 <=> guard[Turn].state < 0
    BY MeFacts DEF GuardDone
  <2> HIDE DEF u
  <2>4. KeepsGold(u)
    BY <1>1, <2>1, <2>2, <2>3 DEF KeepsGold
  <2> QED BY <1>1, <2>1, <2>2, <2>4, GuardStaysShape
<1> QED BY <1>2, <1>3

LEMMA GuardWalksShape ==
  ASSUME GameInv, GuardWalks
  PROVE  GuardTurn
<1> DEFINE d == guard_ai(Me)
<1>1. PICK behind \in TileBehind(Me.at) :
        /\ GuardThinks /\ d # "NO_MOVE" /\ GuardCanMove(d, behind)
        /\ GuardLeaves(d) \/ GuardStays(d)
        /\ GuardDone
  BY DEF GuardWalks
<1>2. d \in Directions
  BY <1>1, AIFacts
<1>3. guard[Turn].cnt = 0
  BY <1>1, Alive DEF GuardDone
<1> HIDE DEF d
<1>4. CASE GuardStays(d)
  BY <1>1, <1>2, <1>3, <1>4, GuardStaysPut
<1>5. CASE GuardLeaves(d)
  <2>1. Leaves(Adjusted(Me, d), d)
    BY <1>5 DEF GuardLeaves
  <2>2. ~BeforeCentre(Me, d)
    BY <1>1, <1>2, <2>1, MyPath DEF GuardDone
  <2>3. ~AtEdge(Me.at, d) /\ ldu1[Beside(Me.at, d)] \notin Wall \cup {"GUARD"}
    BY <1>1, <2>2 DEF GuardCanMove, GuardBlock
  <2> QED BY <1>1, <1>2, <1>3, <1>5, <2>3, GuardLeavesShape
<1> QED BY <1>1, <1>4, <1>5

LEMMA GuardBlockedShape ==
  ASSUME GameInv, GuardBlocked \/ GuardIdles
  PROVE  GuardTurn
<1>1. /\ GuardDone /\ GuardThinks /\ UNCHANGED <<ldu1, ldu2, no_gold, level_active>>
      /\ phase = "guards"
  BY DEF GuardBlocked, GuardIdles, GuardDone
<1>2. guard[Turn].cnt = 0
  BY <1>1, Alive
<1>3. /\ Me \in Guardian /\ Me.state \in -128..127 /\ (Me.state < 0 <=> guard[Turn].state < 0)
      /\ Me.state = IF Counting THEN guard[Turn].state - 1 ELSE guard[Turn].state
      /\ guard[Turn] \in Guardian /\ Turn \in Guards /\ guard[Turn].state \in -128..127
      /\ Me.at = guard[Turn].at /\ Me.cnt = guard[Turn].cnt
  BY <1>1, MeFacts
<1>4. CASE GuardBlocked
  <2> DEFINE t == IF guard_ai(Me) = "UP" /\ Me.state > 0 THEN [Me EXCEPT !.state = Me.state + 1] ELSE Me
  <2>1. Saved(t)
    BY <1>4 DEF GuardBlocked
  <2>2. Me.state > 0 => Me.state + 1 \in -128..127
    BY <1>3 DEF Counting
  <2>3. /\ t \in Guardian /\ t.at = Me.at /\ t.cnt = Me.cnt
        /\ t.state = Me.state \/ (Me.state > 0 /\ t.state = Me.state + 1)
    <3>1. CASE guard_ai(Me) = "UP" /\ Me.state > 0
      <4>1. t = [Me EXCEPT !.state = Me.state + 1]
        BY <3>1
      <4> QED BY <1>3, <2>2, <3>1, <4>1, StateSet
    <3>2. CASE ~(guard_ai(Me) = "UP" /\ Me.state > 0)
      <4>1. t = Me
        BY <3>2
      <4> HIDE DEF t
      <4> QED BY <1>3, <4>1
    <3> QED BY <3>1, <3>2
  <2> HIDE DEF t
  <2>4. t.state < 0 <=> Me.state < 0
    BY <1>3, <2>3
  <2>5. KeepsGold(t)
    BY <1>1, <1>3, <2>4 DEF KeepsGold
  <2> QED BY <1>1, <1>2, <2>1, <2>3, <2>5, GuardStaysShape
<1>5. CASE GuardIdles
  <2> DEFINE t == guard[Turn]
  <2>1. guard' = guard /\ guard \in [Guards -> Guardian]
    BY <1>5 DEF GuardIdles, GameInv, TypeInv, TypeOK
  <2>2. Saved(t)
    BY <1>3, <2>1 DEF Saved
  <2>3. KeepsGold(t)
    BY <1>1 DEF KeepsGold
  <2> HIDE DEF t
  <2> QED BY <1>1, <1>2, <1>3, <2>2, <2>3, GuardStaysShape DEF t
<1> QED BY <1>4, <1>5

LEMMA DownFacts ==
  ASSUME GameInv, phase = "guards", GuardFree
  PROVE  /\ ~Counting /\ guard[Turn].cnt = 0
         /\ Leaves(Adjusted(Me, "DOWN"), "DOWN") <=> Leaves(Me, "DOWN")
         /\ Leaves(Me, "DOWN") => /\ ~AtEdge(Me.at, "DOWN") /\ Below(Me.at) = Beside(Me.at, "DOWN")
                                  /\ ldu1[Beside(Me.at, "DOWN")] \notin Wall \cup {"GUARD"}
<1>1. ~Counting /\ guard[Turn].cnt = 0 /\ Unsupported(Me, {"SPACE", "PLAYER"})
  BY Alive DEF GuardFree
<1>2. Me \in Guardian /\ Me.at \in Cells /\ Me.y \in Offsets
  BY MeFacts DEF Guardian
<1>3. "DOWN" \in Directions
  BY DEF Directions
<1>4. Leaves(Adjusted(Me, "DOWN"), "DOWN") <=> Leaves(Me, "DOWN")
  BY <1>3, MyPath
<1>5. ASSUME Leaves(Me, "DOWN")
      PROVE  /\ ~AtEdge(Me.at, "DOWN") /\ Below(Me.at) = Beside(Me.at, "DOWN")
             /\ ldu1[Beside(Me.at, "DOWN")] \notin Wall \cup {"GUARD"}
  <2>1. ~(Me.y < MID)
    BY <1>2, <1>5, BoardAssumption DEF Leaves, Offsets
  <2>2. /\ Me.at[1] # LastRow
        /\ \/ ldu1[Below(Me.at)] \in {"SPACE", "PLAYER"}
           \/ ldu1[Below(Me.at)] # "GUARD" /\ ldu2[Below(Me.at)] \notin Wall
    BY <1>1, <2>1 DEF Unsupported
  <2>3. ~AtEdge(Me.at, "DOWN") /\ Below(Me.at) = Beside(Me.at, "DOWN")
    BY <1>2, <2>2, BelowFacts
  <2>4. Below(Me.at) \in Cells
    BY <1>2, <1>3, <2>3, BesideFacts
  <2>5. ldu1[Below(Me.at)] \in Wall => ldu2[Below(Me.at)] = ldu1[Below(Me.at)]
    BY <2>4 DEF GameInv, BoardInv
  <2> QED BY <2>2, <2>3, <2>5 DEF Wall
<1> QED BY <1>1, <1>4, <1>5

LEMMA GuardSinksShape ==
  ASSUME GameInv, GuardSinks
  PROVE  GuardTurn
<1> DEFINE t == Within(Adjusted(Me, "DOWN"), "DOWN")
           trapped == t.y = MID /\ ldu2[Me.at] = "BRICK"
<1>1. /\ phase = "guards" /\ GuardDone /\ GuardFree /\ ~Leaves(Me, "DOWN")
      /\ UNCHANGED <<ldu1, level_active>> /\ "DOWN" \in Directions
  BY DEF GuardSinks, GuardDone, Directions
<1>2. guard[Turn].cnt = 0 /\ ~Leaves(Adjusted(Me, "DOWN"), "DOWN")
  BY <1>1, DownFacts
<1>3. t \in Guardian /\ t.at = Me.at /\ t.cnt = Me.cnt /\ t.state = Me.state
  BY <1>1, <1>2, MyPath
<1>4. (Me.state < 0 <=> guard[Turn].state < 0) /\ Me.state \in -128..127
  BY <1>1, MeFacts
<1>5. CASE PicksUp(Path("DOWN"))
  BY <1>1, <1>2, <1>5, TakesUpShape DEF GuardSinks
<1>6. CASE ~PicksUp(Path("DOWN"))
  <2> DEFINE u == IF trapped THEN [t EXCEPT !.state = TRAPPED] ELSE t
  <2>1. /\ Saved(u) /\ UNCHANGED ldu2
        /\ no_gold' = IF trapped /\ Me.state < 0 THEN Decremented(no_gold) ELSE no_gold
    BY <1>6 DEF GuardSinks
  <2>2. TRAPPED \in -128..127 /\ TRAPPED > 0
    BY TimesAssumption
  <2>3. CASE trapped
    <3>1. u = [t EXCEPT !.state = TRAPPED]
      BY <2>3
    <3>2. u \in Guardian /\ u.at = Me.at /\ u.cnt = Me.cnt /\ u.state = TRAPPED
      <4> HIDE DEF t, u
      <4> QED BY <1>3, <2>2, <3>1, StateSet
    <3> HIDE DEF u
    <3>3. KeepsGold(u) \/ LosesGold(u)
      BY <1>4, <2>1, <2>2, <2>3, <3>2 DEF KeepsGold, LosesGold
    <3> QED BY <1>1, <1>2, <2>1, <3>2, <3>3, GuardStaysShape
  <2>4. CASE ~trapped
    <3>1. u = t
      BY <2>4
    <3> HIDE DEF u, t, trapped
    <3>2. KeepsGold(t)
      BY <1>3, <1>4, <2>1, <2>4 DEF KeepsGold
    <3> QED BY <1>1, <1>2, <1>3, <2>1, <3>1, <3>2, GuardStaysShape
  <2> QED BY <2>3, <2>4
<1> QED BY <1>5, <1>6

LEMMA GuardDropsShape ==
  ASSUME GameInv, GuardDrops
  PROVE  GuardTurn
<1> DEFINE intoHole == ldu2[Below(Me.at)] = "BRICK" /\ Me.state < 0
           room == ldu2[Me.at] = "SPACE"
           s == IF intoHole THEN 0 ELSE Me.state
           m == IF intoHole /\ room THEN "GOLD" ELSE Vacated(Me.at)
           t == [Into(Adjusted(Me, "DOWN"), "DOWN") EXCEPT !.state = s]
<1>1. /\ phase = "guards" /\ GuardDone /\ GuardFree /\ Leaves(Me, "DOWN") /\ "DOWN" \in Directions
      /\ GuardEnters(Adjusted(Me, "DOWN"), "DOWN", s)
      /\ no_gold' = IF intoHole /\ ~room THEN Decremented(no_gold) ELSE no_gold
      /\ ldu2' = IF intoHole /\ room THEN [ldu2 EXCEPT ![Me.at] = "GOLD"] ELSE ldu2
      /\ ldu1' = [ldu1 EXCEPT ![Me.at] = m, ![Below(Me.at)] = "GUARD"]
  BY DEF GuardDrops, GuardDone, Directions
<1>2. /\ guard[Turn].cnt = 0 /\ ~AtEdge(Me.at, "DOWN") /\ Below(Me.at) = Beside(Me.at, "DOWN")
      /\ ldu1[Beside(Me.at, "DOWN")] \notin Wall \cup {"GUARD"}
  BY <1>1, DownFacts
<1>3. /\ (Me.state < 0 <=> guard[Turn].state < 0) /\ Me.state \in -128..127
      /\ Me.at = guard[Turn].at
  BY <1>1, MeFacts
<1>4. s \in -128..127
  BY <1>3
<1>5. t.state = s
  <2>1. Into(Adjusted(Me, "DOWN"), "DOWN") \in Guardian
    BY <1>1, <1>2, MyPath
  <2> HIDE DEF s
  <2> QED BY <1>4, <2>1, StateSet
<1>6. \/ m = "GOLD" /\ PutsDown(t)
      \/ m = Vacated(Me.at) /\ (KeepsGold(t) \/ LosesGold(t))
  <2> HIDE DEF t
  <2>1. CASE intoHole /\ room
    BY <1>1, <1>3, <1>5, <2>1 DEF PutsDown
  <2>2. CASE intoHole /\ ~room
    BY <1>1, <1>3, <1>5, <2>2 DEF LosesGold
  <2>3. CASE ~intoHole
    BY <1>1, <1>3, <1>5, <2>3 DEF KeepsGold
  <2> QED BY <2>1, <2>2, <2>3
<1>7. m \in {"GOLD", Vacated(Me.at)}
  OBVIOUS
<1>8. ldu1' = [ldu1 EXCEPT ![Me.at] = m, ![Beside(Me.at, "DOWN")] = "GUARD"]
  BY <1>1, <1>2
<1> HIDE DEF intoHole, room, s, m
<1> QED BY <1>1, <1>2, <1>4, <1>6, <1>7, <1>8, GuardGoesShape

LEMMA GuardShape ==
  ASSUME GameInv,
         \/ GuardWaits \/ GuardWriggles \/ GuardWalks \/ GuardBlocked \/ GuardIdles
         \/ GuardSinks \/ GuardDrops
  PROVE  GuardTurn
  BY GuardWaitsShape, GuardWalksShape, GuardBlockedShape, GuardSinksShape, GuardDropsShape

(* The levels that are started.                                            *)
Restarts ==
  \E l \in 1..Len(Levels) :
    /\ StartLevel(l) /\ no_lives' \in 1..255 /\ guard_respawn_col' \in 0..LastCol

LEMMA RestartShape ==
  ASSUME GameInv, NextLevel \/ LoseLife
  PROVE  Restarts
<1>1. /\ level \in 1..Len(Levels) /\ Len(Levels) \in Nat /\ no_lives \in 1..255
      /\ guard_respawn_col \in 0..LastCol /\ LastCol \in Nat
      /\ NO_LIVES \in 1..255
  <2>1. NO_LIVES \in Nat \ {0} /\ NO_LIVES <= 255
    BY TimesAssumption
  <2>2. Len(Levels) \in Nat
    BY LevelAssumption
  <2> QED BY <2>1, <2>2, BoardAssumption DEF GameInv, TypeInv, TypeOK
<1>2. CASE NextLevel
  <2>1. /\ level < Len(Levels) /\ StartLevel(level + 1) /\ guard_respawn_col' = guard_respawn_col
        /\ no_lives' = IF no_lives = 255 THEN 255 ELSE no_lives + 1
    BY <1>2 DEF NextLevel
  <2>2. level + 1 \in 1..Len(Levels) /\ no_lives' \in 1..255
    BY <1>1, <2>1
  <2> QED BY <1>1, <2>1, <2>2 DEF Restarts
<1>3. CASE LoseLife
  <2>1. CASE no_lives > 1
    <3>1. StartLevel(level) /\ no_lives' = no_lives - 1 /\ guard_respawn_col' = guard_respawn_col
      BY <1>3, <2>1 DEF LoseLife
    <3> QED BY <1>1, <2>1, <3>1 DEF Restarts
  <2>2. CASE ~(no_lives > 1)
    <3>1. StartLevel(1) /\ no_lives' = NO_LIVES /\ guard_respawn_col' = 0
      BY <1>3, <2>2 DEF LoseLife
    <3> QED BY <1>1, <3>1 DEF Restarts
  <2> QED BY <2>1, <2>2
<1> QED BY <1>2, <1>3

(* Every step is of one of these shapes.                                   *)
LEMMA StepShape ==
  ASSUME GameInv, Next
  PROVE  PlayerTurn \/ World \/ BrickReturns \/ GuardTurn \/ Restarts
  BY PlayerShape, GuardShape, RestartShape DEF Next

-----------------------------------------------------------------------------
(* The types.                                                              *)
LEMMA UpdatesFacts ==
  ASSUME NEW n \in 1..MAX_GUARDS, NEW i \in 0..2
  PROVE  UpdatesAt(n, i) \in 0..2
<1>1. n \in {1, 2, 3, 4, 5}
  <2>1. MAX_GUARDS \in Nat /\ MAX_GUARDS <= 5
    BY TimesAssumption
  <2> QED BY <2>1
<1>2. i + 1 \in 1..3
  OBVIOUS
<1>3. /\ n = 1 => UpdatesAt(n, i) = <<0, 1, 1>>[i + 1]
      /\ n = 2 => UpdatesAt(n, i) = <<1, 1, 1>>[i + 1]
      /\ n = 3 => UpdatesAt(n, i) = <<1, 2, 1>>[i + 1]
      /\ n = 4 => UpdatesAt(n, i) = <<1, 2, 2>>[i + 1]
      /\ n = 5 => UpdatesAt(n, i) = <<2, 2, 2>>[i + 1]
  BY DEF UpdatesAt
<1> QED BY <1>1, <1>2, <1>3

LEMMA WorldDoneFacts ==
  ASSUME TypeOK, NEW exp, WorldDone(exp)
  PROVE  /\ expired' = exp /\ (phase' = "bricks" <=> exp # {})
         /\ phase' \in {"player", "bricks", "guards", "dead"}
         /\ phase' \in {"player", "guards"} => level_active'
         /\ byte_64' \in 0..2 /\ updates' \in 0..2
         /\ phase' = "guards" => updates' > 0 /\ no_guards > 0
<1>1. no_guards \in 0..MAX_GUARDS /\ byte_64 \in 0..2 /\ updates \in 0..2 /\ expired' = exp
  BY DEF TypeOK, WorldDone
<1>2. CASE exp # {} \/ ~level_active' \/ no_guards = 0
  <2>1. /\ phase' = IF exp # {} THEN "bricks" ELSE IF ~level_active' THEN "dead" ELSE "player"
        /\ UNCHANGED turnVars
    BY <1>2 DEF WorldDone
  <2> QED BY <1>1, <2>1 DEF turnVars
<1>3. CASE ~(exp # {} \/ ~level_active' \/ no_guards = 0)
  <2> DEFINE i == IF byte_64 + 1 >= 3 THEN 0 ELSE byte_64 + 1
  <2>1. /\ byte_64' = i /\ updates' = UpdatesAt(no_guards, i)
        /\ phase' = IF updates' = 0 THEN "player" ELSE "guards"
    BY <1>3 DEF WorldDone
  <2>2. i \in 0..2
    BY <1>1
  <2>3. no_guards \in 1..MAX_GUARDS /\ no_guards > 0
    <3>1. MAX_GUARDS \in Nat
      BY TimesAssumption
    <3> QED BY <1>1, <1>3, <3>1
  <2>4. updates' \in 0..2
    BY <2>1, <2>2, <2>3, UpdatesFacts
  <2> QED BY <1>1, <1>3, <2>1, <2>2, <2>3, <2>4
<1> QED BY <1>2, <1>3

LEMMA DecrementedFacts ==
  ASSUME NEW n \in 0..255
  PROVE  Decremented(n) \in 0..255
  BY DEF Decremented

LEMMA VacatedFacts ==
  ASSUME BoardInv, NEW c \in Cells
  PROVE  Vacated(c) \in Static_Tiles \ {"BRICK"} /\ Vacated(c) \in Tiles
  BY DEF BoardInv, Vacated, Static_Tiles, Tiles

LEMMA HoleAddedFacts ==
  ASSUME TypeOK, NEW c \in Cells, HoleAdded(c)
  PROVE  \/ hole' = hole /\ \A n \in Holes : hole[n].cnt # 0
         \/ \E n \in Holes : /\ hole[n].cnt = 0
                             /\ hole' = [hole EXCEPT ![n] = [at |-> c, cnt |-> HOLE_TICKS]]
<1> DEFINE free == {n \in Holes : hole[n].cnt = 0}
<1>1. CASE free = {}
  BY <1>1 DEF HoleAdded
<1>2. CASE free # {}
  <2>1. hole' = [hole EXCEPT ![Lowest(free)] = [at |-> c, cnt |-> HOLE_TICKS]]
    BY <1>2 DEF HoleAdded
  <2>2. free \subseteq Holes /\ Holes \subseteq Int
    BY DEF Holes
  <2>3. Lowest(free) \in free
    <3> HIDE DEF free
    <3>1. IsFiniteSet(free)
      <4>1. MAX_HOLES - 1 \in Int
        BY TimesAssumption
      <4>2. IsFiniteSet(Holes)
        BY <4>1, FS_Interval DEF Holes
      <4> QED BY <2>2, <4>2, FS_Subset
    <3> QED BY <1>2, <2>2, <3>1, HasLowest
  <2>4. Lowest(free) \in Holes /\ hole[Lowest(free)].cnt = 0
    BY <2>3
  <2> QED BY <2>1, <2>4
<1> QED BY <1>1, <1>2

LEMMA PlayerTypes ==
  ASSUME GameInv, PlayerTurn
  PROVE  TypeInv'
<1>1. TypeOK /\ PhaseInv /\ phase = "player" /\ level_active = TRUE /\ expired = {} /\ DeadInv
  BY DEF GameInv, TypeInv, PhaseInv, TypeOK, PlayerTurn
<1>2. /\ phase' = "world"
      /\ UNCHANGED <<lifeVars, eos, expired, guardVars, guard_respawn_col, turnVars>>
  BY DEF PlayerTurn, PlayerDone
<1> DEFINE Types ==
      /\ player' \in Thing /\ ldu1' \in [Cells -> Tiles] /\ ldu2' \in [Cells -> Tiles]
      /\ no_gold' \in 0..255
      /\ dig_dir' \in Sideways \cup {"none"} /\ dig_sprite' \in 0..DIG_FRAMES
      /\ dig_dir' = "none" => dig_sprite' = 0
      /\ hole' \in [Holes -> [at : Cells, cnt : 0..HOLE_TICKS]]
<1>3. Types
  <2>1. ASSUME NEW d \in Directions, PlayerGoes(d)
        PROVE  Types
    <3>1. player.at \in Cells /\ Beside(player.at, d) \in Cells
      BY <1>1, <2>1, PlayerCell, BesideFacts DEF PlayerGoes
    <3>2. ldu1' \in [Cells -> Tiles]
      BY <1>1, <2>1, <3>1, VacatedFacts DEF PlayerGoes, TypeOK, GameInv, Tiles
    <3> QED BY <1>1, <2>1, <3>2 DEF PlayerGoes, digVars, TypeOK, PhaseInv
  <2>2. ASSUME PlayerStays
        PROVE  Types
    <3>1. ldu2' \in [Cells -> Tiles] /\ no_gold' \in 0..255
      BY <1>1, <2>2, PlayerCell, DecrementedFacts DEF PlayerStays, GoldFrom, TypeOK, Tiles
    <3>2. /\ ldu1' \in [Cells -> Tiles]
          /\ dig_dir' \in Sideways \cup {"none"} /\ dig_sprite' \in 0..DIG_FRAMES
          /\ dig_dir' = "none" => dig_sprite' = 0
          /\ hole' \in [Holes -> [at : Cells, cnt : 0..HOLE_TICKS]]
      <4>1. CASE /\ dig_dir' \in Sideways \cup {"none"} /\ dig_sprite' \in 0..DIG_FRAMES
                 /\ dig_dir' = "none" => dig_sprite' = 0
                 /\ UNCHANGED <<ldu1, hole>>
        BY <1>1, <4>1 DEF TypeOK
      <4>2. CASE /\ dig_sprite = DIG_FRAMES /\ dig_dir' = "none" /\ dig_sprite' = 0
                 /\ \E c \in Cells :
                      ldu1[c] = "BRICK" /\ ldu1' = [ldu1 EXCEPT ![c] = "SPACE"] /\ HoleAdded(c)
        <5>1. PICK c \in Cells : ldu1' = [ldu1 EXCEPT ![c] = "SPACE"] /\ HoleAdded(c)
          BY <4>2
        <5>2. ldu1' \in [Cells -> Tiles]
          BY <1>1, <5>1 DEF TypeOK, Tiles
        <5>3. [at |-> c, cnt |-> HOLE_TICKS] \in [at : Cells, cnt : 0..HOLE_TICKS]
          BY TimesAssumption
        <5>4. hole' \in [Holes -> [at : Cells, cnt : 0..HOLE_TICKS]]
          BY <1>1, <5>1, <5>3, HoleAddedFacts DEF TypeOK
        <5>5. 0 \in 0..DIG_FRAMES
          BY TimesAssumption
        <5> QED BY <4>2, <5>2, <5>4, <5>5
      <4> QED BY <2>2, <4>1, <4>2 DEF PlayerStays, Digs
    <3> QED BY <2>2, <3>1, <3>2 DEF PlayerStays
  <2> QED BY <2>1, <2>2 DEF PlayerTurn
<1>4. Guards' = Guards
  BY <1>2 DEF Guards, guardVars
<1>5. TypeOK'
  BY <1>1, <1>2, <1>3, <1>4 DEF TypeOK, lifeVars, guardVars, turnVars
<1>6. PhaseInv'
  BY <1>1, <1>2, <1>3 DEF PhaseInv, lifeVars
<1>7. DeadInv'
  BY <1>1, <1>2, <1>4 DEF DeadInv, TurnsLeft, guardVars
<1> QED BY <1>5, <1>6, <1>7 DEF TypeInv

Life(t, s, k) == [t EXCEPT !.state = s, !.cnt = k]

LEMMA LifeSet ==
  ASSUME NEW t \in Guardian, NEW s \in -128..127, NEW k \in 0..RESPAWN
  PROVE  /\ Life(t, s, k) \in Guardian /\ Life(t, s, k).at = t.at
         /\ Life(t, s, k).state = s /\ Life(t, s, k).cnt = k
  BY DEF Guardian, Life

(* What the world does to a guard: a dead one comes back where the ladder  *)
(* is laid and nobody is, or has less time to wait.                        *)
Laid == [c \in Cells |-> IF c \in Drawn /\ ldu1[c] = "SPACE" THEN "LADDER" ELSE ldu1[c]]
Back == {g \in Guards : Returns(g, Laid)}

LEMMA WorldFacts ==
  ASSUME GameInv, World
  PROVE  /\ phase = "world" /\ level_active = TRUE /\ expired = {} /\ Drawn \subseteq eos
         /\ \A c \in Drawn : ldu2[c] = "SPACE" /\ no_gold = 0
         /\ ldu2' = [c \in Cells |-> IF c \in Drawn THEN "LADDER" ELSE ldu2[c]]
         /\ ldu1' = [c \in Cells |-> IF \E g \in Back : guard[g].at = c THEN "GUARD" ELSE Laid[c]]
         /\ eos' = eos \ Drawn /\ no_gold' = (IF no_gold = 0 /\ eos' = {} THEN 255 ELSE no_gold)
         /\ guard' \in [Guards -> Guardian]
         /\ \A g \in Guards :
              /\ guard'[g].at = guard[g].at
              /\ guard[g].cnt = 0 => guard'[g] = guard[g] /\ g \notin Back
              /\ g \in Back => guard[g].cnt = 1 /\ guard'[g].state = 0 /\ guard'[g].cnt = 0
              /\ guard[g].cnt # 0 /\ g \notin Back => guard'[g].state = DEAD /\ guard'[g].cnt # 0
         /\ hole' = [n \in Holes |->
              IF hole[n].cnt = 0 THEN hole[n] ELSE [hole[n] EXCEPT !.cnt = hole[n].cnt - 1]]
         /\ UNCHANGED <<player, lifeVars, digVars, no_guards, curr_guard, met>>
         /\ WorldDone({n \in Holes : hole[n].cnt = 1})
         /\ guard_respawn_col' = NextRespawnCol
<1>1. /\ phase = "world" /\ ~LevelDone
      /\ ldu2' = [c \in Cells |-> IF c \in Drawn THEN "LADDER" ELSE ldu2[c]]
      /\ eos' = eos \ Drawn
      /\ no_gold' = (IF no_gold = 0 /\ eos' = {} THEN 255 ELSE no_gold)
      /\ ldu1' = [c \in Cells |-> IF \E g \in Back : guard[g].at = c THEN "GUARD" ELSE Laid[c]]
      /\ guard' = [g \in Guards |->
           IF guard[g].cnt = 0 THEN guard[g]
           ELSE IF g \in Back THEN [guard[g] EXCEPT !.state = 0, !.cnt = 0]
           ELSE [guard[g] EXCEPT !.state = DEAD,
                                 !.cnt = IF guard[g].cnt = 1 THEN 1 ELSE guard[g].cnt - 1]]
      /\ guard_respawn_col' = NextRespawnCol
      /\ hole' = [n \in Holes |->
           IF hole[n].cnt = 0 THEN hole[n] ELSE [hole[n] EXCEPT !.cnt = hole[n].cnt - 1]]
      /\ UNCHANGED <<player, lifeVars, digVars, no_guards, curr_guard, met>>
      /\ WorldDone({n \in Holes : hole[n].cnt = 1})
  BY DEF World, Back, Laid
<1>2. level_active = TRUE /\ expired = {}
  BY <1>1 DEF GameInv, TypeInv, PhaseInv, TypeOK
<1>3. Drawn \subseteq eos /\ \A c \in Drawn : ldu2[c] = "SPACE" /\ no_gold = 0
  BY DEF Drawn
<1>4. ASSUME NEW g \in Guards
      PROVE  /\ guard'[g] \in Guardian /\ guard'[g].at = guard[g].at
             /\ guard[g].cnt = 0 => guard'[g] = guard[g] /\ g \notin Back
             /\ g \in Back => guard[g].cnt = 1 /\ guard'[g].state = 0 /\ guard'[g].cnt = 0
             /\ guard[g].cnt # 0 /\ g \notin Back => guard'[g].state = DEAD /\ guard'[g].cnt # 0
  <2> DEFINE k == IF guard[g].cnt = 1 THEN 1 ELSE guard[g].cnt - 1
  <2>1. guard[g] \in Guardian /\ guard[g].cnt \in 0..RESPAWN /\ RESPAWN \in Nat \ {0}
    BY TimesAssumption DEF GameInv, TypeInv, TypeOK, Guardian
  <2>2. g \in Back => guard[g].cnt = 1
    BY DEF Back, Returns
  <2>3. guard'[g] = IF guard[g].cnt = 0 THEN guard[g]
                    ELSE IF g \in Back THEN [guard[g] EXCEPT !.state = 0, !.cnt = 0]
                    ELSE [guard[g] EXCEPT !.state = DEAD, !.cnt = k]
    BY <1>1
  <2>4. CASE guard[g].cnt = 0
    BY <2>1, <2>2, <2>3, <2>4
  <2>5. CASE g \in Back
    <3>1. guard'[g] = Life(guard[g], 0, 0)
      BY <2>2, <2>3, <2>5 DEF Life
    <3>2. 0 \in -128..127 /\ 0 \in 0..RESPAWN
      BY <2>1
    <3>3. guard'[g] \in Guardian /\ guard'[g].at = guard[g].at /\ guard'[g].state = 0 /\ guard'[g].cnt = 0
      <4> DEFINE t == guard[g]
      <4>1. t \in Guardian
        BY <2>1
      <4> HIDE DEF t
      <4>2. /\ Life(t, 0, 0) \in Guardian /\ Life(t, 0, 0).at = t.at
            /\ Life(t, 0, 0).state = 0 /\ Life(t, 0, 0).cnt = 0
        BY <3>2, <4>1, LifeSet
      <4> QED BY <3>1, <4>2 DEF t
    <3> QED BY <2>2, <2>5, <3>3
  <2>6. CASE guard[g].cnt # 0 /\ g \notin Back
    <3>1. guard'[g] = Life(guard[g], DEAD, k)
      BY <2>3, <2>6 DEF Life
    <3>2. DEAD \in -128..127
      BY TimesAssumption
    <3>3. k \in 0..RESPAWN /\ k # 0
      BY <2>1, <2>6
    <3> HIDE DEF k
    <3>4. guard'[g] \in Guardian /\ guard'[g].at = guard[g].at /\ guard'[g].state = DEAD /\ guard'[g].cnt = k
      <4> DEFINE t == guard[g]
      <4>1. t \in Guardian
        BY <2>1
      <4> HIDE DEF t
      <4>2. /\ Life(t, DEAD, k) \in Guardian /\ Life(t, DEAD, k).at = t.at
            /\ Life(t, DEAD, k).state = DEAD /\ Life(t, DEAD, k).cnt = k
        BY <3>2, <3>3, <4>1, LifeSet
      <4> QED BY <3>1, <4>2 DEF t
    <3> QED BY <2>6, <3>3, <3>4
  <2> QED BY <2>4, <2>5, <2>6
<1>5. guard' \in [Guards -> Guardian]
  BY <1>1, <1>4
<1> QED BY <1>1, <1>2, <1>3, <1>4, <1>5

LEMMA WorldTypes ==
  ASSUME GameInv, World
  PROVE  TypeInv'
<1>1. TypeOK /\ PhaseInv /\ UNCHANGED <<player, lifeVars, digVars, no_guards, curr_guard>>
  BY WorldFacts DEF GameInv, TypeInv
<1>2. /\ expired' = {n \in Holes : hole[n].cnt = 1} /\ (phase' = "bricks" <=> expired' # {})
      /\ phase' \in {"player", "bricks", "guards", "dead"}
      /\ phase' \in {"player", "guards"} => level_active'
      /\ byte_64' \in 0..2 /\ updates' \in 0..2
      /\ phase' = "guards" => updates' > 0 /\ no_guards > 0
  BY <1>1, WorldFacts, WorldDoneFacts
<1>3. ldu2' \in [Cells -> Tiles]
  BY <1>1, WorldFacts DEF TypeOK, Tiles
<1>4. ldu1' \in [Cells -> Tiles]
  <2>1. Laid \in [Cells -> Tiles]
    BY <1>1 DEF Laid, TypeOK, Tiles
  <2>2. ldu1' = [c \in Cells |-> IF \E g \in Back : guard[g].at = c THEN "GUARD" ELSE Laid[c]]
    BY WorldFacts
  <2> QED BY <2>1, <2>2 DEF Tiles
<1>5. no_gold' \in 0..255 /\ eos' \subseteq Cells
  <2>1. eos' = eos \ Drawn /\ no_gold' = (IF no_gold = 0 /\ eos' = {} THEN 255 ELSE no_gold)
    BY WorldFacts
  <2>2. no_gold' = no_gold \/ no_gold' = 255
    BY <2>1
  <2> QED BY <1>1, <2>1, <2>2 DEF TypeOK
<1>6. hole' \in [Holes -> [at : Cells, cnt : 0..HOLE_TICKS]]
  <2>1. hole' = [n \in Holes |->
          IF hole[n].cnt = 0 THEN hole[n] ELSE [hole[n] EXCEPT !.cnt = hole[n].cnt - 1]]
    BY WorldFacts
  <2>2. ASSUME NEW n \in Holes
        PROVE  hole'[n] \in [at : Cells, cnt : 0..HOLE_TICKS]
    <3>1. PICK t \in [at : Cells, cnt : 0..HOLE_TICKS] : t = hole[n]
      BY <1>1 DEF TypeOK
    <3>2. t.cnt \in 0..HOLE_TICKS /\ HOLE_TICKS \in Nat
      BY TimesAssumption
    <3>3. t.cnt # 0 => t.cnt - 1 \in 0..HOLE_TICKS
      BY <3>2
    <3>4. t.cnt # 0 => [t EXCEPT !.cnt = t.cnt - 1] \in [at : Cells, cnt : 0..HOLE_TICKS]
      BY <3>3
    <3> QED BY <2>1, <3>1, <3>4
  <2> QED BY <2>1, <2>2
<1>7. guard' \in [Guards -> Guardian] /\ Guards' = Guards
  BY <1>1, WorldFacts DEF Guards
<1>8. guard_respawn_col' \in 0..LastCol
  BY <1>1, WorldFacts, BoardAssumption DEF NextRespawnCol, TypeOK
<1>9. TypeOK'
  BY <1>1, <1>2, <1>3, <1>4, <1>5, <1>6, <1>7, <1>8 DEF TypeOK, lifeVars, digVars
<1>10. PhaseInv'
  BY <1>1, <1>2 DEF PhaseInv, digVars
<1>11. DeadInv'
  <2>1. TurnsLeft' \in 0..2
    BY <1>2 DEF TurnsLeft
  <2>2. DEAD \in Nat
    BY TimesAssumption
  <2>3. \A g \in Guards : guard'[g].cnt # 0 => guard'[g].state = DEAD
    BY WorldFacts
  <2> QED BY <1>7, <2>1, <2>2, <2>3 DEF DeadInv
<1> QED BY <1>9, <1>10, <1>11 DEF TypeInv

(* What a brick does that comes back.                                      *)
Dead(b) == [at |-> b, x |-> MID, y |-> MID, state |-> DEAD, cnt |-> RESPAWN]
NobodyBuried == UNCHANGED <<no_gold, guard, curr_guard, guard_respawn_col>>
BuriedFrom(c, g, b) ==
  /\ guard[g].at = c /\ ldu2[b] = "SPACE" /\ ldu1[c] = "GUARD"
  /\ no_gold' = (IF guard[g].state < 0 THEN Decremented(no_gold) ELSE no_gold)
  /\ guard' = [guard EXCEPT ![g] = Dead(b)] /\ curr_guard' = g /\ guard_respawn_col' = b[2]

BrickBack(n) ==
  /\ n \in expired /\ ldu2[hole[n].at] = "BRICK"
  /\ ldu1' = [ldu1 EXCEPT ![hole[n].at] = "BRICK"] /\ ldu2' = ldu2
  /\ level_active' = (level_active /\ ldu1[hole[n].at] # "PLAYER")
  /\ hole' = [hole EXCEPT ![n] = NoHole]
  /\ \/ NobodyBuried /\ (ldu1[hole[n].at] = "GUARD" => \A g \in Guards : guard[g].at # hole[n].at)
     \/ \E g \in Guards, b \in Cells : BuriedFrom(hole[n].at, g, b)
  /\ UNCHANGED <<player, level, no_lives, eos, digVars, no_guards, met>>
  /\ WorldDone(expired \ {n})

LEMMA BrickFacts ==
  ASSUME GameInv, BrickReturns
  PROVE  phase = "bricks" /\ \E n \in Holes : hole[n].at \in Cells /\ BrickBack(n)
<1> DEFINE n == Highest(expired)
           c == hole[n].at
<1>1. /\ phase = "bricks" /\ expired # {} /\ expired \subseteq Holes
      /\ ldu2 \in [Cells -> Tiles] /\ hole \in [Holes -> [at : Cells, cnt : 0..HOLE_TICKS]]
      /\ no_guards \in Nat
  <2>1. MAX_GUARDS \in Nat
    BY TimesAssumption
  <2> QED BY <2>1 DEF BrickReturns, GameInv, TypeInv, TypeOK, PhaseInv
<1>2. n \in expired
  <2>1. MAX_HOLES - 1 \in Int
    BY TimesAssumption
  <2>2. IsFiniteSet(Holes) /\ Holes \subseteq Int
    BY <2>1, FS_Interval DEF Holes
  <2>3. IsFiniteSet(expired) /\ expired \in SUBSET Int
    BY <1>1, <2>2, FS_Subset
  <2> QED BY <1>1, <2>3, HasHighest
<1>3. n \in Holes /\ c \in Cells
  BY <1>1, <1>2
<1>4. ldu2[c] = "BRICK" /\ ldu1[c] \in {"BRICK", "SPACE", "PLAYER", "GUARD"}
  <2>1. Open(n)
    BY <1>2 DEF Open
  <2>2. ldu2[c] = "BRICK"
    BY <1>3, <2>1 DEF GameInv, BoardInv
  <2> QED BY <1>3, <2>2 DEF GameInv, BoardInv
<1>5. /\ ldu1' = [ldu1 EXCEPT ![c] = "BRICK"]
      /\ level_active' = (level_active /\ ldu1[c] # "PLAYER")
      /\ hole' = [hole EXCEPT ![n] = NoHole]
      /\ UNCHANGED <<player, level, no_lives, eos, digVars, no_guards, met>>
      /\ WorldDone(expired \ {n})
  BY DEF BrickReturns
<1>6. ldu2' = ldu2 /\ ldu2' = [ldu2 EXCEPT ![c] = ldu2[c]]
  BY <1>1, <1>4 DEF BrickReturns
<1>7. \/ NobodyBuried /\ (ldu1[c] = "GUARD" => \A g \in Guards : guard[g].at # c)
      \/ \E g \in Guards, b \in Cells : BuriedFrom(c, g, b)
  <2>1. CASE ldu1[c] = "GUARD" /\ \E h \in Guards : guard[h].at = c
    <3> DEFINE S == {h \in Guards : guard[h].at = c}
               g == Highest(S)
               b == FirstFree(ldu2)
    <3>1. Buries(c)
      BY <2>1 DEF BrickReturns
    <3>2. S \in SUBSET Int /\ S # {} /\ S \subseteq Guards /\ Guards \subseteq Int
      BY <1>1, <2>1 DEF Guards
    <3>3. g \in S
      <4>1. IsFiniteSet(Guards)
        BY <1>1, FS_Interval DEF Guards
      <4> HIDE DEF S
      <4> QED BY <3>2, <4>1, FS_Subset, HasHighest
    <3>4. g \in Guards /\ guard[g].at = c
      BY <3>3
    <3>5. b \in Cells /\ ldu2[b] = "SPACE"
      BY <3>1, FirstFreeFacts DEF Buries
    <3>6. /\ no_gold' = (IF guard[g].state < 0 THEN Decremented(no_gold) ELSE no_gold)
          /\ guard' = [guard EXCEPT ![g] = Dead(b)] /\ curr_guard' = g /\ guard_respawn_col' = b[2]
      BY <3>1 DEF Buries, Dead, GoldBuried
    <3> HIDE DEF g, b, c
    <3>7. BuriedFrom(c, g, b)
      BY <2>1, <3>4, <3>5, <3>6 DEF BuriedFrom
    <3> QED BY <3>4, <3>5, <3>7
  <2>2. CASE ldu1[c] = "GUARD" /\ ~\E h \in Guards : guard[h].at = c
    <3>1. NobodyBuried
      BY <2>2 DEF BrickReturns, NobodyBuried
    <3> QED BY <2>2, <3>1
  <2>3. CASE ldu1[c] # "GUARD"
    <3>1. NobodyBuried
      BY <1>4, <2>3 DEF BrickReturns, NobodyBuried
    <3> QED BY <2>3, <3>1
  <2> QED BY <2>1, <2>2, <2>3
<1> HIDE DEF n
<1>8. BrickBack(n)
  BY <1>2, <1>4, <1>5, <1>6, <1>7 DEF BrickBack
<1> QED BY <1>1, <1>3, <1>8

LEMMA BrickTypes ==
  ASSUME GameInv, BrickReturns
  PROVE  TypeInv'
<1>1. TypeOK /\ PhaseInv /\ DeadInv /\ phase = "bricks"
  BY BrickFacts DEF GameInv, TypeInv
<1>2. PICK n \in Holes : hole[n].at \in Cells /\ BrickBack(n)
  BY BrickFacts
<1>3. /\ expired' = expired \ {n} /\ (phase' = "bricks" <=> expired' # {})
      /\ phase' \in {"player", "bricks", "guards", "dead"}
      /\ phase' \in {"player", "guards"} => level_active'
      /\ byte_64' \in 0..2 /\ updates' \in 0..2
      /\ phase' = "guards" => updates' > 0 /\ no_guards > 0
  BY <1>1, <1>2, WorldDoneFacts DEF BrickBack
<1>4. /\ ldu1' \in [Cells -> Tiles] /\ ldu2' \in [Cells -> Tiles]
      /\ hole' \in [Holes -> [at : Cells, cnt : 0..HOLE_TICKS]]
      /\ level_active' \in BOOLEAN
      /\ UNCHANGED <<player, level, no_lives, eos, digVars, no_guards, met>>
  <2>1. NoHole \in [at : Cells, cnt : 0..HOLE_TICKS]
    <3>1. <<0, 0>> \in Cells
      BY BoardAssumption DEF Cells
    <3>2. 0 \in 0..HOLE_TICKS
      BY TimesAssumption
    <3> QED BY <3>1, <3>2 DEF NoHole
  <2> QED BY <1>1, <1>2, <2>1 DEF BrickBack, TypeOK, Tiles
<1>5. Guards' = Guards
  BY <1>4 DEF Guards
<1>6. /\ guard' \in [Guards -> Guardian] /\ curr_guard' \in 0..no_guards
      /\ no_gold' \in 0..255 /\ guard_respawn_col' \in 0..LastCol
      /\ \A g \in Guards : guard'[g].cnt # 0 => guard'[g] = guard[g] \/ guard'[g].state = DEAD
  <2>1. CASE NobodyBuried
    BY <1>1, <2>1 DEF NobodyBuried, TypeOK
  <2>2. CASE \E g \in Guards, b \in Cells : BuriedFrom(hole[n].at, g, b)
    <3>1. PICK g \in Guards, b \in Cells : BuriedFrom(hole[n].at, g, b)
      BY <2>2
    <3>2. /\ no_gold' = (IF guard[g].state < 0 THEN Decremented(no_gold) ELSE no_gold)
          /\ guard' = [guard EXCEPT ![g] = Dead(b)] /\ curr_guard' = g /\ guard_respawn_col' = b[2]
      BY <3>1 DEF BuriedFrom
    <3>3. Dead(b) \in Guardian /\ Dead(b).state = DEAD
      <4>1. DEAD \in -128..127 /\ RESPAWN \in 0..RESPAWN /\ MID \in Offsets
        BY TimesAssumption, BoardAssumption DEF Offsets
      <4> QED BY <4>1 DEF Dead, Guardian
    <3>4. guard' \in [Guards -> Guardian]
      BY <1>1, <3>2, <3>3 DEF TypeOK
    <3>5. \A h \in Guards : guard'[h] = IF h = g THEN Dead(b) ELSE guard[h]
      BY <1>1, <3>2 DEF TypeOK
    <3>6. no_gold' \in 0..255
      BY <1>1, <3>2, DecrementedFacts DEF TypeOK
    <3>7. curr_guard' \in 0..no_guards
      BY <3>2 DEF Guards
    <3>8. guard_respawn_col' \in 0..LastCol
      BY <3>2, CellFacts
    <3> QED BY <3>3, <3>4, <3>5, <3>6, <3>7, <3>8
  <2> QED BY <1>2, <2>1, <2>2 DEF BrickBack
<1>7. TypeOK'
  BY <1>1, <1>3, <1>4, <1>5, <1>6 DEF TypeOK, digVars
<1>8. PhaseInv'
  BY <1>1, <1>3, <1>4 DEF PhaseInv, digVars, TypeOK
<1>9. DeadInv'
  <2>1. TurnsLeft' \in 0..2 /\ TurnsLeft = 2
    BY <1>1, <1>3 DEF TurnsLeft
  <2>2. DEAD \in Nat
    BY TimesAssumption
  <2>3. ASSUME NEW g \in Guards, guard'[g].cnt # 0
        PROVE  guard'[g].state >= DEAD - 2 + TurnsLeft'
    <3> DEFINE k == TurnsLeft'
    <3>0. k \in Int /\ k <= 2
      BY <2>1
    <3> HIDE DEF k
    <3>1. CASE guard'[g].state = DEAD
      <4>1. DEAD >= DEAD - 2 + k
        BY <2>2, <3>0
      <4> QED BY <3>1, <4>1 DEF k
    <3>2. CASE guard'[g] = guard[g]
      <4>1. guard[g].state >= DEAD - 2 + 2
        BY <1>1, <2>1, <2>3, <3>2 DEF DeadInv
      <4>2. guard[g] \in Guardian
        BY <1>1 DEF TypeOK
      <4>3. guard[g].state \in Int
        BY <4>2 DEF Guardian
      <4>4. guard[g].state >= DEAD - 2 + k
        BY <2>2, <3>0, <4>1, <4>3
      <4> QED BY <3>2, <4>4 DEF k
    <3> QED BY <1>6, <2>3, <3>1, <3>2
  <2> QED BY <1>5, <2>3 DEF DeadInv
<1> QED BY <1>7, <1>8, <1>9 DEF TypeInv

LEMMA GuardTypes ==
  ASSUME GameInv, GuardTurn
  PROVE  TypeInv'
<1>1. /\ TypeOK /\ PhaseInv /\ DeadInv /\ GuardDone /\ phase = "guards" /\ level_active = TRUE
      /\ expired = {} /\ updates \in 1..2
  BY DEF GuardTurn, GuardDone, GameInv, TypeInv, PhaseInv, TypeOK
<1>2. /\ curr_guard' = Turn /\ updates' = (IF level_active' THEN updates - 1 ELSE 0)
      /\ phase' = (IF ~level_active' THEN "dead" ELSE IF updates = 1 THEN "player" ELSE "guards")
      /\ UNCHANGED <<player, level, no_lives, eos, digVars, hole, expired, no_guards,
                     guard_respawn_col, byte_64, met>>
  BY <1>1 DEF GuardDone
<1>3. Turn \in Guards /\ guard[Turn] \in Guardian /\ guard[Turn].at \in Cells
  BY <1>1, MeFacts DEF Guardian
<1>4. PICK t \in Guardian :
        /\ Saved(t) /\ t.cnt = guard[Turn].cnt
        /\ GuardStaysAs(t) \/ \E d \in Directions : GuardGoes(t, d)
  BY DEF GuardTurn
<1>5. Guards' = Guards /\ no_guards \in Nat
  <2>1. MAX_GUARDS \in Nat
    BY TimesAssumption
  <2> QED BY <1>1, <1>2, <2>1 DEF Guards, TypeOK
<1>6. guard' = [guard EXCEPT ![Turn] = t] /\ guard' \in [Guards -> Guardian]
  BY <1>1, <1>4 DEF Saved, TypeOK
<1>7. no_gold' \in 0..255 /\ ldu2' \in [Cells -> Tiles]
  <2>1. KeepsGold(t) \/ TakesUp(t) \/ LosesGold(t) \/ PutsDown(t)
    BY <1>4 DEF GuardStaysAs, GuardGoes
  <2> QED BY <1>1, <2>1, DecrementedFacts
          DEF KeepsGold, TakesUp, LosesGold, PutsDown, TypeOK, Tiles
<1>8. level_active' \in BOOLEAN /\ ldu1' \in [Cells -> Tiles]
  <2>1. CASE GuardStaysAs(t)
    BY <1>1, <2>1 DEF GuardStaysAs, TypeOK
  <2>2. ASSUME NEW d \in Directions, GuardGoes(t, d)
        PROVE  level_active' \in BOOLEAN /\ ldu1' \in [Cells -> Tiles]
    <3>1. PICK m \in {"GOLD", Vacated(guard[Turn].at)} :
            ldu1' = [ldu1 EXCEPT ![guard[Turn].at] = m, ![Beside(guard[Turn].at, d)] = "GUARD"]
      BY <2>2 DEF GuardGoes
    <3>2. m \in Tiles /\ "GUARD" \in Tiles
      BY <1>3, VacatedFacts DEF Tiles, GameInv
    <3>3. level_active' \in BOOLEAN
      BY <2>2 DEF GuardGoes
    <3> QED BY <1>1, <3>1, <3>2, <3>3 DEF TypeOK
  <2> QED BY <1>4, <2>1, <2>2
<1>9. curr_guard' \in 0..no_guards /\ updates' \in 0..2
  BY <1>1, <1>2, <1>3, <1>5 DEF Guards
<1>10. TypeOK'
  BY <1>1, <1>2, <1>5, <1>6, <1>7, <1>8, <1>9 DEF TypeOK, digVars
<1>11. PhaseInv'
  BY <1>1, <1>2, <1>8 DEF PhaseInv, digVars
<1>12. DeadInv'
  <2>1. TurnsLeft = updates /\ TurnsLeft' \in 0..(updates - 1)
    BY <1>1, <1>2 DEF TurnsLeft
  <2>2. PICK k \in Int : k = TurnsLeft' /\ k <= updates - 1
    BY <1>1, <2>1
  <2>3. DEAD \in Nat
    BY TimesAssumption
  <2>4. ASSUME NEW g \in Guards, guard'[g].cnt # 0
        PROVE  guard'[g].state >= DEAD - 2 + k
    <3>1. guard[g] \in Guardian
      BY <1>1 DEF TypeOK
    <3>2. guard[g].state \in Int
      BY <3>1 DEF Guardian
    <3>3. guard[g].cnt # 0 => guard[g].state >= DEAD - 2 + updates
      BY <1>1, <2>1 DEF DeadInv
    <3>4. CASE g = Turn
      <4>1. guard'[g] = t
        BY <1>3, <1>6, <3>4, <1>1 DEF TypeOK
      <4>2. guard[g].cnt # 0 /\ t.state = guard[g].state - 1
        BY <1>4, <2>4, <3>4, <4>1 DEF GuardStaysAs, GuardGoes
      <4> QED BY <1>1, <2>2, <2>3, <3>2, <3>3, <4>1, <4>2
    <3>5. CASE g # Turn
      <4>1. guard'[g] = guard[g]
        BY <1>1, <1>6, <3>5 DEF TypeOK
      <4> QED BY <1>1, <2>2, <2>3, <2>4, <3>2, <3>3, <4>1
    <3> QED BY <3>4, <3>5
  <2> QED BY <1>5, <2>2, <2>4 DEF DeadInv
<1> QED BY <1>10, <1>11, <1>12 DEF TypeInv

(* A level as it starts.                                                   *)
Begun(l) ==
  /\ level = l /\ level_active = TRUE
  /\ ldu1 = Dynamic(Levels[l]) /\ ldu2 = Static(Levels[l])
  /\ player = [at |-> PlayerStart(Levels[l]), x |-> MID, y |-> MID]
  /\ no_gold = Cardinality(CellsOf(Levels[l], "GOLD"))
  /\ eos = CellsOf(Levels[l], "EOS_LADDER")
  /\ dig_dir = "none" /\ dig_sprite = 0
  /\ hole = [n \in Holes |-> NoHole] /\ expired = {}
  /\ no_guards = GuardCount(Levels[l]) /\ guard = StartGuards(Levels[l]) /\ curr_guard = 0
  /\ updates = 0 /\ byte_64 \in 0..2 /\ met = FALSE /\ phase = "player"
  /\ no_lives \in 1..255 /\ guard_respawn_col \in 0..LastCol

LEMMA BegunTypes ==
  ASSUME NEW l \in 1..Len(Levels), Begun(l)
  PROVE  GameInv
<1> DEFINE b == Levels[l]
<1>1. /\ GuardCount(b) \in 0..MAX_GUARDS /\ PlayerStart(b) \in Cells
      /\ Cardinality(CellsOf(b, "GOLD")) \in 0..254
      /\ Static(b) \in [Cells -> Static_Tiles] /\ Dynamic(b) \in [Cells -> Tiles]
      /\ \A c \in Cells :
           /\ b[c] = "EOS_LADDER" => Static(b)[c] = "SPACE"
           /\ Dynamic(b)[c] \notin {"GUARD", "PLAYER"} => Dynamic(b)[c] = Static(b)[c]
           /\ Static(b)[c] = "BRICK" => Dynamic(b)[c] = "BRICK"
      /\ StartGuards(b) \in [1..GuardCount(b) -> Guardian]
      /\ \A n \in 1..GuardCount(b) : StartGuards(b)[n].cnt = 0
  BY StartFacts, StartBoard
<1>2. CellsOf(b, "EOS_LADDER") \subseteq Cells /\ \A c \in CellsOf(b, "EOS_LADDER") : b[c] = "EOS_LADDER"
  BY DEF CellsOf
<1>3. Static(b) \in [Cells -> Tiles]
  BY <1>1 DEF Static_Tiles
<1>4. NoHole \in [at : Cells, cnt : 0..HOLE_TICKS] /\ NoHole.cnt = 0
  <2>1. <<0, 0>> \in Cells
    BY BoardAssumption DEF Cells
  <2>2. 0 \in 0..HOLE_TICKS
    BY TimesAssumption
  <2> QED BY <2>1, <2>2 DEF NoHole
<1>5. player \in Thing
  <2>1. MID \in Offsets
    BY BoardAssumption DEF Offsets
  <2> QED BY <1>1, <2>1 DEF Begun, Thing
<1>6. Guards = 1..GuardCount(b) /\ no_guards \in 0..MAX_GUARDS /\ 0 \in 0..no_guards
  <2>1. MAX_GUARDS \in Nat
    BY TimesAssumption
  <2> QED BY <1>1, <2>1 DEF Begun, Guards
<1>7. 0 \in 0..DIG_FRAMES
  BY TimesAssumption
<1>8. no_gold \in 0..255
  BY <1>1 DEF Begun
<1>9. hole \in [Holes -> [at : Cells, cnt : 0..HOLE_TICKS]] /\ \A n \in Holes : hole[n].cnt = 0
  BY <1>4 DEF Begun
<1> HIDE DEF b
<1>10. /\ level = l /\ level_active = TRUE /\ ldu1 = Dynamic(b) /\ ldu2 = Static(b)
       /\ eos = CellsOf(b, "EOS_LADDER") /\ dig_dir = "none" /\ dig_sprite = 0 /\ expired = {}
       /\ guard = StartGuards(b) /\ curr_guard = 0 /\ updates = 0 /\ byte_64 \in 0..2
       /\ phase = "player" /\ no_lives \in 1..255 /\ guard_respawn_col \in 0..LastCol
  BY DEF Begun, b
<1>11. TypeOK
  BY <1>1, <1>2, <1>3, <1>5, <1>6, <1>7, <1>8, <1>9, <1>10 DEF TypeOK
<1>12. PhaseInv
  BY <1>10 DEF PhaseInv
<1>13. DeadInv
  BY <1>1, <1>6, <1>10 DEF DeadInv
<1>14. BoardInv
  <2>1. \A c \in Cells :
          /\ ldu1[c] \in Wall => ldu2[c] = ldu1[c]
          /\ ldu2[c] = "BRICK" => ldu1[c] \in {"BRICK", "SPACE", "PLAYER", "GUARD"}
    BY <1>1, <1>10 DEF Wall
  <2>2. \A n \in Holes : ~Open(n)
    BY <1>9, <1>10 DEF Open
  <2> QED BY <1>1, <1>2, <1>10, <2>1, <2>2 DEF BoardInv
<1> QED BY <1>11, <1>12, <1>13, <1>14 DEF GameInv, TypeInv

LEMMA InitBegun == ASSUME Init PROVE Begun(1) /\ 1 \in 1..Len(Levels)
<1>1. Len(Levels) \in Nat /\ Len(Levels) > 0
  BY LevelAssumption
<1>2. NO_LIVES \in 1..255
  <2>1. NO_LIVES \in Nat \ {0} /\ NO_LIVES <= 255
    BY TimesAssumption
  <2> QED BY <2>1
<1> QED BY <1>1, <1>2, BoardAssumption DEF Init, Begun

LEMMA RestartBegun ==
  ASSUME GameInv, Restarts
  PROVE  \E l \in 1..Len(Levels) : Begun(l)'
<1>1. PICK l \in 1..Len(Levels) :
        StartLevel(l) /\ no_lives' \in 1..255 /\ guard_respawn_col' \in 0..LastCol
  BY DEF Restarts
<1>2. byte_64 \in 0..2
  BY DEF GameInv, TypeInv, TypeOK
<1> QED BY <1>1, <1>2 DEF StartLevel, Begun

Fresh == \E l \in 1..Len(Levels) : Begun(l)

LEMMA FreshTypes == Fresh => GameInv
  BY BegunTypes DEF Fresh

LEMMA FreshTypesNext == Fresh' => GameInv'
  BY FreshTypes, PTL

LEMMA RestartFresh ==
  ASSUME GameInv, Restarts
  PROVE  Fresh'
  BY RestartBegun DEF Fresh

-----------------------------------------------------------------------------
(* The two maps.                                                           *)
LEMMA HolesKept ==
  ASSUME BoardInv, ldu2' \in [Cells -> Static_Tiles], eos' \subseteq eos, eos \subseteq Cells,
         \A c \in Cells : /\ ldu2[c] = "BRICK" <=> ldu2'[c] = "BRICK"
                          /\ c \in eos' => ldu2'[c] \in {"SPACE", "GOLD"}
                          /\ ldu1'[c] \in Wall => ldu2'[c] = ldu1'[c]
                          /\ ldu2'[c] = "BRICK" => ldu1'[c] \in {"BRICK", "SPACE", "PLAYER", "GUARD"},
         \A n \in Holes : Open(n)' => ldu2'[(hole[n].at)'] = "BRICK"
  PROVE  BoardInv'
  BY DEF BoardInv, Static_Tiles

LEMMA PlayerBoard ==
  ASSUME GameInv, PlayerTurn
  PROVE  BoardInv'
<1>1. /\ TypeOK /\ BoardInv /\ eos' = eos /\ expired' = expired /\ eos \subseteq Cells
      /\ player.at \in Cells /\ ldu2 \in [Cells -> Static_Tiles]
      /\ ldu1 \in [Cells -> Tiles]
      /\ hole \in [Holes -> [at : Cells, cnt : 0..HOLE_TICKS]]
  BY PlayerCell DEF GameInv, TypeInv, TypeOK, PlayerTurn, PlayerDone, BoardInv
<1>2. ASSUME NEW d \in Directions, PlayerGoes(d)
      PROVE  BoardInv'
  <2>1. /\ UNCHANGED <<ldu2, hole>>
        /\ ldu1' = [ldu1 EXCEPT ![player.at] = Vacated(player.at), ![Beside(player.at, d)] = "PLAYER"]
    BY <1>2 DEF PlayerGoes
  <2>2. Vacated(player.at) = IF ldu2[player.at] = "BRICK" THEN "SPACE" ELSE ldu2[player.at]
    BY DEF Vacated
  <2>3. ASSUME NEW c \in Cells
        PROVE  /\ ldu1'[c] \in Wall => ldu2'[c] = ldu1'[c]
               /\ ldu2'[c] = "BRICK" => ldu1'[c] \in {"BRICK", "SPACE", "PLAYER", "GUARD"}
    <3>1. ldu1'[c] = IF c = Beside(player.at, d) THEN "PLAYER"
                     ELSE IF c = player.at THEN Vacated(player.at) ELSE ldu1[c]
      BY <1>1, <2>1
    <3> QED BY <1>1, <2>1, <2>2, <3>1 DEF BoardInv, Wall
  <2>4. \A n \in Holes : Open(n)' => ldu2'[(hole[n].at)'] = "BRICK"
    BY <1>1, <2>1 DEF BoardInv, Open
  <2>5. \A c \in Cells : c \in eos' => ldu2'[c] \in {"SPACE", "GOLD"}
    BY <1>1, <2>1 DEF BoardInv
  <2> QED BY <1>1, <2>1, <2>3, <2>4, <2>5, HolesKept
<1>3. CASE PlayerStays
  <2>1. /\ ldu2' \in [Cells -> Static_Tiles]
        /\ \A c \in Cells : ldu2'[c] = ldu2[c] \/ (ldu2[c] = "GOLD" /\ ldu2'[c] = "SPACE")
    <3>1. CASE ldu2' = ldu2
      BY <1>1, <3>1
    <3>2. CASE GoldFrom(player.at)
      BY <1>1, <3>2 DEF GoldFrom, Static_Tiles, Tiles
    <3> QED BY <1>3, <3>1, <3>2 DEF PlayerStays
  <2>2. /\ \A c \in Cells : ldu1'[c] = ldu1[c] \/ (ldu1[c] = "BRICK" /\ ldu1'[c] = "SPACE")
        /\ \A n \in Holes : Open(n)' => ldu2[(hole[n].at)'] = "BRICK"
    <3>1. CASE UNCHANGED <<ldu1, hole>>
      BY <1>1, <3>1 DEF Open, BoardInv
    <3>2. CASE \E c \in Cells :
                 ldu1[c] = "BRICK" /\ ldu1' = [ldu1 EXCEPT ![c] = "SPACE"] /\ HoleAdded(c)
      <4>1. PICK c \in Cells :
              ldu1[c] = "BRICK" /\ ldu1' = [ldu1 EXCEPT ![c] = "SPACE"] /\ HoleAdded(c)
        BY <3>2
      <4>2. ldu2[c] = "BRICK"
        BY <1>1, <4>1 DEF BoardInv, Wall
      <4>3. ASSUME NEW n \in Holes, Open(n)'
            PROVE  ldu2[(hole[n].at)'] = "BRICK"
        <5>1. CASE hole'[n] = hole[n]
          BY <1>1, <4>3, <5>1 DEF Open, BoardInv
        <5>2. CASE hole'[n] # hole[n]
          <6>1. hole'[n] = [at |-> c, cnt |-> HOLE_TICKS]
            BY <1>1, <4>1, <5>2, HoleAddedFacts
          <6> QED BY <4>2, <6>1
        <5> QED BY <5>1, <5>2
      <4> QED BY <1>1, <4>1, <4>3
    <3> QED BY <1>3, <3>1, <3>2 DEF PlayerStays, Digs
  <2>3. \A c \in Cells : /\ ldu2[c] = "BRICK" <=> ldu2'[c] = "BRICK"
                         /\ c \in eos' => ldu2'[c] \in {"SPACE", "GOLD"}
    BY <1>1, <2>1 DEF BoardInv
  <2>4. ASSUME NEW c \in Cells
        PROVE  /\ ldu1'[c] \in Wall => ldu2'[c] = ldu1'[c]
               /\ ldu2'[c] = "BRICK" => ldu1'[c] \in {"BRICK", "SPACE", "PLAYER", "GUARD"}
    BY <1>1, <2>1, <2>2 DEF BoardInv, Wall
  <2>5. \A n \in Holes : Open(n)' => ldu2'[(hole[n].at)'] = "BRICK"
    <3>1. \A n \in Holes : (hole[n].at)' \in Cells
      BY PlayerTypes DEF TypeInv, TypeOK
    <3> QED BY <2>2, <2>3, <3>1
  <2> QED BY <1>1, <2>1, <2>3, <2>4, <2>5, HolesKept
<1> QED BY <1>2, <1>3 DEF PlayerTurn

LEMMA WorldBoard ==
  ASSUME GameInv, World
  PROVE  BoardInv'
<1>1. /\ TypeOK /\ BoardInv /\ expired = {} /\ Drawn \subseteq eos /\ eos \subseteq Cells
      /\ ldu2 \in [Cells -> Static_Tiles] /\ ldu1 \in [Cells -> Tiles]
      /\ \A c \in Drawn : ldu2[c] = "SPACE"
      /\ expired' = {n \in Holes : hole[n].cnt = 1} /\ eos' = eos \ Drawn
  BY WorldFacts DEF GameInv, TypeInv, TypeOK, BoardInv, WorldDone
<1>2. /\ ldu2' = [c \in Cells |-> IF c \in Drawn THEN "LADDER" ELSE ldu2[c]]
      /\ ldu1' = [c \in Cells |-> IF \E g \in Back : guard[g].at = c THEN "GUARD" ELSE Laid[c]]
      /\ hole' = [n \in Holes |->
           IF hole[n].cnt = 0 THEN hole[n] ELSE [hole[n] EXCEPT !.cnt = hole[n].cnt - 1]]
  BY WorldFacts
<1>3. ldu2' \in [Cells -> Static_Tiles]
  BY <1>1, <1>2 DEF Static_Tiles, Tiles
<1>4. ASSUME NEW c \in Cells
      PROVE  /\ ldu2[c] = "BRICK" <=> ldu2'[c] = "BRICK"
             /\ c \in eos' => ldu2'[c] \in {"SPACE", "GOLD"}
             /\ ldu1'[c] \in Wall => ldu2'[c] = ldu1'[c]
             /\ ldu2'[c] = "BRICK" => ldu1'[c] \in {"BRICK", "SPACE", "PLAYER", "GUARD"}
  <2>1. ldu2'[c] = IF c \in Drawn THEN "LADDER" ELSE ldu2[c]
    BY <1>2
  <2>2. ldu1'[c] = "GUARD" \/ ldu1'[c] = Laid[c]
    BY <1>2
  <2>3. Laid[c] = IF c \in Drawn /\ ldu1[c] = "SPACE" THEN "LADDER" ELSE ldu1[c]
    BY DEF Laid
  <2> QED BY <1>1, <2>1, <2>2, <2>3 DEF BoardInv, Wall
<1>5. ASSUME NEW n \in Holes, Open(n)'
      PROVE  ldu2'[(hole[n].at)'] = "BRICK"
  <2>1. PICK t \in [at : Cells, cnt : 0..HOLE_TICKS] : t = hole[n]
    BY <1>1 DEF TypeOK
  <2>2. hole'[n].at = t.at
    BY <1>2, <2>1
  <2>3. t.cnt # 0
    <3>1. CASE t.cnt = 0
      <4>1. hole'[n] = t
        BY <1>2, <2>1, <3>1
      <4> QED BY <1>1, <1>5, <2>1, <3>1, <4>1 DEF Open
    <3> QED BY <3>1
  <2>4. ldu2[t.at] = "BRICK"
    BY <1>1, <2>1, <2>3 DEF Open, BoardInv
  <2> QED BY <1>4, <2>2, <2>4
<1> QED BY <1>1, <1>3, <1>4, <1>5, HolesKept

LEMMA BrickBoard ==
  ASSUME GameInv, BrickReturns
  PROVE  BoardInv'
<1>1. /\ TypeOK /\ BoardInv /\ eos \subseteq Cells
      /\ ldu2 \in [Cells -> Static_Tiles] /\ ldu1 \in [Cells -> Tiles]
      /\ hole \in [Holes -> [at : Cells, cnt : 0..HOLE_TICKS]]
  BY DEF GameInv, TypeInv, TypeOK, BoardInv
<1>2. PICK n \in Holes : hole[n].at \in Cells /\ BrickBack(n)
  BY BrickFacts
<1>3. /\ ldu2[hole[n].at] = "BRICK" /\ ldu1' = [ldu1 EXCEPT ![hole[n].at] = "BRICK"]
      /\ ldu2' = ldu2 /\ eos' = eos /\ hole' = [hole EXCEPT ![n] = NoHole]
      /\ expired' = expired \ {n}
  BY <1>2 DEF BrickBack, WorldDone
<1>4. ASSUME NEW c \in Cells
      PROVE  /\ ldu1'[c] \in Wall => ldu2'[c] = ldu1'[c]
             /\ ldu2'[c] = "BRICK" => ldu1'[c] \in {"BRICK", "SPACE", "PLAYER", "GUARD"}
  BY <1>1, <1>3 DEF BoardInv, Wall
<1>5. ASSUME NEW m \in Holes, Open(m)'
      PROVE  ldu2'[(hole[m].at)'] = "BRICK"
  <2>1. CASE m = n
    <3>1. hole'[m] = NoHole
      BY <1>1, <1>3, <2>1
    <3> QED BY <1>3, <1>5, <2>1, <3>1 DEF Open, NoHole
  <2>2. CASE m # n
    <3>1. hole'[m] = hole[m]
      BY <1>1, <1>3, <2>2
    <3> QED BY <1>1, <1>3, <1>5, <3>1 DEF Open, BoardInv
  <2> QED BY <2>1, <2>2
<1>6. \A c \in Cells : c \in eos' => ldu2'[c] \in {"SPACE", "GOLD"}
  BY <1>1, <1>3 DEF BoardInv
<1> QED BY <1>1, <1>3, <1>4, <1>5, <1>6, HolesKept

LEMMA GuardBoard ==
  ASSUME GameInv, GuardTurn
  PROVE  BoardInv'
<1>1. /\ TypeOK /\ BoardInv /\ eos \subseteq Cells /\ eos' = eos
      /\ UNCHANGED <<hole, expired>> /\ phase = "guards"
      /\ ldu2 \in [Cells -> Static_Tiles] /\ ldu1 \in [Cells -> Tiles]
  BY DEF GameInv, TypeInv, TypeOK, BoardInv, GuardTurn, GuardDone
<1>2. guard[Turn] \in Guardian /\ guard[Turn].at \in Cells
  BY <1>1, MeFacts DEF Guardian
<1>3. PICK t \in Guardian : GuardStaysAs(t) \/ \E d \in Directions : GuardGoes(t, d)
  BY DEF GuardTurn
<1>4. /\ ldu2' \in [Cells -> Static_Tiles]
      /\ \A c \in Cells :
           \/ ldu2'[c] = ldu2[c]
           \/ ldu2[c] = "GOLD" /\ ldu2'[c] = "SPACE"
           \/ ldu2[c] = "SPACE" /\ ldu2'[c] = "GOLD" /\ c = guard[Turn].at /\ PutsDown(t)
  <2>1. KeepsGold(t) \/ TakesUp(t) \/ LosesGold(t) \/ PutsDown(t)
    BY <1>3 DEF GuardStaysAs, GuardGoes
  <2>2. CASE KeepsGold(t) \/ LosesGold(t)
    BY <1>1, <2>2 DEF KeepsGold, LosesGold
  <2>3. CASE TakesUp(t)
    BY <1>1, <2>3 DEF TakesUp, Static_Tiles, Tiles
  <2>4. CASE PutsDown(t)
    BY <1>1, <2>4 DEF PutsDown, Static_Tiles, Tiles
  <2> QED BY <2>1, <2>2, <2>3, <2>4
<1>5. \A c \in Cells : /\ ldu2[c] = "BRICK" <=> ldu2'[c] = "BRICK"
                       /\ c \in eos' => ldu2'[c] \in {"SPACE", "GOLD"}
  BY <1>1, <1>4 DEF BoardInv
<1>6. ASSUME NEW c \in Cells
      PROVE  /\ ldu1'[c] \in Wall => ldu2'[c] = ldu1'[c]
             /\ ldu2'[c] = "BRICK" => ldu1'[c] \in {"BRICK", "SPACE", "PLAYER", "GUARD"}
  <2>1. CASE GuardStaysAs(t)
    BY <1>1, <1>4, <2>1 DEF GuardStaysAs, BoardInv, Wall
  <2>2. CASE \E d \in Directions : GuardGoes(t, d)
    <3>1. PICK d \in Directions : GuardGoes(t, d)
      BY <2>2
    <3>2. PICK m \in {"GOLD", Vacated(guard[Turn].at)} :
            /\ ldu1' = [ldu1 EXCEPT ![guard[Turn].at] = m, ![Beside(guard[Turn].at, d)] = "GUARD"]
            /\ \/ m = "GOLD" /\ PutsDown(t)
               \/ m = Vacated(guard[Turn].at) /\ (KeepsGold(t) \/ LosesGold(t))
      BY <3>1 DEF GuardGoes
    <3>3. ldu1'[c] = IF c = Beside(guard[Turn].at, d) THEN "GUARD"
                     ELSE IF c = guard[Turn].at THEN m ELSE ldu1[c]
      BY <1>1, <3>2
    <3>4. m \in Wall => m = "SOLID" /\ m = ldu2[guard[Turn].at]
      BY <3>2 DEF Wall, Vacated
    <3>5. ldu2[guard[Turn].at] = "BRICK" => m = "SPACE"
      BY <3>2 DEF PutsDown, Vacated
    <3> QED BY <1>1, <1>2, <1>4, <1>5, <3>3, <3>4, <3>5 DEF BoardInv, Wall
  <2> QED BY <1>3, <2>1, <2>2
<1>7. \A n \in Holes : Open(n)' => ldu2'[(hole[n].at)'] = "BRICK"
  <2>1. \A n \in Holes : hole[n].at \in Cells
    BY <1>1 DEF TypeOK
  <2> QED BY <1>1, <1>5, <2>1 DEF Open, BoardInv
<1> QED BY <1>1, <1>4, <1>5, <1>6, <1>7, HolesKept

(* The invariant that the others rest on.                                  *)
LEMMA GameStep ==
  ASSUME GameInv, [Next]_vars
  PROVE  GameInv'
<1>1. CASE Next
  <2>1. CASE PlayerTurn
    BY <2>1, PlayerTypes, PlayerBoard DEF GameInv
  <2>2. CASE World
    BY <2>2, WorldTypes, WorldBoard DEF GameInv
  <2>3. CASE BrickReturns
    BY <2>3, BrickTypes, BrickBoard DEF GameInv
  <2>4. CASE GuardTurn
    BY <2>4, GuardTypes, GuardBoard DEF GameInv
  <2>5. CASE Restarts
    BY <2>5, RestartFresh, FreshTypesNext
  <2> QED BY <1>1, <2>1, <2>2, <2>3, <2>4, <2>5, StepShape
<1>2. CASE UNCHANGED vars
  <2>1. Guards' = Guards /\ TurnsLeft' = TurnsLeft /\ \A n : Open(n)' <=> Open(n)
    BY <1>2 DEF vars, Guards, TurnsLeft, Open, guardVars, turnVars, board
  <2>2. TypeOK' /\ PhaseInv' /\ DeadInv'
    BY <1>2, <2>1 DEF GameInv, TypeInv, TypeOK, PhaseInv, DeadInv, vars, board, lifeVars, digVars,
                      guardVars, turnVars
  <2>3. BoardInv'
    BY <1>2, <2>1 DEF GameInv, BoardInv, vars, board
  <2> QED BY <2>2, <2>3 DEF GameInv, TypeInv
<1> QED BY <1>1, <1>2

LEMMA GameAlways == Spec => []GameInv
<1>1. Init => GameInv
  BY InitBegun, BegunTypes
<1>2. GameInv /\ [Next]_vars => GameInv'
  BY GameStep
<1> QED BY <1>1, <1>2, PTL DEF Spec

(* Every variable keeps its type: the byte that counts the gold, the       *)
(* guards' signed states and the offsets within a cell never leave their   *)
(* ranges, and nobody leaves the board (handle_player, update_guards).     *)
THEOREM LodeRunnerTypes == Spec => []TypeOK
<1>1. GameInv => TypeOK
  BY DEF GameInv, TypeInv
<1> QED BY <1>1, GameAlways, PTL
=============================================================================
