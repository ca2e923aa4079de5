------------------------------ MODULE SyncProofs ------------------------------
(***************************************************************************)
(* The import of rooms: a plan carried out at once is refused by no unique *)
(* index, and with one sync at a time rooms change hands only when they    *)
(* were released.                                                          *)
(***************************************************************************)
EXTENDS ChannelSync, FiniteSetTheorems, TLAPS

-----------------------------------------------------------------------------
(* Induction, from finite sets: a set of numbers below m + 1 that could be    *)
(* shifted into itself without its 0 would have as many members as before.    *)

LEMMA UpTo ==
    ASSUME NEW S, 0 \in S, NEW m \in Nat, \A n \in 0 .. m - 1 : n \in S => n + 1 \in S
    PROVE  m \in S
<1> SUFFICES ASSUME m \notin S PROVE FALSE
  OBVIOUS
<1> DEFINE T == S \cap (0 .. m)
           U == T \ {0}
           f == [n \in T |-> n + 1]
<1>1. IsFiniteSet(T) /\ 0 \in T
  <2>1. IsFiniteSet(0 .. m) /\ T \in SUBSET (0 .. m)
    BY FS_Interval
  <2> QED
    BY <2>1, FS_Subset
<1>2. IsFiniteSet(U) /\ Cardinality(U) = Cardinality(T) - 1 /\ Cardinality(T) \in Nat
  BY <1>1, FS_RemoveElement, FS_CardinalityType
<1>3. f \in [T -> U]
  <2>1. ASSUME NEW n \in T PROVE n + 1 \in U
    OBVIOUS
  <2> QED
    BY <2>1
<1>4. \A a, b \in T : f[a] = f[b] => a = b
  OBVIOUS
<1> HIDE DEF T, U, f
<1>5. PICK a, b \in T : a # b /\ f[a] = f[b]
  BY <1>1, <1>2, <1>3, FS_PigeonHole
<1> QED
  BY <1>4, <1>5

\* What a recursive function of this form is: D are its values, step[n] leads
\* from the value at n - 1 to the one at n.
LEMMA Recursion ==
    ASSUME NEW D, NEW first \in D, NEW m \in Nat, NEW step \in [1 .. m -> [D -> D]]
    PROVE  \E g \in [0 .. m -> D] : g[0] = first /\ \A n \in 1 .. m : g[n] = step[n][g[n - 1]]
<1> DEFINE Good(n, g) == g[0] = first /\ \A j \in 1 .. n : g[j] = step[j][g[j - 1]]
           S == {n \in 0 .. m : \E g \in [0 .. n -> D] : Good(n, g)}
<1>1. 0 \in S
  <2> DEFINE h == [j \in 0 .. 0 |-> first]
  <2>1. h \in [0 .. 0 -> D] /\ Good(0, h)
    OBVIOUS
  <2> HIDE DEF h, Good
  <2> QED
    BY <2>1
<1>2. ASSUME NEW n \in 0 .. m - 1, n \in S PROVE n + 1 \in S
  <2>1. PICK g \in [0 .. n -> D] : Good(n, g)
    BY <1>2
  <2> DEFINE h == [j \in 0 .. n + 1 |-> IF j = n + 1 THEN step[n + 1][g[n]] ELSE g[j]]
  <2>2. step[n + 1][g[n]] \in D
    OBVIOUS
  <2>3. h \in [0 .. n + 1 -> D]
    BY <2>2
  <2>4. Good(n + 1, h)
    <3>1. h[0] = first
      BY <2>1
    <3>2. ASSUME NEW j \in 1 .. n + 1 PROVE h[j] = step[j][h[j - 1]]
      <4>1. CASE j = n + 1
        BY <4>1
      <4>2. CASE j # n + 1
        BY <2>1, <4>2
      <4> QED
        BY <4>1, <4>2
    <3> QED
      BY <3>1, <3>2
  <2> HIDE DEF h, Good
  <2> QED
    BY <2>3, <2>4
<1>3. m \in S
  <2> HIDE DEF S
  <2> QED
    BY <1>1, <1>2, UpTo
<1> QED
  BY <1>3

-----------------------------------------------------------------------------
(* One fetched room. *)

PlanRow == [id : RoomId \cup {None}, number : Name, deleted : BOOLEAN, held : BOOLEAN, known : SUBSET ExtId]
Answer == [ext : ExtId, name : Name]

Conflicts(table, f, p) ==
    /\ p.act = [do |-> "conflict", row |-> None, name |-> f.name, ext |-> f.ext]
    /\ p.table = table
Inserts(table, f, p) ==
    /\ \A x \in table : f.ext \notin x.known /\ ~Same(x.number, f.name)
    /\ p.act = [do |-> "insert", row |-> None, name |-> f.name, ext |-> f.ext]
    /\ p.table = table \cup {[id |-> None, number |-> f.name, deleted |-> FALSE, held |-> TRUE, known |-> {f.ext}]}
Adopts(table, f, p, x) ==
    /\ ~x.deleted /\ ~x.held
    /\ \A y \in table : f.ext \notin y.known /\ (Same(y.number, f.name) <=> y = x)
    /\ p.act = [do |-> "adopt", row |-> x.id, name |-> x.number, ext |-> f.ext]
    /\ p.table = (table \ {x}) \cup {[x EXCEPT !.known = @ \cup {f.ext}]}
Keeps(table, f, p, x) ==
    /\ f.ext \in x.known
    /\ p.act = [do |-> "update", row |-> x.id, name |-> x.number, ext |-> f.ext]
    /\ p.table = table
Renames(table, f, p, x) ==
    /\ f.ext \in x.known
    /\ \A y \in table \ {x} : ~Same(y.number, f.name)
    /\ p.act = [do |-> "update", row |-> x.id, name |-> f.name, ext |-> f.ext]
    /\ p.table = (table \ {x}) \cup {[x EXCEPT !.number = f.name]}

LEMMA ActKeepsName ==
    ASSUME NEW do, NEW row, NEW f, NEW name
    PROVE  [Act(do, row, f) EXCEPT !.name = name] = [do |-> do, row |-> row, name |-> name, ext |-> f.ext]
<1> DEFINE act == [do |-> do, row |-> row, name |-> f.name, ext |-> f.ext]
<1>1. [act EXCEPT !.name = name] = [do |-> do, row |-> row, name |-> name, ext |-> f.ext]
  OBVIOUS
<1>2. Act(do, row, f) = act
  BY DEF Act
<1> HIDE DEF act
<1> QED
  BY <1>1, <1>2

LEMMA FourOutcomes ==
    ASSUME NEW table, table \subseteq PlanRow, NEW f \in Answer, NEW p, p = PlanOne(table, f)
    PROVE  \/ Conflicts(table, f, p) \/ Inserts(table, f, p)
           \/ \E x \in table : Adopts(table, f, p, x) \/ Keeps(table, f, p, x) \/ Renames(table, f, p, x)
<1> DEFINE mine == {x \in table : f.ext \in x.known}
<1>1. CASE mine # {}
  <2> DEFINE x == CHOOSE x \in mine : TRUE
             kept == [Act("update", x.id, f) EXCEPT !.name = x.number]
             others == table \ {x}
  <2>1. x \in mine
    BY <1>1
  <2>2. p = Refresh(table, f, x)
    BY <1>1 DEF PlanOne
  <2>3. x \in table /\ f.ext \in x.known
    BY <2>1
  <2>4. kept = [do |-> "update", row |-> x.id, name |-> x.number, ext |-> f.ext]
    BY ActKeepsName
  <2> HIDE DEF x, kept
  <2>5. CASE x.deleted \/ (~Same(x.number, f.name) /\ \E y \in others : Same(y.number, f.name))
    <3>1. p = Note(Act("conflict", None, f), table)
      BY <2>2, <2>5 DEF Refresh
    <3> QED
      BY <3>1 DEF Note, Act, Conflicts
  <2>6. CASE ~x.deleted /\ Same(x.number, f.name)
    <3>1. p = Note(kept, table)
      BY <2>2, <2>6 DEF Refresh, kept
    <3> QED
      BY <2>3, <2>4, <3>1 DEF Note, Keeps
  <2>7. CASE ~x.deleted /\ ~Same(x.number, f.name) /\ \A y \in others : ~Same(y.number, f.name)
    <3>1. p = Note(Act("update", x.id, f), others \cup {[x EXCEPT !.number = f.name]})
      BY <2>2, <2>7 DEF Refresh
    <3>2. /\ p.act = [do |-> "update", row |-> x.id, name |-> f.name, ext |-> f.ext]
          /\ p.table = others \cup {[x EXCEPT !.number = f.name]}
      BY <3>1 DEF Note, Act
    <3>3. Renames(table, f, p, x)
      BY <2>3, <2>7, <3>2 DEF Renames
    <3> QED
      BY <2>3, <3>3
  <2> QED
    BY <2>5, <2>6, <2>7
<1>2. CASE mine = {}
  <2> DEFINE matches == {x \in table : Same(x.number, f.name)}
             adoptable == {x \in matches : matches = {x} /\ ~x.deleted /\ ~x.held}
  <2>1. p = Import(table, f)
    BY <1>2 DEF PlanOne
  <2>2. \A x \in table : f.ext \notin x.known
    BY <1>2
  <2>3. CASE matches = {}
    BY <2>1, <2>2, <2>3 DEF Import, Note, Act, Inserts
  <2>4. CASE matches # {} /\ adoptable = {}
    <3>1. p = Note(Act("conflict", None, f), table)
      BY <2>1, <2>4 DEF Import
    <3> QED
      BY <3>1 DEF Note, Act, Conflicts
  <2>5. CASE adoptable # {}
    <3> DEFINE x == CHOOSE x \in adoptable : TRUE
               adopted == [Act("adopt", x.id, f) EXCEPT !.name = x.number]
    <3>1. x \in adoptable
      BY <2>5
    <3>2. p = Note(adopted, (table \ {x}) \cup {[x EXCEPT !.known = @ \cup {f.ext}]})
      BY <2>1, <2>5 DEF Import
    <3>3. x \in table /\ ~x.deleted /\ ~x.held /\ \A y \in table : Same(y.number, f.name) <=> y = x
      BY <3>1
    <3>4. adopted = [do |-> "adopt", row |-> x.id, name |-> x.number, ext |-> f.ext]
      BY ActKeepsName
    <3> HIDE DEF x, adopted
    <3>5. /\ p.act = adopted
          /\ p.table = (table \ {x}) \cup {[x EXCEPT !.known = @ \cup {f.ext}]}
      BY <3>2 DEF Note
    <3>6. Adopts(table, f, p, x)
      BY <2>2, <3>3, <3>4, <3>5 DEF Adopts
    <3> QED
      BY <3>3, <3>6
  <2> QED
    BY <2>3, <2>4, <2>5
<1> QED
  BY <1>1, <1>2

-----------------------------------------------------------------------------
(* The table of a plan. *)

\* Rooms differ by their numbers and by their ids at an owner; an unused row
\* is empty.
TableOK(t) ==
    /\ t \in [RoomId -> Room]
    /\ \A r \in RoomId : t[r].owner = None <=> t[r].ext = None
    /\ \A r \in RoomId : t[r].number = None => t[r] = NoRoom
    /\ \A r, q \in RoomId : t[r].number # None /\ t[r].number = t[q].number => r = q
    /\ \A r, q \in RoomId : t[r].owner # None /\ t[r].owner = t[q].owner /\ t[r].ext = t[q].ext => r = q

\* Rows to be inserted are held and known by ids seen before; of the others,
\* those a plan may write are its integration's or not held.
PlanOK(i, table, seen) ==
    /\ table \subseteq PlanRow
    /\ \A x, y \in table : x.number = y.number => x = y
    /\ \A x, y \in table : x.known \cap y.known # {} => x = y
    /\ \A x \in table : x.id = None => x.held /\ x.known \subseteq seen
    /\ \A x \in table : x.id # None => /\ x.held <=> Held(x.id)
                                       /\ x.known # {} => rooms[x.id].owner = i \/ ~Held(x.id)

LEMMA PlanBegins ==
    ASSUME TableOK(rooms), NEW i \in Integration
    PROVE  PlanOK(i, Existing(i), {})
<1>1. \A r \in RoomId : Held(r) \in BOOLEAN
  BY DEF Held, Connected
<1>2. ASSUME NEW r \in RoomId, rooms[r].number # None
      PROVE  /\ Row(i, r) \in PlanRow
             /\ Row(i, r).id = r /\ Row(i, r).number = rooms[r].number /\ Row(i, r).held = Held(r)
             /\ Row(i, r).known = IF rooms[r].owner = i THEN {rooms[r].ext} ELSE {}
  <2>1. rooms[r] \in Room /\ i # None /\ None \notin ExtId
    BY SyncAssumption DEF TableOK
  <2>2. rooms[r].owner = i => rooms[r].ext \in ExtId
    BY <2>1 DEF TableOK, Room
  <2>3. rooms[r].number \in Name /\ rooms[r].deleted \in BOOLEAN
    BY <1>2, <2>1 DEF Room
  <2> QED
    BY <1>1, <2>2, <2>3 DEF Row, PlanRow
<1>3. None \notin RoomId /\ i # None
  BY SyncAssumption
<1>4. ASSUME NEW x \in Existing(i)
      PROVE  /\ x \in PlanRow /\ x.id \in RoomId /\ x = Row(i, x.id)
             /\ x.number = rooms[x.id].number /\ x.number # None /\ x.held = Held(x.id)
             /\ x.known = IF rooms[x.id].owner = i THEN {rooms[x.id].ext} ELSE {}
  <2>1. PICK r \in RoomId : rooms[r].number # None /\ x = Row(i, r)
    BY DEF Existing
  <2> QED
    BY <1>2, <2>1
<1>5. \A x \in Existing(i) : x \in PlanRow /\ x.id # None
  BY <1>3, <1>4
<1>6. ASSUME NEW x \in Existing(i), NEW y \in Existing(i), x.number = y.number PROVE x = y
  <2>0. x.id \in RoomId /\ y.id \in RoomId /\ rooms[x.id].number # None /\ rooms[x.id].number = rooms[y.id].number
    BY <1>4, <1>6
  <2>1. x.id = y.id
    BY <2>0 DEF TableOK
  <2> QED
    BY <1>4, <2>1
<1>7. ASSUME NEW x \in Existing(i), NEW y \in Existing(i), x.known \cap y.known # {} PROVE x = y
  <2>0. /\ x.id \in RoomId /\ x.known = IF rooms[x.id].owner = i THEN {rooms[x.id].ext} ELSE {}
        /\ y.id \in RoomId /\ y.known = IF rooms[y.id].owner = i THEN {rooms[y.id].ext} ELSE {}
    BY <1>4
  <2>1. x.id = y.id
    BY <1>3, <1>7, <2>0 DEF TableOK
  <2> QED
    BY <1>4, <2>1
<1>8. ASSUME NEW x \in Existing(i)
      PROVE  (x.held <=> Held(x.id)) /\ (x.known # {} => rooms[x.id].owner = i)
  BY <1>4
<1> QED
  BY <1>5, <1>6, <1>7, <1>8 DEF PlanOK

LEMMA RowReplaced ==
    ASSUME NEW i, NEW table, NEW seen, PlanOK(i, table, seen), NEW x \in table, NEW y \in PlanRow, NEW e,
           y.id = x.id, y.held = x.held, y.known \subseteq x.known \cup {e},
           x.id # None /\ y.known # {} => rooms[x.id].owner = i \/ ~Held(x.id),
           \A z \in table \ {x} : z.number # y.number /\ z.known \cap y.known = {}
    PROVE  PlanOK(i, (table \ {x}) \cup {y}, seen \cup {e})
BY DEF PlanOK

LEMMA PlanGoesOn ==
    ASSUME NEW i, NEW table, NEW seen, PlanOK(i, table, seen), NEW f \in Answer, NEW p, p = PlanOne(table, f)
    PROVE  PlanOK(i, p.table, seen \cup {f.ext})
<1>1. table \subseteq PlanRow
  BY DEF PlanOK
<1>2. CASE Conflicts(table, f, p)
  BY <1>2 DEF Conflicts, PlanOK
<1>3. CASE Inserts(table, f, p)
  <2> DEFINE new == [id |-> None, number |-> f.name, deleted |-> FALSE, held |-> TRUE, known |-> {f.ext}]
  <2>1. new \in PlanRow
    BY DEF PlanRow, Answer
  <2>2. new.id = None /\ new.number = f.name /\ new.held /\ new.known = {f.ext}
    OBVIOUS
  <2>3. \A x \in table : f.ext \notin x.known /\ x.number # f.name
    BY <1>3 DEF Inserts, Same
  <2>4. p.table = table \cup {new}
    BY <1>3 DEF Inserts
  <2> HIDE DEF new
  <2> QED
    BY <2>1, <2>2, <2>3, <2>4 DEF PlanOK
<1>4. ASSUME NEW x \in table, Adopts(table, f, p, x) PROVE PlanOK(i, p.table, seen \cup {f.ext})
  <2> DEFINE y == [x EXCEPT !.known = @ \cup {f.ext}]
  <2>1. x \in PlanRow
    BY <1>1
  <2>2. y \in PlanRow /\ y.id = x.id /\ y.held = x.held /\ y.number = x.number /\ y.known = x.known \cup {f.ext}
    BY <2>1 DEF PlanRow, Answer
  <2>3. p.table = (table \ {x}) \cup {y}
    BY <1>4 DEF Adopts
  <2> HIDE DEF y
  <2>4. x.id # None => rooms[x.id].owner = i \/ ~Held(x.id)
    BY <1>4 DEF Adopts, PlanOK
  <2>5. \A z \in table \ {x} : z.number # y.number /\ z.known \cap y.known = {}
    BY <1>4, <2>2 DEF Adopts, PlanOK
  <2>6. PlanOK(i, (table \ {x}) \cup {y}, seen \cup {f.ext})
    BY <2>2, <2>4, <2>5, RowReplaced
  <2> QED
    BY <2>3, <2>6
<1>5. ASSUME NEW x \in table, Keeps(table, f, p, x) PROVE PlanOK(i, p.table, seen \cup {f.ext})
  BY <1>5 DEF Keeps, PlanOK
<1>6. ASSUME NEW x \in table, Renames(table, f, p, x) PROVE PlanOK(i, p.table, seen \cup {f.ext})
  <2> DEFINE y == [x EXCEPT !.number = f.name]
  <2>1. x \in PlanRow
    BY <1>1
  <2>2. y \in PlanRow /\ y.id = x.id /\ y.held = x.held /\ y.number = f.name /\ y.known = x.known
    BY <2>1 DEF PlanRow, Answer
  <2>3. p.table = (table \ {x}) \cup {y}
    BY <1>6 DEF Renames
  <2> HIDE DEF y
  <2>4. x.id # None /\ y.known # {} => rooms[x.id].owner = i \/ ~Held(x.id)
    BY <2>2 DEF PlanOK
  <2>5. \A z \in table \ {x} : z.number # y.number /\ z.known \cap y.known = {}
    BY <1>6, <2>2 DEF Renames, Same, PlanOK
  <2>6. PlanOK(i, (table \ {x}) \cup {y}, seen \cup {f.ext})
    BY <2>2, <2>4, <2>5, RowReplaced
  <2> QED
    BY <2>3, <2>6
<1> QED
  BY <1>1, <1>2, <1>3, <1>4, <1>5, <1>6, FourOutcomes

LEMMA PlanOneTypes ==
    ASSUME NEW table \in SUBSET PlanRow, NEW f \in Answer
    PROVE  PlanOne(table, f).table \in SUBSET PlanRow
<1> DEFINE p == PlanOne(table, f)
<1> SUFFICES p.table \subseteq PlanRow
  OBVIOUS
<1>1. CASE Conflicts(table, f, p)
  BY <1>1 DEF Conflicts
<1>2. CASE Inserts(table, f, p)
  <2>1. [id |-> None, number |-> f.name, deleted |-> FALSE, held |-> TRUE, known |-> {f.ext}] \in PlanRow
    BY DEF PlanRow, Answer
  <2> QED
    BY <1>2, <2>1 DEF Inserts
<1>3. ASSUME NEW x \in table, Adopts(table, f, p, x) PROVE p.table \subseteq PlanRow
  <2>1. [x EXCEPT !.known = @ \cup {f.ext}] \in PlanRow
    BY DEF PlanRow, Answer
  <2> QED
    BY <1>3, <2>1 DEF Adopts
<1>4. ASSUME NEW x \in table, Renames(table, f, p, x) PROVE p.table \subseteq PlanRow
  <2>1. [x EXCEPT !.number = f.name] \in PlanRow
    BY DEF PlanRow, Answer
  <2> QED
    BY <1>4, <2>1 DEF Renames
<1>5. ASSUME NEW x \in table, Keeps(table, f, p, x) PROVE p.table \subseteq PlanRow
  BY <1>5 DEF Keeps
<1> HIDE DEF p
<1>6. p = PlanOne(table, f)
  BY DEF p
<1> QED
  BY <1>1, <1>2, <1>3, <1>4, <1>5, <1>6, FourOutcomes

LEMMA AnswersOf ==
    ASSUME NEW fetched \in Fetch
    PROVE  /\ Len(fetched) \in Nat /\ DOMAIN fetched = 1 .. Len(fetched)
           /\ \A n \in 1 .. Len(fetched) : fetched[n] \in Answer
           /\ \A m, n \in 1 .. Len(fetched) : fetched[m].ext = fetched[n].ext => m = n
<1>1. fetched \in Seq(Answer)
  BY SyncAssumption DEF Answer
<1>2. Len(fetched) \in Nat /\ DOMAIN fetched = 1 .. Len(fetched)
  BY <1>1
<1>3. \A n \in 1 .. Len(fetched) : fetched[n] \in Answer
  BY <1>1
<1> QED
  BY <1>2, <1>3, SyncAssumption

\* The tables of a plan are those its recursive definition means.
LEMMA PlannedTables ==
    ASSUME TableOK(rooms), NEW i \in Integration, NEW fetched \in Fetch
    PROVE  LET table == Planned(i, fetched)
           IN  table[0] = Existing(i) /\ \A n \in 1 .. Len(fetched) : table[n] = PlanOne(table[n - 1], fetched[n]).table
<1> DEFINE m == Len(fetched)
           D == SUBSET PlanRow
           step == [n \in 1 .. m |-> [table \in D |-> PlanOne(table, fetched[n]).table]]
           IsTables(g) == g = [n \in 0 .. m |-> IF n = 0 THEN Existing(i) ELSE PlanOne(g[n - 1], fetched[n]).table]
<1>1. Existing(i) \in D
  BY PlanBegins DEF PlanOK
<1>2. m \in Nat /\ \A n \in 1 .. m : fetched[n] \in Answer
  BY AnswersOf
<1>3. step \in [1 .. m -> [D -> D]]
  BY <1>2, PlanOneTypes
<1>4. \A n \in 1 .. m, table \in D : step[n][table] = PlanOne(table, fetched[n]).table
  OBVIOUS
<1>5. PICK g \in [0 .. m -> D] : g[0] = Existing(i) /\ \A n \in 1 .. m : g[n] = step[n][g[n - 1]]
  <2> HIDE DEF step, D, m
  <2> QED
    BY <1>1, <1>2, <1>3, Recursion
<1>6. IsTables(g)
  <2>1. ASSUME NEW n \in 0 .. m PROVE g[n] = IF n = 0 THEN Existing(i) ELSE PlanOne(g[n - 1], fetched[n]).table
    <3>1. CASE n = 0
      BY <1>5, <3>1
    <3>2. CASE n # 0
      <4>1. n \in 1 .. m /\ n - 1 \in 0 .. m
        BY <1>2, <3>2
      <4>2. g[n - 1] \in D
        BY <4>1
      <4> QED
        BY <1>4, <1>5, <3>2, <4>1, <4>2
    <3> QED
      BY <3>1, <3>2
  <2> QED
    BY <2>1
<1>7. Planned(i, fetched) = CHOOSE h : IsTables(h)
  BY DEF Planned
<1>8. IsTables(Planned(i, fetched))
  <2> HIDE DEF IsTables
  <2> QED
    BY <1>6, <1>7
<1> QED
  BY <1>2, <1>8

\* The ids of the first n fetched rooms.
Seen(fetched, n) == {fetched[m].ext : m \in 1 .. n}

LEMMA PlanSound ==
    ASSUME TableOK(rooms), NEW i \in Integration, NEW fetched \in Fetch, NEW n \in 0 .. Len(fetched)
    PROVE  PlanOK(i, Planned(i, fetched)[n], Seen(fetched, n))
<1> DEFINE table == Planned(i, fetched)
           m == Len(fetched)
           S == {j \in 0 .. m : PlanOK(i, table[j], Seen(fetched, j))}
<1>1. table[0] = Existing(i) /\ \A j \in 1 .. m : table[j] = PlanOne(table[j - 1], fetched[j]).table
  BY PlannedTables
<1>2. m \in Nat /\ \A j \in 1 .. m : fetched[j] \in Answer
  BY AnswersOf
<1> HIDE DEF table
<1>3. 0 \in S
  <2>1. Seen(fetched, 0) = {}
    BY DEF Seen
  <2>2. PlanOK(i, table[0], Seen(fetched, 0))
    BY <1>1, <2>1, PlanBegins
  <2> QED
    BY <1>2, <2>2
<1>4. ASSUME NEW j \in 0 .. m - 1, j \in S PROVE j + 1 \in S
  <2>1. Seen(fetched, j + 1) = Seen(fetched, j) \cup {fetched[j + 1].ext}
    BY DEF Seen
  <2>2. j + 1 \in 1 .. m /\ fetched[j + 1] \in Answer /\ table[j + 1] = PlanOne(table[j], fetched[j + 1]).table
    BY <1>1, <1>2
  <2>3. PlanOK(i, table[j], Seen(fetched, j))
    BY <1>4
  <2>4. PlanOK(i, table[j + 1], Seen(fetched, j) \cup {fetched[j + 1].ext})
    BY <2>2, <2>3, PlanGoesOn
  <2>5. PlanOK(i, table[j + 1], Seen(fetched, j + 1))
    BY <2>1, <2>4
  <2>6. j + 1 \in 0 .. m
    BY <1>2
  <2> HIDE DEF m
  <2> QED
    BY <2>5, <2>6
<1>5. n \in S
  <2> HIDE DEF S
  <2>1. n \in Nat /\ \A j \in 0 .. n - 1 : j \in S => j + 1 \in S
    BY <1>2, <1>4
  <2> QED
    BY <1>3, <2>1, UpTo
<1> QED
  BY <1>5 DEF table

-----------------------------------------------------------------------------
(* Carrying a plan out. *)

\* What a plan may write: rows of its integration, and rows that are not held.
ActOK(i, act) ==
    /\ act \in Action
    /\ act.do \in {"adopt", "update"} => act.row \in RoomId /\ (rooms[act.row].owner = i \/ ~Held(act.row))

\* The table of a plan has every room that the rows have by then.
Shown(i, table, t) ==
    /\ t \in [RoomId -> Room]
    /\ \A r \in RoomId : t[r].number # None \/ t[r].owner = i =>
          \E x \in table : x.id \in {r, None} /\ x.number = t[r].number /\ (t[r].owner = i => t[r].ext \in x.known)

\* A row written as the plan has it.
LEMMA WrittenShown ==
    ASSUME NEW i \in Integration, NEW table, NEW later, NEW t, Shown(i, table, t), NEW row \in RoomId,
           NEW name \in Name, NEW ext \in ExtId, NEW y \in later,
           y.id \in {row, None}, y.number = name, ext \in y.known,
           \A r \in RoomId \ {row}, x \in table : x.id \in {r, None} => x \in later
    PROVE  Shown(i, later, [t EXCEPT ![row] = [number |-> name, deleted |-> t[row].deleted, owner |-> i, ext |-> ext]])
<1> DEFINE w == [number |-> name, deleted |-> t[row].deleted, owner |-> i, ext |-> ext]
           u == [t EXCEPT ![row] = w]
<1>1. t[row].deleted \in BOOLEAN /\ w \in Room
  BY DEF Shown, Room
<1>2. w.number = name /\ w.owner = i /\ w.ext = ext
  OBVIOUS
<1> HIDE DEF w
<1>3. u \in [RoomId -> Room] /\ \A r \in RoomId : u[r] = IF r = row THEN w ELSE t[r]
  BY <1>1 DEF Shown
<1> HIDE DEF u
<1>4. Shown(i, later, u)
  BY <1>2, <1>3 DEF Shown
<1> QED
  BY <1>4 DEF u, w

LEMMA ActPlanned ==
    ASSUME NEW i \in Integration, NEW table, NEW seen, PlanOK(i, table, seen),
           NEW f \in Answer, f.ext \notin seen, NEW p, p = PlanOne(table, f)
    PROVE  ActOK(i, p.act) /\ (p.act.do = "insert" => p.act.ext = f.ext)
<1> DEFINE Goal == ActOK(i, p.act) /\ (p.act.do = "insert" => p.act.ext = f.ext)
<1>1. table \subseteq PlanRow /\ f.name \in Name /\ f.ext \in ExtId
  BY DEF PlanOK, Answer
<1>2. ASSUME Conflicts(table, f, p) \/ Inserts(table, f, p) PROVE Goal
  BY <1>1, <1>2 DEF Conflicts, Inserts, ActOK, Action
<1>3. ASSUME NEW x \in table, NEW do \in {"adopt", "update"}, NEW name \in Name,
             p.act = [do |-> do, row |-> x.id, name |-> name, ext |-> f.ext],
             x.id # None, rooms[x.id].owner = i \/ ~Held(x.id)
      PROVE  Goal
  <2>1. x.id \in RoomId
    BY <1>1, <1>3 DEF PlanRow
  <2>2. p.act \in Action
    BY <1>1, <1>3, <2>1 DEF Action
  <2> QED
    BY <1>3, <2>1, <2>2 DEF ActOK
<1>4. ASSUME NEW x \in table, Adopts(table, f, p, x) PROVE Goal
  <2>1. x.id # None /\ ~Held(x.id) /\ x.number \in Name
    BY <1>1, <1>4 DEF Adopts, PlanOK, PlanRow
  <2>2. p.act = [do |-> "adopt", row |-> x.id, name |-> x.number, ext |-> f.ext]
    BY <1>4 DEF Adopts
  <2> HIDE DEF Goal
  <2> QED
    BY <1>3, <2>1, <2>2
<1>5. ASSUME NEW x \in table, Keeps(table, f, p, x) \/ Renames(table, f, p, x) PROVE Goal
  <2>1. x.id # None /\ (rooms[x.id].owner = i \/ ~Held(x.id)) /\ x.number \in Name
    BY <1>1, <1>5 DEF Keeps, Renames, PlanOK, PlanRow
  <2>2. PICK name \in Name : p.act = [do |-> "update", row |-> x.id, name |-> name, ext |-> f.ext]
    BY <1>1, <1>5, <2>1 DEF Keeps, Renames
  <2> HIDE DEF Goal
  <2> QED
    BY <1>3, <2>1, <2>2
<1> QED
  BY <1>1, <1>2, <1>4, <1>5, FourOutcomes

\* Each statement of a plan is carried out, and the rows follow its table.
LEMMA StatementsGoThrough ==
    ASSUME NEW i \in Integration, NEW table, NEW seen, PlanOK(i, table, seen),
           NEW f \in Answer, f.ext \notin seen, NEW p, p = PlanOne(table, f),
           NEW t, Shown(i, table, t), NEW free, p.act.do = "insert" => free[f.ext] \in RoomId
    PROVE  /\ Execute(i, t, p.act, free) # {}
           /\ \A u \in Execute(i, t, p.act, free) : Shown(i, p.table, u)
<1>1. table \subseteq PlanRow
  BY DEF PlanOK
<1>2. f.name \in Name /\ f.ext \in ExtId /\ None \notin Name
  BY SyncAssumption DEF Answer
<1> DEFINE Goal == /\ Execute(i, t, p.act, free) # {}
                   /\ \A u \in Execute(i, t, p.act, free) : Shown(i, p.table, u)
<1>3. CASE Conflicts(table, f, p)
  <2>1. p.act.do = "conflict" /\ p.table = table
    BY <1>3 DEF Conflicts
  <2> QED
    BY <2>1 DEF Execute
<1>4. ASSUME NEW row \in RoomId, NEW name \in Name, NEW y \in p.table,
             p.act.do # "conflict", Target(p.act, free) = row, p.act.name = name, p.act.ext = f.ext,
             y.id \in {row, None}, y.number = name, f.ext \in y.known,
             \A r \in RoomId \ {row}, x \in table : x.id \in {r, None} =>
                x \in p.table /\ x.number # name /\ f.ext \notin x.known
      PROVE  Goal
  <2> DEFINE w == [number |-> name, deleted |-> t[row].deleted, owner |-> i, ext |-> f.ext]
  <2>1. ~Refused(i, t, row, p.act)
    BY <1>2, <1>4 DEF Refused, Shown
  <2>2. Execute(i, t, p.act, free) = {[t EXCEPT ![row] = w]}
    BY <1>4, <2>1 DEF Execute
  <2>3. Shown(i, p.table, [t EXCEPT ![row] = w])
    BY <1>2, <1>4, WrittenShown, SMTT(60)
  <2> HIDE DEF w
  <2> QED
    BY <2>2, <2>3
<1>5. ASSUME Inserts(table, f, p) PROVE Goal
  <2> DEFINE new == [id |-> None, number |-> f.name, deleted |-> FALSE, held |-> TRUE, known |-> {f.ext}]
  <2>1. p.act.do = "insert" /\ p.act.row = None /\ p.act.name = f.name /\ p.act.ext = f.ext
    BY <1>5 DEF Inserts
  <2>3. PICK row \in RoomId : Target(p.act, free) = row
    BY <2>1 DEF Target
  <2>4. new.id = None /\ new.number = f.name /\ f.ext \in new.known /\ new \in p.table
    BY <1>5 DEF Inserts
  <2>5. \A x \in table : x \in p.table /\ x.number # f.name /\ f.ext \notin x.known
    BY <1>5 DEF Inserts, Same
  <2> HIDE DEF Goal, new
  <2> QED
    BY <1>2, <1>4, <2>1, <2>3, <2>4, <2>5
<1>6. ASSUME NEW x \in table, Adopts(table, f, p, x) PROVE Goal
  <2> DEFINE y == [x EXCEPT !.known = @ \cup {f.ext}]
  <2>1. x \in PlanRow /\ x.id # None
    BY <1>1, <1>6 DEF Adopts, PlanOK
  <2>2. x.id \in RoomId /\ x.number \in Name /\ y.id = x.id /\ y.number = x.number /\ f.ext \in y.known /\ y \in p.table
    BY <1>6, <2>1 DEF PlanRow, Adopts
  <2>3. p.act.do = "adopt" /\ p.act.row = x.id /\ p.act.name = x.number /\ p.act.ext = f.ext
    BY <1>6 DEF Adopts
  <2>5. Target(p.act, free) = x.id
    BY <2>3 DEF Target
  <2>6. \A z \in table \ {x} : z \in p.table /\ z.number # x.number /\ f.ext \notin z.known
    BY <1>6 DEF Adopts, PlanOK
  <2> HIDE DEF Goal, y
  <2> QED
    BY <1>4, <2>1, <2>2, <2>3, <2>5, <2>6
<1>7. ASSUME NEW x \in table, Keeps(table, f, p, x) \/ Renames(table, f, p, x) PROVE Goal
  <2> DEFINE y == IF Keeps(table, f, p, x) THEN x ELSE [x EXCEPT !.number = f.name]
  <2>1. x \in PlanRow /\ f.ext \in x.known
    BY <1>1, <1>7 DEF Keeps, Renames
  <2>2. x.id # None
    BY <2>1 DEF PlanOK
  <2>3. y \in p.table /\ x.id \in RoomId /\ y.id = x.id /\ y.number \in Name /\ y.known = x.known
    BY <1>2, <1>7, <2>1, <2>2 DEF Keeps, Renames, PlanRow
  <2>4. p.act.do = "update" /\ p.act.row = x.id /\ p.act.name = y.number /\ p.act.ext = f.ext
    BY <1>7, <2>1 DEF Keeps, Renames, PlanRow
  <2>6. Target(p.act, free) = x.id
    BY <2>4 DEF Target
  <2>7. \A z \in table \ {x} : z \in p.table /\ z.number # y.number /\ f.ext \notin z.known
    BY <1>7, <2>1 DEF Keeps, Renames, Same, PlanOK, PlanRow
  <2> HIDE DEF Goal, y
  <2> QED
    BY <1>4, <2>1, <2>2, <2>3, <2>4, <2>6, <2>7
<1> QED
  BY <1>1, <1>3, <1>5, <1>6, <1>7, FourOutcomes

LEMMA PlanActs ==
    ASSUME TableOK(rooms), NEW i \in Integration, NEW fetched \in Fetch, ~OwnedElsewhere(i)
    PROVE  /\ Plan(i, fetched) \in Seq(Action) /\ Len(Plan(i, fetched)) = Len(fetched)
           /\ \A n \in 1 .. Len(fetched) :
                 LET p == PlanOne(Planned(i, fetched)[n - 1], fetched[n])
                 IN  /\ Plan(i, fetched)[n] = p.act /\ Planned(i, fetched)[n] = p.table
                     /\ fetched[n].ext \notin Seen(fetched, n - 1)
                     /\ ActOK(i, p.act) /\ (p.act.do = "insert" => p.act.ext = fetched[n].ext)
<1> DEFINE m == Len(fetched)
           p(n) == PlanOne(Planned(i, fetched)[n - 1], fetched[n])
<1>1. m \in Nat /\ \A n \in 1 .. m : fetched[n] \in Answer
  BY AnswersOf
<1>2. Plan(i, fetched) = [n \in 1 .. m |-> p(n).act]
  BY DEF Plan
<1>3. ASSUME NEW n \in 1 .. m
      PROVE  /\ Planned(i, fetched)[n] = p(n).table
             /\ fetched[n].ext \notin Seen(fetched, n - 1)
             /\ ActOK(i, p(n).act) /\ (p(n).act.do = "insert" => p(n).act.ext = fetched[n].ext)
  <2>1. n - 1 \in 0 .. m
    BY <1>1
  <2>2. fetched[n].ext \notin Seen(fetched, n - 1)
    BY <1>1, AnswersOf DEF Seen
  <2>3. PlanOK(i, Planned(i, fetched)[n - 1], Seen(fetched, n - 1))
    BY <2>1, PlanSound
  <2>4. ActOK(i, p(n).act) /\ (p(n).act.do = "insert" => p(n).act.ext = fetched[n].ext)
    <3>1. fetched[n] \in Answer
      BY <1>1
    <3> QED
      BY <2>2, <2>3, <3>1, ActPlanned
  <2> QED
    BY <2>2, <2>4, PlannedTables
<1>4. \A n \in 1 .. m : p(n).act \in Action
  BY <1>3 DEF ActOK
<1> HIDE DEF p
<1>5. [n \in 1 .. m |-> p(n).act] \in Seq(Action) /\ Len([n \in 1 .. m |-> p(n).act]) = m
  BY <1>1, <1>4
<1>6. \A n \in 1 .. m : Plan(i, fetched)[n] = p(n).act
  BY <1>2
<1> QED
  BY <1>2, <1>3, <1>5, <1>6 DEF p

LEMMA ExecuteTypes ==
    ASSUME NEW i \in Integration, NEW t \in [RoomId -> Room], NEW act \in Action, NEW free
    PROVE  Execute(i, t, act, free) \subseteq [RoomId -> Room]
<1> DEFINE row == Target(act, free)
           w == [number |-> act.name, deleted |-> t[row].deleted, owner |-> i, ext |-> act.ext]
<1>1. act.name \in Name /\ act.ext \in ExtId
  BY DEF Action
<1>2. row \in RoomId => w \in Room
  BY <1>1 DEF Room
<1> HIDE DEF row, w
<1>3. [t EXCEPT ![row] = w] \in [RoomId -> Room]
  BY <1>2
<1> QED
  BY <1>3 DEF Execute, row, w

LEMMA ExecutionTables ==
    ASSUME rooms \in [RoomId -> Room], NEW i \in Integration, NEW plan, NEW free
    PROVE  plan \in Seq(Action) =>
           LET tables == Execution(i, plan, free)
           IN  /\ tables[0] = {rooms}
               /\ \A n \in 1 .. Len(plan) :
                     tables[n] = UNION {Execute(i, t, plan[n], free) : t \in tables[n - 1]}
<1> DEFINE m == Len(plan)
           D == SUBSET [RoomId -> Room]
           After(n, T) == UNION {Execute(i, t, plan[n], free) : t \in T}
           step == [n \in 1 .. m |-> [T \in D |-> After(n, T)]]
           IsTables(g) == g = [n \in 0 .. m |-> IF n = 0 THEN {rooms} ELSE After(n, g[n - 1])]
<1>0. SUFFICES ASSUME plan \in Seq(Action)
      PROVE  /\ Execution(i, plan, free)[0] = {rooms}
             /\ \A n \in 1 .. m :
                   Execution(i, plan, free)[n] = After(n, Execution(i, plan, free)[n - 1])
  BY DEF After
<1>1. {rooms} \in D
  OBVIOUS
<1>2. m \in Nat /\ \A n \in 1 .. m : plan[n] \in Action
  BY <1>0
<1>3. \A n \in 1 .. m, T \in D : After(n, T) \in D
  BY <1>2, ExecuteTypes
<1> HIDE DEF After
<1>4. step \in [1 .. m -> [D -> D]]
  BY <1>3
<1>5. \A n \in 1 .. m, T \in D : step[n][T] = After(n, T)
  OBVIOUS
<1>6. PICK g \in [0 .. m -> D] : g[0] = {rooms} /\ \A n \in 1 .. m : g[n] = step[n][g[n - 1]]
  <2> DEFINE start == {rooms}
  <2>1. start \in D /\ m \in Nat
    BY <1>1, <1>2
  <2> HIDE DEF step, D, m, start
  <2>2. PICK g \in [0 .. m -> D] : g[0] = start /\ \A n \in 1 .. m : g[n] = step[n][g[n - 1]]
    BY <1>4, <2>1, Recursion, SMTT(30)
  <2> QED
    BY <2>2 DEF start
<1>7. IsTables(g)
  <2>1. ASSUME NEW n \in 0 .. m PROVE g[n] = IF n = 0 THEN {rooms} ELSE After(n, g[n - 1])
    <3>1. CASE n = 0
      BY <1>6, <3>1
    <3>2. CASE n # 0
      <4>1. n \in 1 .. m /\ n - 1 \in 0 .. m
        BY <1>2, <3>2
      <4>2. g[n - 1] \in D
        BY <4>1
      <4> QED
        BY <1>5, <1>6, <3>2, <4>1, <4>2
    <3> QED
      BY <3>1, <3>2
  <2> QED
    BY <2>1
<1>8. Execution(i, plan, free) = CHOOSE h : IsTables(h)
  BY DEF Execution, After
<1>9. IsTables(Execution(i, plan, free))
  <2> HIDE DEF IsTables
  <2> QED
    BY <1>7, <1>8
<1>10. /\ Execution(i, plan, free)[0] = {rooms}
       /\ \A n \in 1 .. m : Execution(i, plan, free)[n] = After(n, Execution(i, plan, free)[n - 1])
  <2> DEFINE e == Execution(i, plan, free)
  <2>1. \A n \in 0 .. m : e[n] = IF n = 0 THEN {rooms} ELSE After(n, e[n - 1])
    <3> HIDE DEF m, e
    <3>1. IsTables(e)
      BY <1>9 DEF e
    <3> QED
      BY <3>1
  <2>2. 0 \in 0 .. m /\ \A n \in 1 .. m : n \in 0 .. m /\ n # 0
    BY <1>2
  <2> HIDE DEF m, e
  <2>3. e[0] = {rooms}
    BY <2>1, <2>2
  <2>4. ASSUME NEW n \in 1 .. m PROVE e[n] = After(n, e[n - 1])
    BY <2>1, <2>2
  <2> QED
    BY <2>3, <2>4 DEF e
<1> QED
  BY <1>10

\* Where nothing happens between a plan and its statements, none is refused.
LEMMA CarriedOutAtOnce ==
    ASSUME TableOK(rooms), NEW i \in Integration, NEW fetched \in Fetch,
           NEW free \in Injection(Inserted(Plan(i, fetched)), Unused)
    PROVE  Executed(i, Plan(i, fetched), free) # {}
<1> DEFINE plan == Plan(i, fetched)
           table == Planned(i, fetched)
           tables == Execution(i, plan, free)
           m == Len(fetched)
<1>1. CASE OwnedElsewhere(i)
  <2>1. plan = <<>> /\ Len(plan) = 0 /\ plan \in Seq(Action)
    BY <1>1 DEF Plan
  <2>2. rooms \in [RoomId -> Room]
    BY DEF TableOK
  <2>3. Execution(i, plan, free)[0] = {rooms}
    <3> HIDE DEF plan, table, tables, m
    <3>1. plan \in Seq(Action)
      BY <2>1
    <3> QED
      BY <2>2, <3>1, ExecutionTables
  <2> QED
    BY <2>1, <2>3 DEF Executed
<1>2. CASE ~OwnedElsewhere(i)
  <2>1. plan \in Seq(Action) /\ Len(plan) = m
    BY <1>2, PlanActs
  <2>2. ASSUME NEW n \in 1 .. m
        PROVE  LET p == PlanOne(table[n - 1], fetched[n])
               IN  /\ plan[n] = p.act /\ table[n] = p.table
                   /\ fetched[n].ext \notin Seen(fetched, n - 1)
                   /\ p.act.do = "insert" => p.act.ext = fetched[n].ext
    BY <1>2, <2>2, PlanActs
  <2>3. /\ tables[0] = {rooms}
        /\ \A n \in 1 .. m : tables[n] = UNION {Execute(i, t, plan[n], free) : t \in tables[n - 1]}
    BY <2>1, ExecutionTables DEF TableOK
  <2>4. m \in Nat /\ \A n \in 1 .. m : fetched[n] \in Answer
    BY AnswersOf
  <2>5. ASSUME NEW n \in 1 .. m, plan[n].do = "insert" PROVE free[plan[n].ext] \in RoomId
    <3>1. n \in DOMAIN plan
      BY <2>1
    <3>2. plan[n].ext \in Inserted(plan)
      BY <2>5, <3>1 DEF Inserted
    <3> QED
      BY <3>2 DEF Injection, Unused
  <2>6. \A n \in 0 .. m : PlanOK(i, table[n], Seen(fetched, n))
    BY PlanSound
  <2> DEFINE S == {n \in 0 .. m : tables[n] # {} /\ \A t \in tables[n] : Shown(i, table[n], t)}
  <2> HIDE DEF plan, table, tables, m
  <2>7. 0 \in S
    <3>1. table[0] = Existing(i)
      BY PlannedTables DEF table
    <3>2. Shown(i, Existing(i), rooms)
      <4>1. ASSUME NEW r \in RoomId, rooms[r].number # None \/ rooms[r].owner = i
            PROVE  \E x \in Existing(i) : /\ x.id \in {r, None} /\ x.number = rooms[r].number
                                          /\ rooms[r].owner = i => rooms[r].ext \in x.known
        <5>1. rooms[r].number # None
          BY <4>1, SyncAssumption DEF TableOK, NoRoom
        <5>2. Row(i, r) \in Existing(i)
          BY <5>1 DEF Existing
        <5>3. /\ Row(i, r).id = r /\ Row(i, r).number = rooms[r].number
              /\ Row(i, r).known = IF rooms[r].owner = i THEN {rooms[r].ext} ELSE {}
          BY DEF Row
        <5> QED
          BY <5>2, <5>3
      <4> QED
        BY <4>1 DEF Shown, TableOK
    <3> QED
      BY <2>3, <2>4, <3>1, <3>2
  <2>8. ASSUME NEW n \in 0 .. m - 1, n \in S PROVE n + 1 \in S
    <3>1. n + 1 \in 1 .. m /\ (n + 1) - 1 = n /\ n \in 0 .. m /\ n + 1 \in 0 .. m
      BY <2>4
    <3> DEFINE p == PlanOne(table[n], fetched[n + 1])
    <3>2. /\ plan[n + 1] = p.act /\ table[n + 1] = p.table /\ fetched[n + 1].ext \notin Seen(fetched, n)
          /\ p.act.do = "insert" => p.act.ext = fetched[n + 1].ext
      BY <2>2, <3>1
    <3>3. p.act.do = "insert" => free[fetched[n + 1].ext] \in RoomId
      BY <2>5, <3>1, <3>2
    <3>4. tables[n + 1] = UNION {Execute(i, t, p.act, free) : t \in tables[n]}
      BY <2>3, <3>1, <3>2
    <3>5. fetched[n + 1] \in Answer /\ PlanOK(i, table[n], Seen(fetched, n))
      BY <2>4, <2>6, <3>1
    <3>6. ASSUME NEW t \in tables[n]
          PROVE  /\ Execute(i, t, p.act, free) # {}
                 /\ \A u \in Execute(i, t, p.act, free) : Shown(i, p.table, u)
      <4>1. Shown(i, table[n], t)
        BY <2>8
      <4>2. p = PlanOne(table[n], fetched[n + 1])
        OBVIOUS
      <4> HIDE DEF p
      <4> QED
        BY <3>2, <3>3, <3>5, <4>1, <4>2, StatementsGoThrough
    <3>7. tables[n] # {}
      BY <2>8
    <3> HIDE DEF p
    <3>8. tables[n + 1] # {} /\ \A u \in tables[n + 1] : Shown(i, table[n + 1], u)
      BY <3>2, <3>4, <3>6, <3>7
    <3> QED
      BY <3>1, <3>8
  <2>9. m \in S
    <3> HIDE DEF S
    <3> QED
      BY <2>4, <2>7, <2>8, UpTo
  <2> QED
    BY <2>1, <2>9 DEF Executed, plan, tables
<1> QED
  BY <1>1, <1>2

-----------------------------------------------------------------------------
(* Whatever has happened since the plan: the rows stay in order, none comes   *)
(* back from its deletion, and of those the plan may not write none changes   *)
(* its owner.                                                                 *)

Follows(i, plan, t) ==
    /\ TableOK(t)
    /\ \A r \in RoomId : (rooms[r].number # None => t[r].number # None) /\ t[r].deleted = rooms[r].deleted
    /\ (\A n \in DOMAIN plan : ActOK(i, plan[n])) => \A r \in RoomId : t[r].owner # rooms[r].owner => ~Held(r)

LEMMA WrittenInOrder ==
    ASSUME NEW t, TableOK(t), NEW i \in Integration, NEW row \in RoomId, NEW name \in Name, NEW ext \in ExtId, NEW w,
           w = [number |-> name, deleted |-> t[row].deleted, owner |-> i, ext |-> ext],
           \A r \in RoomId \ {row} : t[r].number # name /\ ~(t[r].owner = i /\ t[r].ext = ext)
    PROVE  TableOK([t EXCEPT ![row] = w])
<1> DEFINE u == [t EXCEPT ![row] = w]
<1>1. t[row].deleted \in BOOLEAN
  BY DEF TableOK, Room
<1>2. w \in Room /\ w.number = name /\ w.owner = i /\ w.ext = ext /\ None \notin {name, i, ext}
  BY <1>1, SyncAssumption DEF Room
<1>3. u \in [RoomId -> Room] /\ \A r \in RoomId : u[r] = IF r = row THEN w ELSE t[r]
  BY <1>2 DEF TableOK
<1> HIDE DEF u
<1>4. \A r \in RoomId : u[r].owner = None <=> u[r].ext = None
  BY <1>2, <1>3 DEF TableOK
<1>5. \A r \in RoomId : u[r].number = None => u[r] = NoRoom
  BY <1>2, <1>3 DEF TableOK
<1>6. \A r, q \in RoomId : u[r].number # None /\ u[r].number = u[q].number => r = q
  BY <1>2, <1>3 DEF TableOK
<1>7. \A r, q \in RoomId : u[r].owner # None /\ u[r].owner = u[q].owner /\ u[r].ext = u[q].ext => r = q
  BY <1>2, <1>3 DEF TableOK
<1> QED
  BY <1>3, <1>4, <1>5, <1>6, <1>7 DEF TableOK, u

\* One statement of a plan, carried out at any time.
LEMMA StatementFollows ==
    ASSUME NEW i \in Integration, NEW plan, NEW t, Follows(i, plan, t), NEW n \in DOMAIN plan, plan[n] \in Action,
           NEW free, plan[n].do = "insert" => free[plan[n].ext] \in Unused, TableOK(rooms),
           NEW u \in Execute(i, t, plan[n], free)
    PROVE  Follows(i, plan, u)
<1> DEFINE act == plan[n]
           row == Target(act, free)
           w == [number |-> act.name, deleted |-> t[row].deleted, owner |-> i, ext |-> act.ext]
<1>1. act.name \in Name /\ act.ext \in ExtId /\ None \notin Name
  BY SyncAssumption DEF Action
<1>2. CASE act.do = "conflict" \/ row \notin RoomId
  <2>1. u = t
    BY <1>2 DEF Execute, Follows, TableOK
  <2> QED
    BY <2>1
<1>3. CASE act.do # "conflict" /\ row \in RoomId
  <2>1. u = [t EXCEPT ![row] = w] /\ ~Refused(i, t, row, act)
    BY <1>3 DEF Execute
  <2>2. \A r \in RoomId \ {row} : t[r].number # act.name /\ ~(t[r].owner = i /\ t[r].ext = act.ext)
    BY <2>1 DEF Refused
  <2>3. TableOK(t) /\ t[row].deleted \in BOOLEAN
    BY <1>3 DEF Follows, TableOK, Room
  <2>4. w.number = act.name /\ w.owner = i /\ w.deleted = t[row].deleted
    OBVIOUS
  <2>5. w = [number |-> act.name, deleted |-> t[row].deleted, owner |-> i, ext |-> act.ext]
    OBVIOUS
  <2>6. act.do = "insert" \/ act.row = row
    BY DEF Target
  <2>7. act.do \in {"insert", "adopt", "update"}
    BY <1>3 DEF Action
  <2>8. act.do = "insert" => rooms[row].owner = None
    BY DEF Target, Unused, TableOK, NoRoom
  <2>9. (\A m \in DOMAIN plan : ActOK(i, plan[m])) => rooms[row].owner = i \/ ~Held(row)
    BY <1>3, <2>6, <2>7, <2>8 DEF ActOK, Held
  <2> HIDE DEF act, row, w
  <2>10. TableOK(u)
    <3>1. PICK name \in Name, ext \in ExtId : act.name = name /\ act.ext = ext
      BY <1>1
    <3>2. TableOK(t) /\ row \in RoomId
      BY <1>3, <2>3
    <3>3. w = [number |-> name, deleted |-> t[row].deleted, owner |-> i, ext |-> ext]
      BY <2>5, <3>1
    <3>4. \A r \in RoomId \ {row} : t[r].number # name /\ ~(t[r].owner = i /\ t[r].ext = ext)
      BY <2>2, <3>1
    <3>5. TableOK([t EXCEPT ![row] = w])
      BY <3>2, <3>3, <3>4, WrittenInOrder
    <3> QED
      BY <2>1, <3>5
  <2>11. \A r \in RoomId : u[r] = IF r = row THEN w ELSE t[r]
    BY <1>3, <2>1, <2>3 DEF TableOK
  <2>12. \A r \in RoomId : (rooms[r].number # None => u[r].number # None) /\ u[r].deleted = rooms[r].deleted
    BY <1>1, <2>4, <2>11 DEF Follows
  <2>13. (\A m \in DOMAIN plan : ActOK(i, plan[m])) => \A r \in RoomId : u[r].owner # rooms[r].owner => ~Held(r)
    BY <2>4, <2>9, <2>11 DEF Follows
  <2> QED
    BY <2>10, <2>12, <2>13 DEF Follows
<1> QED
  BY <1>2, <1>3

LEMMA ExecutedFollows ==
    ASSUME TableOK(rooms), NEW i \in Integration, NEW plan \in Seq(Action),
           NEW free \in Injection(Inserted(plan), Unused), NEW t \in Executed(i, plan, free)
    PROVE  Follows(i, plan, t)
<1> DEFINE m == Len(plan)
           tables == Execution(i, plan, free)
           S == {n \in 0 .. m : \A u \in tables[n] : Follows(i, plan, u)}
<1>1. m \in Nat /\ DOMAIN plan = 1 .. m /\ \A n \in 1 .. m : plan[n] \in Action
  OBVIOUS
<1>2. /\ tables[0] = {rooms}
      /\ \A n \in 1 .. m : tables[n] = UNION {Execute(i, u, plan[n], free) : u \in tables[n - 1]}
  BY ExecutionTables DEF TableOK
<1>3. ASSUME NEW n \in 1 .. m, plan[n].do = "insert" PROVE free[plan[n].ext] \in Unused
  <2>1. plan[n].ext \in Inserted(plan)
    BY <1>1, <1>3 DEF Inserted
  <2> QED
    BY <2>1 DEF Injection
<1>4. t \in tables[m]
  BY DEF Executed
<1> HIDE DEF tables, m
<1>5. 0 \in S
  <2>1. Follows(i, plan, rooms)
    BY DEF Follows
  <2> QED
    BY <1>1, <1>2, <2>1
<1>6. ASSUME NEW n \in 0 .. m - 1, n \in S PROVE n + 1 \in S
  <2>1. n + 1 \in 1 .. m /\ (n + 1) - 1 = n /\ n + 1 \in 0 .. m
    BY <1>1
  <2>2. ASSUME NEW v \in tables[n + 1] PROVE Follows(i, plan, v)
    <3>1. PICK u \in tables[n] : v \in Execute(i, u, plan[n + 1], free)
      BY <1>2, <2>1
    <3>2. Follows(i, plan, u)
      BY <1>6
    <3>3. n + 1 \in DOMAIN plan /\ plan[n + 1] \in Action /\ (plan[n + 1].do = "insert" => free[plan[n + 1].ext] \in Unused)
      BY <1>1, <1>3, <2>1
    <3> QED
      BY <3>1, <3>2, <3>3, StatementFollows
  <2> QED
    BY <2>1, <2>2
<1>7. m \in S
  <2> HIDE DEF S
  <2> QED
    BY <1>1, <1>5, <1>6, UpTo
<1> QED
  BY <1>4, <1>7

LEMMA ImportedFollows ==
    ASSUME TableOK(rooms), NEW i \in Integration, NEW plan \in Seq(Action), NEW t \in Imported(i, plan)
    PROVE  Follows(i, plan, t)
<1>1. CASE t = rooms
  BY <1>1 DEF Follows
<1>2. CASE t # rooms
  <2>1. PICK free \in Injection(Inserted(plan), Unused) : t \in Executed(i, plan, free)
    BY <1>2 DEF Imported
  <2> QED
    BY <2>1, ExecutedFollows
<1> QED
  BY <1>1, <1>2

-----------------------------------------------------------------------------
(* The invariant. *)

SyncInv ==
    /\ CTypeOK
    /\ TableOK(rooms)
    /\ \A k \in Run : run[k].pc # "idle" => run[k].of \in Integration
    /\ edit # None => rooms[edit.row].number # None

LEMMA PlanTypes ==
    ASSUME TableOK(rooms), NEW i \in Integration, NEW fetched \in Fetch \cup {<<>>}
    PROVE  Plan(i, fetched) \in Seq(Action)
<1>1. CASE OwnedElsewhere(i) \/ fetched = <<>>
  <2>1. Plan(i, fetched) = <<>>
    BY <1>1 DEF Plan
  <2> QED
    BY <2>1
<1>2. CASE ~OwnedElsewhere(i) /\ fetched # <<>>
  BY <1>2, PlanActs
<1> QED
  BY <1>1, <1>2

\* An edit keeps the rows in order.
LEMMA EditInOrder ==
    ASSUME SyncInv, EditSaves
    PROVE  TableOK(rooms') /\ \A r \in RoomId : /\ rooms'[r].owner = rooms[r].owner
                                                /\ rooms[r].number # None => rooms'[r].number # None
                                                /\ rooms[r].deleted => rooms'[r].deleted
<1>1. edit \in [row : RoomId, name : Name \cup {None}] /\ rooms[edit.row].number # None
  BY DEF SyncInv, CTypeOK, EditSaves
<1>2. PICK row \in RoomId : row = edit.row
  BY <1>1
<1>3. TableOK(rooms) /\ rooms \in [RoomId -> Room] /\ rooms[row] \in Room
  BY DEF SyncInv, TableOK
<1> DEFINE Goal == /\ TableOK(rooms')
                   /\ \A r \in RoomId : /\ rooms'[r].owner = rooms[r].owner
                                        /\ rooms[r].number # None => rooms'[r].number # None
                                        /\ rooms[r].deleted => rooms'[r].deleted
<1>4. ASSUME NEW w \in Room, \A r \in RoomId : rooms'[r] = IF r = row THEN w ELSE rooms[r], rooms' \in [RoomId -> Room],
             w.number # None, w.owner = rooms[row].owner, w.ext = rooms[row].ext, rooms[row].deleted => w.deleted,
             \A r \in RoomId \ {row} : rooms[r].number # w.number
      PROVE  Goal
  <2>1. \A r \in RoomId : rooms'[r].owner = None <=> rooms'[r].ext = None
    BY <1>3, <1>4 DEF TableOK
  <2>2. \A r \in RoomId : rooms'[r].number = None => rooms'[r] = NoRoom
    BY <1>3, <1>4 DEF TableOK
  <2>3. \A r, q \in RoomId : rooms'[r].number # None /\ rooms'[r].number = rooms'[q].number => r = q
    BY <1>3, <1>4 DEF TableOK
  <2>4. \A r, q \in RoomId :
           rooms'[r].owner # None /\ rooms'[r].owner = rooms'[q].owner /\ rooms'[r].ext = rooms'[q].ext => r = q
    BY <1>3, <1>4 DEF TableOK
  <2> QED
    BY <1>4, <2>1, <2>2, <2>3, <2>4 DEF TableOK
<1>5. ASSUME edit.name = None PROVE Goal
  <2> DEFINE w == [rooms[row] EXCEPT !.deleted = TRUE]
  <2>1. w \in Room /\ w.number = rooms[row].number /\ w.owner = rooms[row].owner /\ w.ext = rooms[row].ext /\ w.deleted
    BY <1>3 DEF Room
  <2>2. rooms' = [rooms EXCEPT ![row] = w]
    BY <1>2, <1>5 DEF EditSaves
  <2> HIDE DEF w, Goal
  <2>3. rooms' \in [RoomId -> Room] /\ \A r \in RoomId : rooms'[r] = IF r = row THEN w ELSE rooms[r]
    BY <1>3, <2>1, <2>2
  <2>4. \A r \in RoomId \ {row} : rooms[r].number # w.number
    BY <1>1, <1>2, <1>3, <2>1 DEF TableOK
  <2> QED
    BY <1>1, <1>2, <1>4, <2>1, <2>3, <2>4
<1>6. CASE edit.name # None /\ \E r \in RoomId : rooms[r].number = edit.name
  BY <1>3, <1>6 DEF EditSaves
<1>7. ASSUME edit.name # None, \A r \in RoomId : rooms[r].number # edit.name PROVE Goal
  <2> DEFINE w == [rooms[row] EXCEPT !.number = edit.name]
  <2>1. w \in Room /\ w.number = edit.name /\ w.owner = rooms[row].owner /\ w.ext = rooms[row].ext /\ w.deleted = rooms[row].deleted
    BY <1>1, <1>3 DEF Room
  <2>2. rooms' = [rooms EXCEPT ![row] = w]
    BY <1>2, <1>7 DEF EditSaves
  <2> HIDE DEF w, Goal
  <2>3. rooms' \in [RoomId -> Room] /\ \A r \in RoomId : rooms'[r] = IF r = row THEN w ELSE rooms[r]
    BY <1>3, <2>1, <2>2
  <2> QED
    BY <1>4, <1>7, <2>1, <2>3
<1> QED
  BY <1>5, <1>6, <1>7

\* So does a new room, in a row that was empty.
LEMMA RoomInOrder ==
    ASSUME TableOK(rooms), NEW n \in Name, CreateRoom(n)
    PROVE  TableOK(rooms') /\ \A r \in RoomId : /\ rooms'[r].owner = rooms[r].owner
                                                /\ rooms[r].number # None => rooms'[r] = rooms[r]
                                                /\ rooms'[r].deleted = rooms[r].deleted
<1> DEFINE w == [NoRoom EXCEPT !.number = n]
<1>1. PICK row \in RoomId : rooms[row].number = None /\ rooms' = [rooms EXCEPT ![row] = w]
  BY DEF CreateRoom, Unused
<1>2. n # None /\ rooms[row] = NoRoom /\ rooms \in [RoomId -> Room]
  BY <1>1, SyncAssumption DEF TableOK
<1>3. w \in Room /\ w.number = n /\ w.owner = None /\ w.ext = None /\ w.deleted = FALSE
  BY DEF NoRoom, Room
<1>4. rooms[row].owner = None /\ rooms[row].ext = None /\ rooms[row].deleted = FALSE
  BY <1>2 DEF NoRoom
<1> HIDE DEF w
<1>5. rooms' \in [RoomId -> Room] /\ \A r \in RoomId : rooms'[r] = IF r = row THEN w ELSE rooms[r]
  BY <1>1, <1>2, <1>3
<1>6. \A r \in RoomId : rooms'[r].owner = None <=> rooms'[r].ext = None
  BY <1>3, <1>5 DEF TableOK
<1>7. \A r \in RoomId : rooms'[r].number = None => rooms'[r] = NoRoom
  BY <1>2, <1>3, <1>5 DEF TableOK
<1>8. \A r \in RoomId : rooms[r].number # n
  BY DEF CreateRoom
<1>9. \A r, q \in RoomId : rooms'[r].number # None /\ rooms'[r].number = rooms'[q].number => r = q
  BY <1>3, <1>5, <1>8 DEF TableOK
<1>10. \A r, q \in RoomId :
          rooms'[r].owner # None /\ rooms'[r].owner = rooms'[q].owner /\ rooms'[r].ext = rooms'[q].ext => r = q
  BY <1>3, <1>5 DEF TableOK
<1> QED
  BY <1>1, <1>3, <1>4, <1>5, <1>6, <1>7, <1>9, <1>10 DEF TableOK

LEMMA InvBegins == CInit => SyncInv
<1> SUFFICES ASSUME CInit PROVE SyncInv
  OBVIOUS
<1>1. NoRoom \in Room /\ NoRoom.number = None /\ NoRoom.owner = None /\ NoRoom.ext = None
  BY DEF NoRoom, Room
<1>2. TableOK(rooms)
  BY <1>1 DEF CInit, TableOK
<1>3. NoLog \in [status : {"none", "syncing", "success", "error"}, of : Integration \cup {None}]
  BY DEF NoLog
<1>4. <<>> \in Seq(Action)
  OBVIOUS
<1>5. /\ NoRun \in [pc : {"idle", "begin", "plan", "save"}, of : Integration \cup {None},
                    log : LogId \cup {None}, plan : Seq(Action)]
      /\ NoRun.pc = "idle"
  BY <1>4 DEF NoRun
<1> QED
  BY <1>2, <1>3, <1>5 DEF SyncInv, CTypeOK, TableOK, CInit

\* What the rows owe to each other and to the edit, when the syncs and the logs change.
LEMMA RowsStay ==
    ASSUME SyncInv, UNCHANGED <<rooms, edit>>
    PROVE  /\ rooms' \in [RoomId -> Room] /\ \A r \in RoomId : rooms'[r].owner = None <=> rooms'[r].ext = None
           /\ edit' \in {None} \cup [row : RoomId, name : Name \cup {None}]
           /\ TableOK(rooms') /\ (edit' # None => rooms'[edit'.row].number # None)
BY DEF SyncInv, CTypeOK

LEMMA RunStops ==
    ASSUME SyncInv, NEW k \in Run, Stop(k)
    PROVE  /\ run' \in [Run -> [pc : {"idle", "begin", "plan", "save"}, of : Integration \cup {None},
                                log : LogId \cup {None}, plan : Seq(Action)]]
           /\ \A j \in Run : run'[j].pc # "idle" => run'[j].of \in Integration
<1>1. <<>> \in Seq(Action)
  OBVIOUS
<1>2. /\ NoRun \in [pc : {"idle", "begin", "plan", "save"}, of : Integration \cup {None},
                    log : LogId \cup {None}, plan : Seq(Action)]
      /\ NoRun.pc = "idle"
  BY <1>1 DEF NoRun
<1> QED
  BY <1>2 DEF Stop, SyncInv, CTypeOK

LEMMA RunStarts ==
    ASSUME SyncInv, NEW i \in Integration, Start(i)
    PROVE  /\ run' \in [Run -> [pc : {"idle", "begin", "plan", "save"}, of : Integration \cup {None},
                                log : LogId \cup {None}, plan : Seq(Action)]]
           /\ \A j \in Run : run'[j].pc # "idle" => run'[j].of \in Integration
<1> DEFINE w == [NoRun EXCEPT !.pc = "begin", !.of = i]
<1>1. <<>> \in Seq(Action)
  OBVIOUS
<1>2. w = [pc |-> "begin", of |-> i, log |-> None, plan |-> <<>>]
  <2> DEFINE a == [NoRun EXCEPT !.pc = "begin"]
  <2>1. a = [pc |-> "begin", of |-> None, log |-> None, plan |-> <<>>]
    BY DEF NoRun
  <2> HIDE DEF a
  <2>2. [a EXCEPT !.of = i] = [pc |-> "begin", of |-> i, log |-> None, plan |-> <<>>]
    BY <2>1
  <2> QED
    BY <2>2 DEF a
<1>3. w \in [pc : {"idle", "begin", "plan", "save"}, of : Integration \cup {None}, log : LogId \cup {None}, plan : Seq(Action)]
  BY <1>1, <1>2
<1>4. w.of = i
  BY <1>2
<1>5. PICK k \in Run : run' = [run EXCEPT ![k] = w]
  BY DEF Start
<1> HIDE DEF w
<1> QED
  BY <1>3, <1>4, <1>5 DEF SyncInv, CTypeOK

LEMMA LogEnds ==
    ASSUME SyncInv, NEW k \in Run, NEW result \in {"success", "error"}, Ended(k, result)
    PROVE  logs' \in [LogId -> [status : {"none", "syncing", "success", "error"}, of : Integration \cup {None}]]
<1> DEFINE Log == [status : {"none", "syncing", "success", "error"}, of : Integration \cup {None}]
<1>1. logs \in [LogId -> Log] /\ logs' = [logs EXCEPT ![run[k].log].status = result]
  BY DEF SyncInv, CTypeOK, Ended
<1>2. \A w \in Log : [w EXCEPT !.status = result] \in Log
  OBVIOUS
<1> HIDE DEF Log
<1>3. logs' \in [LogId -> Log]
  BY <1>1, <1>2
<1> QED
  BY <1>3 DEF Log

LEMMA Invariance == CSpec => []SyncInv
<1>1. ASSUME SyncInv, [CNext]_svars PROVE SyncInv'
  <2>1. ASSUME NEW k \in Run, OpenLog(k) PROVE SyncInv'
    <3>1. PICK l \in LogId, stale \in SUBSET Unfinished(run[k].of) :
             /\ logs' = [m \in LogId |->
                   IF m = l THEN [status |-> "syncing", of |-> run[k].of]
                   ELSE IF m \in stale THEN [logs[m] EXCEPT !.status = "error"]
                   ELSE logs[m]]
             /\ run' = [run EXCEPT ![k].pc = "plan", ![k].log = l]
      BY <2>1 DEF OpenLog
    <3>2. logs' \in [LogId -> [status : {"none", "syncing", "success", "error"}, of : Integration \cup {None}]]
      BY <1>1, <3>1 DEF SyncInv, CTypeOK
    <3>3. /\ run' \in [Run -> [pc : {"idle", "begin", "plan", "save"}, of : Integration \cup {None},
                               log : LogId \cup {None}, plan : Seq(Action)]]
          /\ \A j \in Run : run'[j].pc # "idle" => run'[j].of \in Integration
      <4>1. run[k].of \in Integration
        BY <1>1, <2>1 DEF SyncInv, OpenLog
      <4> QED
        BY <1>1, <3>1, <4>1, ZenonT(120) DEF SyncInv, CTypeOK
    <3> QED
      BY <1>1, <2>1, <3>2, <3>3, RowsStay DEF SyncInv, CTypeOK, OpenLog
  <2>2. ASSUME NEW k \in Run, PlanRooms(k) PROVE SyncInv'
    <3>1. run[k].of \in Integration
      BY <1>1, <2>2 DEF SyncInv, PlanRooms
    <3>2. PICK plan \in Seq(Action) : run' = [run EXCEPT ![k].pc = "save", ![k].plan = plan]
      <4>1. PICK fetched \in Fetch \cup {<<>>} : run' = [run EXCEPT ![k].pc = "save", ![k].plan = Plan(run[k].of, fetched)]
        BY <2>2 DEF PlanRooms
      <4>2. Plan(run[k].of, fetched) \in Seq(Action)
        BY <1>1, <3>1, PlanTypes DEF SyncInv
      <4> QED
        BY <4>1, <4>2
    <3>3. /\ run' \in [Run -> [pc : {"idle", "begin", "plan", "save"}, of : Integration \cup {None},
                               log : LogId \cup {None}, plan : Seq(Action)]]
          /\ \A j \in Run : run'[j].pc # "idle" => run'[j].of \in Integration
      BY <1>1, <3>1, <3>2, ZenonT(120) DEF SyncInv, CTypeOK
    <3> QED
      BY <1>1, <2>2, <3>3, RowsStay DEF SyncInv, CTypeOK, PlanRooms
  <2>3. ASSUME NEW k \in Run, SyncSucceeds(k) PROVE SyncInv'
    <3>1. run[k].of \in Integration /\ run[k].plan \in Seq(Action) /\ TableOK(rooms)
      BY <1>1, <2>3 DEF SyncInv, CTypeOK, SyncSucceeds
    <3>2. Follows(run[k].of, run[k].plan, rooms')
      BY <2>3, <3>1, ImportedFollows DEF SyncSucceeds
    <3>3. status' \in [Integration -> {"none", "active", "error", "disconnected"}]
      BY <1>1, <2>3 DEF SyncInv, CTypeOK, SyncSucceeds
    <3>4. logs' \in [LogId -> [status : {"none", "syncing", "success", "error"}, of : Integration \cup {None}]]
      BY <1>1, <2>3, LogEnds DEF SyncSucceeds
    <3>5. TableOK(rooms') /\ \A r \in RoomId : rooms[r].number # None => rooms'[r].number # None
      BY <3>2 DEF Follows
    <3>6. edit' = edit /\ (edit # None => edit.row \in RoomId /\ rooms[edit.row].number # None)
      BY <1>1, <2>3 DEF SyncInv, CTypeOK, SyncSucceeds
    <3>7. edit' # None => rooms'[edit'.row].number # None
      BY <3>5, <3>6
    <3>8. Stop(k) /\ edit' \in {None} \cup [row : RoomId, name : Name \cup {None}]
      BY <1>1, <2>3 DEF SyncInv, CTypeOK, SyncSucceeds
    <3>9. /\ run' \in [Run -> [pc : {"idle", "begin", "plan", "save"}, of : Integration \cup {None},
                               log : LogId \cup {None}, plan : Seq(Action)]]
          /\ \A j \in Run : run'[j].pc # "idle" => run'[j].of \in Integration
      BY <1>1, <3>8, RunStops
    <3> QED
      BY <3>3, <3>4, <3>5, <3>7, <3>8, <3>9 DEF SyncInv, CTypeOK, TableOK
  <2>4. ASSUME NEW k \in Run, SyncFails(k) PROVE SyncInv'
    <3>1. status' \in [Integration -> {"none", "active", "error", "disconnected"}]
      BY <1>1, <2>4 DEF SyncInv, CTypeOK, SyncFails
    <3>2. Ended(k, "error") /\ Stop(k) /\ UNCHANGED <<rooms, edit>>
      BY <2>4 DEF SyncFails
    <3> QED
      BY <1>1, <3>1, <3>2, RowsStay, RunStops, LogEnds DEF SyncInv, CTypeOK
  <2>5. ASSUME NEW k \in Run, WorkerDies(k) PROVE SyncInv'
    <3>1. Stop(k) /\ UNCHANGED <<rooms, edit>> /\ UNCHANGED <<status, logs>>
      BY <2>5 DEF WorkerDies
    <3> QED
      BY <1>1, <3>1, RowsStay, RunStops DEF SyncInv, CTypeOK
  <2>6. ASSUME NEW i \in Integration, Connect(i) \/ TriggerSync(i) PROVE SyncInv'
    <3>1. Start(i) /\ UNCHANGED <<rooms, edit>> /\ UNCHANGED logs
      BY <2>6 DEF Connect, TriggerSync
    <3>2. status' \in [Integration -> {"none", "active", "error", "disconnected"}]
      BY <1>1, <2>6 DEF SyncInv, CTypeOK, Connect, TriggerSync
    <3> QED
      BY <1>1, <3>1, <3>2, RowsStay, RunStarts DEF SyncInv, CTypeOK
  <2>7. ASSUME NEW i \in Integration, Disconnect(i) PROVE SyncInv'
    <3>1. status' \in [Integration -> {"none", "active", "error", "disconnected"}]
      BY <1>1, <2>7 DEF SyncInv, CTypeOK, Disconnect
    <3> QED
      BY <1>1, <2>7, <3>1, RowsStay DEF SyncInv, CTypeOK, Disconnect
  <2>8. ASSUME NEW n \in Name, CreateRoom(n) PROVE SyncInv'
    <3>1. TableOK(rooms') /\ \A r \in RoomId : rooms[r].number # None => rooms'[r] = rooms[r]
      BY <1>1, <2>8, RoomInOrder DEF SyncInv
    <3>2. edit # None => edit.row \in RoomId /\ rooms[edit.row].number # None
      BY <1>1 DEF SyncInv, CTypeOK
    <3> QED
      BY <1>1, <2>8, <3>1, <3>2 DEF SyncInv, CTypeOK, CreateRoom, TableOK
  <2>9. ASSUME NEW r \in RoomId, NEW name \in Name \cup {None}, EditChecks(r, name) PROVE SyncInv'
    <3>1. edit' = [row |-> r, name |-> name] /\ rooms[r].number # None
      BY <2>9 DEF EditChecks
    <3>2. edit'.row = r /\ edit' \in [row : RoomId, name : Name \cup {None}]
      BY <3>1
    <3> QED
      BY <1>1, <2>9, <3>1, <3>2 DEF SyncInv, CTypeOK, EditChecks
  <2>10. CASE EditSaves
    <3>1. TableOK(rooms')
      BY <1>1, <2>10, EditInOrder
    <3> QED
      BY <1>1, <2>10, <3>1 DEF SyncInv, CTypeOK, EditSaves, TableOK
  <2>11. CASE UNCHANGED svars
    BY <1>1, <2>11 DEF svars, SyncInv, CTypeOK
  <2> QED
    BY <1>1, <2>1, <2>2, <2>3, <2>4, <2>5, <2>6, <2>7, <2>8, <2>9, <2>10, <2>11 DEF CNext
<1> QED
  BY <1>1, InvBegins, PTL DEF CSpec

-----------------------------------------------------------------------------
(* The theorems. *)

\* Everything has its type, and a room has an owner exactly when it has an id
\* of that owner.
THEOREM TypeCorrect == CSpec => []CTypeOK
<1>1. SyncInv => CTypeOK
  BY DEF SyncInv
<1> QED
  BY <1>1, Invariance, PTL

\* Whatever the rooms have been through, a plan carried out at once is refused
\* by no unique index.
THEOREM PlansAreClean == CSpec => []PlansApplyCleanly
<1>1. SyncInv => PlansApplyCleanly
  BY CarriedOutAtOnce DEF SyncInv, PlansApplyCleanly
<1> QED
  BY <1>1, Invariance, PTL

-----------------------------------------------------------------------------
(* One sync at a time: what a plan may write stays so until it is carried     *)
(* out, because meanwhile no integration comes to life and no room changes    *)
(* its owner.                                                                 *)

OneAtATime == \A j, k \in Run : j = k

PlansKept == \A k \in Run : run[k].pc = "save" => \A n \in DOMAIN run[k].plan : ActOK(run[k].of, run[k].plan[n])

LEMMA ActStays ==
    ASSUME SyncInv, NEW i, NEW act, ActOK(i, act), \A r \in RoomId : rooms'[r].owner = rooms[r].owner,
           \A j \in Integration : status'[j] \in {"active", "error"} => Connected(j)
    PROVE  act \in Action /\ (act.do \in {"adopt", "update"} =>
                                act.row \in RoomId /\ (rooms'[act.row].owner = i \/ ~Held(act.row)'))
<1>1. act \in Action /\ (act.do \in {"adopt", "update"} => act.row \in RoomId /\ (rooms[act.row].owner = i \/ ~Held(act.row)))
  BY DEF ActOK
<1>2. ASSUME NEW r \in RoomId, ~Held(r) PROVE ~Held(r)'
  <2>1. rooms[r].owner \in Integration \cup {None} /\ rooms'[r].owner = rooms[r].owner
    BY DEF SyncInv, TableOK, Room
  <2> QED
    BY <1>2, <2>1 DEF Held, Connected
<1> QED
  BY <1>1, <1>2

LEMMA PlansStay ==
    ASSUME OneAtATime, SyncInv, PlansKept, [CNext]_svars
    PROVE  PlansKept'
<1>1. ASSUME NEW k \in Run, run'[k].pc # "save" PROVE PlansKept'
  BY <1>1 DEF OneAtATime, PlansKept
<1>2. ASSUME UNCHANGED run, \A r \in RoomId : rooms'[r].owner = rooms[r].owner,
             \A j \in Integration : status'[j] \in {"active", "error"} => Connected(j)
      PROVE  PlansKept'
  <2>1. ASSUME NEW k \in Run, run'[k].pc = "save", NEW n \in DOMAIN run'[k].plan
        PROVE  ActOK(run[k].of, run[k].plan[n])'
    <3>1. PICK i, act : i = run[k].of /\ act = run[k].plan[n]
      OBVIOUS
    <3>2. ActOK(i, act) /\ run' = run
      BY <1>2, <2>1, <3>1 DEF PlansKept
    <3>3. act \in Action /\ (act.do \in {"adopt", "update"} =>
                               act.row \in RoomId /\ (rooms'[act.row].owner = i \/ ~Held(act.row)'))
      BY <1>2, <3>2, ActStays
    <3>4. run'[k].of = i /\ run'[k].plan[n] = act
      BY <3>1, <3>2
    <3> QED
      BY <3>3, <3>4 DEF ActOK
  <2> QED
    BY <2>1 DEF PlansKept
<1>3. run \in [Run -> [pc : {"idle", "begin", "plan", "save"}, of : Integration \cup {None},
                       log : LogId \cup {None}, plan : Seq(Action)]]
  BY DEF SyncInv, CTypeOK
<1>4. ASSUME NEW k \in Run, OpenLog(k) PROVE PlansKept'
  <2>1. run'[k].pc = "plan"
    BY <1>3, <1>4 DEF OpenLog
  <2> QED
    BY <1>1, <2>1
<1>5. ASSUME NEW k \in Run, PlanRooms(k) PROVE PlansKept'
  <2>1. run[k].of \in Integration /\ TableOK(rooms)
    BY <1>5 DEF SyncInv, PlanRooms
  <2>2. PICK fetched \in Fetch \cup {<<>>} : run' = [run EXCEPT ![k].pc = "save", ![k].plan = Plan(run[k].of, fetched)]
    BY <1>5 DEF PlanRooms
  <2>0. PICK i, plan : i = run[k].of /\ plan = Plan(i, fetched)
    OBVIOUS
  <2>3. \A n \in DOMAIN plan : ActOK(i, plan[n])
    <3>1. CASE OwnedElsewhere(i) \/ fetched = <<>>
      <4>1. plan = <<>>
        BY <2>0, <3>1 DEF Plan
      <4> QED
        BY <4>1
    <3>2. CASE ~OwnedElsewhere(i) /\ fetched # <<>>
      <4>1. fetched \in Fetch
        BY <3>2
      <4>2. plan \in Seq(Action) /\ Len(plan) = Len(fetched) /\ \A n \in 1 .. Len(fetched) : ActOK(i, plan[n])
        BY <2>0, <2>1, <3>2, <4>1, PlanActs
      <4> QED
        BY <4>2
    <3> QED
      BY <3>1, <3>2
  <2>4. run'[k].of = i /\ run'[k].plan = plan /\ UNCHANGED <<status, rooms>>
    BY <1>3, <1>5, <2>0, <2>2 DEF PlanRooms
  <2>5. \A n \in DOMAIN plan : ActOK(i, plan[n])'
    BY <2>3, <2>4 DEF ActOK, Held, Connected
  <2>6. \A n \in DOMAIN run'[k].plan : ActOK(run[k].of, run[k].plan[n])'
    BY <2>4, <2>5 DEF ActOK, Held, Connected
  <2> QED
    BY <2>6 DEF OneAtATime, PlansKept
<1>6. ASSUME NEW k \in Run, Stop(k) PROVE PlansKept'
  <2>1. run'[k].pc = "idle"
    BY <1>3, <1>6 DEF Stop, NoRun
  <2> QED
    BY <1>1, <2>1
<1>7. ASSUME NEW i \in Integration, Start(i) PROVE PlansKept'
  <2>1. PICK k \in Run : run' = [run EXCEPT ![k] = [NoRun EXCEPT !.pc = "begin", !.of = i]]
    BY <1>7 DEF Start
  <2>2. run'[k].pc = "begin"
    BY <1>3, <2>1 DEF NoRun
  <2> QED
    BY <1>1, <2>2
<1>8. ASSUME NEW i \in Integration, Disconnect(i) PROVE PlansKept'
  <2>1. \A j \in Integration : status'[j] \in {"active", "error"} => Connected(j)
    BY <1>8 DEF Disconnect, Connected, SyncInv, CTypeOK
  <2> QED
    BY <1>2, <1>8, <2>1 DEF Disconnect
<1>9. ASSUME UNCHANGED <<status, run>>, \A r \in RoomId : rooms'[r].owner = rooms[r].owner PROVE PlansKept'
  BY <1>2, <1>9 DEF Connected
<1>10. ASSUME NEW n \in Name, CreateRoom(n) PROVE PlansKept'
  BY <1>9, <1>10, RoomInOrder DEF CreateRoom, SyncInv
<1>11. ASSUME NEW r \in RoomId, NEW name \in Name \cup {None}, EditChecks(r, name) PROVE PlansKept'
  BY <1>9, <1>11 DEF EditChecks
<1>12. CASE EditSaves
  BY <1>9, <1>12, EditInOrder DEF EditSaves
<1>13. CASE UNCHANGED svars
  BY <1>9, <1>13 DEF svars
<1> QED
  BY <1>4, <1>5, <1>6, <1>7, <1>8, <1>10, <1>11, <1>12, <1>13 DEF CNext, SyncSucceeds, SyncFails, WorkerDies,
     Connect, TriggerSync

\* With one sync at a time a sync takes a room from another integration only
\* while that one is disconnected, and no sync brings a deleted room back.
THEOREM RoomsAreReleased == ASSUME OneAtATime PROVE CSpec => RoomsChangeHandsWhenReleased
<1> DEFINE Kept(r) == /\ rooms[r].owner # None /\ rooms'[r].owner # rooms[r].owner => ~Connected(rooms[r].owner)
                      /\ rooms[r].deleted => rooms'[r].deleted
<1>1. ASSUME SyncInv, PlansKept, [CNext]_svars, NEW r \in RoomId PROVE Kept(r)
  <2>1. ASSUME NEW k \in Run, SyncSucceeds(k) PROVE Kept(r)
    <3>1. run[k].of \in Integration /\ run[k].plan \in Seq(Action) /\ TableOK(rooms)
      BY <1>1, <2>1 DEF SyncInv, CTypeOK, SyncSucceeds
    <3>2. Follows(run[k].of, run[k].plan, rooms')
      BY <2>1, <3>1, ImportedFollows DEF SyncSucceeds
    <3>3. \A n \in DOMAIN run[k].plan : ActOK(run[k].of, run[k].plan[n])
      BY <1>1, <2>1 DEF PlansKept, SyncSucceeds
    <3>4. rooms'[r].deleted = rooms[r].deleted /\ (rooms'[r].owner # rooms[r].owner => ~Held(r))
      BY <3>2, <3>3 DEF Follows
    <3> QED
      BY <3>4 DEF Held
  <2>2. CASE UNCHANGED rooms
    BY <2>2
  <2>3. ASSUME NEW n \in Name, CreateRoom(n) PROVE Kept(r)
    BY <1>1, <2>3, RoomInOrder DEF SyncInv
  <2>4. CASE EditSaves
    BY <1>1, <2>4, EditInOrder
  <2> HIDE DEF Kept
  <2> QED
    BY <1>1, <2>1, <2>2, <2>3, <2>4 DEF CNext, OpenLog, PlanRooms, SyncFails, WorkerDies, Connect, TriggerSync, Disconnect,
       EditChecks, svars
<1>2. SyncInv /\ PlansKept /\ [CNext]_svars => [\A r \in RoomId : Kept(r)]_svars
  BY <1>1
<1>3. CInit => PlansKept
  BY DEF CInit, NoRun, PlansKept
<1>4. SyncInv /\ PlansKept /\ [CNext]_svars => PlansKept'
  BY PlansStay
<1> QED
  BY <1>2, <1>3, <1>4, Invariance, PTL DEF CSpec, RoomsChangeHandsWhenReleased
=============================================================================
