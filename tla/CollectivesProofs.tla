------------------------- MODULE CollectivesProofs -------------------------
(***************************************************************************)
(* The network and the collectives over it, for every network, call and    *)
(* timing: what a stage is charged is what it carries, its bytes are paid  *)
(* for at both ends, routes are direct and stay on links, no collective is *)
(* costed for less than it must move, and the stages counted complete it.  *)
(*                                                                         *)
(* Five invariants stand on each other.  StageInv: the matrix being routed *)
(* is one stage of the current algorithm, the costs are those of the stages*)
(* before it.  RouteInv: a route is a suffix of the path its pair was      *)
(* given, and its hops agree with the grid.  Ledger: the traffic charged so*)
(* far holds, for every device, the bytes of the pairs routed so far.      *)
(* Paying: the total is no less than what the stages counted must move.    *)
(* Holding: what a device holds is a closed form of the algorithm, the     *)
(* number of stages counted, the rank and the chunk (Has).                 *)
(***************************************************************************)
EXTENDS Collectives, FiniteProofs, SequenceTheorems

(* A row or column of n places, and the places next to each other on it.   *)
Length == {1, 2, 4}

NextTo(n, ring, a, b) ==
  \/ b = a + 1 \/ b = a - 1
  \/ ring /\ (b = (a + 1) % n \/ b = (a - 1) % n)

(* A line of coordinates starts beside a, ends at b, goes from neighbour to *)
(* neighbour and meets no coordinate twice.                                *)
LEMMA LineSize ==
  ASSUME NEW n \in Length, NEW ring \in BOOLEAN, NEW a \in 0 .. n - 1, NEW b \in 0 .. n - 1
  PROVE  /\ Line(n, ring, a, b) \in Seq(0 .. n - 1)
         /\ Len(Line(n, ring, a, b)) = Apart(n, ring, a, b)
         /\ DOMAIN Line(n, ring, a, b) = 1 .. Apart(n, ring, a, b)
         /\ Apart(n, ring, a, b) \in 0 .. n - 1
<1> DEFINE up   == IF ring THEN (b - a) % n ELSE IF a <= b THEN b - a ELSE n
           down == IF ring THEN (a - b) % n ELSE IF a <= b THEN n ELSE a - b
           least == IF up <= down THEN up ELSE down
<1>1. up \in Nat /\ down \in Nat /\ least \in 0 .. n - 1
  BY DEF Length
<1>2. Apart(n, ring, a, b) = least
  <2>1. CASE ring
    <3>1. (b - a) % n \in Int /\ (a - b) % n \in Int
      BY DEF Length
    <3>2. Min({(b - a) % n, (a - b) % n}) = IF (b - a) % n <= (a - b) % n THEN (b - a) % n ELSE (a - b) % n
      BY <3>1, MinTwo
    <3>. QED BY <2>1, <3>2 DEF Apart
  <2>2. CASE ~ring
    <3>1. b - a \in Int /\ a - b \in Int /\ n \in Int
      BY DEF Length
    <3>2. Max({b - a, a - b}) = IF b - a <= a - b THEN a - b ELSE b - a
      BY <3>1, MaxTwo
    <3>3. least = IF b - a <= a - b THEN a - b ELSE b - a
      BY <2>2 DEF Length
    <3>. QED BY <2>2, <3>2, <3>3 DEF Apart
  <2>. QED BY <2>1, <2>2
<1>3. Line(n, ring, a, b) = IF up <= down THEN [k \in 1 .. up |-> (a + k) % n]
                            ELSE [k \in 1 .. down |-> (a - k) % n]
  BY DEF Line
<1>4. \A k \in Nat : (a + k) % n \in 0 .. n - 1 /\ (a - k) % n \in 0 .. n - 1
  BY DEF Length
<1> HIDE DEF up, down
<1>5. CASE up <= down
  <2>1. Line(n, ring, a, b) = [k \in 1 .. up |-> (a + k) % n]
    BY <1>3, <1>5
  <2>2. [k \in 1 .. up |-> (a + k) % n] \in [1 .. up -> 0 .. n - 1]
    BY <1>1, <1>4
  <2>. QED BY <1>1, <1>2, <1>5, <2>1, <2>2
<1>6. CASE ~(up <= down)
  <2>1. Line(n, ring, a, b) = [k \in 1 .. down |-> (a - k) % n]
    BY <1>3, <1>6
  <2>2. [k \in 1 .. down |-> (a - k) % n] \in [1 .. down -> 0 .. n - 1]
    BY <1>1, <1>4
  <2>. QED BY <1>1, <1>2, <1>6, <2>1, <2>2
<1>. QED BY <1>5, <1>6

(* The steps of a line or ring are simple, each next to the one before,    *)
(* and end where they should.                                              *)
LEMMA LineSteps ==
  ASSUME NEW n \in Length, NEW ring \in BOOLEAN, NEW a \in 0 .. n - 1, NEW b \in 0 .. n - 1,
         NEW L, L = Line(n, ring, a, b)
  PROVE  /\ \A i \in 1 .. Len(L) : L[i] # a
         /\ \A i, j \in 1 .. Len(L) : L[i] = L[j] => i = j
         /\ Len(L) > 0 => NextTo(n, ring, a, L[1])
         /\ \A i \in 1 .. Len(L) - 1 : NextTo(n, ring, L[i], L[i + 1])
         /\ IF Len(L) = 0 THEN a = b ELSE L[Len(L)] = b
<1> DEFINE up   == IF ring THEN (b - a) % n ELSE IF a <= b THEN b - a ELSE n
           down == IF ring THEN (a - b) % n ELSE IF a <= b THEN n ELSE a - b
<1>1. up \in Nat /\ down \in Nat
  BY DEF Length
<1>2. L = IF up <= down THEN [k \in 1 .. up |-> (a + k) % n]
                            ELSE [k \in 1 .. down |-> (a - k) % n]
  BY DEF Line
<1>3. CASE up <= down
  <2>1. Len(L) = up /\ up \in 0 .. n - 1 /\ \A k \in 1 .. up : L[k] = (a + k) % n
    <3>1. L = [k \in 1 .. up |-> (a + k) % n]
      BY <1>2, <1>3
    <3>2. up \in 0 .. n - 1
      BY <1>3 DEF Length
    <3> HIDE DEF up
    <3>. QED BY <1>1, <3>1, <3>2
  <2>2. \A i, j \in 0 .. n - 1 : (a + i) % n = (a + j) % n => i = j
    BY DEF Length
  <2>3. a % n = a /\ (a + 0) % n = a
    BY DEF Length
  <2>4. up = 0 => a = b
    BY <1>3 DEF Length
  <2>5. (a + up) % n = b
    BY <1>3 DEF Length
  <2>6. \A i \in 0 .. up - 1 : NextTo(n, ring, (a + i) % n, (a + (i + 1)) % n)
    BY <1>3 DEF Length, NextTo
  <2> HIDE DEF up
  <2>7. n \in Nat \ {0} /\ a \in Nat
    BY DEF Length
  <2>8. \A i \in 1 .. Len(L) : L[i] # a
    <3> SUFFICES ASSUME NEW i \in 1 .. Len(L), L[i] = a PROVE FALSE
      OBVIOUS
    <3>1. i \in 0 .. n - 1 /\ 0 \in 0 .. n - 1 /\ i \in 1 .. up /\ i # 0
      BY <1>1, <2>1, <2>7
    <3>2. (a + i) % n = (a + 0) % n
      BY <2>1, <2>3, <3>1
    <3>. QED BY <2>2, <3>1, <3>2
  <2>9. \A i, j \in 1 .. Len(L) : L[i] = L[j] => i = j
    BY <1>1, <2>1, <2>2, <2>7
  <2>10. Len(L) > 0 => NextTo(n, ring, a, L[1])
    <3> SUFFICES ASSUME Len(L) > 0 PROVE NextTo(n, ring, a, L[1])
      OBVIOUS
    <3>1. 0 \in 0 .. up - 1 /\ 1 \in 1 .. up /\ 0 + 1 = 1
      BY <1>1, <2>1
    <3>2. NextTo(n, ring, (a + 0) % n, (a + (0 + 1)) % n)
      BY <2>6, <3>1
    <3>3. L[1] = (a + 1) % n
      BY <2>1, <3>1
    <3>. QED BY <2>3, <3>2, <3>3, <3>1
  <2>11. \A i \in 1 .. Len(L) - 1 : NextTo(n, ring, L[i], L[i + 1])
    <3> SUFFICES ASSUME NEW i \in 1 .. Len(L) - 1 PROVE NextTo(n, ring, L[i], L[i + 1])
      OBVIOUS
    <3>1. i \in 0 .. up - 1 /\ i \in 1 .. up /\ i + 1 \in 1 .. up
      BY <1>1, <2>1
    <3>2. L[i] = (a + i) % n /\ L[i + 1] = (a + (i + 1)) % n
      BY <2>1, <3>1
    <3>. QED BY <2>6, <3>1, <3>2
  <2>12. IF Len(L) = 0 THEN a = b ELSE L[Len(L)] = b
    BY <1>1, <2>1, <2>4, <2>5
  <2>. QED BY <2>8, <2>9, <2>10, <2>11, <2>12
<1>4. CASE ~(up <= down)
  <2>1. Len(L) = down /\ down \in 0 .. n - 1 /\ \A k \in 1 .. down : L[k] = (a - k) % n
    <3>1. L = [k \in 1 .. down |-> (a - k) % n]
      BY <1>2, <1>4
    <3>2. down \in 0 .. n - 1
      BY <1>4 DEF Length
    <3> HIDE DEF down
    <3>. QED BY <1>1, <3>1, <3>2
  <2>2. \A i, j \in 0 .. n - 1 : (a - i) % n = (a - j) % n => i = j
    BY DEF Length
  <2>3. a % n = a /\ (a - 0) % n = a
    BY DEF Length
  <2>4. down = 0 => a = b
    BY <1>4 DEF Length
  <2>5. (a - down) % n = b
    BY <1>4 DEF Length
  <2>6. \A i \in 0 .. down - 1 : NextTo(n, ring, (a - i) % n, (a - (i + 1)) % n)
    BY <1>4 DEF Length, NextTo
  <2> HIDE DEF up, down
  <2>7. n \in Nat \ {0} /\ a \in Nat
    BY DEF Length
  <2>8. \A i \in 1 .. Len(L) : L[i] # a
    <3> SUFFICES ASSUME NEW i \in 1 .. Len(L), L[i] = a PROVE FALSE
      OBVIOUS
    <3>1. i \in 0 .. n - 1 /\ 0 \in 0 .. n - 1 /\ i \in 1 .. down /\ i # 0
      BY <1>1, <2>1, <2>7
    <3>2. (a - i) % n = (a - 0) % n
      BY <2>1, <2>3, <3>1
    <3>. QED BY <2>2, <3>1, <3>2
  <2>9. \A i, j \in 1 .. Len(L) : L[i] = L[j] => i = j
    BY <1>1, <2>1, <2>2, <2>7
  <2>10. Len(L) > 0 => NextTo(n, ring, a, L[1])
    <3> SUFFICES ASSUME Len(L) > 0 PROVE NextTo(n, ring, a, L[1])
      OBVIOUS
    <3>1. 0 \in 0 .. down - 1 /\ 1 \in 1 .. down /\ 0 + 1 = 1
      BY <1>1, <2>1
    <3>2. NextTo(n, ring, (a - 0) % n, (a - (0 + 1)) % n)
      BY <2>6, <3>1
    <3>3. L[1] = (a - 1) % n
      BY <2>1, <3>1
    <3>. QED BY <2>3, <3>2, <3>3, <3>1
  <2>11. \A i \in 1 .. Len(L) - 1 : NextTo(n, ring, L[i], L[i + 1])
    <3> SUFFICES ASSUME NEW i \in 1 .. Len(L) - 1 PROVE NextTo(n, ring, L[i], L[i + 1])
      OBVIOUS
    <3>1. i \in 0 .. down - 1 /\ i \in 1 .. down /\ i + 1 \in 1 .. down
      BY <1>1, <2>1
    <3>2. L[i] = (a - i) % n /\ L[i + 1] = (a - (i + 1)) % n
      BY <2>1, <3>1
    <3>. QED BY <2>6, <3>1, <3>2
  <2>12. IF Len(L) = 0 THEN a = b ELSE L[Len(L)] = b
    BY <1>1, <2>1, <2>4, <2>5
  <2>. QED BY <2>8, <2>9, <2>10, <2>11, <2>12
<1>. QED BY <1>3, <1>4

Nodes(g) == 0 .. Size(g) - 1

(* Row, column and node number of a grid determine each other.             *)
LEMMA GridPlace ==
  ASSUME NEW g, IsGrid(g)
  PROVE  /\ g.rows \in Length /\ g.cols \in Length
         /\ g.rowRing \in BOOLEAN /\ g.colRing \in BOOLEAN
         /\ Size(g) \in Nat \ {0}
         /\ \A u \in Nodes(g) :
              /\ Row(g, u) \in 0 .. g.rows - 1 /\ Col(g, u) \in 0 .. g.cols - 1
              /\ u = Id(g, Row(g, u), Col(g, u))
         /\ \A r \in 0 .. g.rows - 1, c \in 0 .. g.cols - 1 :
              /\ Id(g, r, c) \in Nodes(g)
              /\ Row(g, Id(g, r, c)) = r /\ Col(g, Id(g, r, c)) = c
<1>1. PICK rows \in Length : g.rows = rows
  BY DEF IsGrid, Length
<1>2. PICK cols \in Length : g.cols = cols
  BY DEF IsGrid, Length
<1>3. g.rowRing \in BOOLEAN /\ g.colRing \in BOOLEAN
  BY DEF IsGrid
<1>4. rows * cols \in Nat \ {0}
  BY DEF Length
<1>5. ASSUME NEW u \in 0 .. rows * cols - 1
      PROVE  /\ u \div cols \in 0 .. rows - 1 /\ u % cols \in 0 .. cols - 1
             /\ u = (u \div cols) * cols + (u % cols)
  BY DEF Length
<1>6. ASSUME NEW r \in 0 .. rows - 1, NEW c \in 0 .. cols - 1
      PROVE  /\ r * cols + c \in 0 .. rows * cols - 1
             /\ (r * cols + c) \div cols = r /\ (r * cols + c) % cols = c
  BY DEF Length
<1>7. Size(g) = rows * cols
  BY <1>1, <1>2 DEF Size
<1>8. ASSUME NEW u \in Nodes(g)
      PROVE  /\ Row(g, u) \in 0 .. g.rows - 1 /\ Col(g, u) \in 0 .. g.cols - 1
             /\ u = Id(g, Row(g, u), Col(g, u))
  <2>1. u \in 0 .. rows * cols - 1
    BY <1>7 DEF Nodes
  <2>2. Row(g, u) = u \div cols /\ Col(g, u) = u % cols
    BY <1>2 DEF Row, Col
  <2>3. Id(g, Row(g, u), Col(g, u)) = (u \div cols) * cols + (u % cols)
    BY <1>2, <2>2 DEF Id
  <2>. QED BY <1>1, <1>2, <1>5, <2>1, <2>2, <2>3
<1>9. ASSUME NEW r \in 0 .. g.rows - 1, NEW c \in 0 .. g.cols - 1
      PROVE  /\ Id(g, r, c) \in Nodes(g)
             /\ Row(g, Id(g, r, c)) = r /\ Col(g, Id(g, r, c)) = c
  <2>1. r \in 0 .. rows - 1 /\ c \in 0 .. cols - 1
    BY <1>1, <1>2
  <2>2. Id(g, r, c) = r * cols + c
    BY <1>2 DEF Id
  <2>3. Row(g, Id(g, r, c)) = (r * cols + c) \div cols /\ Col(g, Id(g, r, c)) = (r * cols + c) % cols
    BY <1>2, <2>2 DEF Row, Col
  <2>. QED BY <1>6, <1>7, <2>1, <2>2, <2>3 DEF Nodes
<1>. QED BY <1>1, <1>2, <1>3, <1>4, <1>7, <1>8, <1>9

(* One grid place beside another: along a column or along a row.           *)
RowNext(g, u, v) ==
  Col(g, u) = Col(g, v) /\ NextTo(g.rows, g.rowRing, Row(g, u), Row(g, v))
ColNext(g, u, v) ==
  Row(g, u) = Row(g, v) /\ NextTo(g.cols, g.colRing, Col(g, u), Col(g, v))
Beside(g, u, v) == u # v /\ (RowNext(g, u, v) \/ ColNext(g, u, v))

(* A path from m: every place beside the one before, the last one d; and a *)
(* simple one, which passes no place twice.                                *)
PathTo(g, m, path, d) ==
  /\ path \in Seq(Nodes(g))
  /\ Len(path) > 0 => Beside(g, m, path[1])
  /\ \A i \in 1 .. Len(path) - 1 : Beside(g, path[i], path[i + 1])
  /\ IF Len(path) = 0 THEN m = d ELSE path[Len(path)] = d

Simple(m, path) ==
  /\ \A i \in 1 .. Len(path) : path[i] # m
  /\ \A i, j \in 1 .. Len(path) : path[i] = path[j] => i = j

(* Rows, then columns, each a line.                                        *)
LEMMA StepsParts ==
  ASSUME NEW g, IsGrid(g), NEW s \in Nodes(g), NEW d \in Nodes(g)
  PROVE  \E rows \in Seq(0 .. g.rows - 1), cols \in Seq(0 .. g.cols - 1) :
           /\ rows = Line(g.rows, g.rowRing, Row(g, s), Row(g, d))
           /\ cols = Line(g.cols, g.colRing, Col(g, s), Col(g, d))
           /\ Len(rows) + Len(cols) = Distance(g, s, d)
           /\ Steps(g, s, d) \in Seq(Nodes(g))
           /\ Len(Steps(g, s, d)) = Len(rows) + Len(cols)
           /\ \A k \in 1 .. Len(rows) :
                /\ Row(g, Steps(g, s, d)[k]) = rows[k]
                /\ Col(g, Steps(g, s, d)[k]) = Col(g, s)
           /\ \A k \in 1 .. Len(cols) :
                /\ Row(g, Steps(g, s, d)[Len(rows) + k]) = Row(g, d)
                /\ Col(g, Steps(g, s, d)[Len(rows) + k]) = cols[k]
<1>1. /\ g.rows \in Length /\ g.cols \in Length
      /\ g.rowRing \in BOOLEAN /\ g.colRing \in BOOLEAN
      /\ Row(g, s) \in 0 .. g.rows - 1 /\ Col(g, s) \in 0 .. g.cols - 1
      /\ Row(g, d) \in 0 .. g.rows - 1 /\ Col(g, d) \in 0 .. g.cols - 1
  BY GridPlace
<1> DEFINE rows == Line(g.rows, g.rowRing, Row(g, s), Row(g, d))
           cols == Line(g.cols, g.colRing, Col(g, s), Col(g, d))
<1>2. /\ rows \in Seq(0 .. g.rows - 1) /\ DOMAIN rows = 1 .. Len(rows)
      /\ Len(rows) = Apart(g.rows, g.rowRing, Row(g, s), Row(g, d))
  <2>1. /\ Line(g.rows, g.rowRing, Row(g, s), Row(g, d)) \in Seq(0 .. g.rows - 1)
        /\ Len(Line(g.rows, g.rowRing, Row(g, s), Row(g, d)))
             = Apart(g.rows, g.rowRing, Row(g, s), Row(g, d))
    BY <1>1, LineSize
  <2>. QED BY <2>1
<1>3. /\ cols \in Seq(0 .. g.cols - 1) /\ DOMAIN cols = 1 .. Len(cols)
      /\ Len(cols) = Apart(g.cols, g.colRing, Col(g, s), Col(g, d))
  <2>1. /\ Line(g.cols, g.colRing, Col(g, s), Col(g, d)) \in Seq(0 .. g.cols - 1)
        /\ Len(Line(g.cols, g.colRing, Col(g, s), Col(g, d)))
             = Apart(g.cols, g.colRing, Col(g, s), Col(g, d))
    BY <1>1, LineSize
  <2>. QED BY <2>1
<1> DEFINE A == [k \in DOMAIN rows |-> Id(g, rows[k], Col(g, s))]
           B == [k \in DOMAIN cols |-> Id(g, Row(g, d), cols[k])]
<1>4. Steps(g, s, d) = A \o B
  BY DEF Steps
<1> HIDE DEF rows, cols
<1>5. Len(rows) \in Nat /\ \A k \in 1 .. Len(rows) : rows[k] \in 0 .. g.rows - 1
  BY <1>2, ElementOfSeq, LenProperties
<1>6. Len(cols) \in Nat /\ \A k \in 1 .. Len(cols) : cols[k] \in 0 .. g.cols - 1
  BY <1>3, ElementOfSeq, LenProperties
<1>7. /\ A \in Seq(Nodes(g)) /\ Len(A) = Len(rows)
      /\ \A k \in 1 .. Len(rows) : Row(g, A[k]) = rows[k] /\ Col(g, A[k]) = Col(g, s)
  <2>1. \A k \in 1 .. Len(rows) :
          /\ A[k] \in Nodes(g)
          /\ Row(g, A[k]) = rows[k] /\ Col(g, A[k]) = Col(g, s)
    BY <1>1, <1>2, <1>5, GridPlace
  <2>. QED BY <1>2, <2>1
<1>8. /\ B \in Seq(Nodes(g)) /\ Len(B) = Len(cols)
      /\ \A k \in 1 .. Len(cols) : Row(g, B[k]) = Row(g, d) /\ Col(g, B[k]) = cols[k]
  <2>1. \A k \in 1 .. Len(cols) :
          /\ B[k] \in Nodes(g)
          /\ Row(g, B[k]) = Row(g, d) /\ Col(g, B[k]) = cols[k]
    BY <1>1, <1>3, <1>6, GridPlace
  <2>. QED BY <1>3, <2>1
<1> HIDE DEF A, B
<1>9. /\ A \o B \in Seq(Nodes(g)) /\ Len(A \o B) = Len(rows) + Len(cols)
      /\ \A k \in 1 .. Len(rows) : (A \o B)[k] = A[k]
      /\ \A k \in 1 .. Len(cols) : (A \o B)[Len(rows) + k] = B[k]
  <2>1. /\ A \in Seq(Nodes(g)) /\ B \in Seq(Nodes(g))
        /\ Len(A) = Len(rows) /\ Len(B) = Len(cols)
    BY <1>7, <1>8
  <2>2. /\ A \o B \in Seq(Nodes(g)) /\ Len(A \o B) = Len(A) + Len(B)
        /\ \A i \in 1 .. Len(A) + Len(B) :
             (A \o B)[i] = IF i <= Len(A) THEN A[i] ELSE B[i - Len(A)]
    BY <2>1, ConcatProperties
  <2>3. \A k \in 1 .. Len(rows) : (A \o B)[k] = A[k]
    BY <1>5, <1>6, <2>1, <2>2
  <2>4. ASSUME NEW k \in 1 .. Len(cols) PROVE (A \o B)[Len(rows) + k] = B[k]
    <3>1. /\ Len(rows) + k \in 1 .. Len(A) + Len(B) /\ ~(Len(rows) + k <= Len(A))
          /\ (Len(rows) + k) - Len(A) = k
      BY <1>5, <1>6, <2>1
    <3>. QED BY <2>2, <3>1
  <2>. QED BY <2>1, <2>2, <2>3, <2>4
<1>10. Len(rows) + Len(cols) = Distance(g, s, d)
  BY <1>2, <1>3 DEF Distance
<1>. QED BY <1>2, <1>3, <1>4, <1>7, <1>8, <1>9, <1>10 DEF rows, cols

(* The same in one word.                                                   *)
LineOk(n, ring, a, b, L) ==
  /\ \A i \in 1 .. Len(L) : L[i] # a
  /\ \A i, j \in 1 .. Len(L) : L[i] = L[j] => i = j
  /\ Len(L) > 0 => NextTo(n, ring, a, L[1])
  /\ \A i \in 1 .. Len(L) - 1 : NextTo(n, ring, L[i], L[i + 1])
  /\ IF Len(L) = 0 THEN a = b ELSE L[Len(L)] = b

(* What LineSteps says, as one operator.                                   *)
LEMMA LineIsOk ==
  ASSUME NEW n \in Length, NEW ring \in BOOLEAN, NEW a \in 0 .. n - 1, NEW b \in 0 .. n - 1,
         NEW L, L = Line(n, ring, a, b)
  PROVE  LineOk(n, ring, a, b, L)
BY LineSteps DEF LineOk

(* The row-then-column walk of a grid has the length of the distance, is a *)
(* path to its goal, and repeats no node.                                  *)
LEMMA StepsDirect ==
  ASSUME NEW g, IsGrid(g), NEW s \in Nodes(g), NEW d \in Nodes(g)
  PROVE  /\ Len(Steps(g, s, d)) = Distance(g, s, d)
         /\ PathTo(g, s, Steps(g, s, d), d)
         /\ Simple(s, Steps(g, s, d))
<1>1. /\ g.rows \in Length /\ g.cols \in Length
      /\ g.rowRing \in BOOLEAN /\ g.colRing \in BOOLEAN
      /\ Row(g, s) \in 0 .. g.rows - 1 /\ Col(g, s) \in 0 .. g.cols - 1
      /\ Row(g, d) \in 0 .. g.rows - 1 /\ Col(g, d) \in 0 .. g.cols - 1
  BY GridPlace
<1>2. PICK rows \in Seq(0 .. g.rows - 1), cols \in Seq(0 .. g.cols - 1) :
           /\ rows = Line(g.rows, g.rowRing, Row(g, s), Row(g, d))
           /\ cols = Line(g.cols, g.colRing, Col(g, s), Col(g, d))
           /\ Len(rows) + Len(cols) = Distance(g, s, d)
           /\ Steps(g, s, d) \in Seq(Nodes(g))
           /\ Len(Steps(g, s, d)) = Len(rows) + Len(cols)
           /\ \A k \in 1 .. Len(rows) :
                /\ Row(g, Steps(g, s, d)[k]) = rows[k]
                /\ Col(g, Steps(g, s, d)[k]) = Col(g, s)
           /\ \A k \in 1 .. Len(cols) :
                /\ Row(g, Steps(g, s, d)[Len(rows) + k]) = Row(g, d)
                /\ Col(g, Steps(g, s, d)[Len(rows) + k]) = cols[k]
  BY StepsParts
<1>3. /\ \A i \in 1 .. Len(rows) : rows[i] # Row(g, s)
      /\ \A i, j \in 1 .. Len(rows) : rows[i] = rows[j] => i = j
      /\ Len(rows) > 0 => NextTo(g.rows, g.rowRing, Row(g, s), rows[1])
      /\ \A i \in 1 .. Len(rows) - 1 : NextTo(g.rows, g.rowRing, rows[i], rows[i + 1])
      /\ IF Len(rows) = 0 THEN Row(g, s) = Row(g, d) ELSE rows[Len(rows)] = Row(g, d)
  <2>1. LineOk(g.rows, g.rowRing, Row(g, s), Row(g, d), rows)
    BY <1>1, <1>2, LineIsOk
  <2>. QED BY <2>1 DEF LineOk
<1>4. /\ \A i \in 1 .. Len(cols) : cols[i] # Col(g, s)
      /\ \A i, j \in 1 .. Len(cols) : cols[i] = cols[j] => i = j
      /\ Len(cols) > 0 => NextTo(g.cols, g.colRing, Col(g, s), cols[1])
      /\ \A i \in 1 .. Len(cols) - 1 : NextTo(g.cols, g.colRing, cols[i], cols[i + 1])
      /\ IF Len(cols) = 0 THEN Col(g, s) = Col(g, d) ELSE cols[Len(cols)] = Col(g, d)
  <2>1. LineOk(g.cols, g.colRing, Col(g, s), Col(g, d), cols)
    BY <1>1, <1>2, LineIsOk
  <2>. QED BY <2>1 DEF LineOk
<1> DEFINE S == Steps(g, s, d)
           r == Len(rows)
           c == Len(cols)
<1>5. /\ r \in Nat /\ c \in Nat /\ Len(S) = r + c
      /\ \A k \in 1 .. r : Row(g, S[k]) = rows[k] /\ Col(g, S[k]) = Col(g, s)
      /\ \A k \in 1 .. r + c : k > r =>
           /\ Row(g, S[k]) = Row(g, d) /\ Col(g, S[k]) = cols[k - r]
           /\ k - r \in 1 .. c
  <2>1. r \in Nat /\ c \in Nat
    BY <1>2
  <2>2. ASSUME NEW k \in 1 .. r + c, k > r
        PROVE  /\ Row(g, S[k]) = Row(g, d) /\ Col(g, S[k]) = cols[k - r]
               /\ k - r \in 1 .. c
    <3>1. k - r \in 1 .. c /\ r + (k - r) = k
      BY <2>1, <2>2
    <3>2. Row(g, S[r + (k - r)]) = Row(g, d) /\ Col(g, S[r + (k - r)]) = cols[k - r]
      BY <1>2, <3>1
    <3>. QED BY <3>1, <3>2
  <2>. QED BY <1>2, <2>1, <2>2
<1> HIDE DEF S, r, c
<1>6. \A i \in 1 .. Len(S) : S[i] # s
  <2> SUFFICES ASSUME NEW i \in 1 .. Len(S), S[i] = s PROVE FALSE
    OBVIOUS
  <2>1. CASE i <= r
    <3>1. i \in 1 .. Len(rows)
      BY <1>5, <2>1 DEF r
    <3>. QED BY <1>3, <1>5, <3>1, <2>1
  <2>2. CASE i > r
    <3>1. i - r \in 1 .. Len(cols) /\ Col(g, S[i]) = cols[i - r]
      BY <1>5, <2>2 DEF c
    <3>. QED BY <1>4, <3>1
  <2>. QED BY <1>5, <2>1, <2>2
<1>7. \A i, j \in 1 .. Len(S) : S[i] = S[j] => i = j
  <2>1. ASSUME NEW i \in 1 .. Len(S), NEW j \in 1 .. Len(S), S[i] = S[j], i <= r PROVE i = j
    <3>1. i \in 1 .. r /\ Row(g, S[i]) = rows[i] /\ Col(g, S[i]) = Col(g, s)
      BY <1>5, <2>1
    <3>2. CASE j <= r
      <4>1. j \in 1 .. r /\ Row(g, S[j]) = rows[j]
        BY <1>5, <3>2
      <4>. QED BY <1>3, <2>1, <3>1, <4>1 DEF r
    <3>3. CASE j > r
      <4>1. j - r \in 1 .. c /\ Col(g, S[j]) = cols[j - r]
        BY <1>5, <3>3
      <4>. QED BY <1>4, <2>1, <3>1, <4>1 DEF c
    <3>. QED BY <1>5, <3>2, <3>3
  <2>2. ASSUME NEW i \in 1 .. Len(S), NEW j \in 1 .. Len(S), S[i] = S[j], i > r, j > r PROVE i = j
    <3>1. i - r \in 1 .. c /\ Col(g, S[i]) = cols[i - r] /\ j - r \in 1 .. c /\ Col(g, S[j]) = cols[j - r]
      BY <1>5, <2>2
    <3>2. i - r = j - r
      BY <1>4, <2>2, <3>1 DEF c
    <3>. QED BY <1>5, <3>2
  <2>. QED BY <1>5, <2>1, <2>2
<1>8. Len(S) > 0 => Beside(g, s, S[1])
  <2> SUFFICES ASSUME Len(S) > 0 PROVE Beside(g, s, S[1])
    OBVIOUS
  <2>1. 1 \in 1 .. Len(S) /\ S[1] # s
    BY <1>5, <1>6
  <2>2. CASE r > 0
    <3>1. 1 \in 1 .. r
      BY <1>5, <2>2
    <3>2. Row(g, S[1]) = rows[1] /\ Col(g, S[1]) = Col(g, s)
      BY <1>5, <3>1
    <3>3. NextTo(g.rows, g.rowRing, Row(g, s), rows[1])
      BY <1>3, <2>2 DEF r
    <3>. QED BY <2>1, <3>2, <3>3 DEF Beside, RowNext
  <2>3. CASE r = 0
    <3>1. 1 > r /\ 1 - r = 1 /\ c > 0 /\ Len(cols) > 0
      BY <1>5, <2>3 DEF c
    <3>2. Row(g, S[1]) = Row(g, d) /\ Col(g, S[1]) = cols[1] /\ Row(g, s) = Row(g, d)
      BY <1>3, <1>5, <2>1, <2>3, <3>1 DEF r
    <3>. QED BY <1>4, <2>1, <3>1, <3>2 DEF Beside, ColNext
  <2>. QED BY <1>5, <2>2, <2>3
<1>9. ASSUME NEW i \in 1 .. Len(S) - 1 PROVE Beside(g, S[i], S[i + 1])
  <2>1. i \in 1 .. Len(S) /\ i + 1 \in 1 .. Len(S) /\ i # i + 1 /\ i \in Nat
    BY <1>5
  <2>2. S[i] # S[i + 1]
    BY <1>7, <2>1
  <2>3. CASE i + 1 <= r
    <3>1. i \in 1 .. r /\ i + 1 \in 1 .. r /\ i \in 1 .. r - 1
      BY <1>5, <2>1, <2>3
    <3>2. /\ Row(g, S[i]) = rows[i] /\ Col(g, S[i]) = Col(g, s)
          /\ Row(g, S[i + 1]) = rows[i + 1] /\ Col(g, S[i + 1]) = Col(g, s)
      BY <1>5, <3>1
    <3>3. NextTo(g.rows, g.rowRing, rows[i], rows[i + 1])
      BY <1>3, <3>1 DEF r
    <3>. QED BY <2>2, <3>2, <3>3 DEF Beside, RowNext
  <2>4. CASE i = r
    <3>1. i \in 1 .. r /\ r > 0 /\ i + 1 > r /\ (i + 1) - r = 1 /\ c > 0
      BY <1>5, <2>1, <2>4
    <3>2. /\ Row(g, S[i]) = Row(g, d) /\ Col(g, S[i]) = Col(g, s)
      BY <1>3, <1>5, <2>4, <3>1 DEF r
    <3>3. Row(g, S[i + 1]) = Row(g, d) /\ Col(g, S[i + 1]) = cols[1]
      BY <1>5, <2>1, <3>1
    <3>4. NextTo(g.cols, g.colRing, Col(g, s), cols[1])
      BY <1>4, <3>1 DEF c
    <3>. QED BY <2>2, <3>2, <3>3, <3>4 DEF Beside, ColNext
  <2>5. CASE i > r
    <3>1. i + 1 > r /\ (i + 1) - r = (i - r) + 1 /\ i - r \in 1 .. c - 1
      BY <1>5, <2>1, <2>5
    <3>2. /\ Row(g, S[i]) = Row(g, d) /\ Col(g, S[i]) = cols[i - r]
          /\ Row(g, S[i + 1]) = Row(g, d) /\ Col(g, S[i + 1]) = cols[(i - r) + 1]
      BY <1>5, <2>1, <2>5, <3>1
    <3>3. NextTo(g.cols, g.colRing, cols[i - r], cols[(i - r) + 1])
      BY <1>4, <3>1 DEF c
    <3>. QED BY <2>2, <3>2, <3>3 DEF Beside, ColNext
  <2>. QED BY <1>5, <2>1, <2>3, <2>4, <2>5
<1>10. IF Len(S) = 0 THEN s = d ELSE S[Len(S)] = d
  <2>0. \A u \in Nodes(g) : Row(g, u) = Row(g, d) /\ Col(g, u) = Col(g, d) => u = d
    BY GridPlace
  <2>1. CASE c > 0
    <3>1. Len(S) \in 1 .. Len(S) /\ Len(S) > r /\ Len(S) - r = c /\ Len(S) # 0
      BY <1>5, <2>1
    <3>2. Row(g, S[Len(S)]) = Row(g, d) /\ Col(g, S[Len(S)]) = cols[c]
      BY <1>5, <3>1
    <3>3. cols[c] = Col(g, d)
      BY <1>4, <2>1 DEF c
    <3>4. S[Len(S)] \in Nodes(g)
      BY <1>2, <3>1 DEF S
    <3>. QED BY <2>0, <3>1, <3>2, <3>3, <3>4
  <2>2. CASE c = 0 /\ r > 0
    <3>1. Len(S) = r /\ r \in 1 .. r /\ r # 0 /\ Len(S) \in 1 .. Len(S)
      BY <1>5, <2>2
    <3>2. Row(g, S[r]) = rows[r] /\ Col(g, S[r]) = Col(g, s)
      BY <1>5, <3>1
    <3>3. rows[r] = Row(g, d) /\ Col(g, s) = Col(g, d)
      BY <1>3, <1>4, <2>2, <3>1 DEF c, r
    <3>4. S[Len(S)] \in Nodes(g)
      BY <1>2, <3>1 DEF S
    <3>. QED BY <2>0, <3>1, <3>2, <3>3, <3>4
  <2>3. CASE c = 0 /\ r = 0
    <3>1. Len(S) = 0 /\ Row(g, s) = Row(g, d) /\ Col(g, s) = Col(g, d)
      BY <1>3, <1>4, <1>5, <2>3 DEF c, r
    <3>. QED BY <2>0, <3>1
  <2>. QED BY <1>5, <2>1, <2>2, <2>3
<1>11. S \in Seq(Nodes(g)) /\ Len(S) = Distance(g, s, d)
  BY <1>2 DEF S
<1>. QED BY <1>6, <1>7, <1>8, <1>9, <1>10, <1>11 DEF S, PathTo, Simple

(* What the assumption on networks says of the one at hand.                *)
LEMMA NetFacts ==
  ASSUME net \in Nets
  PROVE  /\ IsGrid(net.outer) /\ IsGrid(net.middle) /\ net.ports \in Nat \ {0}
         /\ Size(net.outer) \in Nat \ {0} /\ Size(net.middle) \in Nat \ {0}
         /\ Tiles(net) = Nodes(net.outer) /\ Switches(net) = Nodes(net.middle)
         /\ Devices(net) = 0 .. (Size(net.outer) * Size(net.middle)) * net.ports - 1
<1>1. IsGrid(net.outer) /\ IsGrid(net.middle) /\ net.ports \in Nat \ {0}
  BY NetAssumption
<1>. QED BY <1>1, GridPlace DEF Tiles, Switches, Nodes, Devices

IsPlace(place) ==
  /\ place = <<place[1], place[2], place[3]>>
  /\ place[1] \in Nodes(net.outer) /\ place[2] \in Nodes(net.middle)
  /\ place[3] \in 0 .. net.ports - 1

(* A device has a place of its own.                                        *)
LEMMA PlaceFacts ==
  ASSUME net \in Nets
  PROVE  /\ \A d \in Devices(net) : IsPlace(Place(d)) /\ d \in Nat
         /\ \A d, e \in Devices(net) : Place(d) = Place(e) => d = e
<1>1. PICK a \in Nat \ {0} : a = Size(net.outer)
  BY NetFacts
<1>2. PICK b \in Nat \ {0} : b = Size(net.middle)
  BY NetFacts
<1>3. PICK c \in Nat \ {0} : c = net.ports
  BY NetFacts
<1>4. Devices(net) = 0 .. (a * b) * c - 1 /\ (a * b) * c \in Nat
  BY <1>1, <1>2, <1>3, NetFacts
<1>5. Nodes(net.outer) = 0 .. a - 1 /\ Nodes(net.middle) = 0 .. b - 1
  BY <1>1, <1>2 DEF Nodes
<1>6. \A d : /\ Place(d) = <<d \div (b * c), (d \div c) % b, d % c>>
            /\ Place(d)[1] = d \div (b * c) /\ Place(d)[2] = (d \div c) % b
            /\ Place(d)[3] = d % c
  BY <1>2, <1>3 DEF Place
<1>7. ASSUME NEW d \in Devices(net) PROVE d \in Nat /\ Digits(d, a, b, c)
  <2>1. d \in Nat /\ d < (a * b) * c
    BY <1>4
  <2>. QED BY <2>1, Split3
<1>8. ASSUME NEW d \in Devices(net) PROVE IsPlace(Place(d)) /\ d \in Nat
  <2>1. /\ d \div (b * c) \in 0 .. a - 1 /\ (d \div c) % b \in 0 .. b - 1
        /\ d % c \in 0 .. c - 1 /\ d \in Nat
    BY <1>7 DEF Digits
  <2>2. Place(d) = <<d \div (b * c), (d \div c) % b, d % c>>
    BY <1>6
  <2>. QED BY <1>3, <1>5, <2>1, <2>2 DEF IsPlace
<1>9. ASSUME NEW d \in Devices(net), NEW e \in Devices(net), Place(d) = Place(e)
      PROVE  d = e
  <2>2. d \div (b * c) = e \div (b * c) /\ (d \div c) % b = (e \div c) % b /\ d % c = e % c
    BY <1>6, <1>9, Zenon
  <2>3. d = ((d \div (b * c)) * b + ((d \div c) % b)) * c + (d % c)
    BY <1>7 DEF Digits
  <2>4. e = ((e \div (b * c)) * b + ((e \div c) % b)) * c + (e % c)
    BY <1>7 DEF Digits
  <2>. QED BY <2>2, <2>3, <2>4, Zenon
<1>. QED BY <1>8, <1>9

(* The ports of a side, and the switches they are on.                      *)
LEMMA PortFacts ==
  ASSUME NEW n \in Length
  PROVE  /\ In(n) \in Seq(0 .. n - 1) /\ Out(n) \in Seq(0 .. n - 1)
         /\ Len(In(n)) = Len(Out(n)) /\ Len(In(n)) \in {1, 2}
         /\ DOMAIN In(n) = 1 .. Len(In(n)) /\ DOMAIN Out(n) = 1 .. Len(Out(n))
<1>1. CASE n = 1
  <2>1. In(n) = <<0>> /\ Out(n) = <<0>> /\ 0 \in 0 .. n - 1
    BY <1>1 DEF In, Out
  <2>2. \A s : s = <<0>> => s \in Seq(0 .. n - 1) /\ Len(s) = 1 /\ DOMAIN s = 1 .. Len(s)
    BY <2>1
  <2>. QED BY <2>1, <2>2, Zenon
<1>2. CASE n # 1
  <2>1. n \div 2 \in {1, 2} /\ \A k \in 1 .. n \div 2 :
          n \div 2 + k - 1 \in 0 .. n - 1 /\ k - 1 \in 0 .. n - 1
    BY <1>2 DEF Length
  <2>2. /\ In(n) = [k \in 1 .. n \div 2 |-> n \div 2 + k - 1]
        /\ Out(n) = [k \in 1 .. n \div 2 |-> k - 1]
    BY <1>2 DEF In, Out
  <2>3. PICK h \in {1, 2} : h = n \div 2
    BY <2>1
  <2>4. In(n) \in [1 .. h -> 0 .. n - 1] /\ Out(n) \in [1 .. h -> 0 .. n - 1]
    BY <2>1, <2>2, <2>3
  <2>5. \A s \in [1 .. h -> 0 .. n - 1] :
          s \in Seq(0 .. n - 1) /\ Len(s) = h /\ DOMAIN s = 1 .. h
    <3>1. h \in Nat
      OBVIOUS
    <3> DEFINE T == 0 .. n - 1
    <3> HIDE DEF T
    <3>2. \A s \in [1 .. h -> T] : s \in Seq(T) /\ Len(s) = h /\ DOMAIN s = 1 .. h
      BY <3>1
    <3>. QED BY <3>2 DEF T
  <2>. QED BY <2>4, <2>5, Zenon
<1>. QED BY <1>1, <1>2

(* The two sides of a hop have as many ports as each other.                *)
SideLen(g, dir) == IF dir \in {"left", "right"} THEN Len(In(g.rows)) ELSE Len(In(g.cols))

(* A side of a grid has one port or two, and each is a node of it.         *)
LEMMA SidePorts ==
  ASSUME NEW g, IsGrid(g), NEW dir \in {"down", "up", "right", "left"}, NEW i \in {1, 2}
  PROVE  /\ PortsOf(g)[Sides[dir][i]] \in Seq(Nodes(g))
         /\ Len(PortsOf(g)[Sides[dir][i]]) = SideLen(g, dir)
         /\ DOMAIN PortsOf(g)[Sides[dir][i]] = 1 .. SideLen(g, dir)
         /\ SideLen(g, dir) \in {1, 2}
<1>1. PICK n \in Length : n = g.rows
  BY GridPlace
<1>2. PICK m \in Length : m = g.cols
  BY GridPlace
<1>3. ASSUME NEW s, s \in {In(n), Out(n)}, NEW c \in 0 .. m - 1
      PROVE  /\ AlongColumn(g, s, c) \in Seq(Nodes(g))
             /\ Len(AlongColumn(g, s, c)) = Len(In(n))
             /\ DOMAIN AlongColumn(g, s, c) = 1 .. Len(In(n))
  <2>1. s \in Seq(0 .. n - 1) /\ Len(s) = Len(In(n)) /\ DOMAIN s = 1 .. Len(In(n)) /\ Len(In(n)) \in Nat
    BY <1>3, PortFacts
  <2>2. \A k \in 1 .. Len(In(n)) : s[k] \in 0 .. n - 1
    BY <2>1, ElementOfSeq
  <2>3. \A k \in 1 .. Len(In(n)) : Id(g, s[k], c) \in Nodes(g)
    BY <1>1, <1>2, <2>2, GridPlace
  <2>4. AlongColumn(g, s, c) = [k \in 1 .. Len(In(n)) |-> Id(g, s[k], c)]
    BY <2>1 DEF AlongColumn
  <2>. QED BY <2>1, <2>3, <2>4
<1>4. ASSUME NEW s, s \in {In(m), Out(m)}, NEW r \in 0 .. n - 1
      PROVE  /\ AlongRow(g, r, s) \in Seq(Nodes(g))
             /\ Len(AlongRow(g, r, s)) = Len(In(m))
             /\ DOMAIN AlongRow(g, r, s) = 1 .. Len(In(m))
  <2>1. s \in Seq(0 .. m - 1) /\ Len(s) = Len(In(m)) /\ DOMAIN s = 1 .. Len(In(m)) /\ Len(In(m)) \in Nat
    BY <1>4, PortFacts
  <2>2. \A k \in 1 .. Len(In(m)) : s[k] \in 0 .. m - 1
    BY <2>1, ElementOfSeq
  <2>3. \A k \in 1 .. Len(In(m)) : Id(g, r, s[k]) \in Nodes(g)
    BY <1>1, <1>2, <2>2, GridPlace
  <2>4. AlongRow(g, r, s) = [k \in 1 .. Len(In(m)) |-> Id(g, r, s[k])]
    BY <2>1 DEF AlongRow
  <2>. QED BY <2>1, <2>3, <2>4
<1>5. 0 \in 0 .. n - 1 /\ n - 1 \in 0 .. n - 1 /\ 0 \in 0 .. m - 1 /\ m - 1 \in 0 .. m - 1
  BY DEF Length
<1>6. /\ PortsOf(g).left_in   = AlongColumn(g, In(n), 0)
      /\ PortsOf(g).left_out  = AlongColumn(g, Out(n), 0)
      /\ PortsOf(g).right_in  = AlongColumn(g, Out(n), m - 1)
      /\ PortsOf(g).right_out = AlongColumn(g, In(n), m - 1)
      /\ PortsOf(g).up_in     = AlongRow(g, n - 1, In(m))
      /\ PortsOf(g).up_out    = AlongRow(g, n - 1, Out(m))
      /\ PortsOf(g).down_in   = AlongRow(g, 0, Out(m))
      /\ PortsOf(g).down_out  = AlongRow(g, 0, In(m))
  BY <1>1, <1>2 DEF PortsOf
<1>7. CASE dir \in {"left", "right"}
  <2>1. PICK s \in {In(n), Out(n)}, c \in 0 .. m - 1 : PortsOf(g)[Sides[dir][i]] = AlongColumn(g, s, c)
    BY <1>5, <1>6, <1>7 DEF Sides
  <2>2. SideLen(g, dir) = Len(In(n)) /\ Len(In(n)) \in {1, 2}
    BY <1>1, <1>7, PortFacts DEF SideLen
  <2>. QED BY <1>3, <2>1, <2>2
<1>8. CASE dir \in {"down", "up"}
  <2>1. PICK s \in {In(m), Out(m)}, r \in 0 .. n - 1 : PortsOf(g)[Sides[dir][i]] = AlongRow(g, r, s)
    BY <1>5, <1>6, <1>8 DEF Sides
  <2>2. SideLen(g, dir) = Len(In(m)) /\ Len(In(m)) \in {1, 2}
    BY <1>2, <1>8, PortFacts DEF SideLen
  <2>. QED BY <1>4, <2>1, <2>2
<1>. QED BY <1>7, <1>8

(* The exit and the entry of a hop are the same port of two facing sides.  *)
Facing(src, dst, hops, i, dir) ==
  \E k \in 1 .. SideLen(net.middle, dir) :
    /\ Exit(src, dst, hops, i) = PortsOf(net.middle)[Sides[dir][1]][k]
    /\ Entry(src, dst, hops, i) = PortsOf(net.middle)[Sides[dir][2]][k]

(* A hop leaves by a port of the side it crosses and enters by the facing  *)
(* one; the exit foreseen is the one taken where the tiles leave as many   *)
(* rows or columns as the switches.                                        *)
LEMMA CrossingPorts ==
  ASSUME net \in Nets, NEW src \in Nat, NEW dst \in Nat, NEW hops, NEW i \in Nat \ {0},
         NEW dir, dir = HopDir(net.outer, hops[i], hops[i + 1])
  PROVE  /\ Exit(src, dst, hops, i) \in Nodes(net.middle)
         /\ Entry(src, dst, hops, i) \in Nodes(net.middle)
         /\ Foreseen(src, dst, hops, i) \in Nodes(net.middle)
         /\ Facing(src, dst, hops, i, dir)
         /\ SideLen(net.middle, dir) <= SideLen(net.outer, dir)
              => Foreseen(src, dst, hops, i) = Exit(src, dst, hops, i)
<1>1. dir \in {"down", "up", "right", "left"}
  BY DEF HopDir
<1>2. IsGrid(net.outer) /\ IsGrid(net.middle)
  BY NetFacts
<1>3. PICK x \in {1, 2} : x = SideLen(net.outer, dir) /\ Len(PortsOf(net.outer)[Sides[dir][1]]) = x
  BY <1>1, <1>2, SidePorts
<1>4. PICK y \in {1, 2} :
        /\ y = SideLen(net.middle, dir)
        /\ Len(PortsOf(net.middle)[Sides[dir][1]]) = y
        /\ Len(PortsOf(net.middle)[Sides[dir][2]]) = y
        /\ PortsOf(net.middle)[Sides[dir][1]] \in Seq(Nodes(net.middle))
        /\ PortsOf(net.middle)[Sides[dir][2]] \in Seq(Nodes(net.middle))
  BY <1>1, <1>2, SidePorts
<1>5. PortCount(dir) = IF x <= y THEN x ELSE y
  <2>1. PortCount(dir) = Min({x, y})
    <3>1. {x, y, y} = {x, y}
      OBVIOUS
    <3>. QED BY <1>3, <1>4, <3>1 DEF PortCount
  <2>. QED BY <2>1, MinTwo
<1>6. PICK p \in {1, 2} : p = PortCount(dir) /\ p <= y /\ (y <= x => p = y)
  BY <1>5
<1> DEFINE k == Select(src, dst, i - 1, p) + 1
           f == Select(src, dst, i - 1, y) + 1
<1>7. k \in 1 .. y /\ f \in 1 .. y
  BY <1>6 DEF Select
<1>8. /\ Exit(src, dst, hops, i) = PortsOf(net.middle)[Sides[dir][1]][k]
      /\ Entry(src, dst, hops, i) = PortsOf(net.middle)[Sides[dir][2]][k]
      /\ Foreseen(src, dst, hops, i) = PortsOf(net.middle)[Sides[dir][1]][f]
  BY <1>4, <1>6 DEF Exit, Entry, Foreseen
<1>9. y <= x => f = k
  BY <1>6
<1> HIDE DEF k, f
<1>10. /\ Exit(src, dst, hops, i) \in Nodes(net.middle)
       /\ Entry(src, dst, hops, i) \in Nodes(net.middle)
       /\ Foreseen(src, dst, hops, i) \in Nodes(net.middle)
  BY <1>4, <1>7, <1>8, ElementOfSeq, SMTT(60)
<1>11. Facing(src, dst, hops, i, dir)
  BY <1>4, <1>7, <1>8 DEF Facing
<1>. QED BY <1>3, <1>4, <1>9, <1>10, <1>8, <1>11

(* Products, as Measure is for sums: whatever the order of the factors.    *)
Times(f, S, h) ==
  /\ h \in [SUBSET S -> Nat] /\ h[{}] = 1
  /\ \A T \in SUBSET S : \A x \in T : h[T] = f[x] * h[T \ {x}]

(* Products of three are free of order.                                    *)
LEMMA TimesSwap == \A a, b, c \in Nat : a * b \in Nat /\ a * (b * c) = b * (a * c)
OBVIOUS

(* Every finite family of numbers has a product measure.                   *)
LEMMA TimesExists ==
  ASSUME NEW S, IsFiniteSet(S), NEW f, \A x \in S : f[x] \in Nat
  PROVE  \E h : Times(f, S, h)
<1> DEFINE Good == {T \in SUBSET S : \E h : Times(f, T, h)}
<1>1. {} \in Good
  <2>1. Times(f, {}, [T \in SUBSET {} |-> 1])
    BY DEF Times
  <2>. QED BY <2>1
<1>2. ASSUME NEW T \in SUBSET S, NEW x \in S, T \in Good, x \notin T
      PROVE  T \cup {x} \in Good
  <2>1. PICK h : Times(f, T, h)
    BY <1>2
  <2> DEFINE g == [U \in SUBSET (T \cup {x}) |->
                     IF x \in U THEN f[x] * h[U \ {x}] ELSE h[U]]
  <2>2. /\ h \in [SUBSET T -> Nat] /\ h[{}] = 1
        /\ \A U \in SUBSET T : \A y \in U : h[U] = f[y] * h[U \ {y}]
    BY <2>1 DEF Times
  <2>3. g \in [SUBSET (T \cup {x}) -> Nat] /\ g[{}] = 1
    <3>1. \A U \in SUBSET (T \cup {x}) :
            /\ x \in U => f[x] \in Nat /\ h[U \ {x}] \in Nat
            /\ x \notin U => h[U] \in Nat
      BY <1>2, <2>2
    <3>2. \A U \in SUBSET (T \cup {x}) : x \in U => f[x] * h[U \ {x}] \in Nat
      BY <3>1, TimesSwap
    <3>. QED BY <1>2, <2>2, <3>1, <3>2
  <2>4. ASSUME NEW U \in SUBSET (T \cup {x}), NEW y \in U
        PROVE  g[U] = f[y] * g[U \ {y}]
    <3>1. CASE x \notin U
      <4>1. U \in SUBSET T /\ U \ {y} \in SUBSET (T \cup {x}) /\ x \notin U \ {y}
        BY <2>4, <3>1
      <4>. QED BY <4>1, <2>2, <3>1
    <3>2. CASE y = x
      BY <3>2
    <3>3. CASE x \in U /\ y # x
      <4>1. /\ U \ {x} \in SUBSET T /\ y \in U \ {x}
            /\ (U \ {x}) \ {y} = (U \ {y}) \ {x}
            /\ (U \ {x}) \ {y} \in SUBSET T /\ x \in U \ {y}
        BY <2>4, <3>3
      <4>2. h[U \ {x}] = f[y] * h[(U \ {y}) \ {x}]
        BY <2>2, <4>1
      <4>3. f[x] \in Nat /\ f[y] \in Nat /\ h[(U \ {y}) \ {x}] \in Nat
        BY <2>2, <4>1
      <4>4. g[U] = f[x] * h[U \ {x}] /\ g[U \ {y}] = f[x] * h[(U \ {y}) \ {x}]
        BY <3>3, <4>1
      <4> HIDE DEF g
      <4>5. f[x] * (f[y] * h[(U \ {y}) \ {x}]) = f[y] * (f[x] * h[(U \ {y}) \ {x}])
        BY <4>3, TimesSwap
      <4>. QED BY <4>2, <4>4, <4>5, Zenon
    <3>. QED BY <3>1, <3>2, <3>3
  <2>5. Times(f, T \cup {x}, g)
    <3> HIDE DEF g
    <3>. QED BY <2>3, <2>4 DEF Times
  <2>. QED BY <2>5
<1> HIDE DEF Good
<1>3. S \in Good
  BY <1>1, <1>2, FiniteInduction
<1>. QED BY <1>3 DEF Good

(* A product over a sequence is its measure.                               *)
LEMMA ProductIs ==
  ASSUME NEW s \in Seq(Nat), NEW h, Times(s, 1 .. Len(s), h)
  PROVE  Product(s) = h[1 .. Len(s)]
<1> DEFINE S == 1 .. Len(s)
           Least(t) == CHOOSE x \in t : TRUE
           Fold(t, g) == IF t = {} THEN 1 ELSE s[Least(t)] * g[t \ {Least(t)}]
           iter == CHOOSE g : g = [t \in SUBSET S |-> Fold(t, g)]
<1>0. DOMAIN s = S /\ IsFiniteSet(S)
  BY FS_Interval
<1>1. Product(s) = iter[S]
  <2>1. Product(s) = LET it == CHOOSE g : g = [t \in SUBSET DOMAIN s |->
                                IF t = {} THEN 1 ELSE s[CHOOSE x \in t : TRUE] * g[t \ {CHOOSE x \in t : TRUE}]]
                     IN  it[DOMAIN s]
    BY DEF Product, FoldSeq, FoldFunction, FoldFunctionOnSet, MapThenFoldSet
  <2>. QED BY <1>0, <2>1
<1>2. h = [t \in SUBSET S |-> Fold(t, h)]
  <2>1. \A t \in SUBSET S : h[t] = Fold(t, h)
    BY DEF Times
  <2>2. h \in [SUBSET S -> Nat]
    BY DEF Times
  <2> HIDE DEF Fold
  <2>. QED BY <2>1, <2>2
<1>3. iter = [t \in SUBSET S |-> Fold(t, iter)]
  <2> HIDE DEF Fold
  <2>. QED BY <1>2
<1>4. \A t \in SUBSET S : iter[t] = Fold(t, iter)
  <2> HIDE DEF Fold, iter
  <2>. QED BY <1>3
<1> DEFINE Good == {n \in Nat : \A t \in SUBSET S : Cardinality(t) = n => iter[t] = h[t]}
<1> HIDE DEF iter
<1>5. 0 \in Good
  <2>1. \A t \in SUBSET S : Cardinality(t) = 0 => t = {}
    BY <1>0, FS_Subset, FS_EmptySet
  <2>2. h[{}] = 1
    BY DEF Times
  <2>. QED BY <1>4, <2>1, <2>2
<1>6. ASSUME NEW n \in Nat, n \in Good PROVE n + 1 \in Good
  <2> HIDE DEF S, Least, Fold
  <2> SUFFICES ASSUME NEW t \in SUBSET S, Cardinality(t) = n + 1
               PROVE  iter[t] = h[t]
    OBVIOUS
  <2> USE DEF Least, Fold
  <2>1. t # {} /\ IsFiniteSet(t)
    <3>1. Cardinality(t) # 0
      OBVIOUS
    <3>2. IsFiniteSet(t)
      BY <1>0, FS_Subset
    <3>. QED BY <3>1, <3>2, FS_EmptySet
  <2>2. Least(t) \in t
    BY <2>1
  <2> HIDE DEF Least
  <2>3. Cardinality(t \ {Least(t)}) = n /\ t \ {Least(t)} \in SUBSET S
    <3>1. PICK x \in t : x = Least(t)
      BY <2>2
    <3>2. Cardinality(t \ {x}) = Cardinality(t) - 1
      BY <2>1, FS_RemoveElement
    <3>. QED BY <3>1, <3>2
  <2>4. iter[t \ {Least(t)}] = h[t \ {Least(t)}]
    BY <1>6, <2>3
  <2>5. h[t] = s[Least(t)] * h[t \ {Least(t)}]
    BY <2>2 DEF Times, S
  <2>. QED BY <1>4, <2>1, <2>4, <2>5
<1> HIDE DEF Good
<1>7. Cardinality(S) \in Good
  BY <1>0, <1>5, <1>6, NatSetInduction, FS_CardinalityType
<1>. QED BY <1>0, <1>1, <1>7 DEF Good

(* A product over two disjoint sets is the product of the two.             *)
LEMMA TimesUnion ==
  ASSUME NEW f, NEW S, IsFiniteSet(S), NEW h, Times(f, S, h), \A x \in S : f[x] \in Nat,
         NEW A \in SUBSET S, NEW B \in SUBSET S, A \cap B = {}
  PROVE  h[A] \in Nat /\ h[B] \in Nat /\ h[A \cup B] = h[A] * h[B]
<1>1. /\ \A T \in SUBSET S : h[T] \in Nat
      /\ h[{}] = 1
      /\ \A T \in SUBSET S : \A x \in T : h[T] = f[x] * h[T \ {x}]
  BY DEF Times
<1> DEFINE Good == {T \in SUBSET A : h[T \cup B] = h[T] * h[B]}
<1>2. {} \in Good
  <2>1. h[{} \cup B] = h[B] /\ h[B] \in Nat
    BY <1>1
  <2>. QED BY <1>1, <2>1
<1>3. ASSUME NEW T \in SUBSET A, NEW x \in A, T \in Good, x \notin T
      PROVE  T \cup {x} \in Good
  <2>1. /\ (T \cup {x}) \cup B \in SUBSET S /\ x \in (T \cup {x}) \cup B
        /\ ((T \cup {x}) \cup B) \ {x} = T \cup B
        /\ T \cup {x} \in SUBSET S /\ (T \cup {x}) \ {x} = T /\ T \in SUBSET S
    BY <1>3
  <2>2. h[(T \cup {x}) \cup B] = f[x] * h[T \cup B] /\ h[T \cup {x}] = f[x] * h[T]
    BY <1>1, <2>1
  <2>3. h[T \cup B] = h[T] * h[B]
    BY <1>3
  <2>4. f[x] \in Nat /\ h[T] \in Nat /\ h[B] \in Nat
    BY <1>1, <2>1
  <2>5. PICK i \in Nat, j \in Nat, k \in Nat : i = f[x] /\ j = h[T] /\ k = h[B]
    BY <2>4
  <2>6. i * (j * k) = (i * j) * k
    OBVIOUS
  <2>7. h[(T \cup {x}) \cup B] = i * (j * k) /\ h[T \cup {x}] = i * j
    BY <2>2, <2>3, <2>5, Zenon
  <2>8. h[(T \cup {x}) \cup B] = h[T \cup {x}] * h[B]
    BY <2>5, <2>6, <2>7, Zenon
  <2>. QED BY <2>8
<1> HIDE DEF Good
<1>4. IsFiniteSet(A)
  BY FS_Subset
<1>5. A \in Good
  BY <1>2, <1>3, <1>4, FiniteInduction
<1>. QED BY <1>1, <1>5 DEF Good

(* A part of the sequence has the measure of its indices.                  *)
LEMMA ProductPart ==
  ASSUME NEW s \in Seq(Nat), NEW h, Times(s, 1 .. Len(s), h),
         NEW a \in 1 .. Len(s) + 1, NEW b \in 0 .. Len(s)
  PROVE  Product(SubSeq(s, a, b)) = h[a .. b]
<1> DEFINE t == SubSeq(s, a, b)
           k == IF a <= b THEN b - a + 1 ELSE 0
           Up1(T) == {x + (a - 1) : x \in T}
           g == [T \in SUBSET (1 .. k) |-> h[Up1(T)]]
<1>0. Len(s) \in Nat /\ k \in Nat /\ \A x \in 1 .. k : x + (a - 1) \in 1 .. Len(s)
  OBVIOUS
<1>1. /\ t \in Seq(Nat) /\ Len(t) = k
      /\ \A x \in 1 .. k : t[x] = s[x + (a - 1)] /\ t[x] \in Nat
  <2>1. t = [x \in 1 .. b - a + 1 |-> s[a + x - 1]]
    BY DEF SubSeq
  <2>2. 1 .. b - a + 1 = 1 .. k
    OBVIOUS
  <2>3. \A x \in 1 .. k : t[x] = s[x + (a - 1)]
    <3>1. \A x \in 1 .. k : a + x - 1 = x + (a - 1)
      OBVIOUS
    <3>. QED BY <2>1, <2>2, <3>1
  <2>4. \A x \in 1 .. k : s[x + (a - 1)] \in Nat
    BY <1>0, ElementOfSeq
  <2>5. t = [x \in 1 .. k |-> t[x]]
    BY <2>1, <2>2
  <2> HIDE DEF t, k
  <2>6. t \in [1 .. k -> Nat]
    BY <2>3, <2>4, <2>5
  <2>. QED BY <1>0, <2>3, <2>4, <2>6
<1>2. \A T \in SUBSET (1 .. k) : Up1(T) \in SUBSET (1 .. Len(s))
  BY <1>0
<1>3. /\ \A T \in SUBSET (1 .. Len(s)) : h[T] \in Nat
      /\ h[{}] = 1
      /\ \A T \in SUBSET (1 .. Len(s)) : \A x \in T : h[T] = s[x] * h[T \ {x}]
  BY DEF Times
<1>4. Times(t, 1 .. k, g)
  <2>1. g \in [SUBSET (1 .. k) -> Nat]
    <3> HIDE DEF Up1, k
    <3>. QED BY <1>2, <1>3
  <2>2. g[{}] = 1
    <3>1. Up1({}) = {} /\ {} \in SUBSET (1 .. k)
      OBVIOUS
    <3> HIDE DEF Up1, k
    <3>. QED BY <1>3, <3>1
  <2>3. ASSUME NEW T \in SUBSET (1 .. k), NEW x \in T PROVE g[T] = t[x] * g[T \ {x}]
    <3>1. x + (a - 1) \in Up1(T) /\ Up1(T) \ {x + (a - 1)} = Up1(T \ {x}) /\ T \ {x} \in SUBSET (1 .. k)
      <4>1. \A y, z \in 1 .. k : y + (a - 1) = z + (a - 1) => y = z
        OBVIOUS
      <4> HIDE DEF k
      <4>. QED BY <4>1
    <3>2. h[Up1(T)] = s[x + (a - 1)] * h[Up1(T) \ {x + (a - 1)}]
      <4> HIDE DEF Up1, k
      <4>. QED BY <1>2, <1>3, <3>1
    <3>3. t[x] = s[x + (a - 1)]
      BY <1>1
    <3> HIDE DEF Up1, k, t
    <3>. QED BY <3>1, <3>2, <3>3
  <2> HIDE DEF g, t, k, Up1
  <2>. QED BY <2>1, <2>2, <2>3 DEF Times
<1>5. Product(t) = g[1 .. Len(t)]
  <2> HIDE DEF g, t, k, Up1
  <2>. QED BY <1>1, <1>4, ProductIs
<1>6. Up1(1 .. k) = a .. b
  <2>1. ASSUME NEW y \in a .. b PROVE y - (a - 1) \in 1 .. k /\ (y - (a - 1)) + (a - 1) = y
    OBVIOUS
  <2>2. \A x \in 1 .. k : x + (a - 1) \in a .. b
    OBVIOUS
  <2> HIDE DEF k
  <2>. QED BY <2>1, <2>2
<1>7. g[1 .. k] = h[a .. b]
  <2> HIDE DEF Up1, k
  <2>. QED BY <1>6
<1> HIDE DEF g, k, t, Up1
<1>. QED BY <1>1, <1>5, <1>7 DEF t

(* The sizes of the dimensions below, at and above one of them.            *)
LEMMA ProductSplit ==
  ASSUME NEW s \in Seq(Nat \ {0}), NEW w \in 1 .. Len(s)
  PROVE  LET below == Product(SubSeq(s, 1, w - 1))
             above == Product(SubSeq(s, w + 1, Len(s)))
         IN  /\ below \in Nat \ {0} /\ above \in Nat \ {0}
             /\ Product(s) = (above * s[w]) * below
             /\ Product(SubSeq(s, 1, w)) = s[w] * below
<1>1. Len(s) \in Nat /\ s \in Seq(Nat) /\ \A x \in 1 .. Len(s) : s[x] \in Nat \ {0}
  BY ElementOfSeq
<1>2. IsFiniteSet(1 .. Len(s))
  BY <1>1, FS_Interval
<1>3. PICK h : Times(s, 1 .. Len(s), h)
  BY <1>1, <1>2, TimesExists
<1> DEFINE A == 1 .. w - 1
           B == w + 1 .. Len(s)
<1>4. /\ Product(s) = h[1 .. Len(s)]
      /\ Product(SubSeq(s, 1, w - 1)) = h[A]
      /\ Product(SubSeq(s, w + 1, Len(s))) = h[B]
      /\ Product(SubSeq(s, 1, w)) = h[1 .. w]
  <2>1. /\ 1 \in 1 .. Len(s) + 1 /\ w - 1 \in 0 .. Len(s) /\ w \in 0 .. Len(s)
        /\ w + 1 \in 1 .. Len(s) + 1 /\ Len(s) \in 0 .. Len(s)
    BY <1>1
  <2>2. Product(s) = h[1 .. Len(s)]
    BY <1>1, <1>3, ProductIs
  <2>3. Product(SubSeq(s, 1, w - 1)) = h[1 .. w - 1]
    BY <1>1, <1>3, <2>1, ProductPart
  <2>4. Product(SubSeq(s, w + 1, Len(s))) = h[w + 1 .. Len(s)]
    BY <1>1, <1>3, <2>1, ProductPart
  <2>5. Product(SubSeq(s, 1, w)) = h[1 .. w]
    BY <1>1, <1>3, <2>1, ProductPart
  <2>. QED BY <2>2, <2>3, <2>4, <2>5
<1>5. /\ \A T \in SUBSET (1 .. Len(s)) : h[T] \in Nat
      /\ h[{}] = 1
      /\ \A T \in SUBSET (1 .. Len(s)) : \A x \in T : h[T] = s[x] * h[T \ {x}]
  BY <1>3 DEF Times
<1>6. /\ A \in SUBSET (1 .. Len(s)) /\ B \in SUBSET (1 .. Len(s))
      /\ 1 .. w \in SUBSET (1 .. Len(s)) /\ w \in 1 .. w /\ (1 .. w) \ {w} = A
      /\ (1 .. w) \cap B = {} /\ (1 .. w) \cup B = 1 .. Len(s)
  BY <1>1
<1>7. h[1 .. w] = s[w] * h[A]
  BY <1>5, <1>6
<1> HIDE DEF A, B
<1>8. h[(1 .. w) \cup B] = h[1 .. w] * h[B]
  <2>1. \A x \in 1 .. Len(s) : s[x] \in Nat
    BY <1>1
  <2> DEFINE S == 1 .. Len(s)
             W == 1 .. w
  <2>2. IsFiniteSet(S) /\ Times(s, S, h) /\ (\A x \in S : s[x] \in Nat)
        /\ W \in SUBSET S /\ B \in SUBSET S /\ W \cap B = {}
    BY <1>2, <1>3, <1>6, <2>1
  <2> HIDE DEF S, W
  <2>3. h[W \cup B] = h[W] * h[B]
    BY <2>2, TimesUnion
  <2>. QED BY <2>3 DEF W
<1>9. \A T \in SUBSET (1 .. Len(s)) : h[T] # 0
  <2> DEFINE Good == {T \in SUBSET (1 .. Len(s)) : h[T] # 0}
  <2>1. {} \in Good
    BY <1>5
  <2>2. ASSUME NEW T \in SUBSET (1 .. Len(s)), NEW x \in 1 .. Len(s), T \in Good, x \notin T
        PROVE  T \cup {x} \in Good
    <3>1. (T \cup {x}) \ {x} = T /\ T \cup {x} \in SUBSET (1 .. Len(s))
      BY <2>2
    <3>2. h[T \cup {x}] = s[x] * h[T] /\ h[T] \in Nat \ {0} /\ s[x] \in Nat \ {0}
      BY <1>1, <1>5, <2>2, <3>1
    <3>3. \A a, b \in Nat \ {0} : a * b # 0
      OBVIOUS
    <3>. QED BY <3>1, <3>2, <3>3
  <2>3. ASSUME NEW T \in SUBSET (1 .. Len(s)) PROVE h[T] # 0
    <3> DEFINE Part == {U \in SUBSET T : h[U] # 0}
    <3>1. {} \in Part
      BY <1>5
    <3>2. ASSUME NEW U \in SUBSET T, NEW x \in T, U \in Part, x \notin U
          PROVE  U \cup {x} \in Part
      BY <2>2, <3>2
    <3>3. IsFiniteSet(T)
      BY <1>2, FS_Subset
    <3> HIDE DEF Part
    <3>4. T \in Part
      BY <3>1, <3>2, <3>3, FiniteInduction
    <3>. QED BY <3>4 DEF Part
  <2>. QED BY <2>3
<1>10. h[A] \in Nat \ {0} /\ h[B] \in Nat \ {0} /\ s[w] \in Nat \ {0}
  BY <1>1, <1>5, <1>6, <1>9
<1>11. \A a, b, c \in Nat : (a * b) * c = (c * a) * b
  OBVIOUS
<1>12. (s[w] * h[A]) * h[B] = (h[B] * s[w]) * h[A]
  BY <1>10, <1>11
<1>. QED BY <1>4, <1>6, <1>7, <1>8, <1>10, <1>12

(* A quotient and a remainder are known from each other.                   *)
LEMMA RemainderIs ==
  ASSUME NEW x \in Nat, NEW b \in Nat \ {0}, NEW u \in Nat, NEW r \in Nat,
         x = u * b + r, r < b
  PROVE  x \div b = u /\ x % b = r
<1>1. x \div b = u
  BY QuotientIs
<1>2. PICK q \in Nat, s \in 0 .. b - 1 : q = x \div b /\ s = x % b /\ x = b * q + s
  <2>1. x \div b \in Nat /\ x % b \in 0 .. b - 1 /\ x = b * (x \div b) + (x % b)
    OBVIOUS
  <2>. QED BY <2>1
<1>3. b * u = u * b /\ u * b \in Nat
  OBVIOUS
<1>4. s = r
  <2>1. b * q = u * b
    BY <1>1, <1>2, <1>3
  <2>. QED BY <1>2, <1>3, <2>1
<1>. QED BY <1>1, <1>2, <1>4

CallOk == call \in Calls /\ net = call.net

(* What the assumption on calls says of the one at hand: devices are       *)
(* numbered block by group by stride, and bytes divide evenly.             *)
LEMMA CallFacts ==
  ASSUME CallOk
  PROVE  /\ net \in Nets /\ Group \in {2, 4, 8}
         /\ Stride \in Nat \ {0} /\ Blocks \in Nat \ {0}
         /\ Devices(net) = 0 .. (Blocks * Group) * Stride - 1
         /\ IsFiniteSet(Devices(net))
         /\ call.bytes \div Group \in Nat
         /\ call.bytes = Group * (call.bytes \div Group)
         /\ call.degree \in {1, 2, 4, 8} /\ call.degree <= Group
         /\ call.op \in {"all_reduce", "reduce_scatter", "partial_broadcast"}
<1>1. /\ call.net \in Nets /\ call.dims \in Seq(Nat \ {0})
      /\ call.which \in DOMAIN call.dims /\ call.dims[call.which] \in {2, 4, 8}
      /\ Product(call.dims) = Cardinality(Devices(call.net))
      /\ call.op \in {"all_reduce", "reduce_scatter", "partial_broadcast"}
      /\ call.degree \in {1, 2, 4, 8} /\ call.degree <= call.dims[call.which]
      /\ call.bytes \in Nat /\ call.bytes % call.dims[call.which] = 0
  BY CallAssumption DEF CallOk
<1>2. PICK dims \in Seq(Nat \ {0}) : dims = call.dims
  BY <1>1
<1>0. PICK w \in 1 .. Len(dims) : w = call.which
  BY <1>1, <1>2
<1>3. /\ Stride \in Nat \ {0} /\ Blocks \in Nat \ {0}
      /\ Product(call.dims) = (Blocks * Group) * Stride
  <2>1. Stride = Product(SubSeq(dims, 1, w - 1)) /\ Blocks = Product(SubSeq(dims, w + 1, Len(dims)))
        /\ Group = dims[w]
    BY <1>0, <1>2 DEF Stride, Blocks, Group
  <2>2. /\ Product(SubSeq(dims, 1, w - 1)) \in Nat \ {0}
        /\ Product(SubSeq(dims, w + 1, Len(dims))) \in Nat \ {0}
        /\ Product(dims) = (Product(SubSeq(dims, w + 1, Len(dims))) * dims[w])
                             * Product(SubSeq(dims, 1, w - 1))
    BY ProductSplit
  <2>. QED BY <1>2, <2>1, <2>2
<1>4. Group \in {2, 4, 8}
  BY <1>1 DEF Group
<1>5. PICK x \in Nat : Devices(net) = 0 .. x - 1
  <2>1. net \in Nets
    BY <1>1 DEF CallOk
  <2>2. PICK a \in Nat \ {0}, b \in Nat \ {0}, c \in Nat \ {0} :
          a = Size(net.outer) /\ b = Size(net.middle) /\ c = net.ports
    BY <2>1, NetFacts
  <2>3. Devices(net) = 0 .. (a * b) * c - 1
    BY <2>1, <2>2, NetFacts, Zenon
  <2>4. (a * b) * c \in Nat
    OBVIOUS
  <2>. QED BY <2>3, <2>4
<1>6. IsFiniteSet(Devices(net)) /\ Cardinality(Devices(net)) = x
  <2>1. Cardinality(0 .. x - 1) = x /\ IsFiniteSet(0 .. x - 1)
    <3>1. PICK y \in Int : y = x - 1
      OBVIOUS
    <3>2. PICK z \in Int : z = 0
      OBVIOUS
    <3>3. /\ IsFiniteSet(z .. y)
          /\ Cardinality(z .. y) = IF z > y THEN 0 ELSE y - z + 1
      BY FS_Interval
    <3>. QED BY <3>1, <3>2, <3>3
  <2>. QED BY <1>5, <2>1
<1>7. x = (Blocks * Group) * Stride
  BY <1>1, <1>3, <1>6 DEF CallOk
<1>8. call.bytes \div Group \in Nat /\ call.bytes = Group * (call.bytes \div Group)
  <2>1. PICK b \in Nat, n \in {2, 4, 8} : b = call.bytes /\ n = Group /\ b % n = 0
    BY <1>1 DEF Group
  <2>2. b \div n \in Nat /\ b = n * (b \div n)
    BY <2>1
  <2>. QED BY <2>1, <2>2
<1>. QED BY <1>1, <1>3, <1>4, <1>5, <1>6, <1>7, <1>8 DEF CallOk, Group

(* A group takes one device for every rank, and no device is in two.       *)
LEMMA GroupFacts ==
  ASSUME CallOk
  PROVE  /\ \A g \in Groups : g \in [Ranks -> Devices(net)]
         /\ \A g \in Groups : \A k \in Ranks : Rank(g[k]) = k
         /\ \A g, h \in Groups : \A i, j \in Ranks : g[i] = h[j] => g = h /\ i = j
         /\ \A d \in Devices(net) : Rank(d) \in Ranks /\ \E g \in Groups : g[Rank(d)] = d
<1>1. PICK n \in {2, 4, 8} : n = Group
  BY CallFacts
<1>2. PICK s \in Nat \ {0} : s = Stride
  BY CallFacts
<1>3. PICK b \in Nat \ {0} : b = Blocks
  BY CallFacts
<1>4. Devices(net) = 0 .. (b * n) * s - 1 /\ Ranks = 0 .. n - 1 /\ n \in Nat \ {0}
  BY <1>1, <1>2, <1>3, CallFacts DEF Ranks
<1>5. \A x : Rank(x) = (x \div s) % n
  BY <1>1, <1>2 DEF Rank
<1> DEFINE At3(block, off, k) == (block * n + k) * s + off
<1>6. ASSUME NEW block \in 0 .. b - 1, NEW off \in 0 .. s - 1, NEW k \in 0 .. n - 1
      PROVE  /\ At3(block, off, k) = block * n * s + off + k * s
             /\ At3(block, off, k) \in 0 .. (b * n) * s - 1
             /\ At3(block, off, k) % s = off
             /\ (At3(block, off, k) \div s) % n = k
             /\ (At3(block, off, k) \div s) \div n = block
  <2>1. block * n + k \in Nat /\ block * n + k < b * n
    BY InTable
  <2>2. PICK y \in Nat : y = block * n + k /\ y < b * n
    BY <2>1
  <2>3. y * s + off \in Nat /\ y * s + off < (b * n) * s
    BY <2>2, InTable
  <2>4. y \div n = block /\ y % n = k
    BY <2>2, RemainderIs
  <2>5. PICK x \in Nat : x = y * s + off /\ x < (b * n) * s
    BY <2>3
  <2>6. x \div s = y /\ x % s = off
    BY <2>5, RemainderIs
  <2>7. (block * n + k) * s = block * n * s + k * s
    OBVIOUS
  <2>8. At3(block, off, k) = x
    BY <2>2, <2>5
  <2>9. x = block * n * s + off + k * s
    <3>1. block * n * s \in Nat /\ k * s \in Nat
      OBVIOUS
    <3>. QED BY <2>2, <2>5, <2>7, <3>1
  <2>10. x \in 0 .. (b * n) * s - 1
    <3>1. (b * n) * s \in Nat
      OBVIOUS
    <3>. QED BY <2>5, <3>1
  <2> HIDE DEF At3
  <2>. QED BY <2>4, <2>6, <2>8, <2>9, <2>10
<1>7. Groups = {[k \in 0 .. n - 1 |-> block * n * s + off + k * s] :
                  off \in 0 .. s - 1, block \in 0 .. b - 1}
  BY <1>1, <1>2, <1>3 DEF Groups, Ranks
<1>8. ASSUME NEW g \in Groups
      PROVE  \E block \in 0 .. b - 1, off \in 0 .. s - 1 :
               g = [k \in 0 .. n - 1 |-> At3(block, off, k)]
  <2>1. PICK off \in 0 .. s - 1, block \in 0 .. b - 1 :
          g = [k \in 0 .. n - 1 |-> block * n * s + off + k * s]
    BY <1>7
  <2>2. \A k \in 0 .. n - 1 : At3(block, off, k) = block * n * s + off + k * s
    BY <1>6
  <2> HIDE DEF At3
  <2>3. g = [k \in 0 .. n - 1 |-> At3(block, off, k)]
    BY <2>1, <2>2
  <2>. QED BY <2>3
<1> HIDE DEF At3
<1>9. ASSUME NEW g \in Groups
      PROVE  g \in [Ranks -> Devices(net)] /\ \A k \in Ranks : Rank(g[k]) = k
  <2>1. PICK block \in 0 .. b - 1, off \in 0 .. s - 1 :
               g = [k \in 0 .. n - 1 |-> At3(block, off, k)]
    BY <1>8
  <2>2. ASSUME NEW k \in 0 .. n - 1
        PROVE  At3(block, off, k) \in Devices(net) /\ Rank(At3(block, off, k)) = k
    <3>1. /\ At3(block, off, k) \in 0 .. (b * n) * s - 1
          /\ (At3(block, off, k) \div s) % n = k
      BY <1>6
    <3>. QED BY <1>4, <1>5, <3>1
  <2>. QED BY <1>4, <2>1, <2>2
<1>10. ASSUME NEW g \in Groups, NEW h \in Groups, NEW i \in Ranks, NEW j \in Ranks, g[i] = h[j]
       PROVE  g = h /\ i = j
  <2>1. PICK block \in 0 .. b - 1, off \in 0 .. s - 1 :
               g = [k \in 0 .. n - 1 |-> At3(block, off, k)]
    BY <1>8
  <2>2. PICK block2 \in 0 .. b - 1, off2 \in 0 .. s - 1 :
               h = [k \in 0 .. n - 1 |-> At3(block2, off2, k)]
    BY <1>8
  <2>3. At3(block, off, i) = At3(block2, off2, j)
    BY <1>4, <1>10, <2>1, <2>2
  <2>4. /\ At3(block, off, i) % s = off /\ (At3(block, off, i) \div s) % n = i
        /\ (At3(block, off, i) \div s) \div n = block
    <3>1. i \in 0 .. n - 1
      BY <1>4
    <3>. QED BY <1>6, <3>1
  <2>5. /\ At3(block2, off2, j) % s = off2 /\ (At3(block2, off2, j) \div s) % n = j
        /\ (At3(block2, off2, j) \div s) \div n = block2
    <3>1. j \in 0 .. n - 1
      BY <1>4
    <3>. QED BY <1>6, <3>1
  <2>6. off = off2 /\ i = j /\ block = block2
    BY <2>3, <2>4, <2>5, Zenon
  <2>. QED BY <2>1, <2>2, <2>6, Zenon
<1>11. ASSUME NEW d \in Devices(net)
       PROVE  Rank(d) \in Ranks /\ \E g \in Groups : g[Rank(d)] = d
  <2>1. PICK x \in Nat : x = d /\ x < (b * n) * s
    <3>1. (b * n) * s \in Nat
      OBVIOUS
    <3>. QED BY <1>4, <3>1
  <2>2. b * n \in Nat \ {0}
    BY <1>4
  <2>3. /\ x \div s \in 0 .. b * n - 1 /\ x % s \in 0 .. s - 1
        /\ x = (x \div s) * s + (x % s)
    BY <2>1, <2>2, Split2
  <2>4. PICK y \in Nat, off \in 0 .. s - 1 : y = x \div s /\ off = x % s /\ y < b * n /\ x = y * s + off
    BY <2>2, <2>3
  <2>5. /\ y \div n \in 0 .. b - 1 /\ y % n \in 0 .. n - 1
        /\ y = (y \div n) * n + (y % n)
    BY <1>4, <2>4, Split2
  <2>6. PICK block \in 0 .. b - 1, k \in 0 .. n - 1 : block = y \div n /\ k = y % n /\ y = block * n + k
    BY <2>5
  <2>7. Rank(d) = k /\ k \in Ranks
    BY <1>4, <1>5, <2>1, <2>4, <2>6
  <2>8. At3(block, off, k) = d
    BY <2>1, <2>4, <2>6 DEF At3
  <2>9. d = block * n * s + off + k * s
    BY <1>6, <2>8
  <2> DEFINE g == [c \in 0 .. n - 1 |-> block * n * s + off + c * s]
  <2>10. g \in Groups
    <3> DEFINE G(off_, block_) == [c \in 0 .. n - 1 |-> block_ * n * s + off_ + c * s]
    <3>1. Groups = {G(off_, block_) : off_ \in 0 .. s - 1, block_ \in 0 .. b - 1}
      BY <1>7
    <3>2. g = G(off, block)
      OBVIOUS
    <3> HIDE DEF G, g
    <3>. QED BY <3>1, <3>2
  <2>11. g[k] = d
    BY <2>9
  <2> HIDE DEF g
  <2>. QED BY <2>7, <2>10, <2>11
<1>. QED BY <1>9, <1>10, <1>11

(* A traffic matrix filled with messages of one size: a cell for each pair.*)
LEMMA PlusFold ==
  ASSUME NEW A, IsFiniteSet(A), NEW b \in Int,
         \A x \in A : x.bytes = b,
         \A x, y \in A : x.src = y.src /\ x.dst = y.dst => x = y
  PROVE  FoldSet(LAMBDA x, m : Plus(m, <<x.src, x.dst>>, x.bytes), Empty, A)
           = [p \in {<<x.src, x.dst>> : x \in A} |-> b]
<1> DEFINE Least(t) == CHOOSE x \in t : TRUE
           Put(x, m) == Plus(m, <<x.src, x.dst>>, x.bytes)
           Fold(t, g) == IF t = {} THEN Empty ELSE Put(Least(t), g[t \ {Least(t)}])
           iter == CHOOSE g : g = [t \in SUBSET A |-> Fold(t, g)]
           Pairs(t) == {<<x.src, x.dst>> : x \in t}
           h == [t \in SUBSET A |-> [p \in Pairs(t) |-> b]]
<1>1. FoldSet(LAMBDA x, m : Plus(m, <<x.src, x.dst>>, x.bytes), Empty, A) = iter[A]
  BY DEF FoldSet, MapThenFoldSet
<1>2. \A t \in SUBSET A : h[t] = Fold(t, h)
  <2> SUFFICES ASSUME NEW t \in SUBSET A PROVE h[t] = Fold(t, h)
    OBVIOUS
  <2>1. CASE t = {}
    <3>1. Pairs({}) = {}
      OBVIOUS
    <3> HIDE DEF Pairs
    <3>. QED BY <2>1, <3>1 DEF Empty
  <2>2. CASE t # {}
    <3>1. PICK x \in t : x = Least(t)
      BY <2>2
    <3>2. h[t \ {x}] = [p \in Pairs(t \ {x}) |-> b]
      OBVIOUS
    <3>3. <<x.src, x.dst>> \notin Pairs(t \ {x}) /\ x.bytes = b
          /\ Pairs(t) = Pairs(t \ {x}) \cup {<<x.src, x.dst>>}
      OBVIOUS
    <3>4. Put(x, h[t \ {x}]) = [p \in Pairs(t) |-> b]
      <4> DEFINE k == <<x.src, x.dst>>
                 Q == Pairs(t \ {x})
      <4>1. k \notin Q /\ Pairs(t) = Q \cup {k}
        BY <3>3
      <4>2. Put(x, h[t \ {x}]) = Plus([p \in Q |-> b], k, b)
        BY <3>2, <3>3
      <4> HIDE DEF k, Q, Pairs, Put, h
      <4>3. Plus([p \in Q |-> b], k, b) = [p \in Q \cup {k} |-> b]
        <5>1. DOMAIN [p \in Q |-> b] = Q /\ \A p \in Q : [q \in Q |-> b][p] = b
          OBVIOUS
        <5>2. Bytes([p \in Q |-> b], k) + b = b
          BY <4>1, <5>1 DEF Bytes
        <5>. QED BY <4>1, <5>1, <5>2 DEF Plus
      <4>. QED BY <4>1, <4>2, <4>3
    <3>5. Fold(t, h) = Put(x, h[t \ {x}])
      BY <2>2, <3>1
    <3>. QED BY <3>4, <3>5
  <2>. QED BY <2>1, <2>2
<1>3. h = [t \in SUBSET A |-> Fold(t, h)]
  <2>1. h = [t \in SUBSET A |-> h[t]]
    OBVIOUS
  <2> HIDE DEF Fold, h
  <2>. QED BY <1>2, <2>1
<1> HIDE DEF h
<1>4. iter = [t \in SUBSET A |-> Fold(t, iter)]
  <2> HIDE DEF Fold
  <2>. QED BY <1>3
<1>5. \A t \in SUBSET A : iter[t] = Fold(t, iter)
  <2> HIDE DEF Fold, iter
  <2>. QED BY <1>4
<1> DEFINE Good == {n \in Nat : \A t \in SUBSET A : Cardinality(t) = n => iter[t] = h[t]}
<1> HIDE DEF iter, Put
<1>6. 0 \in Good
  <2> SUFFICES ASSUME NEW t \in SUBSET A, Cardinality(t) = 0 PROVE iter[t] = h[t]
    OBVIOUS
  <2>1. t = {}
    BY FS_Subset, FS_EmptySet
  <2>. QED BY <1>2, <1>5, <2>1
<1>7. ASSUME NEW n \in Nat, n \in Good PROVE n + 1 \in Good
  <2> SUFFICES ASSUME NEW t \in SUBSET A, Cardinality(t) = n + 1
               PROVE  iter[t] = h[t]
    OBVIOUS
  <2>1. t # {} /\ IsFiniteSet(t)
    BY FS_Subset, FS_EmptySet
  <2>2. Least(t) \in t
    BY <2>1
  <2> HIDE DEF Least
  <2>3. Cardinality(t \ {Least(t)}) = n /\ t \ {Least(t)} \in SUBSET A
    <3>1. PICK x \in t : x = Least(t)
      BY <2>2
    <3>2. Cardinality(t \ {x}) = Cardinality(t) - 1
      BY <2>1, FS_RemoveElement
    <3>. QED BY <3>1, <3>2
  <2>4. iter[t \ {Least(t)}] = h[t \ {Least(t)}]
    BY <1>7, <2>3
  <2>5. iter[t] = Fold(t, iter) /\ h[t] = Fold(t, h)
    BY <1>2, <1>5
  <2>. QED BY <2>1, <2>4, <2>5
<1> HIDE DEF Good
<1>8. Cardinality(A) \in Good
  BY <1>6, <1>7, NatSetInduction, FS_CardinalityType
<1>. QED BY <1>1, <1>8 DEF Good, h

(* The powers of two up to the largest group.                              *)
LEMMA Powers == 2^0 = 1 /\ 2^1 = 2 /\ 2^2 = 4 /\ 2^3 = 8
OBVIOUS

(* Rounds is the logarithm of the group size.                              *)
LEMMA RoundsIs ==
  ASSUME CallOk
  PROVE  /\ \/ Group = 2 /\ Rounds = 1
            \/ Group = 4 /\ Rounds = 2
            \/ Group = 8 /\ Rounds = 3
         /\ Rounds \in {1, 2, 3} /\ 2^Rounds = Group
<1> DEFINE P(n) == 2^n
<1>1. /\ P(0) = 1 /\ P(1) = 2 /\ P(2) = 4 /\ P(3) = 8 /\ P(4) = 16 /\ P(5) = 32 /\ P(6) = 64
      /\ P(7) = 128 /\ P(8) = 256
  OBVIOUS
<1>5. Rounds = CHOOSE n \in 0 .. Group : P(n) = Group
  BY DEF Rounds
<1>6. 2^Rounds = P(Rounds)
  OBVIOUS
<1> HIDE DEF P
<1>2. CASE Group = 2
  <2>1. \A n \in 0 .. 2 : P(n) = 2 <=> n = 1
    <3>1. \A n \in 0 .. 2 : n = 0 \/ n = 1 \/ n = 2
      OBVIOUS
    <3>. QED BY <1>1, <3>1
  <2>2. Rounds = 1
    BY <1>2, <1>5, <2>1
  <2>. QED BY <1>1, <1>2, <1>6, <2>2
<1>3. CASE Group = 4
  <2>1. \A n \in 0 .. 4 : P(n) = 4 <=> n = 2
    <3>1. \A n \in 0 .. 4 : n = 0 \/ n = 1 \/ n = 2 \/ n = 3 \/ n = 4
      OBVIOUS
    <3>. QED BY <1>1, <3>1
  <2>2. Rounds = 2
    BY <1>3, <1>5, <2>1
  <2>. QED BY <1>1, <1>3, <1>6, <2>2
<1>4. CASE Group = 8
  <2>1. \A n \in 0 .. 8 : P(n) = 8 <=> n = 3
    <3>1. \A n \in 0 .. 8 : n = 0 \/ n = 1 \/ n = 2 \/ n = 3 \/ n = 4 \/ n = 5 \/ n = 6 \/ n = 7 \/ n = 8
      OBVIOUS
    <3>. QED BY <1>1, <3>1
  <2>2. Rounds = 3
    BY <1>4, <1>5, <2>1
  <2>. QED BY <1>1, <1>4, <1>6, <2>2
<1>. QED BY <1>2, <1>3, <1>4, CallFacts

(* A partner is the rank that differs in one bit.                          *)
LEMMA PartnerIs ==
  ASSUME CallOk, NEW i \in Ranks, NEW s \in 0 .. Rounds - 1
  PROVE  /\ Partner(i, s) \in Ranks /\ Partner(i, s) # i
         /\ Partner(Partner(i, s), s) = i
<1>1. PICK n \in {2, 4, 8} : n = Group /\ Ranks = 0 .. n - 1 /\ i \in 0 .. n - 1
  BY CallFacts DEF Ranks
<1>2. s = 0 \/ (s = 1 /\ n \in {4, 8}) \/ (s = 2 /\ n = 8)
  BY <1>1, RoundsIs
<1>3. CASE s = 0
  <2>1. \A j : Partner(j, s) = IF (j \div 1) % 2 = 0 THEN j + 1 ELSE j - 1
    BY <1>3, Powers DEF Partner
  <2>. QED BY <1>1, <2>1
<1>4. CASE s = 1 /\ n \in {4, 8}
  <2>1. \A j : Partner(j, s) = IF (j \div 2) % 2 = 0 THEN j + 2 ELSE j - 2
    BY <1>4, Powers DEF Partner
  <2>. QED BY <1>1, <1>4, <2>1
<1>5. CASE s = 2 /\ n = 8
  <2>1. \A j : Partner(j, s) = IF (j \div 4) % 2 = 0 THEN j + 4 ELSE j - 4
    BY <1>5, Powers DEF Partner
  <2>. QED BY <1>1, <1>5, <2>1
<1>. QED BY <1>2, <1>3, <1>4, <1>5

(* The levels of a tree: every parent lies half way between two children.  *)
Parents(v) == [j \in 1 .. Len(v) \div 2 |-> (v[2 * j - 1] + v[2 * j]) \div 2]
Leaves(first) == [j \in 1 .. Group \div 2 |-> first + 2 * (j - 1)]

TreeRule(nodes, first) ==
  nodes = [l \in Nat |-> IF l = 0 THEN Leaves(first) ELSE Parents(nodes[l - 1])]

(* The parents of a level of a tree, one per two children and half way     *)
(* between them.                                                           *)
LEMMA ParentsAre ==
  ASSUME NEW f \in Nat
  PROVE  /\ Parents(<<>>) = <<>> /\ Parents(<<f>>) = <<>>
         /\ Parents(<<f, f + 2>>) = <<f + 1>>
         /\ Parents(<<f, f + 4>>) = <<f + 2>>
         /\ Parents(<<f, f + 2, f + 4, f + 6>>) = <<f + 1, f + 5>>
<1>1. \A T : [j \in 1 .. 0 |-> T] = <<>>
  OBVIOUS
<1>2. Parents(<<>>) = <<>> /\ Parents(<<f>>) = <<>>
  <2>1. Len(<<>>) \div 2 = 0 /\ Len(<<f>>) \div 2 = 0
    OBVIOUS
  <2>2. \A v : Len(v) \div 2 = 0 => Parents(v) = <<>>
    BY DEF Parents
  <2>. QED BY <2>1, <2>2, Zenon
<1>3. ASSUME NEW g \in {f + 2, f + 4} PROVE Parents(<<f, g>>) = <<(f + g) \div 2>>
  <2> DEFINE v == <<f, g>>
  <2>1. Len(v) \div 2 = 1 /\ v[1] = f /\ v[2] = g
    OBVIOUS
  <2> HIDE DEF v
  <2>2. Parents(v) = [j \in 1 .. 1 |-> (v[2 * j - 1] + v[2 * j]) \div 2]
    BY <2>1 DEF Parents
  <2>3. \A j \in 1 .. 1 : (v[2 * j - 1] + v[2 * j]) \div 2 = (f + g) \div 2
    BY <2>1
  <2>4. Parents(v) = [j \in 1 .. 1 |-> (f + g) \div 2]
    BY <2>2, <2>3
  <2>5. PICK m : m = (f + g) \div 2
    OBVIOUS
  <2>6. [j \in 1 .. 1 |-> m] = <<m>>
    OBVIOUS
  <2>. QED BY <2>4, <2>5, <2>6 DEF v
<1>4. (f + (f + 2)) \div 2 = f + 1 /\ (f + (f + 4)) \div 2 = f + 2
  OBVIOUS
<1>5. Parents(<<f, f + 2, f + 4, f + 6>>) = <<f + 1, f + 5>>
  <2> DEFINE v == <<f, f + 2, f + 4, f + 6>>
  <2>1. Len(v) \div 2 = 2 /\ v[1] = f /\ v[2] = f + 2 /\ v[3] = f + 4 /\ v[4] = f + 6
    OBVIOUS
  <2> HIDE DEF v
  <2>2. Parents(v) = [j \in 1 .. 2 |-> (v[2 * j - 1] + v[2 * j]) \div 2]
    BY <2>1 DEF Parents
  <2>3. \A j \in 1 .. 2 : (v[2 * j - 1] + v[2 * j]) \div 2 = IF j = 1 THEN f + 1 ELSE f + 5
    <3>1. (f + (f + 2)) \div 2 = f + 1 /\ ((f + 4) + (f + 6)) \div 2 = f + 5
      OBVIOUS
    <3>2. \A j \in 1 .. 2 : (j = 1 /\ 2 * j - 1 = 1 /\ 2 * j = 2) \/ (j = 2 /\ 2 * j - 1 = 3 /\ 2 * j = 4)
      OBVIOUS
    <3>. QED BY <2>1, <3>1, <3>2
  <2>4. Parents(v) = [j \in 1 .. 2 |-> IF j = 1 THEN f + 1 ELSE f + 5]
    BY <2>2, <2>3
  <2>. QED BY <2>4 DEF v
<1>. QED BY <1>2, <1>3, <1>4, <1>5

(* The leaves of a tree are every second rank.                             *)
LEMMA LeavesAre ==
  ASSUME NEW f \in Nat
  PROVE  /\ Group = 2 => Leaves(f) = <<f>>
         /\ Group = 4 => Leaves(f) = <<f, f + 2>>
         /\ Group = 8 => Leaves(f) = <<f, f + 2, f + 4, f + 6>>
<1>1. CASE Group = 2
  <2>1. Leaves(f) = [j \in 1 .. 1 |-> f + 2 * (j - 1)]
    BY <1>1 DEF Leaves
  <2>2. [j \in 1 .. 1 |-> f + 2 * (j - 1)] = <<f>>
    OBVIOUS
  <2>. QED BY <1>1, <2>1, <2>2
<1>2. CASE Group = 4
  <2>1. Leaves(f) = [j \in 1 .. 2 |-> f + 2 * (j - 1)]
    BY <1>2 DEF Leaves
  <2>2. [j \in 1 .. 2 |-> f + 2 * (j - 1)] = <<f, f + 2>>
    OBVIOUS
  <2>. QED BY <1>2, <2>1, <2>2
<1>3. CASE Group = 8
  <2>1. Leaves(f) = [j \in 1 .. 4 |-> f + 2 * (j - 1)]
    BY <1>3 DEF Leaves
  <2>2. [j \in 1 .. 4 |-> f + 2 * (j - 1)] = <<f, f + 2, f + 4, f + 6>>
    OBVIOUS
  <2>. QED BY <1>3, <2>1, <2>2
<1>. QED BY <1>1, <1>2, <1>3

(* The levels of a tree satisfy the recursion that defines them.           *)
LEMMA TreeExists ==
  ASSUME CallOk, NEW f \in {0, 1}
  PROVE  \E nodes : TreeRule(nodes, f)
<1>0. f \in Nat /\ f + 1 \in Nat
  OBVIOUS
<1>1. ASSUME NEW W, W = [l \in Nat |-> W[l]], W[0] = Leaves(f),
             \A l \in Nat : l # 0 => W[l] = Parents(W[l - 1])
      PROVE  \E nodes : TreeRule(nodes, f)
  <2>1. \A l \in Nat : W[l] = IF l = 0 THEN Leaves(f) ELSE Parents(W[l - 1])
    BY <1>1
  <2>2. TreeRule(W, f)
    BY <1>1, <2>1 DEF TreeRule
  <2>. QED BY <2>2
<1>2. CASE Group = 2
  <2> DEFINE W == [l \in Nat |-> IF l = 0 THEN <<f>> ELSE <<>>]
  <2>1. W[0] = Leaves(f) /\ W = [l \in Nat |-> W[l]]
    BY <1>0, <1>2, LeavesAre
  <2>2. ASSUME NEW l \in Nat, l # 0 PROVE W[l] = Parents(W[l - 1])
    <3>1. W[l] = <<>> /\ (W[l - 1] = <<>> \/ W[l - 1] = <<f>>)
      BY <2>2
    <3> HIDE DEF W
    <3>. QED BY <1>0, <3>1, ParentsAre
  <2> HIDE DEF W
  <2>. QED BY <1>1, <2>1, <2>2
<1>3. CASE Group = 4
  <2> DEFINE W == [l \in Nat |-> IF l = 0 THEN <<f, f + 2>> ELSE IF l = 1 THEN <<f + 1>> ELSE <<>>]
  <2>1. W[0] = Leaves(f) /\ W = [l \in Nat |-> W[l]]
    BY <1>0, <1>3, LeavesAre
  <2>2. ASSUME NEW l \in Nat, l # 0 PROVE W[l] = Parents(W[l - 1])
    <3>1. \/ W[l] = <<f + 1>> /\ W[l - 1] = <<f, f + 2>>
          \/ W[l] = <<>> /\ (W[l - 1] = <<>> \/ W[l - 1] = <<f + 1>>)
      BY <2>2
    <3> HIDE DEF W
    <3>2. Parents(<<f + 1>>) = <<>>
      BY <1>0, ParentsAre
    <3>. QED BY <1>0, <3>1, <3>2, ParentsAre
  <2> HIDE DEF W
  <2>. QED BY <1>1, <2>1, <2>2
<1>4. CASE Group = 8
  <2> DEFINE W == [l \in Nat |-> IF l = 0 THEN <<f, f + 2, f + 4, f + 6>>
                                ELSE IF l = 1 THEN <<f + 1, f + 5>>
                                ELSE IF l = 2 THEN <<f + 3>> ELSE <<>>]
  <2>1. W[0] = Leaves(f) /\ W = [l \in Nat |-> W[l]]
    BY <1>0, <1>4, LeavesAre
  <2>2. ASSUME NEW l \in Nat, l # 0 PROVE W[l] = Parents(W[l - 1])
    <3>1. \/ W[l] = <<f + 1, f + 5>> /\ W[l - 1] = <<f, f + 2, f + 4, f + 6>>
          \/ W[l] = <<f + 3>> /\ W[l - 1] = <<f + 1, f + 5>>
          \/ W[l] = <<>> /\ (W[l - 1] = <<>> \/ W[l - 1] = <<f + 3>>)
      <4>1. l = 1 \/ l = 2 \/ l = 3 \/ l > 3
        BY <2>2
      <4>. QED BY <4>1
    <3> HIDE DEF W
    <3>2. Parents(<<f + 3>>) = <<>> /\ Parents(<<f + 1, f + 5>>) = <<f + 3>>
      <4>1. PICK g \in Nat : g = f + 1 /\ g + 4 = f + 5 /\ g + 2 = f + 3
        BY <1>0
      <4>2. PICK e \in Nat : e = f + 3
        BY <1>0
      <4>3. Parents(<<e>>) = <<>> /\ Parents(<<g, g + 4>>) = <<g + 2>>
        BY ParentsAre
      <4>. QED BY <4>1, <4>2, <4>3, Zenon
    <3>. QED BY <1>0, <3>1, <3>2, ParentsAre
  <2> HIDE DEF W
  <2>. QED BY <1>1, <2>1, <2>2
<1>. QED BY <1>2, <1>3, <1>4, CallFacts

(* The levels of the trees of a group.                                     *)
LEMMA TreeNodesAre ==
  ASSUME CallOk, NEW f \in {0, 1}
  PROVE  /\ Group = 2 => TreeNodes(f)[0] = <<f>>
         /\ Group = 4 => TreeNodes(f)[0] = <<f, f + 2>> /\ TreeNodes(f)[1] = <<f + 1>>
         /\ Group = 8 => /\ TreeNodes(f)[0] = <<f, f + 2, f + 4, f + 6>>
                         /\ TreeNodes(f)[1] = <<f + 1, f + 5>>
                         /\ TreeNodes(f)[2] = <<f + 3>>
<1>0. f \in Nat
  OBVIOUS
<1>1. TreeRule(TreeNodes(f), f)
  <2>1. TreeNodes(f) = CHOOSE nodes : TreeRule(nodes, f)
    BY DEF TreeNodes, TreeRule, Parents, Leaves
  <2>. QED BY <2>1, TreeExists
<1>2. /\ TreeNodes(f)[0] = Leaves(f)
      /\ TreeNodes(f)[1] = Parents(TreeNodes(f)[0])
      /\ TreeNodes(f)[2] = Parents(TreeNodes(f)[1])
  <2>1. PICK n : n = TreeNodes(f)
    OBVIOUS
  <2>2. n = [l \in Nat |-> IF l = 0 THEN Leaves(f) ELSE Parents(n[l - 1])]
    BY <1>1, <2>1 DEF TreeRule
  <2>3. n[0] = Leaves(f) /\ n[1] = Parents(n[0]) /\ n[2] = Parents(n[1])
    BY <2>2
  <2>. QED BY <2>1, <2>3
<1>3. Parents(<<f + 1, f + 5>>) = <<f + 3>>
  <2>1. PICK g \in Nat : g = f + 1 /\ g + 4 = f + 5 /\ g + 2 = f + 3
    BY <1>0
  <2>2. Parents(<<g, g + 4>>) = <<g + 2>>
    BY ParentsAre
  <2>. QED BY <2>1, <2>2, Zenon
<1>4. CASE Group = 2
  <2>1. TreeNodes(f)[0] = <<f>>
    BY <1>0, <1>2, <1>4, LeavesAre
  <2>. QED BY <1>4, <2>1
<1>5. CASE Group = 4
  <2>1. TreeNodes(f)[0] = <<f, f + 2>>
    BY <1>0, <1>2, <1>5, LeavesAre
  <2>2. TreeNodes(f)[1] = <<f + 1>>
    BY <1>0, <1>2, <2>1, ParentsAre
  <2>. QED BY <1>5, <2>1, <2>2
<1>6. CASE Group = 8
  <2>1. TreeNodes(f)[0] = <<f, f + 2, f + 4, f + 6>>
    BY <1>0, <1>2, <1>6, LeavesAre
  <2>2. TreeNodes(f)[1] = <<f + 1, f + 5>>
    BY <1>0, <1>2, <2>1, ParentsAre
  <2>3. TreeNodes(f)[2] = <<f + 3>>
    BY <1>2, <1>3, <2>2
  <2>. QED BY <1>6, <2>1, <2>2, <2>3
<1>7. Group = 2 \/ Group = 4 \/ Group = 8
  BY CallFacts
<1>. QED BY <1>4, <1>5, <1>6, <1>7, Zenon

(* The edges from a level of one, two or four nodes to the one above.      *)
EdgesUp(level, above, root) ==
  IF Len(level) = 1 THEN {<<level[1], root>>}
  ELSE {<<level[j], above[(j + 1) \div 2]>> : j \in DOMAIN level}

(* The edges from one level of a tree to the next.                         *)
LEMMA LevelEdges ==
  /\ \A first, root, l :
       TreeLevel(first, root, l) = EdgesUp(TreeNodes(first)[l], TreeNodes(first)[l + 1], root)
  /\ \A a, above, root : EdgesUp(<<a>>, above, root) = {<<a, root>>}
  /\ \A a, b, p, root : EdgesUp(<<a, b>>, <<p>>, root) = {<<a, p>>, <<b, p>>}
  /\ \A a, b, c, d, p, q, root :
       EdgesUp(<<a, b, c, d>>, <<p, q>>, root) = {<<a, p>>, <<b, p>>, <<c, q>>, <<d, q>>}
<1>1. \A first, root, l :
        TreeLevel(first, root, l) = EdgesUp(TreeNodes(first)[l], TreeNodes(first)[l + 1], root)
  BY DEF TreeLevel, EdgesUp
<1>2. ASSUME NEW a, NEW above, NEW root PROVE EdgesUp(<<a>>, above, root) = {<<a, root>>}
  BY DEF EdgesUp
<1>3. ASSUME NEW a, NEW b, NEW p, NEW root
      PROVE  EdgesUp(<<a, b>>, <<p>>, root) = {<<a, p>>, <<b, p>>}
  <2> DEFINE level == <<a, b>>
             above == <<p>>
  <2>1. Len(level) # 1 /\ DOMAIN level = {1, 2} /\ level[1] = a /\ level[2] = b /\ above[1] = p
    OBVIOUS
  <2>2. (1 + 1) \div 2 = 1 /\ (2 + 1) \div 2 = 1
    OBVIOUS
  <2> HIDE DEF level, above
  <2>3. {<<level[j], above[(j + 1) \div 2]>> : j \in {1, 2}}
          = {<<level[1], above[(1 + 1) \div 2]>>, <<level[2], above[(2 + 1) \div 2]>>}
    OBVIOUS
  <2>4. EdgesUp(level, above, root) = {<<a, p>>, <<b, p>>}
    BY <2>1, <2>2, <2>3 DEF EdgesUp
  <2>. QED BY <2>4 DEF level, above
<1>4. ASSUME NEW a, NEW b, NEW c, NEW d, NEW p, NEW q, NEW root
      PROVE  EdgesUp(<<a, b, c, d>>, <<p, q>>, root) = {<<a, p>>, <<b, p>>, <<c, q>>, <<d, q>>}
  <2> DEFINE level == <<a, b, c, d>>
             above == <<p, q>>
  <2>1. /\ Len(level) # 1 /\ DOMAIN level = {1, 2, 3, 4} /\ level[1] = a /\ level[2] = b
        /\ level[3] = c /\ level[4] = d /\ above[1] = p /\ above[2] = q
    <3>1. 1 .. 4 = {1, 2, 3, 4}
      OBVIOUS
    <3>. QED BY <3>1
  <2>2. (1 + 1) \div 2 = 1 /\ (2 + 1) \div 2 = 1 /\ (3 + 1) \div 2 = 2 /\ (4 + 1) \div 2 = 2
    OBVIOUS
  <2> HIDE DEF level, above
  <2>3. {<<level[j], above[(j + 1) \div 2]>> : j \in {1, 2, 3, 4}}
          = {<<level[1], above[(1 + 1) \div 2]>>, <<level[2], above[(2 + 1) \div 2]>>,
             <<level[3], above[(3 + 1) \div 2]>>, <<level[4], above[(4 + 1) \div 2]>>}
    OBVIOUS
  <2>4. EdgesUp(level, above, root) = {<<a, p>>, <<b, p>>, <<c, q>>, <<d, q>>}
    BY <2>1, <2>2, <2>3 DEF EdgesUp
  <2>. QED BY <2>4 DEF level, above
<1>. QED BY <1>1, <1>2, <1>3, <1>4

(* The two trees of a group of two, four or eight.                         *)
LEMMA TreesAre ==
  ASSUME CallOk
  PROVE  /\ Group = 2 => /\ RightTree(0) = {<<0, 1>>}
                         /\ LeftTree(0) = {<<1, 0>>}
         /\ Group = 4 => /\ RightTree(0) = {<<0, 1>>, <<2, 1>>}
                         /\ RightTree(1) = {<<1, 3>>}
                         /\ LeftTree(0) = {<<1, 2>>, <<3, 2>>}
                         /\ LeftTree(1) = {<<2, 0>>}
         /\ Group = 8 => /\ RightTree(0) = {<<0, 1>>, <<2, 1>>, <<4, 5>>, <<6, 5>>}
                         /\ RightTree(1) = {<<1, 3>>, <<5, 3>>}
                         /\ RightTree(2) = {<<3, 7>>}
                         /\ LeftTree(0) = {<<1, 2>>, <<3, 2>>, <<5, 6>>, <<7, 6>>}
                         /\ LeftTree(1) = {<<2, 4>>, <<6, 4>>}
                         /\ LeftTree(2) = {<<4, 0>>}
<1>1. 0 + 1 = 1 /\ 0 + 2 = 2 /\ 0 + 3 = 3 /\ 0 + 4 = 4 /\ 0 + 5 = 5 /\ 0 + 6 = 6
      /\ 1 + 1 = 2 /\ 1 + 2 = 3 /\ 1 + 3 = 4 /\ 1 + 4 = 5 /\ 1 + 5 = 6 /\ 1 + 6 = 7
  OBVIOUS
<1>5. \A f, r : /\ TreeLevel(f, r, 0) = EdgesUp(TreeNodes(f)[0], TreeNodes(f)[1], r)
                /\ TreeLevel(f, r, 1) = EdgesUp(TreeNodes(f)[1], TreeNodes(f)[2], r)
                /\ TreeLevel(f, r, 2) = EdgesUp(TreeNodes(f)[2], TreeNodes(f)[3], r)
  <2>1. 0 + 1 = 1 /\ 1 + 1 = 2 /\ 2 + 1 = 3
    OBVIOUS
  <2> SUFFICES ASSUME NEW f, NEW r
               PROVE  /\ TreeLevel(f, r, 0) = EdgesUp(TreeNodes(f)[0], TreeNodes(f)[1], r)
                      /\ TreeLevel(f, r, 1) = EdgesUp(TreeNodes(f)[1], TreeNodes(f)[2], r)
                      /\ TreeLevel(f, r, 2) = EdgesUp(TreeNodes(f)[2], TreeNodes(f)[3], r)
    OBVIOUS
  <2>2. /\ TreeLevel(f, r, 0) = EdgesUp(TreeNodes(f)[0], TreeNodes(f)[0 + 1], r)
        /\ TreeLevel(f, r, 1) = EdgesUp(TreeNodes(f)[1], TreeNodes(f)[1 + 1], r)
        /\ TreeLevel(f, r, 2) = EdgesUp(TreeNodes(f)[2], TreeNodes(f)[2 + 1], r)
    BY LevelEdges, Zenon
  <2>. QED BY <2>1, <2>2
<1>6. \A r : RightTree(r) = TreeLevel(0, Group - 1, r) /\ LeftTree(r) = TreeLevel(1, 0, r)
  BY DEF RightTree, LeftTree
<1>2. CASE Group = 2
  <2>0. Group - 1 = 1
    BY <1>2
  <2>1. TreeNodes(0)[0] = <<0>>
    BY <1>1, <1>2, TreeNodesAre
  <2>2. RightTree(0) = {<<0, 1>>}
    <3>1. EdgesUp(<<0>>, TreeNodes(0)[1], 1) = {<<0, 1>>}
      BY LevelEdges
    <3>. QED BY <1>5, <1>6, <2>0, <2>1, <3>1
  <2>3. TreeNodes(1)[0] = <<1>>
    BY <1>1, <1>2, TreeNodesAre
  <2>4. LeftTree(0) = {<<1, 0>>}
    <3>1. EdgesUp(<<1>>, TreeNodes(1)[1], 0) = {<<1, 0>>}
      BY LevelEdges
    <3>. QED BY <1>5, <1>6, <2>0, <2>3, <3>1
  <2>. QED BY <1>2, <2>2, <2>4
<1>3. CASE Group = 4
  <2>0. Group - 1 = 3
    BY <1>3
  <2>1. TreeNodes(0)[0] = <<0, 2>> /\ TreeNodes(0)[1] = <<1>>
    BY <1>1, <1>3, TreeNodesAre
  <2>2. RightTree(0) = {<<0, 1>>, <<2, 1>>}
    <3>1. EdgesUp(<<0, 2>>, <<1>>, 3) = {<<0, 1>>, <<2, 1>>}
      BY LevelEdges
    <3>. QED BY <1>5, <1>6, <2>0, <2>1, <3>1
  <2>3. RightTree(1) = {<<1, 3>>}
    <3>1. EdgesUp(<<1>>, TreeNodes(0)[2], 3) = {<<1, 3>>}
      BY LevelEdges
    <3>. QED BY <1>5, <1>6, <2>0, <2>1, <3>1
  <2>4. TreeNodes(1)[0] = <<1, 3>> /\ TreeNodes(1)[1] = <<2>>
    BY <1>1, <1>3, TreeNodesAre
  <2>5. LeftTree(0) = {<<1, 2>>, <<3, 2>>}
    <3>1. EdgesUp(<<1, 3>>, <<2>>, 0) = {<<1, 2>>, <<3, 2>>}
      BY LevelEdges
    <3>. QED BY <1>5, <1>6, <2>0, <2>4, <3>1
  <2>6. LeftTree(1) = {<<2, 0>>}
    <3>1. EdgesUp(<<2>>, TreeNodes(1)[2], 0) = {<<2, 0>>}
      BY LevelEdges
    <3>. QED BY <1>5, <1>6, <2>0, <2>4, <3>1
  <2>. QED BY <1>3, <2>2, <2>3, <2>5, <2>6
<1>4. CASE Group = 8
  <2>0. Group - 1 = 7
    BY <1>4
  <2>1. TreeNodes(0)[0] = <<0, 2, 4, 6>> /\ TreeNodes(0)[1] = <<1, 5>> /\ TreeNodes(0)[2] = <<3>>
    BY <1>1, <1>4, TreeNodesAre
  <2>2. RightTree(0) = {<<0, 1>>, <<2, 1>>, <<4, 5>>, <<6, 5>>}
    <3>1. EdgesUp(<<0, 2, 4, 6>>, <<1, 5>>, 7) = {<<0, 1>>, <<2, 1>>, <<4, 5>>, <<6, 5>>}
      BY LevelEdges
    <3>. QED BY <1>5, <1>6, <2>0, <2>1, <3>1
  <2>3. RightTree(1) = {<<1, 3>>, <<5, 3>>}
    <3>1. EdgesUp(<<1, 5>>, <<3>>, 7) = {<<1, 3>>, <<5, 3>>}
      BY LevelEdges
    <3>. QED BY <1>5, <1>6, <2>0, <2>1, <3>1
  <2>4. RightTree(2) = {<<3, 7>>}
    <3>1. EdgesUp(<<3>>, TreeNodes(0)[3], 7) = {<<3, 7>>}
      BY LevelEdges
    <3>. QED BY <1>5, <1>6, <2>0, <2>1, <3>1
  <2>5. TreeNodes(1)[0] = <<1, 3, 5, 7>> /\ TreeNodes(1)[1] = <<2, 6>> /\ TreeNodes(1)[2] = <<4>>
    BY <1>1, <1>4, TreeNodesAre
  <2>6. LeftTree(0) = {<<1, 2>>, <<3, 2>>, <<5, 6>>, <<7, 6>>}
    <3>1. EdgesUp(<<1, 3, 5, 7>>, <<2, 6>>, 0) = {<<1, 2>>, <<3, 2>>, <<5, 6>>, <<7, 6>>}
      BY LevelEdges
    <3>. QED BY <1>5, <1>6, <2>0, <2>5, <3>1
  <2>7. LeftTree(1) = {<<2, 4>>, <<6, 4>>}
    <3>1. EdgesUp(<<2, 6>>, <<4>>, 0) = {<<2, 4>>, <<6, 4>>}
      BY LevelEdges
    <3>. QED BY <1>5, <1>6, <2>0, <2>5, <3>1
  <2>8. LeftTree(2) = {<<4, 0>>}
    <3>1. EdgesUp(<<4>>, TreeNodes(1)[3], 0) = {<<4, 0>>}
      BY LevelEdges
    <3>. QED BY <1>5, <1>6, <2>0, <2>5, <3>1
  <2>. QED BY <1>4, <2>2, <2>3, <2>4, <2>6, <2>7, <2>8
<1>7. Group = 2 \/ Group = 4 \/ Group = 8
  BY CallFacts
<1>. QED BY <1>2, <1>3, <1>4, <1>7, Zenon

Algos == {"recursive_doubling", "ring", "rabenseifner", "double_tree", "all_to_all",
          "reduce_scatter", "partial_broadcast"}

(* How many stages an algorithm routes; which ranks exchange a message in  *)
(* each, and of how many bytes.                                            *)
StageCount(algo) ==
  IF algo \in {"ring", "all_to_all"} THEN 1
  ELSE IF algo = "double_tree" THEN 2 * Rounds ELSE Rounds

TreeEdges(l) == RightTree(l) \cup LeftTree(l)

StageEdges(algo, s) ==
  CASE algo = "ring" -> {<<i, (i + 1) % Group>> : i \in Ranks}
    [] algo = "double_tree" ->
         IF s <= Rounds THEN TreeEdges(s - 1)
         ELSE {<<e[2], e[1]>> : e \in TreeEdges(2 * Rounds - s)}
    [] algo = "all_to_all" -> {q \in Ranks \X Ranks : q[1] # q[2]}
    [] OTHER -> {<<i, Partner(i, s - 1)>> : i \in Ranks}

StageBytes(algo, s) ==
  CASE algo \in {"recursive_doubling", "all_to_all"} -> call.bytes
    [] algo = "ring" -> call.bytes \div Group
    [] algo = "double_tree" -> call.bytes \div 2
    [] OTHER -> call.bytes \div 2^s

(* The messages of every edge have the bytes of the stage.                 *)
Messages(bytes, edges) == {<<bytes, e[1], e[2]>> : e \in edges}

(* A set of triples with one size is the messages of its edges.            *)
LEMMA MessagesAre ==
  ASSUME NEW b, NEW E, NEW M,
         \A e \in E : \E i, j : e = <<i, j>>,
         \A i, j : <<i, j>> \in E => <<b, i, j>> \in M,
         \A x \in M : \E i, j : x = <<b, i, j>> /\ <<i, j>> \in E
  PROVE  M = Messages(b, E)
<1>1. ASSUME NEW x \in M PROVE x \in Messages(b, E)
  <2>1. PICK i, j : x = <<b, i, j>> /\ <<i, j>> \in E
    OBVIOUS
  <2>2. PICK e \in E : e = <<i, j>>
    BY <2>1
  <2>3. x = <<b, e[1], e[2]>>
    BY <2>1, <2>2
  <2>. QED BY <2>3 DEF Messages
<1>2. ASSUME NEW x \in Messages(b, E) PROVE x \in M
  <2>1. PICK e \in E : x = <<b, e[1], e[2]>>
    BY DEF Messages
  <2>2. PICK i, j : e = <<i, j>>
    OBVIOUS
  <2>3. x = <<b, i, j>> /\ <<i, j>> \in E
    BY <2>1, <2>2
  <2>. QED BY <2>3
<1>. QED BY <1>1, <1>2

(* Edges turned around.                                                    *)
LEMMA MessagesBack ==
  ASSUME NEW b, NEW E, \A e \in E : \E i, j : e = <<i, j>>
  PROVE  {<<t[1], t[3], t[2]>> : t \in Messages(b, E)} = Messages(b, {<<e[2], e[1]>> : e \in E})
<1> DEFINE M == {<<t[1], t[3], t[2]>> : t \in Messages(b, E)}
           F == {<<e[2], e[1]>> : e \in E}
<1>1. \A e \in F : \E i, j : e = <<i, j>>
  OBVIOUS
<1>2. ASSUME NEW i, NEW j, <<i, j>> \in F PROVE <<b, i, j>> \in M
  <2>1. PICK e \in E : <<i, j>> = <<e[2], e[1]>>
    BY <1>2
  <2>2. e[2] = i /\ e[1] = j
    BY <2>1
  <2>3. <<b, j, i>> \in Messages(b, E)
    BY <2>2 DEF Messages
  <2>4. \A t \in Messages(b, E) : <<t[1], t[3], t[2]>> \in M
    OBVIOUS
  <2>5. <<b, j, i>>[1] = b /\ <<b, j, i>>[2] = j /\ <<b, j, i>>[3] = i
    OBVIOUS
  <2> HIDE DEF M
  <2>. QED BY <2>3, <2>4, <2>5
<1>3. ASSUME NEW x \in M PROVE \E i, j : x = <<b, i, j>> /\ <<i, j>> \in F
  <2>1. PICK t \in Messages(b, E) : x = <<t[1], t[3], t[2]>>
    OBVIOUS
  <2>2. PICK e \in E : t = <<b, e[1], e[2]>>
    BY DEF Messages
  <2>3. x = <<b, e[2], e[1]>> /\ <<e[2], e[1]>> \in F
    BY <2>1, <2>2
  <2>. QED BY <2>3
<1> HIDE DEF M, F
<1>4. M = Messages(b, F)
  BY <1>1, <1>2, <1>3, MessagesAre
<1>. QED BY <1>4 DEF M, F

(* A level of the two trees connects distinct ranks, and no edge belongs   *)
(* to both.                                                                *)
LEMMA TreePairs ==
  ASSUME CallOk, NEW l \in 0 .. Rounds - 1
  PROVE  /\ TreeEdges(l) \subseteq Ranks \X Ranks /\ TreeEdges(l) # {}
         /\ \A e \in TreeEdges(l) : e[1] # e[2] /\ \E i, j : e = <<i, j>>
         /\ RightTree(l) \cap LeftTree(l) = {}
<1>1. PICK n \in {2, 4, 8} : n = Group /\ Ranks = 0 .. n - 1
  BY CallFacts DEF Ranks
<1>2. l = 0 \/ (l = 1 /\ n \in {4, 8}) \/ (l = 2 /\ n = 8)
  BY <1>1, RoundsIs
<1>3. \A A, B : RightTree(l) = A /\ LeftTree(l) = B => TreeEdges(l) = A \cup B
  BY DEF TreeEdges
<1> DEFINE Fine(A, B) == /\ A \cap B = {} /\ A # {}
                         /\ \A e \in A \cup B : \E i, j \in 0 .. n - 1 : e = <<i, j>> /\ i # j
<1>4. \E A, B : RightTree(l) = A /\ LeftTree(l) = B /\ Fine(A, B)
  <2>1. CASE n = 2 /\ l = 0
    <3>1. RightTree(l) = {<<0, 1>>}
      BY <1>1, <2>1, TreesAre
    <3>2. LeftTree(l) = {<<1, 0>>}
      BY <1>1, <2>1, TreesAre
    <3>3. Fine({<<0, 1>>}, {<<1, 0>>})
      BY <2>1
    <3> HIDE DEF Fine
    <3>. QED BY <3>1, <3>2, <3>3, Zenon
  <2>2. CASE n = 4 /\ l = 0
    <3>1. RightTree(l) = {<<0, 1>>, <<2, 1>>}
      BY <1>1, <2>2, TreesAre
    <3>2. LeftTree(l) = {<<1, 2>>, <<3, 2>>}
      BY <1>1, <2>2, TreesAre
    <3>3. Fine({<<0, 1>>, <<2, 1>>}, {<<1, 2>>, <<3, 2>>})
      BY <2>2
    <3> HIDE DEF Fine
    <3>. QED BY <3>1, <3>2, <3>3, Zenon
  <2>3. CASE n = 4 /\ l = 1
    <3>1. RightTree(l) = {<<1, 3>>}
      BY <1>1, <2>3, TreesAre
    <3>2. LeftTree(l) = {<<2, 0>>}
      BY <1>1, <2>3, TreesAre
    <3>3. Fine({<<1, 3>>}, {<<2, 0>>})
      BY <2>3
    <3> HIDE DEF Fine
    <3>. QED BY <3>1, <3>2, <3>3, Zenon
  <2>4. CASE n = 8 /\ l = 0
    <3>1. RightTree(l) = {<<0, 1>>, <<2, 1>>, <<4, 5>>, <<6, 5>>}
      BY <1>1, <2>4, TreesAre
    <3>2. LeftTree(l) = {<<1, 2>>, <<3, 2>>, <<5, 6>>, <<7, 6>>}
      BY <1>1, <2>4, TreesAre
    <3>3. Fine({<<0, 1>>, <<2, 1>>, <<4, 5>>, <<6, 5>>}, {<<1, 2>>, <<3, 2>>, <<5, 6>>, <<7, 6>>})
      BY <2>4
    <3> HIDE DEF Fine
    <3>. QED BY <3>1, <3>2, <3>3, Zenon
  <2>5. CASE n = 8 /\ l = 1
    <3>1. RightTree(l) = {<<1, 3>>, <<5, 3>>}
      BY <1>1, <2>5, TreesAre
    <3>2. LeftTree(l) = {<<2, 4>>, <<6, 4>>}
      BY <1>1, <2>5, TreesAre
    <3>3. Fine({<<1, 3>>, <<5, 3>>}, {<<2, 4>>, <<6, 4>>})
      BY <2>5
    <3> HIDE DEF Fine
    <3>. QED BY <3>1, <3>2, <3>3, Zenon
  <2>6. CASE n = 8 /\ l = 2
    <3>1. RightTree(l) = {<<3, 7>>}
      BY <1>1, <2>6, TreesAre
    <3>2. LeftTree(l) = {<<4, 0>>}
      BY <1>1, <2>6, TreesAre
    <3>3. Fine({<<3, 7>>}, {<<4, 0>>})
      BY <2>6
    <3> HIDE DEF Fine
    <3>. QED BY <3>1, <3>2, <3>3, Zenon
  <2>. QED BY <1>2, <2>1, <2>2, <2>3, <2>4, <2>5, <2>6
<1>5. PICK A, B : RightTree(l) = A /\ LeftTree(l) = B /\ Fine(A, B)
  BY <1>4
<1>. QED BY <1>1, <1>3, <1>5

(* Every stage of every algorithm sends one size over a set of edges.      *)
LEMMA StagesAre ==
  ASSUME CallOk, NEW algo \in Algos
  PROVE  /\ Len(Stages(algo)) = StageCount(algo) /\ StageCount(algo) \in Nat \ {0}
         /\ \A s \in 1 .. StageCount(algo) :
              Stages(algo)[s] = Messages(StageBytes(algo, s), StageEdges(algo, s))
<1>1. PICK R \in {1, 2, 3} : R = Rounds
  BY RoundsIs
<1>2. ASSUME NEW s, NEW b
      PROVE  Exchange(s, b) = Messages(b, {<<i, Partner(i, s)>> : i \in Ranks})
  <2> DEFINE E == {<<i, Partner(i, s)>> : i \in Ranks}
  <2>1. \A e \in E : \E i, j : e = <<i, j>>
    OBVIOUS
  <2>2. \A i, j : <<i, j>> \in E => <<b, i, j>> \in Exchange(s, b)
    BY DEF Exchange
  <2>3. \A x \in Exchange(s, b) : \E i, j : x = <<b, i, j>> /\ <<i, j>> \in E
    BY DEF Exchange
  <2> HIDE DEF E
  <2>4. Exchange(s, b) = Messages(b, E)
    BY <2>1, <2>2, <2>3, MessagesAre
  <2>. QED BY <2>4 DEF E
<1>3. CASE algo = "recursive_doubling"
  <2>1. Stages(algo) = [s \in 1 .. R |-> Exchange(s - 1, call.bytes)]
    BY <1>1, <1>3 DEF Stages
  <2>2. StageCount(algo) = R
    BY <1>1, <1>3 DEF StageCount
  <2>3. \A s : StageBytes(algo, s) = call.bytes
               /\ StageEdges(algo, s) = {<<i, Partner(i, s - 1)>> : i \in Ranks}
    BY <1>3 DEF StageBytes, StageEdges
  <2>4. Len(Stages(algo)) = R
    BY <2>1
  <2>5. \A s \in 1 .. R : Stages(algo)[s] = Exchange(s - 1, call.bytes)
    BY <2>1
  <2>6. \A s \in 1 .. R : Stages(algo)[s] = Messages(StageBytes(algo, s), StageEdges(algo, s))
    BY <1>2, <2>3, <2>5
  <2>. QED BY <2>2, <2>4, <2>6
<1>4. CASE algo = "ring"
  <2> DEFINE E == {<<i, (i + 1) % Group>> : i \in Ranks}
             M == {<<call.bytes \div Group, i, (i + 1) % Group>> : i \in Ranks}
  <2>1. Stages(algo) = <<M>>
    BY <1>4 DEF Stages
  <2>2. StageCount(algo) = 1
    BY <1>4 DEF StageCount
  <2>3. \A s : StageBytes(algo, s) = call.bytes \div Group /\ StageEdges(algo, s) = E
    BY <1>4 DEF StageBytes, StageEdges
  <2>4. \A e \in E : \E i, j : e = <<i, j>>
    OBVIOUS
  <2>5. PICK b : b = call.bytes \div Group
    OBVIOUS
  <2>6. M = {<<b, i, (i + 1) % Group>> : i \in Ranks}
    BY <2>5
  <2>7. \A i, j : <<i, j>> \in E => <<b, i, j>> \in M
    BY <2>6
  <2>8. \A x \in M : \E i, j : x = <<b, i, j>> /\ <<i, j>> \in E
    BY <2>6
  <2> HIDE DEF E, M
  <2>9. M = Messages(b, E)
    BY <2>4, <2>7, <2>8, MessagesAre
  <2>10. Stages(algo)[1] = M /\ Len(Stages(algo)) = 1
    BY <2>1
  <2>. QED BY <2>2, <2>3, <2>5, <2>9, <2>10
<1>5. CASE algo = "all_to_all"
  <2> DEFINE E == {q \in Ranks \X Ranks : q[1] # q[2]}
             M == {<<call.bytes, p[1], p[2]>> : p \in E}
  <2>1. Stages(algo) = <<M>>
    BY <1>5 DEF Stages
  <2>2. StageCount(algo) = 1
    BY <1>5 DEF StageCount
  <2>3. \A s : StageBytes(algo, s) = call.bytes /\ StageEdges(algo, s) = E
    BY <1>5 DEF StageBytes, StageEdges
  <2>4. M = Messages(call.bytes, E)
    BY DEF Messages
  <2> HIDE DEF E, M
  <2>5. Stages(algo)[1] = M /\ Len(Stages(algo)) = 1
    BY <2>1
  <2>. QED BY <2>2, <2>3, <2>4, <2>5
<1>6. CASE algo = "double_tree"
  <2> DEFINE U == [l \in 1 .. R |-> TreeUp(l - 1)]
             D == [l \in 1 .. R |-> TreeDown(R - l)]
  <2>1. Stages(algo) = U \o D
    BY <1>1, <1>6 DEF Stages
  <2>2. StageCount(algo) = 2 * R
    BY <1>1, <1>6 DEF StageCount
  <2>3. \A s : /\ StageBytes(algo, s) = call.bytes \div 2
               /\ StageEdges(algo, s) = IF s <= R THEN TreeEdges(s - 1)
                                        ELSE {<<e[2], e[1]>> : e \in TreeEdges(2 * R - s)}
    BY <1>1, <1>6 DEF StageBytes, StageEdges
  <2>4. \A l : TreeUp(l) = Messages(call.bytes \div 2, TreeEdges(l))
    BY DEF TreeUp, Messages, TreeEdges
  <2>5. \A l \in 0 .. R - 1 : TreeDown(l) = Messages(call.bytes \div 2, {<<e[2], e[1]>> : e \in TreeEdges(l)})
    <3> SUFFICES ASSUME NEW l \in 0 .. R - 1
                 PROVE  TreeDown(l) = Messages(call.bytes \div 2, {<<e[2], e[1]>> : e \in TreeEdges(l)})
      OBVIOUS
    <3>1. TreeDown(l) = {<<t[1], t[3], t[2]>> : t \in Messages(call.bytes \div 2, TreeEdges(l))}
      BY <2>4 DEF TreeDown
    <3>2. PICK b, E : b = call.bytes \div 2 /\ E = TreeEdges(l)
      OBVIOUS
    <3>3. \A e \in E : \E i, j : e = <<i, j>>
      BY <1>1, <3>2, TreePairs
    <3>4. {<<t[1], t[3], t[2]>> : t \in Messages(b, E)} = Messages(b, {<<e[2], e[1]>> : e \in E})
      BY <3>3, MessagesBack
    <3>. QED BY <3>1, <3>2, <3>4
  <2>6. /\ Len(U) = R /\ Len(D) = R
        /\ \A s \in 1 .. R : U[s] = TreeUp(s - 1) /\ D[s] = TreeDown(R - s)
    OBVIOUS
  <2> DEFINE T == {U[i] : i \in 1 .. R} \cup {D[i] : i \in 1 .. R}
  <2>9. U \in [1 .. R -> T] /\ D \in [1 .. R -> T]
    OBVIOUS
  <2> HIDE DEF U, D, T
  <2>10. U \in Seq(T) /\ D \in Seq(T)
    BY <2>9
  <2>7. Len(U \o D) = 2 * R /\ \A s \in 1 .. 2 * R : (U \o D)[s] = IF s <= R THEN U[s] ELSE D[s - R]
    <3>1. Len(U \o D) = R + R /\ \A s \in 1 .. R + R : (U \o D)[s] = IF s <= R THEN U[s] ELSE D[s - R]
      BY <2>6, <2>10, ConcatProperties
    <3>. QED BY <3>1
  <2>8. ASSUME NEW s \in 1 .. 2 * R
        PROVE  Stages(algo)[s] = Messages(StageBytes(algo, s), StageEdges(algo, s))
    <3>1. CASE s <= R
      <4>1. Stages(algo)[s] = TreeUp(s - 1)
        BY <2>1, <2>6, <2>7, <3>1
      <4>. QED BY <2>3, <2>4, <3>1, <4>1
    <3>2. CASE ~(s <= R)
      <4>1. s - R \in 1 .. R /\ R - (s - R) = 2 * R - s
        BY <3>2
      <4>2. Stages(algo)[s] = TreeDown(2 * R - s)
        BY <2>1, <2>6, <2>7, <3>2, <4>1
      <4>3. 2 * R - s \in 0 .. R - 1
        BY <3>2
      <4>. QED BY <2>3, <2>5, <3>2, <4>2, <4>3
    <3>. QED BY <3>1, <3>2
  <2>. QED BY <2>1, <2>2, <2>7, <2>8
<1>7. CASE algo \in {"rabenseifner", "reduce_scatter", "partial_broadcast"}
  <2>1. Stages(algo) = [s \in 1 .. R |-> Exchange(s - 1, call.bytes \div 2^s)]
    BY <1>1, <1>7 DEF Stages, Halving
  <2>2. StageCount(algo) = R
    BY <1>1, <1>7 DEF StageCount
  <2>3. \A s : StageBytes(algo, s) = call.bytes \div 2^s
               /\ StageEdges(algo, s) = {<<i, Partner(i, s - 1)>> : i \in Ranks}
    BY <1>7 DEF StageBytes, StageEdges
  <2>4. Len(Stages(algo)) = R
    BY <2>1
  <2>5. \A s \in 1 .. R : Stages(algo)[s] = Exchange(s - 1, call.bytes \div 2^s)
    BY <2>1
  <2>6. \A s \in 1 .. R : Stages(algo)[s] = Messages(StageBytes(algo, s), StageEdges(algo, s))
    BY <1>2, <2>3, <2>5
  <2>. QED BY <2>2, <2>4, <2>6
<1>. QED BY <1>3, <1>4, <1>5, <1>6, <1>7 DEF Algos

(* The edges of a stage are pairs of different ranks, and there are some.  *)
RankEdges(E) == E # {} /\ \A e \in E : \E i, j \in Ranks : e = <<i, j>> /\ i # j

(* The edges of a stage connect distinct ranks of a group.                 *)
LEMMA EdgesAre ==
  ASSUME CallOk, NEW algo \in Algos, NEW s \in 1 .. StageCount(algo)
  PROVE  RankEdges(StageEdges(algo, s)) /\ StageBytes(algo, s) \in Nat
<1>1. PICK n \in {2, 4, 8} : n = Group /\ Ranks = 0 .. n - 1
  BY CallFacts DEF Ranks
<1>2. PICK R \in {1, 2, 3} : R = Rounds /\ 2^R = n
  BY <1>1, RoundsIs
<1>3. 0 \in Ranks /\ 1 \in Ranks
  BY <1>1
<1>4. ASSUME NEW k \in 0 .. R - 1 PROVE RankEdges({<<i, Partner(i, k)>> : i \in Ranks})
  <2> DEFINE E == {<<i, Partner(i, k)>> : i \in Ranks}
  <2>1. \A i \in Ranks : Partner(i, k) \in Ranks /\ Partner(i, k) # i
    BY <1>2, PartnerIs
  <2>2. <<0, Partner(0, k)>> \in E
    BY <1>3
  <2>3. \A e \in E : \E i, j \in Ranks : e = <<i, j>> /\ i # j
    BY <2>1
  <2> HIDE DEF E
  <2>4. RankEdges(E)
    BY <2>2, <2>3 DEF RankEdges
  <2>. QED BY <2>4 DEF E
<1>5. PICK b \in Nat : b = call.bytes
  BY CallAssumption DEF CallOk
<1>6. b \div n \in Nat /\ b \div 2 \in Nat /\ b \div 2^1 \in Nat /\ b \div 2^2 \in Nat /\ b \div 2^3 \in Nat
  <2>1. \A c \in {2, 4, 8} : b \div c \in Nat
    OBVIOUS
  <2>. QED BY <2>1, Powers
<1>7. CASE algo = "ring"
  <2> DEFINE E == {<<i, (i + 1) % Group>> : i \in Ranks}
  <2>1. \A i \in Ranks : (i + 1) % n \in Ranks /\ (i + 1) % n # i
    BY <1>1
  <2>2. <<0, (0 + 1) % Group>> \in E
    BY <1>3
  <2>3. \A e \in E : \E i, j \in Ranks : e = <<i, j>> /\ i # j
    BY <1>1, <2>1
  <2> HIDE DEF E
  <2>4. RankEdges(E)
    BY <2>2, <2>3 DEF RankEdges
  <2>5. StageEdges(algo, s) = E /\ StageBytes(algo, s) = b \div n
    BY <1>1, <1>5, <1>7 DEF StageEdges, StageBytes, E
  <2>. QED BY <1>6, <2>4, <2>5
<1>8. CASE algo = "all_to_all"
  <2> DEFINE E == {q \in Ranks \X Ranks : q[1] # q[2]}
  <2>2. <<0, 1>> \in E
    BY <1>3
  <2>3. \A e \in E : \E i, j \in Ranks : e = <<i, j>> /\ i # j
    OBVIOUS
  <2> HIDE DEF E
  <2>4. RankEdges(E)
    BY <2>2, <2>3 DEF RankEdges
  <2>5. StageEdges(algo, s) = E /\ StageBytes(algo, s) = b
    BY <1>5, <1>8 DEF StageEdges, StageBytes, E
  <2>. QED BY <2>4, <2>5
<1>9. CASE algo = "double_tree"
  <2>1. StageBytes(algo, s) = b \div 2
    BY <1>5, <1>9 DEF StageBytes
  <2>2. s \in 1 .. 2 * R
    BY <1>2, <1>9 DEF StageCount
  <2>3. CASE s <= R
    <3>1. s - 1 \in 0 .. R - 1
      BY <2>2, <2>3
    <3>2. StageEdges(algo, s) = TreeEdges(s - 1)
      BY <1>2, <1>9, <2>3 DEF StageEdges
    <3>3. RankEdges(TreeEdges(s - 1))
      <4>1. TreeEdges(s - 1) \subseteq Ranks \X Ranks /\ TreeEdges(s - 1) # {}
            /\ \A e \in TreeEdges(s - 1) : e[1] # e[2]
        BY <1>2, <3>1, TreePairs
      <4>. QED BY <4>1 DEF RankEdges
    <3>. QED BY <1>6, <2>1, <3>2, <3>3
  <2>4. CASE ~(s <= R)
    <3>1. PICK l \in 0 .. R - 1 : l = 2 * R - s
      BY <2>2, <2>4
    <3>2. StageEdges(algo, s) = {<<e[2], e[1]>> : e \in TreeEdges(l)}
      BY <1>2, <1>9, <2>4, <3>1 DEF StageEdges
    <3>3. RankEdges({<<e[2], e[1]>> : e \in TreeEdges(l)})
      <4>1. TreeEdges(l) \subseteq Ranks \X Ranks /\ TreeEdges(l) # {}
            /\ \A e \in TreeEdges(l) : e[1] # e[2]
        BY <1>2, TreePairs
      <4>2. \A e \in TreeEdges(l) : e[1] \in Ranks /\ e[2] \in Ranks
        BY <4>1
      <4>. QED BY <4>1, <4>2 DEF RankEdges
    <3>. QED BY <1>6, <2>1, <3>2, <3>3
  <2>. QED BY <2>3, <2>4
<1>10. CASE algo \in {"recursive_doubling", "rabenseifner", "reduce_scatter", "partial_broadcast"}
  <2>1. s \in 1 .. R /\ s - 1 \in 0 .. R - 1
    BY <1>2, <1>10 DEF StageCount
  <2>2. StageEdges(algo, s) = {<<i, Partner(i, s - 1)>> : i \in Ranks}
    BY <1>10 DEF StageEdges
  <2>3. StageBytes(algo, s) \in {b, b \div 2^s}
    BY <1>5, <1>10 DEF StageBytes
  <2>4. b \div 2^s \in Nat
    <3>1. s = 1 \/ s = 2 \/ s = 3
      BY <2>1
    <3>. QED BY <1>6, <3>1, Zenon
  <2>. QED BY <1>4, <2>1, <2>2, <2>3, <2>4
<1>. QED BY <1>7, <1>8, <1>9, <1>10 DEF Algos

(* The pairs of devices a set of edges stands for, one in every group, and *)
(* the matrix of a stage.                                                  *)
Cells(E) == {<<g[e[1]], g[e[2]]>> : g \in Groups, e \in E}

StageMatrix(algo, s) == [p \in Cells(StageEdges(algo, s)) |-> StageBytes(algo, s)]

(* The cells of the traffic matrix are the edges of a stage, once for      *)
(* every group.                                                            *)
LEMMA CellsAre ==
  ASSUME CallOk, NEW E, RankEdges(E)
  PROVE  /\ Cells(E) # {} /\ IsFiniteSet(Cells(E))
         /\ \A g \in Groups, i, j \in Ranks : <<i, j>> \in E => <<g[i], g[j]>> \in Cells(E)
         /\ \A p \in Cells(E) :
              /\ p = <<p[1], p[2]>> /\ p[1] \in Devices(net) /\ p[2] \in Devices(net)
              /\ p[1] # p[2] /\ <<Rank(p[1]), Rank(p[2])>> \in E
              /\ \E g \in Groups : p[1] = g[Rank(p[1])] /\ p[2] = g[Rank(p[2])]
<1> DEFINE C(g, e) == <<g[e[1]], g[e[2]]>>
<1>1. Cells(E) = {C(g, e) : g \in Groups, e \in E}
  BY DEF Cells
<1>2. \A g, i, j : C(g, <<i, j>>) = <<g[i], g[j]>>
  OBVIOUS
<1>3. \A g, h \in Groups : \A i, j \in Ranks : g[i] = h[j] => g = h /\ i = j
  BY GroupFacts
<1>4. \A g \in Groups : /\ g \in [Ranks -> Devices(net)]
                        /\ \A k \in Ranks : Rank(g[k]) = k
  BY GroupFacts
<1> HIDE DEF C
<1>5. ASSUME NEW g \in Groups, NEW i \in Ranks, NEW j \in Ranks, <<i, j>> \in E
      PROVE  <<g[i], g[j]>> \in Cells(E)
  BY <1>1, <1>2, <1>5
<1>6. ASSUME NEW p \in Cells(E)
      PROVE  /\ p = <<p[1], p[2]>> /\ p[1] \in Devices(net) /\ p[2] \in Devices(net)
             /\ p[1] # p[2] /\ <<Rank(p[1]), Rank(p[2])>> \in E
             /\ \E g \in Groups : p[1] = g[Rank(p[1])] /\ p[2] = g[Rank(p[2])]
  <2>1. PICK g \in Groups, e \in E : p = C(g, e)
    BY <1>1
  <2>2. PICK i \in Ranks, j \in Ranks : e = <<i, j>> /\ i # j
    BY DEF RankEdges
  <2>3. p = <<g[i], g[j]>>
    BY <1>2, <2>1, <2>2
  <2>4. p[1] = g[i] /\ p[2] = g[j]
    BY <2>3
  <2>5. g[i] \in Devices(net) /\ g[j] \in Devices(net) /\ Rank(g[i]) = i /\ Rank(g[j]) = j
    BY <1>4
  <2>6. g[i] # g[j]
    BY <1>3, <2>2
  <2>. QED BY <2>2, <2>3, <2>4, <2>5, <2>6
<1>7. Cells(E) # {}
  <2>1. PICK e \in E : TRUE
    BY DEF RankEdges
  <2>2. PICK i \in Ranks, j \in Ranks : e = <<i, j>>
    BY DEF RankEdges
  <2>3. PICK d \in Devices(net) : TRUE
    <3>1. PICK a \in Nat \ {0}, b \in Nat \ {0}, c \in Nat \ {0} :
            Devices(net) = 0 .. (a * b) * c - 1
      <4>1. Group \in Nat \ {0}
        BY CallFacts, SMTT(60)
      <4>. QED BY <4>1, CallFacts
    <3>2. (a * b) * c \in Nat \ {0}
      <4>1. \A x, y \in Nat \ {0} : x * y \in Nat \ {0}
        OBVIOUS
      <4>. QED BY <4>1
    <3>3. 0 \in 0 .. (a * b) * c - 1
      BY <3>2
    <3>. QED BY <3>1, <3>3
  <2>4. PICK g \in Groups : g[Rank(d)] = d
    BY GroupFacts
  <2>. QED BY <1>5, <2>2
<1>8. IsFiniteSet(Cells(E))
  <2>1. IsFiniteSet(Devices(net) \X Devices(net))
    BY CallFacts, FS_Product
  <2>2. \A p \in Cells(E) : p = <<p[1], p[2]>> /\ p[1] \in Devices(net) /\ p[2] \in Devices(net)
    BY <1>6
  <2> DEFINE D == Devices(net)
  <2> HIDE DEF D
  <2>3. Cells(E) \subseteq D \X D
    <3>1. \A p \in Cells(E) : p[1] \in D /\ p[2] \in D
      BY <2>2 DEF D
    <3> SUFFICES ASSUME NEW p \in Cells(E) PROVE p \in D \X D
      OBVIOUS
    <3>2. PICK a \in D, b \in D : a = p[1] /\ b = p[2]
      BY <3>1
    <3>3. p = <<a, b>>
      BY <2>2, <3>2
    <3>. QED BY <3>3
  <2>. QED BY <2>1, <2>3, FS_Subset DEF D
<1>. QED BY <1>5, <1>6, <1>7, <1>8

(* A stage that starts from an empty matrix fills it with its messages.    *)
LEMMA FilledIs ==
  ASSUME CallOk, tm = Empty, NEW E, RankEdges(E), NEW b \in Nat
  PROVE  Filled(Messages(b, E)) = [p \in Cells(E) |-> b]
<1> DEFINE R(g, t) == [src |-> g[t[2]], dst |-> g[t[3]], bytes |-> t[1]]
           Added == UNION {{R(g, t) : g \in Groups} : t \in Messages(b, E)}
<1>1. Filled(Messages(b, E)) = FoldSet(LAMBDA x, m : Plus(m, <<x.src, x.dst>>, x.bytes), tm, Added)
  BY DEF Filled
<1>2. \A g, i, j : R(g, <<b, i, j>>) = [src |-> g[i], dst |-> g[j], bytes |-> b]
  OBVIOUS
<1> HIDE DEF R
<1>3. \A x \in Added : \E g \in Groups, i, j \in Ranks :
        <<i, j>> \in E /\ x = [src |-> g[i], dst |-> g[j], bytes |-> b]
  <2> SUFFICES ASSUME NEW x \in Added
               PROVE  \E g \in Groups, i, j \in Ranks :
                        <<i, j>> \in E /\ x = [src |-> g[i], dst |-> g[j], bytes |-> b]
    OBVIOUS
  <2>1. PICK t \in Messages(b, E), g \in Groups : x = R(g, t)
    OBVIOUS
  <2>2. PICK e \in E : t = <<b, e[1], e[2]>>
    BY DEF Messages
  <2>3. PICK i \in Ranks, j \in Ranks : e = <<i, j>>
    BY DEF RankEdges
  <2>4. t = <<b, i, j>>
    BY <2>2, <2>3
  <2>. QED BY <1>2, <2>1, <2>3, <2>4
<1>4. \A g \in Groups, i, j \in Ranks :
        <<i, j>> \in E => [src |-> g[i], dst |-> g[j], bytes |-> b] \in Added
  <2> SUFFICES ASSUME NEW g \in Groups, NEW i \in Ranks, NEW j \in Ranks, <<i, j>> \in E
               PROVE  [src |-> g[i], dst |-> g[j], bytes |-> b] \in Added
    OBVIOUS
  <2>1. <<b, i, j>> \in Messages(b, E)
    BY DEF Messages
  <2>2. R(g, <<b, i, j>>) \in Added
    BY <2>1
  <2>. QED BY <1>2, <2>2
<1> HIDE DEF Added
<1>5. \A x \in Added : x = [src |-> x.src, dst |-> x.dst, bytes |-> b] /\ x.bytes = b
        /\ x.src \in Devices(net) /\ x.dst \in Devices(net)
  <2> SUFFICES ASSUME NEW x \in Added
               PROVE  /\ x = [src |-> x.src, dst |-> x.dst, bytes |-> b] /\ x.bytes = b
                      /\ x.src \in Devices(net) /\ x.dst \in Devices(net)
    OBVIOUS
  <2>1. PICK g \in Groups, i \in Ranks, j \in Ranks :
          x = [src |-> g[i], dst |-> g[j], bytes |-> b]
    BY <1>3
  <2>2. g[i] \in Devices(net) /\ g[j] \in Devices(net)
    BY GroupFacts
  <2>. QED BY <2>1, <2>2
<1>6. \A x, y \in Added : x.src = y.src /\ x.dst = y.dst => x = y
  BY <1>5
<1>7. IsFiniteSet(Added)
  <2> DEFINE f == [x \in Added |-> <<x.src, x.dst>>]
  <2>1. f \in Injection(Added, Devices(net) \X Devices(net))
    <3>1. f \in [Added -> Devices(net) \X Devices(net)]
      BY <1>5
    <3>2. \A x, y \in Added : f[x] = f[y] => x = y
      BY <1>6
    <3> HIDE DEF f
    <3>. QED BY <3>1, <3>2 DEF Injection, IsInjective
  <2>2. IsFiniteSet(Devices(net) \X Devices(net))
    BY CallFacts, FS_Product
  <2>. QED BY <2>1, <2>2, FS_Injection
<1>8. FoldSet(LAMBDA x, m : Plus(m, <<x.src, x.dst>>, x.bytes), Empty, Added)
        = [p \in {<<x.src, x.dst>> : x \in Added} |-> b]
  <2>1. b \in Int
    OBVIOUS
  <2>. QED BY <1>5, <1>6, <1>7, <2>1, PlusFold
<1>9. {<<x.src, x.dst>> : x \in Added} = Cells(E)
  <2> DEFINE P == {<<x.src, x.dst>> : x \in Added}
  <2>1. ASSUME NEW p \in P PROVE p \in Cells(E)
    <3>1. PICK x \in Added : p = <<x.src, x.dst>>
      OBVIOUS
    <3>2. PICK g \in Groups, i \in Ranks, j \in Ranks :
            <<i, j>> \in E /\ x = [src |-> g[i], dst |-> g[j], bytes |-> b]
      BY <1>3
    <3>3. p = <<g[i], g[j]>>
      BY <3>1, <3>2
    <3>. QED BY <3>2, <3>3, CellsAre
  <2>2. ASSUME NEW p \in Cells(E) PROVE p \in P
    <3>1. /\ p = <<p[1], p[2]>> /\ p[1] \in Devices(net) /\ p[2] \in Devices(net)
          /\ <<Rank(p[1]), Rank(p[2])>> \in E
          /\ \E g \in Groups : p[1] = g[Rank(p[1])] /\ p[2] = g[Rank(p[2])]
      BY <2>2, CellsAre
    <3>2. PICK g \in Groups : p[1] = g[Rank(p[1])] /\ p[2] = g[Rank(p[2])]
      BY <3>1
    <3>3. PICK i \in Ranks, j \in Ranks : i = Rank(p[1]) /\ j = Rank(p[2])
      BY <3>1, GroupFacts
    <3>4. <<i, j>> \in E /\ p = <<g[i], g[j]>>
      BY <3>1, <3>2, <3>3
    <3>5. PICK x \in Added : x = [src |-> g[i], dst |-> g[j], bytes |-> b]
      BY <1>4, <3>4
    <3>6. p = <<x.src, x.dst>>
      BY <3>4, <3>5
    <3>. QED BY <3>6
  <2>. QED BY <2>1, <2>2
<1>. QED BY <1>1, <1>8, <1>9

(* How many stages an algorithm counts, and which one each time.           *)
Shared == CHOOSE n \in 0 .. Rounds : 2^n = call.degree

CountLen(algo) ==
  CASE algo = "ring" -> 2 * (Group - 1)
    [] algo = "rabenseifner" -> 2 * Rounds
    [] algo = "partial_broadcast" -> Rounds + Shared
    [] OTHER -> StageCount(algo)

CountAt(algo, r) ==
  CASE algo = "ring" -> 1
    [] algo \in {"rabenseifner", "partial_broadcast"} ->
         IF r <= Rounds THEN r ELSE 2 * Rounds + 1 - r
    [] OTHER -> r

(* The degree of a partial broadcast is a power of two within the group.   *)
LEMMA SharedIs ==
  ASSUME CallOk
  PROVE  Shared \in 0 .. Rounds /\ 2^Shared = call.degree
<1> DEFINE P(n) == 2^n
<1>1. P(0) = 1 /\ P(1) = 2 /\ P(2) = 4 /\ P(3) = 8
  OBVIOUS
<1>2. Shared = CHOOSE n \in 0 .. Rounds : P(n) = call.degree
  BY DEF Shared
<1>3. 2^Shared = P(Shared)
  OBVIOUS
<1> HIDE DEF P
<1>4. call.degree \in {1, 2, 4, 8} /\ call.degree <= Group
  BY CallFacts
<1>5. \E n \in 0 .. Rounds : P(n) = call.degree
  <2>1. CASE call.degree = 1
    BY <1>1, <2>1, RoundsIs
  <2>2. CASE call.degree = 2
    BY <1>1, <1>4, <2>2, RoundsIs
  <2>3. CASE call.degree = 4
    BY <1>1, <1>4, <2>3, RoundsIs
  <2>4. CASE call.degree = 8
    BY <1>1, <1>4, <2>4, RoundsIs
  <2>. QED BY <1>4, <2>1, <2>2, <2>3, <2>4
<1>. QED BY <1>2, <1>3, <1>5

(* How many stages an algorithm counts, and which.                         *)
LEMMA CountsAre ==
  ASSUME CallOk, NEW algo \in Algos
  PROVE  /\ Len(Counts(algo)) = CountLen(algo) /\ CountLen(algo) \in Nat \ {0}
         /\ DOMAIN Counts(algo) = 1 .. CountLen(algo)
         /\ \A r \in 1 .. CountLen(algo) :
              Counts(algo)[r] = CountAt(algo, r) /\ CountAt(algo, r) \in 1 .. StageCount(algo)
<1>1. PICK R \in {1, 2, 3} : R = Rounds
  BY RoundsIs
<1>2. PICK k \in 0 .. R : k = Shared
  BY <1>1, SharedIs
<1>3. ASSUME NEW n \in Nat
      PROVE  /\ Up(n) \in Seq(1 .. n) /\ Len(Up(n)) = n /\ DOMAIN Up(n) = 1 .. n
             /\ \A r \in 1 .. n : Up(n)[r] = r
  <2>1. Up(n) = [r \in 1 .. n |-> r]
    BY DEF Up
  <2>. QED BY <2>1
<1>4. /\ Down(R) \in Seq(1 .. R) /\ Len(Down(R)) = R
      /\ \A r \in 1 .. R : Down(R)[r] = R + 1 - r
  <2>1. Down(R) = [r \in 1 .. R |-> Up(R)[R - r + 1]]
    BY <1>3 DEF Down, Reverse
  <2>2. \A r \in 1 .. R : R - r + 1 \in 1 .. R /\ R - r + 1 = R + 1 - r
    OBVIOUS
  <2>3. \A r \in 1 .. R : Up(R)[R - r + 1] = R + 1 - r
    <3> SUFFICES ASSUME NEW r \in 1 .. R PROVE Up(R)[R - r + 1] = R + 1 - r
      OBVIOUS
    <3>1. PICK q \in 1 .. R : q = R - r + 1 /\ q = R + 1 - r
      BY <2>2
    <3>2. Up(R)[q] = q
      BY <1>3
    <3>. QED BY <3>1, <3>2
  <2>4. Down(R) = [r \in 1 .. R |-> R + 1 - r]
    BY <2>1, <2>3
  <2>. QED BY <2>2, <2>4
<1>5. ASSUME NEW n \in 0 .. R
      PROVE  /\ Len(Up(R) \o SubSeq(Down(R), 1, n)) = R + n
             /\ DOMAIN (Up(R) \o SubSeq(Down(R), 1, n)) = 1 .. R + n
             /\ \A r \in 1 .. R + n : (Up(R) \o SubSeq(Down(R), 1, n))[r]
                                        = IF r <= R THEN r ELSE 2 * R + 1 - r
  <2> DEFINE D == SubSeq(Down(R), 1, n)
             U == Up(R)
  <2>1. D \in Seq(1 .. R) /\ Len(D) = n /\ \A r \in 1 .. n : D[r] = R + 1 - r
    <3>1. n \in 0 .. Len(Down(R)) /\ n + 1 - 1 = n
      BY <1>4
    <3>2. D = [r \in 1 .. n |-> Down(R)[r]]
      BY <1>4, <3>1
    <3>3. \A r \in 1 .. n : D[r] = R + 1 - r /\ R + 1 - r \in 1 .. R
      BY <1>4, <3>2
    <3>. QED BY <3>2, <3>3
  <2>2. U \in Seq(1 .. R) /\ Len(U) = R /\ \A r \in 1 .. R : U[r] = r
    BY <1>3
  <2> HIDE DEF U, D
  <2>3. /\ U \o D \in Seq(1 .. R) /\ Len(U \o D) = R + n
        /\ \A r \in 1 .. R + n : (U \o D)[r] = IF r <= R THEN U[r] ELSE D[r - R]
    BY <2>1, <2>2, ConcatProperties
  <2>4. DOMAIN (U \o D) = 1 .. R + n
    BY <2>3
  <2>5. \A r \in 1 .. R + n : (U \o D)[r] = IF r <= R THEN r ELSE 2 * R + 1 - r
    <3> SUFFICES ASSUME NEW r \in 1 .. R + n
                 PROVE  (U \o D)[r] = IF r <= R THEN r ELSE 2 * R + 1 - r
      OBVIOUS
    <3>1. CASE r <= R
      BY <2>2, <2>3, <3>1
    <3>2. CASE ~(r <= R)
      <4>1. r - R \in 1 .. n /\ R + 1 - (r - R) = 2 * R + 1 - r
        BY <3>2
      <4>. QED BY <2>1, <2>3, <3>2, <4>1
    <3>. QED BY <3>1, <3>2
  <2>. QED BY <2>3, <2>4, <2>5 DEF U, D
<1>6. CASE algo = "ring"
  <2>1. PICK m \in Nat \ {0} : m = 2 * (Group - 1)
    BY CallFacts
  <2>2. Counts(algo) = [j \in 1 .. m |-> 1]
    BY <1>6, <2>1 DEF Counts
  <2>3. CountLen(algo) = m /\ StageCount(algo) = 1 /\ \A r : CountAt(algo, r) = 1
    BY <1>6, <2>1 DEF CountLen, StageCount, CountAt
  <2>4. /\ Len(Counts(algo)) = m /\ DOMAIN Counts(algo) = 1 .. m
        /\ \A r \in 1 .. m : Counts(algo)[r] = 1
    BY <2>2
  <2>5. 1 \in 1 .. 1
    OBVIOUS
  <2>. QED BY <2>3, <2>4, <2>5
<1>7. CASE algo = "rabenseifner"
  <2>1. Counts(algo) = Up(R) \o SubSeq(Down(R), 1, R)
    <3>1. SubSeq(Down(R), 1, R) = Down(R)
      <4>1. SubSeq(Down(R), 1, R) = [r \in 1 .. R |-> Down(R)[r]]
        BY <1>4
      <4>2. Down(R) = [r \in 1 .. R |-> Down(R)[r]]
        BY <1>4
      <4>. QED BY <4>1, <4>2
    <3>. QED BY <1>1, <1>7, <3>1 DEF Counts
  <2>2. CountLen(algo) = R + R /\ StageCount(algo) = R
        /\ \A r : CountAt(algo, r) = IF r <= R THEN r ELSE 2 * R + 1 - r
    BY <1>1, <1>7 DEF CountLen, StageCount, CountAt
  <2>3. \A r \in 1 .. R + R : (IF r <= R THEN r ELSE 2 * R + 1 - r) \in 1 .. R
    OBVIOUS
  <2>4. PICK m \in 0 .. R : m = R
    OBVIOUS
  <2>5. R + m \in Nat \ {0} /\ Counts(algo) = Up(R) \o SubSeq(Down(R), 1, m)
        /\ CountLen(algo) = R + m
        /\ \A r \in 1 .. R + m : (IF r <= R THEN r ELSE 2 * R + 1 - r) \in 1 .. R
    BY <2>1, <2>2, <2>3, <2>4
  <2>6. PICK s : s = Counts(algo)
    OBVIOUS
  <2>7. Len(s) = R + m /\ DOMAIN s = 1 .. R + m
        /\ \A r \in 1 .. R + m : s[r] = IF r <= R THEN r ELSE 2 * R + 1 - r
    BY <1>5, <2>5, <2>6
  <2>8. \A r \in 1 .. R + m : s[r] = CountAt(algo, r) /\ CountAt(algo, r) \in 1 .. R
    BY <2>2, <2>5, <2>7
  <2>. QED BY <2>2, <2>5, <2>6, <2>7, <2>8, Zenon
<1>8. CASE algo = "partial_broadcast"
  <2>1. Counts(algo) = Up(R) \o SubSeq(Down(R), 1, k)
    BY <1>1, <1>2, <1>8 DEF Counts, Shared
  <2>2. CountLen(algo) = R + k /\ StageCount(algo) = R
        /\ \A r : CountAt(algo, r) = IF r <= R THEN r ELSE 2 * R + 1 - r
    BY <1>1, <1>2, <1>8 DEF CountLen, StageCount, CountAt
  <2>3. \A r \in 1 .. R + k : (IF r <= R THEN r ELSE 2 * R + 1 - r) \in 1 .. R
    OBVIOUS
  <2>4. R + k \in Nat \ {0}
    OBVIOUS
  <2>. QED BY <1>5, <2>1, <2>2, <2>3, <2>4
<1>9. CASE algo \in Algos \ {"ring", "rabenseifner", "partial_broadcast"}
  <2>1. PICK n \in Nat \ {0} : n = StageCount(algo) /\ n = Len(Stages(algo))
    BY StagesAre
  <2>2. Counts(algo) = Up(n)
    BY <1>9, <2>1 DEF Counts
  <2>3. CountLen(algo) = n /\ \A r : CountAt(algo, r) = r
    BY <1>9, <2>1 DEF CountLen, CountAt
  <2>. QED BY <1>3, <2>1, <2>2, <2>3, ZenonT(60)
<1>. QED BY <1>6, <1>7, <1>8, <1>9

(* What depends on the call alone does not change with it.                 *)
LEMMA CallSame ==
  ASSUME UNCHANGED <<call, net>>
  PROVE  /\ Group' = Group /\ Ranks' = Ranks /\ Groups' = Groups /\ Rounds' = Rounds
         /\ Stride' = Stride /\ Blocks' = Blocks /\ (CallOk <=> CallOk')
         /\ \A algo, s : /\ StageMatrix(algo, s)' = StageMatrix(algo, s)
                         /\ StageEdges(algo, s)' = StageEdges(algo, s)
                         /\ StageBytes(algo, s)' = StageBytes(algo, s)
         /\ \A algo : /\ StageCount(algo)' = StageCount(algo)
                      /\ CountLen(algo)' = CountLen(algo)
                      /\ Counts(algo)' = Counts(algo)
                      /\ Stages(algo)' = Stages(algo)
         /\ \A d : Rank(d)' = Rank(d)
<1>1. call' = call /\ net' = net
  OBVIOUS
<1>2. Group' = Group /\ Stride' = Stride /\ Blocks' = Blocks /\ (CallOk <=> CallOk')
  BY <1>1 DEF Group, Stride, Blocks, CallOk
<1>3. Ranks' = Ranks /\ Rounds' = Rounds
  BY <1>2 DEF Ranks, Rounds
<1>4. Groups' = Groups /\ \A d : Rank(d)' = Rank(d)
  BY <1>2, <1>3 DEF Groups, Rank
<1>5. \A i : TreeNodes(i)' = TreeNodes(i)
  BY <1>2 DEF TreeNodes
<1>6. \A a, b, c : TreeLevel(a, b, c)' = TreeLevel(a, b, c)
  BY <1>5 DEF TreeLevel
<1>7. \A l : RightTree(l)' = RightTree(l) /\ LeftTree(l)' = LeftTree(l)
  BY <1>2, <1>6 DEF RightTree, LeftTree
<1>8. \A l : TreeEdges(l)' = TreeEdges(l)
  BY <1>7 DEF TreeEdges
<1>9. \A algo, s : StageEdges(algo, s)' = StageEdges(algo, s)
  BY <1>2, <1>3, <1>8 DEF StageEdges
<1>10. \A algo, s : StageBytes(algo, s)' = StageBytes(algo, s)
  BY <1>1, <1>2 DEF StageBytes
<1>11. \A E : Cells(E)' = Cells(E)
  BY <1>4 DEF Cells
<1>12. \A algo, s : StageMatrix(algo, s)' = StageMatrix(algo, s)
  BY <1>9, <1>10, <1>11 DEF StageMatrix
<1>13. \A algo : StageCount(algo)' = StageCount(algo)
  BY <1>3 DEF StageCount
<1>14. \A l : TreeUp(l)' = TreeUp(l) /\ TreeDown(l)' = TreeDown(l)
  BY <1>1, <1>7 DEF TreeUp, TreeDown
<1>15. \A s, b : Exchange(s, b)' = Exchange(s, b)
  BY <1>3 DEF Exchange
<1>16. Halving' = Halving
  BY <1>1, <1>3, <1>15 DEF Halving
<1>17. \A algo : Stages(algo)' = Stages(algo)
  BY <1>1, <1>2, <1>3, <1>14, <1>15, <1>16 DEF Stages
<1>18. \A algo : Counts(algo)' = Counts(algo)
  BY <1>1, <1>2, <1>3, <1>17 DEF Counts
<1>19. Shared' = Shared
  BY <1>1, <1>3 DEF Shared
<1>20. \A algo : CountLen(algo)' = CountLen(algo)
  BY <1>2, <1>3, <1>13, <1>19 DEF CountLen
<1>. QED BY <1>2, <1>3, <1>4, <1>9, <1>10, <1>12, <1>13, <1>17, <1>18, <1>20

(* The matrix is that of the stage being routed, or empty; costs holds the *)
(* matrices of the stages routed so far; nothing is counted before the     *)
(* last of them.                                                           *)
StageIdle == algos = <<>> => ~sent /\ Len(costs) = 0 /\ counted = 0

StageProgress ==
  algos # <<>> =>
    /\ Len(costs) <= StageCount(algos[1])
    /\ sent => Len(costs) < StageCount(algos[1])
    /\ counted <= CountLen(algos[1])
    /\ counted > 0 => Len(costs) = StageCount(algos[1])

StageHeld == tm = IF sent THEN StageMatrix(algos[1], Len(costs) + 1) ELSE Empty

StagePast == \A k \in 1 .. Len(costs) : costs[k].tm = StageMatrix(algos[1], k)

StageInv ==
  /\ CallOk
  /\ algos \in Seq(Algos) /\ (\E T : costs \in Seq(T))
  /\ sent \in BOOLEAN /\ counted \in Nat
  /\ StageIdle /\ StageProgress /\ StageHeld /\ StagePast
  /\ ~sent => todo = {} /\ route = None

(* The invariant of the stages holds at the start.                         *)
LEMMA StageInit == Init => StageInv
<1> SUFFICES ASSUME Init PROVE StageInv
  OBVIOUS
<1>1. CallOk
  BY DEF Init, CallOk
<1>2. algos \in Seq(Algos) /\ algos # <<>>
  <2>1. CASE call.op = "all_reduce"
    <3>1. algos = <<"recursive_doubling", "ring", "rabenseifner", "double_tree", "all_to_all">>
      BY <2>1 DEF Init
    <3>2. \A a, b, c, d, e \in Algos :
            <<a, b, c, d, e>> \in Seq(Algos) /\ <<a, b, c, d, e>> # <<>>
      OBVIOUS
    <3>. QED BY <3>1, <3>2 DEF Algos
  <2>2. CASE call.op # "all_reduce"
    <3>1. algos = <<call.op>> /\ call.op \in Algos
      BY <1>1, <2>2, CallFacts DEF Init, Algos
    <3>2. \A a \in Algos : <<a>> \in Seq(Algos) /\ <<a>> # <<>>
      OBVIOUS
    <3>. QED BY <3>1, <3>2
  <2>. QED BY <2>1, <2>2
<1>3. algos[1] \in Algos
  <2>1. 1 \in 1 .. Len(algos)
    BY <1>2, EmptySeq
  <2>. QED BY <1>2, <2>1, ElementOfSeq
<1>4. StageCount(algos[1]) \in Nat /\ CountLen(algos[1]) \in Nat
  BY <1>1, <1>3, StagesAre, CountsAre
<1>5. costs = <<>> /\ Len(costs) = 0 /\ counted = 0 /\ sent = FALSE /\ tm = Empty /\ todo = {} /\ route = None
  BY DEF Init
<1>6. \E T : costs \in Seq(T)
  BY <1>5, EmptySeq
<1>7. StageIdle /\ StageProgress /\ StageHeld /\ StagePast
  BY <1>2, <1>4, <1>5 DEF StageIdle, StageProgress, StageHeld, StagePast
<1>. QED BY <1>1, <1>2, <1>5, <1>6, <1>7 DEF StageInv

(* What it says of the algorithm being costed.                             *)
LEMMA StageFacts ==
  ASSUME StageInv, algos # <<>>
  PROVE  /\ algos[1] \in Algos /\ Tail(algos) \in Seq(Algos)
         /\ StageCount(algos[1]) \in Nat \ {0} /\ Len(Stages(algos[1])) = StageCount(algos[1])
         /\ CountLen(algos[1]) \in Nat \ {0} /\ Len(Counts(algos[1])) = CountLen(algos[1])
         /\ Len(costs) \in Nat
<1>1. 1 \in 1 .. Len(algos) /\ algos \in Seq(Algos)
  BY EmptySeq DEF StageInv
<1>2. algos[1] \in Algos /\ CallOk
  BY <1>1, ElementOfSeq DEF StageInv
<1>3. Tail(algos) \in Seq(Algos)
  BY <1>1, HeadTailProperties
<1>4. Len(costs) \in Nat
  BY LenProperties DEF StageInv
<1>. QED BY <1>2, <1>3, <1>4, StagesAre, CountsAre

(* Every step keeps it: a filled matrix holds one stage, and the costs are *)
(* those of the stages before it.                                          *)
LEMMA StageStep == StageInv /\ [Next]_vars => StageInv'
<1> SUFFICES ASSUME StageInv, [Next]_vars PROVE StageInv'
  OBVIOUS
<1> USE DEF nocVars, collectiveVars
<1>0. Len(costs) \in Nat
  BY LenProperties DEF StageInv
<1>1. ASSUME Fill PROVE StageInv'
  <2>1. UNCHANGED <<call, net, algos, costs, counted, route>> /\ sent' = TRUE /\ algos # <<>> /\ ~sent
        /\ Len(costs) < Len(Stages(algos[1])) /\ tm' = Filled(Stages(algos[1])[Len(costs) + 1])
    BY <1>1 DEF Fill
  <2>2. PICK k \in Nat : k = Len(costs) + 1
    BY <1>0
  <2>3. PICK a \in Algos : a = algos[1] /\ k \in 1 .. StageCount(a)
    BY <1>0, <2>1, <2>2, StageFacts
  <2>10. CallOk
    BY DEF StageInv
  <2>11. RankEdges(StageEdges(a, k)) /\ StageBytes(a, k) \in Nat
    BY <2>3, <2>10, EdgesAre
  <2>12. PICK b \in Nat : b = StageBytes(a, k)
    BY <2>11
  <2>4. PICK E : E = StageEdges(a, k) /\ b = StageBytes(a, k) /\ RankEdges(E)
    BY <2>11, <2>12
  <2>5. Stages(a)[k] = Messages(b, E)
    BY <2>3, <2>4, StagesAre DEF StageInv
  <2>6. Filled(Messages(b, E)) = [p \in Cells(E) |-> b]
    <3>1. CallOk /\ tm = Empty
      BY <2>1 DEF StageInv, StageHeld
    <3>. QED BY <2>4, <3>1, FilledIs
  <2>7. tm' = StageMatrix(a, k)
    BY <2>1, <2>2, <2>3, <2>4, <2>5, <2>6 DEF StageMatrix
  <2>8. counted = 0
    BY <1>0, <2>1, <2>2, <2>3 DEF StageInv, StageProgress
  <2>20. StageIdle'
    BY <1>0, <2>1, <2>2, <2>3, <2>7, <2>8, CallSame, StageFacts DEF StageIdle, StageInv
  <2>21. StageProgress'
    BY <1>0, <2>1, <2>2, <2>3, <2>7, <2>8, CallSame, StageFacts DEF StageProgress, StageInv
  <2>22. StageHeld'
    BY <1>0, <2>1, <2>2, <2>3, <2>7, <2>8, CallSame, StageFacts DEF StageHeld, StageInv
  <2>23. StagePast'
    BY <1>0, <2>1, <2>2, <2>3, <2>7, <2>8, CallSame, StageFacts DEF StagePast, StageInv
  <2>24. CallOk'
    BY <1>0, <2>1, <2>2, <2>3, <2>7, <2>8, CallSame, StageFacts DEF StageInv
  <2>. QED BY <1>0, <2>1, <2>2, <2>3, <2>7, <2>8, CallSame, StageFacts, <2>20, <2>21, <2>22, <2>23, <2>24 DEF StageInv
<1>2. ASSUME Route PROVE StageInv'
  <2>1. UNCHANGED net
    BY <1>2 DEF Route, NocNext, Depart, Walk, Cross, Arrive, Move
  <2>2. UNCHANGED collectiveVars /\ sent
    BY <1>2 DEF Route
  <2>20. StageIdle'
    BY <2>1, <2>2, CallSame DEF StageIdle, StageInv
  <2>21. StageProgress'
    BY <2>1, <2>2, CallSame DEF StageProgress, StageInv
  <2>22. StageHeld'
    BY <2>1, <2>2, CallSame DEF StageHeld, StageInv
  <2>23. StagePast'
    BY <2>1, <2>2, CallSame DEF StagePast, StageInv
  <2>24. CallOk'
    BY <2>1, <2>2, CallSame DEF StageInv
  <2>. QED BY <2>1, <2>2, CallSame, <2>20, <2>21, <2>22, <2>23, <2>24 DEF StageInv
 <1>3. ASSUME StageRouted PROVE StageInv'
  <2>1. PICK x : /\ x.tm = tm /\ costs' = Append(costs, x)
                 /\ UNCHANGED <<call, net, algos, counted, todo, route>> /\ sent' = FALSE
                 /\ tm' = Empty /\ sent /\ todo = {} /\ route = None
    BY <1>3 DEF StageRouted, Reset, Routed
  <2>2. PICK T : costs \in Seq(T)
    BY DEF StageInv
  <2>3. costs \in Seq(T \cup {x}) /\ x \in T \cup {x}
    BY <2>2, SeqMonotonic
  <2>4. /\ costs' \in Seq(T \cup {x}) /\ Len(costs') = Len(costs) + 1
        /\ \A i \in 1 .. Len(costs) : costs'[i] = costs[i]
        /\ costs'[Len(costs) + 1] = x
    BY <2>1, <2>3, AppendProperties
  <2>5. algos # <<>>
    BY <2>1 DEF StageInv, StageIdle
  <2>6. counted = 0 /\ Len(costs) + 1 <= StageCount(algos[1])
    BY <1>0, <2>1, <2>5, StageFacts DEF StageInv, StageProgress
  <2>7. x.tm = StageMatrix(algos[1], Len(costs) + 1)
    BY <2>1 DEF StageInv, StageHeld
  <2>8. \A k \in 1 .. Len(costs) + 1 : costs'[k].tm = StageMatrix(algos[1], k)
    <3> SUFFICES ASSUME NEW k \in 1 .. Len(costs) + 1 PROVE costs'[k].tm = StageMatrix(algos[1], k)
      OBVIOUS
    <3>1. CASE k = Len(costs) + 1
      BY <2>4, <2>7, <3>1
    <3>2. CASE k # Len(costs) + 1
      <4>1. k \in 1 .. Len(costs)
        BY <1>0, <3>2
      <4>. QED BY <2>4, <4>1 DEF StageInv, StagePast
    <3>. QED BY <3>1, <3>2
  <2>20. StageIdle'
    BY <1>0, <2>1, <2>4, <2>5, <2>6, <2>8, CallSame, StageFacts DEF StageIdle, StageInv
  <2>21. StageProgress'
    BY <1>0, <2>1, <2>4, <2>5, <2>6, <2>8, CallSame, StageFacts DEF StageProgress, StageInv
  <2>22. StageHeld'
    BY <1>0, <2>1, <2>4, <2>5, <2>6, <2>8, CallSame, StageFacts DEF StageHeld, StageInv
  <2>23. StagePast'
    BY <1>0, <2>1, <2>4, <2>5, <2>6, <2>8, CallSame, StageFacts DEF StagePast, StageInv
  <2>24. CallOk'
    BY <1>0, <2>1, <2>4, <2>5, <2>6, <2>8, CallSame, StageFacts DEF StageInv
  <2>. QED BY <1>0, <2>1, <2>4, <2>5, <2>6, <2>8, CallSame, StageFacts, <2>20, <2>21, <2>22, <2>23, <2>24 DEF StageInv
<1>4. ASSUME Count PROVE StageInv'
  <2>1. UNCHANGED <<call, net, algos, costs, sent, tm, todo, route>> /\ counted' = counted + 1
        /\ AllRouted /\ ~AllCounted /\ ~sent
    BY <1>4 DEF Count
  <2>2. algos # <<>> /\ Len(costs) = StageCount(algos[1]) /\ counted # CountLen(algos[1])
    BY <2>1, StageFacts DEF AllRouted, AllCounted
  <2>20. StageIdle'
    BY <1>0, <2>1, <2>2, CallSame, StageFacts DEF StageIdle, StageInv
  <2>21. StageProgress'
    BY <1>0, <2>1, <2>2, CallSame, StageFacts DEF StageProgress, StageInv
  <2>22. StageHeld'
    BY <1>0, <2>1, <2>2, CallSame, StageFacts DEF StageHeld, StageInv
  <2>23. StagePast'
    BY <1>0, <2>1, <2>2, CallSame, StageFacts DEF StagePast, StageInv
  <2>24. CallOk'
    BY <1>0, <2>1, <2>2, CallSame, StageFacts DEF StageInv
  <2>. QED BY <1>0, <2>1, <2>2, CallSame, StageFacts, <2>20, <2>21, <2>22, <2>23, <2>24 DEF StageInv
<1>5. ASSUME Compare PROVE StageInv'
  <2>1. UNCHANGED <<call, net, sent, todo, route>> /\ algos' = Tail(algos) /\ tm' = Empty /\ costs' = <<>>
        /\ counted' = 0 /\ AllCounted
    BY <1>5 DEF Compare
  <2>2. algos # <<>> /\ Len(costs) = StageCount(algos[1])
    BY <2>1, StageFacts DEF AllRouted, AllCounted
  <2>3. ~sent
    BY <1>0, <2>2, StageFacts DEF StageInv, StageProgress
  <2>4. Tail(algos) \in Seq(Algos) /\ Len(costs') = 0 /\ \E T : costs' \in Seq(T)
    BY <2>1, <2>2, StageFacts, EmptySeq
  <2>5. algos' # <<>> => 0 <= (StageCount(algos[1]))' /\ 0 <= CountLen(algos[1])'
    <3> SUFFICES ASSUME algos' # <<>> PROVE 0 <= (StageCount(algos[1]))' /\ 0 <= CountLen(algos[1])'
      OBVIOUS
    <3>1. 1 \in 1 .. Len(algos') /\ algos' \in Seq(Algos)
      BY <2>1, <2>4, EmptySeq
    <3>2. algos'[1] \in Algos /\ CallOk'
      BY <2>1, <3>1, ElementOfSeq, CallSame DEF StageInv
    <3>3. PICK a \in Algos : a = algos'[1]
      BY <3>2
    <3>4. StageCount(a) \in Nat /\ CountLen(a) \in Nat
      BY StagesAre, CountsAre DEF StageInv
    <3>5. StageCount(a)' = StageCount(a) /\ CountLen(a)' = CountLen(a)
      BY <2>1, CallSame
    <3>. QED BY <3>3, <3>4, <3>5
  <2>20. StageIdle'
    BY <2>1, <2>3, <2>4, <2>5, CallSame DEF StageIdle, StageInv
  <2>21. StageProgress'
    BY <2>1, <2>3, <2>4, <2>5, CallSame DEF StageProgress, StageInv
  <2>22. StageHeld'
    BY <2>1, <2>3, <2>4, <2>5, CallSame DEF StageHeld, StageInv
  <2>23. StagePast'
    BY <2>1, <2>3, <2>4, <2>5, CallSame DEF StagePast, StageInv
  <2>24. CallOk'
    BY <2>1, <2>3, <2>4, <2>5, CallSame DEF StageInv
  <2>. QED BY <2>1, <2>3, <2>4, <2>5, CallSame, <2>20, <2>21, <2>22, <2>23, <2>24 DEF StageInv
<1>6. CASE UNCHANGED vars
  <2>1. UNCHANGED <<call, net, algos, costs, sent, tm, todo, route, counted>>
    BY <1>6 DEF vars
  <2>20. StageIdle'
    BY <2>1, CallSame DEF StageIdle, StageInv
  <2>21. StageProgress'
    BY <2>1, CallSame DEF StageProgress, StageInv
  <2>22. StageHeld'
    BY <2>1, CallSame DEF StageHeld, StageInv
  <2>23. StagePast'
    BY <2>1, CallSame DEF StagePast, StageInv
  <2>24. CallOk'
    BY <2>1, CallSame DEF StageInv
  <2>. QED BY <2>1, CallSame, <2>20, <2>21, <2>22, <2>23, <2>24 DEF StageInv
<1>. QED BY <1>1, <1>2, <1>3, <1>4, <1>5, <1>6 DEF Next

(* It holds in every state.                                                *)
LEMMA StageHolds == Spec => []StageInv
BY StageInit, StageStep, PTL DEF Spec

(* An interval has as many members as it has steps.                        *)
LEMMA UpToSize ==
  ASSUME NEW q \in Nat
  PROVE  IsFiniteSet(0 .. q - 1) /\ Cardinality(0 .. q - 1) = q
<1>1. PICK y \in Int : y = q - 1
  OBVIOUS
<1>2. PICK z \in Int : z = 0
  OBVIOUS
<1>3. /\ IsFiniteSet(z .. y)
      /\ Cardinality(z .. y) = IF z > y THEN 0 ELSE y - z + 1
  BY FS_Interval
<1>. QED BY <1>1, <1>2, <1>3

(* Of n chunks, one in s has a given remainder.                            *)
LEMMA ResidueCount ==
  ASSUME NEW n \in {2, 4, 8}, NEW s \in {2, 4, 8}, s <= n, NEW m \in 0 .. s - 1
  PROVE  /\ IsFiniteSet({c \in 0 .. n - 1 : c % s = m})
         /\ Cardinality({c \in 0 .. n - 1 : c % s = m}) = n \div s
<1>1. PICK q \in {1, 2, 4} : q = n \div s
  OBVIOUS
<1> DEFINE f == [k \in 0 .. q - 1 |-> m + s * k]
<1>2. {c \in 0 .. n - 1 : c % s = m} = {f[k] : k \in 0 .. q - 1}
  <2>1. \A k \in 0 .. q - 1 : f[k] \in 0 .. n - 1 /\ f[k] % s = m
    <3>1. CASE s = 2
      BY <1>1, <3>1
    <3>2. CASE s = 4
      BY <1>1, <3>2
    <3>3. CASE s = 8
      BY <1>1, <3>3
    <3>. QED BY <3>1, <3>2, <3>3
  <2>2. \A c \in 0 .. n - 1 : c % s = m => \E k \in 0 .. q - 1 : c = f[k]
    <3> SUFFICES ASSUME NEW c \in 0 .. n - 1, c % s = m PROVE \E k \in 0 .. q - 1 : c = f[k]
      OBVIOUS
    <3>0. c \div s \in 0 .. q - 1 /\ c = m + s * (c \div s)
      <4>1. CASE s = 2
        BY <1>1, <4>1
      <4>2. CASE s = 4
        BY <1>1, <4>2
      <4>3. CASE s = 8
        BY <1>1, <4>3
      <4>. QED BY <4>1, <4>2, <4>3
    <3>1. PICK k \in 0 .. q - 1 : k = c \div s
      BY <3>0
    <3>. QED BY <3>0, <3>1
  <2> HIDE DEF f
  <2>. QED BY <2>1, <2>2
<1>3. \A j, k \in 0 .. q - 1 : f[j] = f[k] => j = k
  OBVIOUS
<1>4. IsFiniteSet(0 .. q - 1) /\ Cardinality(0 .. q - 1) = q
  BY UpToSize
<1> DEFINE D == 0 .. q - 1
<1>5. DOMAIN f = D /\ IsFiniteSet(D) /\ Cardinality(D) = q /\ \A j, k \in D : f[j] = f[k] => j = k
  BY <1>3, <1>4
<1>6. {c \in 0 .. n - 1 : c % s = m} = {f[k] : k \in D}
  BY <1>2
<1> HIDE DEF f, D
<1>7. Cardinality({f[k] : k \in D}) = Cardinality(D) /\ IsFiniteSet({f[k] : k \in D})
  BY <1>5, SameSize, FiniteImage
<1>. QED BY <1>1, <1>5, <1>6, <1>7

(* A message's bytes are those of the chunks it carries.                   *)
LEMMA CargoSize ==
  ASSUME CallOk, NEW algo \in Algos, NEW r \in 1 .. CountLen(algo),
         NEW i \in Ranks, NEW j \in Ranks
  PROVE  StageBytes(algo, CountAt(algo, r))
           = Cardinality(Cargo(algo, r, i, j)) * (call.bytes \div Group)
<1>1. PICK n \in {2, 4, 8} : n = Group /\ Ranks = 0 .. n - 1
  BY CallFacts DEF Ranks
<1>2. PICK u \in Nat : u = call.bytes \div Group /\ call.bytes = n * u
  BY <1>1, CallFacts
<1>3. PICK k \in Nat : k = CountAt(algo, r) /\ k \in 1 .. StageCount(algo) /\ Counts(algo)[r] = k
  BY CountsAre
<1>4. CASE algo = "ring"
  <2>1. StageBytes(algo, k) = u
    BY <1>2, <1>4 DEF StageBytes
  <2>2. PICK x : Cargo(algo, r, i, j) = {x}
    BY <1>4 DEF Cargo
  <2>3. Cardinality(Cargo(algo, r, i, j)) = 1
    BY <2>2, FS_Singleton
  <2>4. 1 * u = u
    OBVIOUS
  <2>. QED BY <1>2, <1>3, <2>1, <2>3, <2>4
<1>5. CASE algo \in {"recursive_doubling", "all_to_all"}
  <2>1. StageBytes(algo, k) = n * u
    BY <1>2, <1>5 DEF StageBytes
  <2>2. Cargo(algo, r, i, j) = Ranks
    BY <1>5 DEF Cargo
  <2>3. n \in Nat
    OBVIOUS
  <2>4. Cardinality(Ranks) = n
    BY <1>1, <2>3, UpToSize
  <2>. QED BY <1>2, <1>3, <2>1, <2>2, <2>4
<1>6. CASE algo = "double_tree"
  <2>1. StageBytes(algo, k) = (n \div 2) * u
    <3>1. StageBytes(algo, k) = (n * u) \div 2
      BY <1>2, <1>6 DEF StageBytes
    <3>. QED BY <3>1
  <2>2. PICK edge, l : Cargo(algo, r, i, j) = {c \in Ranks : c < Group \div 2 <=> edge \in RightTree(l)}
    <3> DEFINE edge == IF r <= Rounds THEN <<i, j>> ELSE <<j, i>>
               l    == IF r <= Rounds THEN r - 1 ELSE 2 * Rounds - r
    <3>1. Cargo(algo, r, i, j) = {c \in Ranks : c < Group \div 2 <=> edge \in RightTree(l)}
      BY <1>6 DEF Cargo
    <3>. QED BY <3>1
  <2>3. PICK h \in Nat : h = n \div 2 /\ n = h + h
    BY <1>1
  <2>4. Cardinality(0 .. h - 1) = h /\ IsFiniteSet(0 .. h - 1)
    BY UpToSize
  <2>5. CASE edge \in RightTree(l)
    <3>1. Cargo(algo, r, i, j) = 0 .. h - 1
      BY <1>1, <2>2, <2>3, <2>5
    <3>. QED BY <1>2, <1>3, <2>1, <2>3, <2>4, <3>1
  <2>6. CASE edge \notin RightTree(l)
    <3> DEFINE f == [c \in 0 .. h - 1 |-> c + h]
               D == 0 .. h - 1
    <3>1. Cargo(algo, r, i, j) = {f[c] : c \in D}
      <4>1. \A c \in D : f[c] \in Ranks /\ ~(f[c] < h)
        BY <1>1, <2>3
      <4>2. \A c \in Ranks : ~(c < h) => \E e \in D : c = f[e]
        <5> SUFFICES ASSUME NEW c \in Ranks, ~(c < h) PROVE \E e \in D : c = f[e]
          OBVIOUS
        <5>1. PICK e \in D : e = c - h
          BY <1>1, <2>3
        <5>. QED BY <1>1, <5>1
      <4> HIDE DEF f, D
      <4>. QED BY <1>1, <2>2, <2>3, <2>6, <4>1, <4>2
    <3>2. DOMAIN f = D /\ (\A c, e \in D : f[c] = f[e] => c = e) /\ IsFiniteSet(D) /\ Cardinality(D) = h
      BY <2>4
    <3> HIDE DEF f, D
    <3>3. Cardinality({f[c] : c \in D}) = h
      BY <3>2, SameSize
    <3>. QED BY <1>2, <1>3, <2>1, <2>3, <3>1, <3>3
  <2>. QED BY <2>5, <2>6
<1>7. CASE algo \in {"rabenseifner", "reduce_scatter", "partial_broadcast"}
  <2>1. k \in 1 .. Rounds
    BY <1>3, <1>7 DEF StageCount
  <2>2. PICK s \in {2, 4, 8} : s = 2^k /\ s <= n
    <3>1. k = 1 \/ k = 2 \/ k = 3
      BY <2>1, RoundsIs
    <3>2. k = 1 => 2^k = 2
      BY Powers
    <3>3. k = 2 => 2^k = 4
      BY Powers
    <3>4. k = 3 => 2^k = 8
      BY Powers
    <3>. QED BY <1>1, <2>1, <3>1, <3>2, <3>3, <3>4, RoundsIs
  <2>3. PICK m \in 0 .. s - 1 : Cargo(algo, r, i, j) = {c \in 0 .. n - 1 : c % s = m}
    <3>1. PICK x \in 0 .. n - 1 : x = IF r <= Rounds THEN j ELSE i
      BY <1>1
    <3>2. Cargo(algo, r, i, j) = {c \in Ranks : c % s = x % s}
      BY <1>3, <1>7, <2>2, <3>1 DEF Cargo
    <3>3. x % s \in 0 .. s - 1
      OBVIOUS
    <3>. QED BY <1>1, <3>2, <3>3
  <2>4. Cardinality(Cargo(algo, r, i, j)) = n \div s
    <3>1. Cardinality({c \in 0 .. n - 1 : c % s = m}) = n \div s
      BY <2>2, ResidueCount
    <3>. QED BY <2>3, <3>1
  <2>5. StageBytes(algo, k) = (n * u) \div s
    BY <1>2, <1>7, <2>2 DEF StageBytes
  <2>6. (n * u) \div s = (n \div s) * u
    <3>1. CASE s = 2
      BY <3>1
    <3>2. CASE s = 4
      BY <2>2, <3>2
    <3>3. CASE s = 8
      BY <2>2, <3>3
    <3>. QED BY <3>1, <3>2, <3>3
  <2>. QED BY <1>2, <1>3, <2>4, <2>5, <2>6
<1>. QED BY <1>4, <1>5, <1>6, <1>7 DEF Algos

(* A message is charged exactly the chunks it has to carry, where the bytes *)
(* are a multiple of the group and a chunk is therefore a whole number.     *)
THEOREM ChargesMatch == Spec => []BytesMatchCargo
<1>1. StageInv => BytesMatchCargo
  <2> SUFFICES ASSUME StageInv, AllRouted PROVE BytesMatchCargo
    BY DEF BytesMatchCargo
  <2>1. algos # <<>> /\ Len(costs) = StageCount(algos[1]) /\ CallOk
    BY StageFacts DEF AllRouted, StageInv
  <2>2. PICK a \in Algos : a = algos[1]
    BY <2>1, StageFacts
  <2> SUFFICES ASSUME NEW r \in DOMAIN Counts(a), NEW p \in DOMAIN costs[Counts(a)[r]].tm
               PROVE  costs[Counts(a)[r]].tm[p]
                        = Cardinality(Cargo(a, r, Rank(p[1]), Rank(p[2]))) * (call.bytes \div Group)
    BY <2>2 DEF BytesMatchCargo
  <2>3. r \in 1 .. CountLen(a) /\ Counts(a)[r] = CountAt(a, r) /\ CountAt(a, r) \in 1 .. StageCount(a)
    BY <2>1, CountsAre
  <2>4. PICK k \in 1 .. StageCount(a) : k = CountAt(a, r)
    BY <2>3
  <2>5. costs[k].tm = StageMatrix(a, k)
    BY <2>1, <2>2 DEF StageInv, StagePast
  <2>6. p \in Cells(StageEdges(a, k)) /\ costs[k].tm[p] = StageBytes(a, k)
    BY <2>3, <2>4, <2>5 DEF StageMatrix
  <2>7. Rank(p[1]) \in Ranks /\ Rank(p[2]) \in Ranks
    <3>1. RankEdges(StageEdges(a, k))
      BY <2>1, EdgesAre
    <3>2. p[1] \in Devices(net) /\ p[2] \in Devices(net)
      BY <2>1, <2>6, <3>1, CellsAre
    <3>. QED BY <2>1, <3>2, GroupFacts
  <2>. QED BY <2>1, <2>3, <2>4, <2>6, <2>7, CargoSize
<1>. QED BY <1>1, StageHolds, PTL

(* What is left of a path after its first step.                            *)
LEMMA PathTail ==
  ASSUME NEW g, NEW m, NEW path, NEW d, PathTo(g, m, path, d), path # <<>>
  PROVE  /\ Head(path) \in Nodes(g) /\ Beside(g, m, Head(path)) /\ path[1] = Head(path)
         /\ PathTo(g, Head(path), Tail(path), d)
         /\ Len(Tail(path)) = Len(path) - 1 /\ Len(path) \in Nat \ {0}
         /\ \A i \in 1 .. Len(Tail(path)) : Tail(path)[i] = path[i + 1]
         /\ Simple(m, path) => Simple(Head(path), Tail(path))
<1>1. path \in Seq(Nodes(g))
  BY DEF PathTo
<1>2. Len(path) \in Nat \ {0}
  BY <1>1, EmptySeq
<1>3. /\ Head(path) \in Nodes(g) /\ Tail(path) \in Seq(Nodes(g))
      /\ Len(Tail(path)) = Len(path) - 1
      /\ \A i \in 1 .. Len(Tail(path)) : Tail(path)[i] = path[i + 1]
  BY <1>1, HeadTailProperties
<1>4. Head(path) = path[1]
  BY <1>1
<1>5. PICK n \in Nat : n = Len(path) - 1 /\ n = Len(Tail(path)) /\ Len(path) = n + 1
  <2>1. PICK l \in Nat \ {0} : l = Len(path)
    BY <1>2
  <2>2. PICK n \in Nat : n = l - 1 /\ l = n + 1
    OBVIOUS
  <2>3. n = Len(path) - 1 /\ n = Len(Tail(path)) /\ Len(path) = n + 1
    BY <1>3, <2>1, <2>2
  <2>. QED BY <2>3
<1>6. Beside(g, m, Head(path))
  BY <1>2, <1>4 DEF PathTo
<1>7. PathTo(g, Head(path), Tail(path), d)
  <2>1. Len(Tail(path)) > 0 => Beside(g, Head(path), Tail(path)[1])
    <3> SUFFICES ASSUME n > 0 PROVE Beside(g, Head(path), Tail(path)[1])
      BY <1>5
    <3>1. 1 \in 1 .. n /\ 1 \in 1 .. Len(path) - 1
      BY <1>5
    <3>2. Tail(path)[1] = path[1 + 1]
      BY <1>3, <1>5, <3>1
    <3>3. Beside(g, path[1], path[1 + 1])
      BY <3>1 DEF PathTo
    <3>. QED BY <1>4, <3>2, <3>3
  <2>2. \A i \in 1 .. Len(Tail(path)) - 1 : Beside(g, Tail(path)[i], Tail(path)[i + 1])
    <3> SUFFICES ASSUME NEW i \in 1 .. n - 1 PROVE Beside(g, Tail(path)[i], Tail(path)[i + 1])
      BY <1>5
    <3>1. i \in 1 .. n /\ i + 1 \in 1 .. n /\ i + 1 \in 1 .. Len(path) - 1
      BY <1>5
    <3>2. Tail(path)[i] = path[i + 1] /\ Tail(path)[i + 1] = path[(i + 1) + 1]
      BY <1>3, <1>5, <3>1
    <3>3. Beside(g, path[i + 1], path[(i + 1) + 1])
      BY <3>1 DEF PathTo
    <3>. QED BY <3>2, <3>3
  <2>3. IF Len(Tail(path)) = 0 THEN Head(path) = d ELSE Tail(path)[Len(Tail(path))] = d
    <3>1. path[Len(path)] = d
      BY <1>2 DEF PathTo
    <3>2. CASE n = 0
      BY <1>4, <1>5, <3>1, <3>2, SMTT(60)
    <3>3. CASE n # 0
      <4>1. n \in 1 .. n
        BY <3>3
      <4>2. Tail(path)[n] = path[n + 1]
        BY <1>3, <1>5, <4>1
      <4>. QED BY <1>5, <3>1, <3>3, <4>2
    <3>. QED BY <3>2, <3>3
  <2>. QED BY <1>3, <2>1, <2>2, <2>3 DEF PathTo
<1>8. ASSUME Simple(m, path) PROVE Simple(Head(path), Tail(path))
  <2>1. \A i \in 1 .. n : Tail(path)[i] = path[i + 1] /\ i + 1 \in 1 .. Len(path) /\ i + 1 # 1
    BY <1>3, <1>5
  <2>2. \A i, j \in 1 .. Len(path) : path[i] = path[j] => i = j
    BY <1>8 DEF Simple
  <2>3. 1 \in 1 .. Len(path)
    BY <1>2
  <2>4. \A i \in 1 .. n : Tail(path)[i] # Head(path)
    BY <1>4, <2>1, <2>2, <2>3
  <2>5. \A i, j \in 1 .. n : Tail(path)[i] = Tail(path)[j] => i = j
    <3> SUFFICES ASSUME NEW i \in 1 .. n, NEW j \in 1 .. n, Tail(path)[i] = Tail(path)[j] PROVE i = j
      OBVIOUS
    <3>1. i + 1 = j + 1
      BY <2>1, <2>2
    <3>. QED BY <3>1
  <2>. QED BY <1>5, <2>4, <2>5 DEF Simple
<1>. QED BY <1>2, <1>3, <1>4, <1>6, <1>7, <1>8

(* A path that goes on from where another ends.                            *)
LEMMA PathJoin ==
  ASSUME NEW g, NEW m, NEW p, NEW c, PathTo(g, m, p, c), NEW q, NEW d, PathTo(g, c, q, d)
  PROVE  PathTo(g, m, p \o q, d)
<1>1. p \in Seq(Nodes(g)) /\ q \in Seq(Nodes(g))
  BY DEF PathTo
<1>2. PICK a \in Nat, b \in Nat : a = Len(p) /\ b = Len(q)
  BY <1>1, LenProperties
<1>3. PICK r \in Seq(Nodes(g)) :
        /\ r = p \o q /\ Len(r) = a + b
        /\ \A i \in 1 .. a + b : r[i] = IF i <= a THEN p[i] ELSE q[i - a]
  <2>1. /\ p \o q \in Seq(Nodes(g)) /\ Len(p \o q) = Len(p) + Len(q)
        /\ \A i \in 1 .. Len(p) + Len(q) : (p \o q)[i] =
                     IF i <= Len(p) THEN p[i] ELSE q[i - Len(p)]
    BY <1>1, ConcatProperties
  <2>. QED BY <1>2, <2>1
<1>4. /\ a > 0 => Beside(g, m, p[1]) /\ p[a] = c
      /\ a = 0 => m = c
      /\ b > 0 => Beside(g, c, q[1]) /\ q[b] = d
      /\ b = 0 => c = d
      /\ \A i \in 1 .. a - 1 : Beside(g, p[i], p[i + 1])
      /\ \A i \in 1 .. b - 1 : Beside(g, q[i], q[i + 1])
  BY <1>2 DEF PathTo
<1>5. ASSUME a + b > 0 PROVE Beside(g, m, r[1])
  <2>1. 1 \in 1 .. a + b
    BY <1>5
  <2>2. CASE a = 0
    <3>1. r[1] = q[1] /\ b > 0
      BY <1>3, <1>5, <2>1, <2>2
    <3>. QED BY <1>4, <2>2, <3>1
  <2>3. CASE a > 0
    <3>1. r[1] = p[1]
      BY <1>3, <2>1, <2>3
    <3>. QED BY <1>4, <2>3, <3>1
  <2>. QED BY <2>2, <2>3
<1>6. ASSUME NEW i \in 1 .. (a + b) - 1 PROVE Beside(g, r[i], r[i + 1])
  <2>1. i \in 1 .. a + b /\ i + 1 \in 1 .. a + b
    OBVIOUS
  <2>2. CASE i < a
    <3>1. r[i] = p[i] /\ r[i + 1] = p[i + 1] /\ i \in 1 .. a - 1
      BY <1>3, <2>1, <2>2, SMTT(60)
    <3>. QED BY <1>4, <3>1
  <2>3. CASE i = a
    <3>0. i <= a /\ ~(i + 1 <= a) /\ (i + 1) - a = 1 /\ a > 0 /\ b > 0
      BY <2>3
    <3>1. r[i] = p[a] /\ r[i + 1] = q[1] /\ a > 0 /\ b > 0
      BY <1>3, <2>1, <2>3, <3>0
    <3>. QED BY <1>4, <3>1
  <2>4. CASE i > a
    <3>1. PICK j \in 1 .. b - 1 : j = i - a /\ (i + 1) - a = j + 1
      BY <2>4
    <3>0. ~(i <= a) /\ ~(i + 1 <= a)
      BY <2>4
    <3>2. r[i] = q[j] /\ r[i + 1] = q[j + 1]
      BY <1>3, <2>1, <3>0, <3>1
    <3>. QED BY <1>4, <3>2
  <2>. QED BY <2>2, <2>3, <2>4
<1>7. IF a + b = 0 THEN m = d ELSE r[a + b] = d
  <2>1. CASE a + b = 0
    BY <1>4, <2>1
  <2>2. CASE a + b # 0 /\ b = 0
    <3>1. a + b \in 1 .. a + b /\ a + b = a
      BY <2>2
    <3>2. r[a] = p[a]
      BY <1>3, <3>1
    <3>. QED BY <1>4, <2>2, <3>1, <3>2
  <2>3. CASE b > 0
    <3>1. a + b \in 1 .. a + b /\ ~(a + b <= a) /\ (a + b) - a = b
      BY <2>3
    <3>2. r[a + b] = q[b]
      BY <1>3, <3>1
    <3>. QED BY <1>4, <2>3, <3>2
  <2>. QED BY <2>1, <2>2, <2>3
<1>8. Len(r) = a + b
  BY <1>3
<1>9. PathTo(g, m, r, d)
  BY <1>5, <1>6, <1>7, <1>8 DEF PathTo
<1>. QED BY <1>3, <1>9

(* From a place to itself there is no step.                                *)
LEMMA StepsSelf ==
  ASSUME NEW g, IsGrid(g), NEW s \in Nodes(g)
  PROVE  Steps(g, s, s) = <<>> /\ Distance(g, s, s) = 0
<1>1. PICK path \in Seq(Nodes(g)) : path = Steps(g, s, s) /\ PathTo(g, s, path, s) /\ Simple(s, path)
        /\ Len(path) = Distance(g, s, s)
  BY StepsDirect DEF PathTo
<1>2. path = <<>>
  <2> SUFFICES ASSUME path # <<>> PROVE FALSE
    OBVIOUS
  <2>1. Len(path) \in Nat \ {0}
    BY EmptySeq
  <2>2. path[Len(path)] = s /\ Len(path) \in 1 .. Len(path)
    BY <1>1, <2>1 DEF PathTo
  <2>. QED BY <1>1, <2>2 DEF Simple
<1>3. Len(path) = 0
  BY <1>2, EmptySeq
<1>. QED BY <1>1, <1>2, <1>3

(* The tiles of a chain: from its source's to its destination's, each      *)
(* beside the one before, none of them twice.                              *)
HopsOf(s, d) == <<s>> \o Steps(net.outer, s, d)

TilePath(s, d, hops) ==
  /\ hops \in Seq(Nodes(net.outer)) /\ Len(hops) \in Nat \ {0}
  /\ Len(hops) - 1 = Distance(net.outer, s, d)
  /\ hops[1] = s /\ hops[Len(hops)] = d
  /\ \A i \in 1 .. Len(hops) : hops[i] \in Nodes(net.outer)
  /\ \A i \in 1 .. Len(hops) - 1 : Beside(net.outer, hops[i], hops[i + 1])
  /\ \A i, j \in 1 .. Len(hops) : hops[i] = hops[j] => i = j
  /\ s = d => Len(hops) = 1

(* The hops of a route are tiles, each beside the one before, from the     *)
(* source to the destination.                                              *)
LEMMA HopsAre ==
  ASSUME net \in Nets, NEW s \in Nodes(net.outer), NEW d \in Nodes(net.outer)
  PROVE  TilePath(s, d, HopsOf(s, d))
<1> DEFINE hops == HopsOf(s, d)
<1> HIDE DEF hops
<1>1. IsGrid(net.outer)
  BY NetFacts
<1>2. PICK path : /\ path = Steps(net.outer, s, d) /\ PathTo(net.outer, s, path, d)
                  /\ Simple(s, path) /\ Len(path) = Distance(net.outer, s, d)
  BY <1>1, StepsDirect
<1>3. path \in Seq(Nodes(net.outer))
  BY <1>2 DEF PathTo
<1>4. PICK n \in Nat : n = Len(path)
  BY <1>3, LenProperties
<1>5. <<s>> \in Seq(Nodes(net.outer)) /\ Len(<<s>>) = 1 /\ <<s>>[1] = s
  OBVIOUS
<1>6. /\ hops \in Seq(Nodes(net.outer)) /\ Len(hops) = n + 1 /\ hops[1] = s
      /\ \A i \in 1 .. n : hops[i + 1] = path[i]
  <2>1. hops = <<s>> \o path
    BY <1>2 DEF HopsOf, hops
  <2>2. /\ hops \in Seq(Nodes(net.outer)) /\ Len(hops) = 1 + n
        /\ \A i \in 1 .. 1 + n : hops[i] = IF i <= 1 THEN <<s>>[i] ELSE path[i - 1]
    BY <1>3, <1>4, <1>5, <2>1, ConcatProperties
  <2>3. 1 \in 1 .. 1 + n /\ \A i \in 1 .. n : i + 1 \in 1 .. 1 + n /\ ~(i + 1 <= 1) /\ (i + 1) - 1 = i
    OBVIOUS
  <2>. QED BY <1>5, <2>2, <2>3
<1>7. \A i \in 1 .. n + 1 : i = 1 \/ \E j \in 1 .. n : i = j + 1
  <2> SUFFICES ASSUME NEW i \in 1 .. n + 1, i # 1 PROVE \E j \in 1 .. n : i = j + 1
    OBVIOUS
  <2>1. i - 1 \in 1 .. n /\ i = (i - 1) + 1
    OBVIOUS
  <2>. QED BY <2>1
<1>8. hops[n + 1] = d
  <2>1. CASE n = 0
    BY <1>2, <1>4, <1>6, <2>1 DEF PathTo
  <2>2. CASE n # 0
    <3>1. n \in 1 .. n /\ path[n] = d
      BY <1>2, <1>4, <2>2 DEF PathTo
    <3>. QED BY <1>6, <3>1
  <2>. QED BY <2>1, <2>2
<1>9. \A i \in 1 .. n : Beside(net.outer, hops[i], hops[i + 1])
  <2> SUFFICES ASSUME NEW i \in 1 .. n PROVE Beside(net.outer, hops[i], hops[i + 1])
    OBVIOUS
  <2>1. CASE i = 1
    <3>1. n > 0 /\ Beside(net.outer, s, path[1])
      BY <1>2, <1>4, <2>1 DEF PathTo
    <3>. QED BY <1>6, <2>1, <3>1
  <2>2. CASE i # 1
    <3>1. PICK j \in 1 .. n - 1 : i = j + 1
      <4>1. i - 1 \in 1 .. n - 1 /\ i = (i - 1) + 1
        BY <2>2
      <4>. QED BY <4>1
    <3>2. Beside(net.outer, path[j], path[j + 1])
      BY <1>2, <1>4 DEF PathTo
    <3>3. j \in 1 .. n /\ j + 1 \in 1 .. n
      OBVIOUS
    <3>. QED BY <1>6, <3>1, <3>2, <3>3
  <2>. QED BY <2>1, <2>2
<1>10. \A i, j \in 1 .. n + 1 : hops[i] = hops[j] => i = j
  <2>1. \A i \in 1 .. n : path[i] # s
    BY <1>2, <1>4 DEF Simple
  <2>2. \A i, j \in 1 .. n : path[i] = path[j] => i = j
    BY <1>2, <1>4 DEF Simple
  <2> SUFFICES ASSUME NEW i \in 1 .. n + 1, NEW j \in 1 .. n + 1, hops[i] = hops[j]
               PROVE  i = j
    OBVIOUS
  <2>3. CASE i = 1 /\ j = 1
    BY <2>3
  <2>4. CASE i = 1 /\ j # 1
    <3>1. PICK k \in 1 .. n : j = k + 1
      BY <1>7, <2>4
    <3>. QED BY <1>6, <2>1, <2>4, <3>1
  <2>5. CASE i # 1 /\ j = 1
    <3>1. PICK k \in 1 .. n : i = k + 1
      BY <1>7, <2>5
    <3>. QED BY <1>6, <2>1, <2>5, <3>1
  <2>6. CASE i # 1 /\ j # 1
    <3>1. PICK k \in 1 .. n : i = k + 1
      BY <1>7, <2>6
    <3>2. PICK l \in 1 .. n : j = l + 1
      BY <1>7, <2>6
    <3>3. path[k] = path[l]
      BY <1>6, <3>1, <3>2
    <3>. QED BY <2>2, <3>1, <3>2, <3>3
  <2>. QED BY <2>3, <2>4, <2>5, <2>6
<1>11. \A i \in 1 .. n + 1 : hops[i] \in Nodes(net.outer)
  BY <1>6, ElementOfSeq
<1>12. s = d => n = 0
  <2> SUFFICES ASSUME s = d PROVE n = 0
    OBVIOUS
  <2>1. path = <<>>
    BY <1>1, <1>2, StepsSelf
  <2>. QED BY <1>4, <2>1
<1>13. n + 1 \in Nat \ {0} /\ (n + 1) - 1 = n
  OBVIOUS
<1>14. TilePath(s, d, hops)
  BY <1>2, <1>4, <1>6, <1>8, <1>9, <1>10, <1>11, <1>12, <1>13 DEF TilePath
<1>. QED BY <1>14 DEF hops

(* A chain: at a switch of the tile its crossings put it in, on a path     *)
(* along its leg to the switch it aims for in that tile.                   *)
Aim(x) == IF x.hop = Len(x.hops) THEN Place(x.dst)[2] ELSE Exit(x.src, x.dst, x.hops, x.hop)

ChainIs(x) ==
  /\ x = [src |-> x.src, dst |-> x.dst, bytes |-> x.bytes, at |-> x.at, hops |-> x.hops,
          hop |-> x.hop, leg |-> x.leg, past |-> x.past, walked |-> x.walked, time |-> x.time]
  /\ x.src \in Devices(net) /\ x.dst \in Devices(net)
  /\ x.walked \in Nat /\ x.time \in Nat
  /\ x.hops = HopsOf(Place(x.src)[1], Place(x.dst)[1])
  /\ x.hop \in 1 .. Len(x.hops)

ChainAt(x) ==
  /\ x.at = Centre(net, x.hops[x.hop], x.at[2]) /\ x.at[2] \in Nodes(net.middle)
  /\ PathTo(net.middle, x.at[2], x.leg, Aim(x))
  /\ Place(x.src)[1] = Place(x.dst)[1] =>
       x.walked + Len(x.leg) = Distance(net.middle, Place(x.src)[2], Place(x.dst)[2])

(* It has been at switches of earlier tiles, and at switches of this one   *)
(* that are not on the rest of its leg.                                    *)
ChainNew(x) ==
  /\ Simple(x.at[2], x.leg)
  /\ \A v \in x.past : \E j \in 1 .. x.hop, q \in Nodes(net.middle) :
       /\ v = Centre(net, x.hops[j], q)
       /\ j = x.hop => q # x.at[2] /\ \A k \in 1 .. Len(x.leg) : q # x.leg[k]

ChainOk(x) == ChainIs(x) /\ ChainAt(x) /\ (PortsAgree(net) => ChainNew(x))

TodoOk(T, M) ==
  \A x \in T : /\ <<x.src, x.dst>> \in DOMAIN M
               /\ x = [src |-> x.src, dst |-> x.dst, bytes |-> M[<<x.src, x.dst>>]]

RouteInv ==
  /\ TodoOk(todo, tm) /\ slowest \in Nat
  /\ route # None =>
       /\ ChainOk(route) /\ <<route.src, route.dst>> \in DOMAIN tm
       /\ route.bytes = tm[<<route.src, route.dst>>]

(* What depends on the network alone does not change with it.              *)
LEMMA NetSame ==
  ASSUME UNCHANGED net
  PROVE  /\ \A d : Place(d)' = Place(d)
         /\ \A s, d : HopsOf(s, d)' = HopsOf(s, d)
         /\ \A x : /\ ChainIs(x)' <=> ChainIs(x)
                   /\ ChainAt(x)' <=> ChainAt(x)
                   /\ ChainNew(x)' <=> ChainNew(x)
                   /\ ChainOk(x)' <=> ChainOk(x)
<1>1. net' = net
  OBVIOUS
<1>2. \A d : Place(d)' = Place(d)
  BY <1>1 DEF Place
<1>3. \A s, d : HopsOf(s, d)' = HopsOf(s, d)
  BY <1>1 DEF HopsOf
<1>4. \A dir : PortCount(dir)' = PortCount(dir)
  BY <1>1 DEF PortCount
<1>5. \A s, d, hops, i : Exit(s, d, hops, i)' = Exit(s, d, hops, i)
  BY <1>1, <1>4 DEF Exit
<1>6. \A x : Aim(x)' = Aim(x)
  BY <1>2, <1>5 DEF Aim
<1>7. \A x : ChainIs(x)' <=> ChainIs(x)
  BY <1>1, <1>2, <1>3 DEF ChainIs
<1>8. \A x : ChainAt(x)' <=> ChainAt(x)
  BY <1>1, <1>2, <1>6 DEF ChainAt
<1>9. \A x : ChainNew(x)' <=> ChainNew(x)
  BY <1>1 DEF ChainNew
<1>10. \A x : ChainOk(x)' <=> ChainOk(x)
  BY <1>1, <1>7, <1>8, <1>9 DEF ChainOk
<1>. QED BY <1>2, <1>3, <1>7, <1>8, <1>9, <1>10

(* The matrix being routed: pairs of different devices, with their bytes.  *)
MatrixOk(M) ==
  /\ IsFiniteSet(DOMAIN M) /\ DOMAIN M # {}
  /\ \A p \in DOMAIN M : /\ p = <<p[1], p[2]>> /\ p[1] \in Devices(net) /\ p[2] \in Devices(net)
                         /\ M[p] \in Nat

(* While a stage is routed, the matrix holds numbers of bytes between      *)
(* distinct devices.                                                       *)
LEMMA MatrixIs ==
  ASSUME StageInv, sent
  PROVE  MatrixOk(tm)
<1>1. algos # <<>>
  BY DEF StageInv, StageIdle
<1>2. PICK a \in Algos : a = algos[1]
  BY <1>1, StageFacts
<1>3. PICK k \in Nat : k = Len(costs) + 1
  BY <1>1, StageFacts
<1>4. k \in 1 .. StageCount(a)
  <2>1. Len(costs) < StageCount(a) /\ StageCount(a) \in Nat /\ Len(costs) \in Nat
    BY <1>1, <1>2, StageFacts DEF StageInv, StageProgress
  <2>. QED BY <1>3, <2>1
<1>5. RankEdges(StageEdges(a, k)) /\ StageBytes(a, k) \in Nat /\ CallOk
  BY <1>4, EdgesAre DEF StageInv
<1>6. PICK b \in Nat : b = StageBytes(a, k)
  BY <1>5
<1>7. PICK E : E = StageEdges(a, k) /\ RankEdges(E)
  BY <1>5
<1>8. tm = [p \in Cells(E) |-> b]
  BY <1>2, <1>3, <1>6, <1>7 DEF StageInv, StageHeld, StageMatrix
<1>9. DOMAIN tm = Cells(E) /\ \A p \in Cells(E) : tm[p] = b
  BY <1>8
<1>10. /\ Cells(E) # {} /\ IsFiniteSet(Cells(E))
       /\ \A p \in Cells(E) : p = <<p[1], p[2]>> /\ p[1] \in Devices(net) /\ p[2] \in Devices(net)
  BY <1>5, <1>7, CellsAre
<1>. QED BY <1>9, <1>10 DEF MatrixOk

(* Every move has a layer, and every layer a latency.                      *)
LEMMA LatencyIs == \A a, b : Moved(a, b) \in Layers /\ Latency[Moved(a, b)] \in Nat
<1>1. \A a, b : Moved(a, b) \in Layers
  BY DEF Moved, Layers
<1>2. \A l \in Layers : Latency[l] \in Nat
  BY NetAssumption
<1>. QED BY <1>1, <1>2

(* A hop leaves by the side its ports are counted over.                    *)
LEMMA HopPorts ==
  ASSUME net \in Nets, NEW x, ChainIs(x), NEW i \in 1 .. Len(x.hops) - 1
  PROVE  /\ Exit(x.src, x.dst, x.hops, i) \in Nodes(net.middle)
         /\ Entry(x.src, x.dst, x.hops, i) \in Nodes(net.middle)
         /\ Foreseen(x.src, x.dst, x.hops, i) \in Nodes(net.middle)
         /\ PortsAgree(net) => Foreseen(x.src, x.dst, x.hops, i) = Exit(x.src, x.dst, x.hops, i)
<1>1. IsPlace(Place(x.src)) /\ IsPlace(Place(x.dst)) /\ x.src \in Nat /\ x.dst \in Nat
  BY PlaceFacts DEF ChainIs
<1>2. PICK hops : hops = x.hops
  OBVIOUS
<1>3. Beside(net.outer, hops[i], hops[i + 1]) /\ hops[i] \in Nodes(net.outer)
      /\ hops[i + 1] \in Nodes(net.outer) /\ i \in Nat \ {0}
  <2>1. PICK s \in Nodes(net.outer) : s = Place(x.src)[1]
    BY <1>1 DEF IsPlace
  <2>2. PICK d \in Nodes(net.outer) : d = Place(x.dst)[1]
    BY <1>1 DEF IsPlace
  <2>3. hops = HopsOf(s, d)
    BY <1>2, <2>1, <2>2 DEF ChainIs
  <2>4. /\ Len(hops) \in Nat \ {0}
        /\ \A k \in 1 .. Len(hops) : hops[k] \in Nodes(net.outer)
        /\ \A k \in 1 .. Len(hops) - 1 : Beside(net.outer, hops[k], hops[k + 1])
    BY <2>3, HopsAre DEF TilePath
  <2>5. i \in 1 .. Len(hops) /\ i + 1 \in 1 .. Len(hops)
    BY <1>2, <2>4
  <2>. QED BY <1>2, <2>4, <2>5
<1>4. PICK dir : dir = HopDir(net.outer, hops[i], hops[i + 1])
  OBVIOUS
<1>5. PICK u, v : u = hops[i] /\ v = hops[i + 1]
  OBVIOUS
<1>6. PortsAgree(net) => SideLen(net.middle, dir) <= SideLen(net.outer, dir)
  <2> SUFFICES ASSUME PortsAgree(net) PROVE SideLen(net.middle, dir) <= SideLen(net.outer, dir)
    OBVIOUS
  <2>1. Row(net.outer, u) \in 0 .. net.outer.rows - 1 /\ Row(net.outer, v) \in 0 .. net.outer.rows - 1
        /\ Col(net.outer, u) \in 0 .. net.outer.cols - 1 /\ Col(net.outer, v) \in 0 .. net.outer.cols - 1
        /\ net.outer.rows \in Length /\ net.outer.cols \in Length
        /\ u = Id(net.outer, Row(net.outer, u), Col(net.outer, u))
        /\ v = Id(net.outer, Row(net.outer, v), Col(net.outer, v))
    BY <1>3, <1>5, NetFacts, GridPlace
  <2>2. CASE Row(net.outer, u) # Row(net.outer, v)
    <3>1. net.outer.rows > 1
      BY <2>1, <2>2 DEF Length
    <3>2. dir \in {"down", "up"}
      BY <1>4, <1>5, <2>2 DEF HopDir
    <3>. QED BY <3>1, <3>2 DEF PortsAgree, SideLen
  <2>3. CASE Row(net.outer, u) = Row(net.outer, v)
    <3>1. Col(net.outer, u) # Col(net.outer, v)
      BY <1>3, <1>5, <2>1, <2>3 DEF Beside
    <3>2. net.outer.cols > 1
      BY <2>1, <3>1 DEF Length
    <3>3. dir \in {"left", "right"}
      BY <1>4, <1>5, <2>3 DEF HopDir
    <3>. QED BY <3>2, <3>3 DEF PortsAgree, SideLen
  <2>. QED BY <2>2, <2>3
<1>7. PICK src \in Nat, dst \in Nat : src = x.src /\ dst = x.dst
  BY <1>1
<1>8. /\ Exit(src, dst, hops, i) \in Nodes(net.middle)
      /\ Entry(src, dst, hops, i) \in Nodes(net.middle)
      /\ Foreseen(src, dst, hops, i) \in Nodes(net.middle)
      /\ SideLen(net.middle, dir) <= SideLen(net.outer, dir)
              => Foreseen(src, dst, hops, i) = Exit(src, dst, hops, i)
  <2>1. net \in Nets /\ i \in Nat \ {0} /\ dir = HopDir(net.outer, hops[i], hops[i + 1])
    BY <1>3, <1>4
  <2>2. Exit(src, dst, hops, i) \in Nodes(net.middle)
    BY <2>1, CrossingPorts
  <2>3. Entry(src, dst, hops, i) \in Nodes(net.middle)
    BY <2>1, CrossingPorts
  <2>4. Foreseen(src, dst, hops, i) \in Nodes(net.middle)
    BY <2>1, CrossingPorts
  <2>5. SideLen(net.middle, dir) <= SideLen(net.outer, dir)
              => Foreseen(src, dst, hops, i) = Exit(src, dst, hops, i)
    BY <2>1, CrossingPorts
  <2>. QED BY <2>2, <2>3, <2>4, <2>5
<1>. QED BY <1>2, <1>6, <1>7, <1>8

(* The tiles of a chain.                                                   *)
LEMMA ChainHops ==
  ASSUME net \in Nets, NEW x, ChainIs(x)
  PROVE  /\ IsPlace(Place(x.src)) /\ IsPlace(Place(x.dst))
         /\ TilePath(Place(x.src)[1], Place(x.dst)[1], x.hops)
<1>1. IsPlace(Place(x.src)) /\ IsPlace(Place(x.dst))
  BY PlaceFacts DEF ChainIs
<1>2. PICK s \in Nodes(net.outer) : s = Place(x.src)[1]
  BY <1>1 DEF IsPlace
<1>3. PICK d \in Nodes(net.outer) : d = Place(x.dst)[1]
  BY <1>1 DEF IsPlace
<1>4. x.hops = HopsOf(s, d)
  BY <1>2, <1>3 DEF ChainIs
<1>5. TilePath(s, d, HopsOf(s, d))
  BY HopsAre
<1>. QED BY <1>1, <1>2, <1>3, <1>4, <1>5, Zenon

(* A chain departs along a path to where it aims.                          *)
LEMMA DepartChain ==
  ASSUME net \in Nets, NEW src \in Devices(net), NEW dst \in Devices(net), NEW b,
         NEW lat \in Nat, NEW hops, hops = HopsOf(Place(src)[1], Place(dst)[1]),
         NEW aim, aim = (IF Len(hops) = 1 THEN Place(dst)[2] ELSE Exit(src, dst, hops, 1)),
         NEW y, y = [src |-> src, dst |-> dst, bytes |-> b,
                     at |-> Centre(net, Place(src)[1], Place(src)[2]), hops |-> hops, hop |-> 1,
                     leg |-> Steps(net.middle, Place(src)[2], aim),
                     past |-> {}, walked |-> 0, time |-> lat]
  PROVE  ChainOk(y)
<1>1. PICK leg : leg = Steps(net.middle, Place(src)[2], aim)
  OBVIOUS
<1>2. /\ y.src = src /\ y.dst = dst /\ y.bytes = b
      /\ y.at = Centre(net, Place(src)[1], Place(src)[2])
      /\ y.hops = hops /\ y.hop = 1 /\ y.leg = leg /\ y.past = {} /\ y.walked = 0 /\ y.time = lat
  BY <1>1
<1>3. IsPlace(Place(src)) /\ IsPlace(Place(dst))
  BY PlaceFacts
<1>4. Len(hops) \in Nat \ {0}
  <2>1. PICK s \in Nodes(net.outer) : s = Place(src)[1]
    BY <1>3 DEF IsPlace
  <2>2. PICK d \in Nodes(net.outer) : d = Place(dst)[1]
    BY <1>3 DEF IsPlace
  <2>3. TilePath(s, d, HopsOf(s, d))
    BY HopsAre
  <2>. QED BY <2>1, <2>2, <2>3 DEF TilePath
<1>5. ChainIs(y)
  BY <1>2, <1>4 DEF ChainIs
<1>6. PICK h : h = Len(hops) /\ h \in Nat \ {0}
  BY <1>4
<1>7. Aim(y) = aim
  BY <1>2 DEF Aim
<1>8. aim \in Nodes(net.middle)
  <2>1. CASE h = 1
    BY <1>3, <1>6, <2>1 DEF IsPlace
  <2>2. CASE h # 1
    <3>1. 1 \in 1 .. Len(y.hops) - 1
      <4>1. Len(y.hops) = h
        BY <1>2, <1>6
      <4>2. 1 \in 1 .. h - 1
        <5>1. \A k \in Nat \ {0} : k # 1 => 1 \in 1 .. k - 1
          OBVIOUS
        <5>. QED BY <1>6, <2>2, <5>1
      <4>. QED BY <4>1, <4>2
    <3>2. Exit(y.src, y.dst, y.hops, 1) \in Nodes(net.middle)
      BY <1>5, <3>1, HopPorts
    <3>. QED BY <1>2, <1>6, <2>2, <3>2
  <2>. QED BY <2>1, <2>2
<1>9. PICK m \in Nodes(net.middle) : m = Place(src)[2]
  BY <1>3 DEF IsPlace
<1>10. /\ Len(leg) = Distance(net.middle, m, aim)
       /\ PathTo(net.middle, m, leg, aim) /\ Simple(m, leg)
  BY <1>1, <1>8, <1>9, NetFacts, StepsDirect
<1>11. y.at = <<Place(src)[1], m, net.ports>> /\ y.at[2] = m
  BY <1>2, <1>9 DEF Centre
<1>12. hops[1] = Place(src)[1] /\ (Place(src)[1] = Place(dst)[1] => h = 1)
  <2>1. TilePath(Place(src)[1], Place(dst)[1], hops)
    BY <1>2, <1>5, ChainHops
  <2>. QED BY <1>6, <2>1 DEF TilePath
<1>13. ChainAt(y)
  <2>1. y.at = Centre(net, y.hops[y.hop], y.at[2])
    BY <1>2, <1>11, <1>12 DEF Centre
  <2>2. Place(y.src)[1] = Place(y.dst)[1] =>
          y.walked + Len(y.leg) = Distance(net.middle, Place(y.src)[2], Place(y.dst)[2])
    <3>1. Len(leg) \in Nat
      BY <1>10, LenProperties DEF PathTo
    <3>2. h = 1 => aim = Place(dst)[2]
      BY <1>6
    <3>. QED BY <1>2, <1>9, <1>10, <1>12, <3>1, <3>2
  <2>. QED BY <1>2, <1>7, <1>9, <1>10, <1>11, <2>1, <2>2 DEF ChainAt
<1>14. ChainNew(y)
  BY <1>2, <1>10, <1>11 DEF ChainNew
<1>. QED BY <1>5, <1>13, <1>14 DEF ChainOk

(* A step inside a tile keeps to the leg.                                  *)
LEMMA WalkChain ==
  ASSUME net \in Nets, NEW x, ChainOk(x), x.leg # <<>>, NEW lat \in Nat,
         NEW b, b = Centre(net, x.at[1], Head(x.leg)),
         NEW y, y = [x EXCEPT !.at = b, !.leg = Tail(x.leg), !.walked = x.walked + 1,
                       !.past = x.past \cup {x.at}, !.time = lat]
  PROVE  ChainOk(y)
<1>1. /\ y = [src |-> x.src, dst |-> x.dst, bytes |-> x.bytes, at |-> b, hops |-> x.hops,
              hop |-> x.hop, leg |-> Tail(x.leg), past |-> x.past \cup {x.at},
              walked |-> x.walked + 1, time |-> lat]
  BY DEF ChainOk, ChainIs
<1>2. /\ y.src = x.src /\ y.dst = x.dst /\ y.bytes = x.bytes /\ y.at = b /\ y.hops = x.hops
      /\ y.hop = x.hop /\ y.leg = Tail(x.leg) /\ y.past = x.past \cup {x.at}
      /\ y.walked = x.walked + 1 /\ y.time = lat
  BY <1>1
<1>3. x.walked \in Nat /\ x.hop \in 1 .. Len(x.hops)
  BY DEF ChainOk, ChainIs
<1>4. ChainIs(y)
  <2>1. /\ x.src \in Devices(net) /\ x.dst \in Devices(net)
        /\ x.hops = HopsOf(Place(x.src)[1], Place(x.dst)[1])
    BY DEF ChainOk, ChainIs
  <2>2. y.walked \in Nat /\ y.time \in Nat
    BY <1>2, <1>3
  <2>3. y = [src |-> y.src, dst |-> y.dst, bytes |-> y.bytes, at |-> y.at, hops |-> y.hops,
             hop |-> y.hop, leg |-> y.leg, past |-> y.past, walked |-> y.walked, time |-> y.time]
    BY <1>1
  <2>4. /\ y.src \in Devices(net) /\ y.dst \in Devices(net)
        /\ y.hops = HopsOf(Place(y.src)[1], Place(y.dst)[1]) /\ y.hop \in 1 .. Len(y.hops)
    BY <1>2, <1>3, <2>1, Zenon
  <2>. QED BY <2>2, <2>3, <2>4 DEF ChainIs
<1>5. PICK m : m = x.at[2]
  OBVIOUS
<1>6. PICK leg : leg = x.leg
  OBVIOUS
<1>7. PICK aim : aim = Aim(x)
  OBVIOUS
<1>8. PathTo(net.middle, m, leg, aim) /\ leg # <<>> /\ m \in Nodes(net.middle)
  BY <1>5, <1>6, <1>7 DEF ChainOk, ChainAt
<1>9. /\ Head(leg) \in Nodes(net.middle) /\ leg[1] = Head(leg)
      /\ PathTo(net.middle, Head(leg), Tail(leg), aim)
      /\ Len(Tail(leg)) = Len(leg) - 1 /\ Len(leg) \in Nat \ {0}
      /\ \A i \in 1 .. Len(Tail(leg)) : Tail(leg)[i] = leg[i + 1]
      /\ Simple(m, leg) => Simple(Head(leg), Tail(leg))
  BY <1>8, PathTail
<1>10. Aim(y) = aim
  BY <1>2, <1>7 DEF Aim
<1>11. x.at = <<x.hops[x.hop], m, net.ports>>
  BY <1>5 DEF ChainOk, ChainAt, Centre
<1>12. y.at = <<x.hops[x.hop], Head(leg), net.ports>> /\ y.at[2] = Head(leg)
  BY <1>2, <1>6, <1>11 DEF Centre
<1>13. ChainAt(y)
  <2>1. Place(x.src)[1] = Place(x.dst)[1] =>
          x.walked + Len(leg) = Distance(net.middle, Place(x.src)[2], Place(x.dst)[2])
    BY <1>6 DEF ChainOk, ChainAt
  <2>2. x.walked + Len(leg) = (x.walked + 1) + Len(Tail(leg))
    BY <1>3, <1>9
  <2>3. Place(y.src)[1] = Place(y.dst)[1] =>
          y.walked + Len(y.leg) = Distance(net.middle, Place(y.src)[2], Place(y.dst)[2])
    BY <1>2, <1>6, <2>1, <2>2
  <2>4. y.at = Centre(net, y.hops[y.hop], y.at[2]) /\ y.at[2] \in Nodes(net.middle)
    BY <1>2, <1>9, <1>12 DEF Centre
  <2>5. PathTo(net.middle, y.at[2], y.leg, Aim(y))
    BY <1>2, <1>6, <1>9, <1>10, <1>12
  <2>. QED BY <2>3, <2>4, <2>5 DEF ChainAt
<1>14. ASSUME PortsAgree(net) PROVE ChainNew(y)
  <2>1. ChainNew(x)
    BY <1>14 DEF ChainOk
  <2>2. Simple(m, leg)
    BY <1>5, <1>6, <2>1 DEF ChainNew
  <2>3. \A v \in x.past : \E j \in 1 .. x.hop, q \in Nodes(net.middle) :
          /\ v = Centre(net, x.hops[j], q)
          /\ j = x.hop => q # m /\ \A k \in 1 .. Len(leg) : q # leg[k]
    BY <1>5, <1>6, <2>1 DEF ChainNew
  <2>4. \A v \in x.past : \E j \in 1 .. x.hop, q \in Nodes(net.middle) :
          /\ v = Centre(net, x.hops[j], q)
          /\ j = x.hop => q # Head(leg) /\ \A k \in 1 .. Len(Tail(leg)) : q # Tail(leg)[k]
    <3> SUFFICES ASSUME NEW v \in x.past
                 PROVE  \E j \in 1 .. x.hop, q \in Nodes(net.middle) :
                          /\ v = Centre(net, x.hops[j], q)
                          /\ j = x.hop => q # Head(leg) /\ \A k \in 1 .. Len(Tail(leg)) : q # Tail(leg)[k]
      OBVIOUS
    <3>1. PICK j \in 1 .. x.hop : \E q \in Nodes(net.middle) :
            /\ v = Centre(net, x.hops[j], q)
            /\ j = x.hop => q # m /\ \A k \in 1 .. Len(leg) : q # leg[k]
      BY <2>3
    <3>2. PICK q \in Nodes(net.middle) :
            /\ v = Centre(net, x.hops[j], q)
            /\ j = x.hop => q # m /\ \A k \in 1 .. Len(leg) : q # leg[k]
      BY <3>1
    <3>3. 1 \in 1 .. Len(leg) /\ \A k \in 1 .. Len(Tail(leg)) : k + 1 \in 1 .. Len(leg)
      BY <1>9
    <3>4. j = x.hop => q # Head(leg) /\ \A k \in 1 .. Len(Tail(leg)) : q # Tail(leg)[k]
      BY <1>9, <3>2, <3>3
    <3>. QED BY <3>2, <3>4
  <2>5. /\ x.at = Centre(net, x.hops[x.hop], m) /\ m # Head(leg)
        /\ \A k \in 1 .. Len(Tail(leg)) : m # Tail(leg)[k]
    <3>1. 1 \in 1 .. Len(leg) /\ \A k \in 1 .. Len(Tail(leg)) : k + 1 \in 1 .. Len(leg)
      BY <1>9
    <3>. QED BY <1>9, <1>11, <2>2, <3>1 DEF Simple, Centre
  <2>6. x.hop \in 1 .. x.hop
    BY <1>3
  <2>7. \A v \in y.past : \E j \in 1 .. x.hop, q \in Nodes(net.middle) :
          /\ v = Centre(net, x.hops[j], q)
          /\ j = x.hop => q # Head(leg) /\ \A k \in 1 .. Len(Tail(leg)) : q # Tail(leg)[k]
    BY <1>2, <1>8, <2>4, <2>5, <2>6
  <2>8. Simple(y.at[2], y.leg)
    BY <1>2, <1>6, <1>9, <1>12, <2>2
  <2>9. y.hop = x.hop /\ y.hops = x.hops /\ y.at[2] = Head(leg) /\ y.leg = Tail(leg)
    BY <1>2, <1>6, <1>12
  <2>10. \A v \in y.past : \E j \in 1 .. y.hop, q \in Nodes(net.middle) :
          /\ v = Centre(net, y.hops[j], q)
          /\ j = y.hop => q # y.at[2] /\ \A k \in 1 .. Len(y.leg) : q # y.leg[k]
    <3> SUFFICES ASSUME NEW v \in y.past
                 PROVE  \E j \in 1 .. y.hop, q \in Nodes(net.middle) :
                          /\ v = Centre(net, y.hops[j], q)
                          /\ j = y.hop => q # y.at[2] /\ \A k \in 1 .. Len(y.leg) : q # y.leg[k]
      OBVIOUS
    <3>1. PICK j \in 1 .. x.hop : \E q \in Nodes(net.middle) :
            /\ v = Centre(net, x.hops[j], q)
            /\ j = x.hop => q # Head(leg) /\ \A k \in 1 .. Len(Tail(leg)) : q # Tail(leg)[k]
      BY <2>7
    <3>2. PICK q \in Nodes(net.middle) :
            /\ v = Centre(net, x.hops[j], q)
            /\ j = x.hop => q # Head(leg) /\ \A k \in 1 .. Len(Tail(leg)) : q # Tail(leg)[k]
      BY <3>1
    <3>3. j \in 1 .. y.hop
      BY <2>9
    <3>4. v = Centre(net, y.hops[j], q)
      BY <2>9, <3>2, Zenon
    <3>5. j = y.hop => q # y.at[2] /\ \A k \in 1 .. Len(y.leg) : q # y.leg[k]
      BY <2>9, <3>2, Zenon
    <3>. QED BY <3>3, <3>4, <3>5, Zenon
  <2>. QED BY <2>8, <2>10 DEF ChainNew
<1>. QED BY <1>4, <1>13, <1>14 DEF ChainOk

(* The leg that follows a crossing by hop i, entered at a switch.          *)
NextLeg(x, i, in) ==
  IF i + 1 = Len(x.hops) THEN Steps(net.middle, in, Place(x.dst)[2])
  ELSE LET seen == Foreseen(x.src, x.dst, x.hops, i + 1)
       IN  Steps(net.middle, in, seen)
             \o Steps(net.middle, seen, Exit(x.src, x.dst, x.hops, i + 1))

(* A crossing leads to the next tile, and its leg to where to leave that.  *)
LEMMA CrossChain ==
  ASSUME net \in Nets, NEW x, ChainOk(x), x.leg = <<>>, x.hop < Len(x.hops), NEW lat \in Nat,
         NEW i, i = x.hop, NEW in, in = Entry(x.src, x.dst, x.hops, i),
         NEW b, b = Centre(net, x.hops[i + 1], in),
         NEW leg, leg = NextLeg(x, i, in),
         NEW y, y = [x EXCEPT !.at = b, !.leg = leg, !.hop = i + 1,
                       !.past = x.past \cup {x.at}, !.time = lat]
  PROVE  ChainOk(y)
<1>1. y = [src |-> x.src, dst |-> x.dst, bytes |-> x.bytes, at |-> b, hops |-> x.hops,
           hop |-> i + 1, leg |-> leg, past |-> x.past \cup {x.at},
           walked |-> x.walked, time |-> lat]
  BY DEF ChainOk, ChainIs
<1>2. /\ y.src = x.src /\ y.dst = x.dst /\ y.at = b /\ y.hops = x.hops
      /\ y.hop = i + 1 /\ y.leg = leg /\ y.past = x.past \cup {x.at}
      /\ y.walked = x.walked /\ y.time = lat
  BY <1>1
<1>3. ChainIs(x) /\ IsPlace(Place(x.dst)) /\ TilePath(Place(x.src)[1], Place(x.dst)[1], x.hops)
  BY ChainHops DEF ChainOk
<1>4. PICK h \in Nat : h = Len(x.hops)
  BY <1>3 DEF TilePath
<1>5. i \in 1 .. h /\ i < h /\ i + 1 \in 1 .. h /\ i \in 1 .. h - 1 /\ h # 1
  <2>1. i \in 1 .. h /\ i < h
    BY <1>3, <1>4 DEF ChainIs
  <2>. QED BY <2>1
<1>6. ChainIs(y)
  <2>1. /\ x.src \in Devices(net) /\ x.dst \in Devices(net) /\ x.walked \in Nat
        /\ x.hops = HopsOf(Place(x.src)[1], Place(x.dst)[1])
    BY <1>3 DEF ChainIs
  <2>2. y.walked \in Nat /\ y.time \in Nat
    BY <1>2, <2>1
  <2>3. y = [src |-> y.src, dst |-> y.dst, bytes |-> y.bytes, at |-> y.at, hops |-> y.hops,
             hop |-> y.hop, leg |-> y.leg, past |-> y.past, walked |-> y.walked, time |-> y.time]
    BY <1>1
  <2>4. /\ y.src \in Devices(net) /\ y.dst \in Devices(net)
        /\ y.hops = HopsOf(Place(y.src)[1], Place(y.dst)[1])
    BY <1>2, <2>1, Zenon
  <2>5. y.hop \in 1 .. Len(y.hops)
    BY <1>2, <1>4, <1>5
  <2>. QED BY <2>2, <2>3, <2>4, <2>5 DEF ChainIs
<1>7. in \in Nodes(net.middle)
  BY <1>3, <1>4, <1>5, HopPorts
<1>8. b = <<x.hops[i + 1], in, net.ports>> /\ y.at[2] = in
  BY <1>2 DEF Centre
<1>9. PICK aim : aim = Aim(y)
  OBVIOUS
<1>10. PathTo(net.middle, in, leg, aim) /\ (PortsAgree(net) => Simple(in, leg))
  <2>1. CASE i + 1 = h
    <3>1. aim = Place(x.dst)[2] /\ aim \in Nodes(net.middle)
      BY <1>2, <1>3, <1>4, <1>9, <2>1 DEF Aim, IsPlace
    <3>2. leg = Steps(net.middle, in, aim)
      BY <1>4, <2>1, <3>1 DEF NextLeg
    <3>. QED BY <1>7, <3>1, <3>2, NetFacts, StepsDirect
  <2>2. CASE i + 1 # h
    <3>1. aim = Exit(x.src, x.dst, x.hops, i + 1)
      BY <1>2, <1>4, <1>9, <2>2 DEF Aim
    <3>2. i + 1 \in 1 .. Len(x.hops) - 1
      BY <1>4, <1>5, <2>2
    <3>3. PICK seen : seen = Foreseen(x.src, x.dst, x.hops, i + 1)
      OBVIOUS
    <3>4. PICK j : j = i + 1
      OBVIOUS
    <3>5. /\ aim \in Nodes(net.middle) /\ seen \in Nodes(net.middle)
          /\ PortsAgree(net) => seen = aim
      BY <1>3, <3>1, <3>2, <3>3, <3>4, HopPorts
    <3>6. leg = Steps(net.middle, in, seen) \o Steps(net.middle, seen, aim)
      BY <1>4, <2>2, <3>1, <3>3 DEF NextLeg
    <3>7. PICK p, q : p = Steps(net.middle, in, seen) /\ q = Steps(net.middle, seen, aim)
      OBVIOUS
    <3>8. PathTo(net.middle, in, p, seen) /\ Simple(in, p) /\ PathTo(net.middle, seen, q, aim)
      BY <1>7, <3>5, <3>7, NetFacts, StepsDirect
    <3>9. PathTo(net.middle, in, p \o q, aim)
      BY <3>8, PathJoin
    <3>10. ASSUME PortsAgree(net) PROVE Simple(in, leg)
      <4>1. q = <<>>
        BY <3>5, <3>7, <3>10, NetFacts, StepsSelf
      <4>2. p \o q = p
        <5>1. p \in Seq(Nodes(net.middle))
          BY <3>8 DEF PathTo
        <5>. QED BY <4>1, <5>1
      <4>. QED BY <3>6, <3>7, <3>8, <4>2
    <3>. QED BY <3>6, <3>7, <3>9, <3>10
  <2>. QED BY <2>1, <2>2
<1>11. ChainAt(y)
  <2>1. y.at = Centre(net, y.hops[y.hop], y.at[2]) /\ y.at[2] \in Nodes(net.middle)
    BY <1>2, <1>7, <1>8 DEF Centre
  <2>2. PathTo(net.middle, y.at[2], y.leg, Aim(y))
    BY <1>2, <1>8, <1>9, <1>10
  <2>3. Place(y.src)[1] # Place(y.dst)[1]
    BY <1>2, <1>3, <1>4, <1>5 DEF TilePath
  <2>. QED BY <2>1, <2>2, <2>3 DEF ChainAt
<1>12. ASSUME PortsAgree(net) PROVE ChainNew(y)
  <2>1. Simple(y.at[2], y.leg)
    BY <1>2, <1>8, <1>10, <1>12
  <2>2. \A v \in x.past : \E j \in 1 .. i, q \in Nodes(net.middle) : v = Centre(net, x.hops[j], q)
    BY <1>12 DEF ChainOk, ChainNew
  <2>3. x.at[2] \in Nodes(net.middle) /\ x.at = Centre(net, x.hops[i], x.at[2]) /\ i \in 1 .. i
    BY <1>5 DEF ChainOk, ChainAt
  <2>4. \A v \in y.past : \E j \in 1 .. i, q \in Nodes(net.middle) : v = Centre(net, x.hops[j], q)
    BY <1>2, <2>2, <2>3
  <2>5. \A j \in 1 .. i : j \in 1 .. y.hop /\ j # y.hop
    BY <1>2, <1>5
  <2>6. \A v \in y.past : \E j \in 1 .. y.hop, q \in Nodes(net.middle) :
           /\ v = Centre(net, y.hops[j], q)
           /\ j = y.hop => q # y.at[2] /\ \A k \in 1 .. Len(y.leg) : q # y.leg[k]
    BY <1>2, <2>4, <2>5
  <2>. QED BY <2>1, <2>6 DEF ChainNew
<1>. QED BY <1>6, <1>11, <1>12 DEF ChainOk

(* A chain is direct.                                                      *)
LEMMA ChainDirect ==
  ASSUME net \in Nets, NEW x, ChainOk(x), PortsAgree(net)
  PROVE  /\ Len(x.hops) - 1 = Distance(net.outer, Place(x.src)[1], Place(x.dst)[1])
         /\ x.at[1] = x.hops[x.hop]
         /\ Place(x.src)[1] = Place(x.dst)[1] =>
              x.walked + Len(x.leg) = Distance(net.middle, Place(x.src)[2], Place(x.dst)[2])
         /\ x.at \notin x.past
<1>1. ChainIs(x) /\ ChainAt(x) /\ ChainNew(x)
  BY DEF ChainOk
<1>2. TilePath(Place(x.src)[1], Place(x.dst)[1], x.hops)
  BY <1>1, ChainHops
<1>3. x.at = Centre(net, x.hops[x.hop], x.at[2])
  BY <1>1 DEF ChainAt
<1>4. ASSUME x.at \in x.past PROVE FALSE
  <2>1. PICK j \in 1 .. x.hop : \E q \in Nodes(net.middle) :
           x.at = Centre(net, x.hops[j], q) /\ (j = x.hop => q # x.at[2])
    BY <1>1, <1>4 DEF ChainNew
  <2>2. PICK q : x.at = Centre(net, x.hops[j], q) /\ (j = x.hop => q # x.at[2])
    BY <2>1
  <2>3. x.at[1] = x.hops[j] /\ x.at[2] = q /\ x.at[1] = x.hops[x.hop]
    BY <1>3, <2>2 DEF Centre
  <2>4. x.hop \in 1 .. Len(x.hops) /\ Len(x.hops) \in Nat
    BY <1>1, <1>2 DEF ChainIs, TilePath
  <2>5. j \in 1 .. Len(x.hops)
    BY <2>4
  <2>6. j = x.hop
    BY <1>2, <2>3, <2>4, <2>5 DEF TilePath
  <2>. QED BY <2>2, <2>3, <2>6
<1>5. Len(x.hops) - 1 = Distance(net.outer, Place(x.src)[1], Place(x.dst)[1])
  BY <1>2 DEF TilePath
<1>6. x.at[1] = x.hops[x.hop]
  BY <1>3 DEF Centre
<1>7. Place(x.src)[1] = Place(x.dst)[1] =>
        x.walked + Len(x.leg) = Distance(net.middle, Place(x.src)[2], Place(x.dst)[2])
  BY <1>1 DEF ChainAt
<1>. QED BY <1>4, <1>5, <1>6, <1>7

NetIn == net \in Nets

(* The network of the call is one of the networks.                         *)
LEMMA StageNet == StageInv => NetIn
BY CallFacts DEF StageInv, NetIn

(* The invariant of the routes holds at the start.                         *)
LEMMA RouteInit == Init => RouteInv
BY DEF Init, RouteInv, TodoOk, None

(* The steps of a chain.                                                   *)
LEMMA ChainStep ==
  ASSUME StageInv, sent, MatrixOk(tm), RouteInv, NocNext
  PROVE  /\ TodoOk(todo', tm) /\ slowest' \in Nat
         /\ route' # None =>
              /\ ChainOk(route') /\ <<route'.src, route'.dst>> \in DOMAIN tm
              /\ route'.bytes = tm[<<route'.src, route'.dst>>]
<1>1. net \in Nets
  BY StageNet DEF NetIn
<1>2. PICK x : x = route
  OBVIOUS
<1>3. PICK y : y = route'
  OBVIOUS
<1>4. x # None => ChainOk(x) /\ <<x.src, x.dst>> \in DOMAIN tm /\ x.bytes = tm[<<x.src, x.dst>>]
  BY <1>2 DEF RouteInv
<1>5. x # None => \A z : Latency[Moved(x.at, z)] \in Nat /\ Later(z) \in Nat
  <2> SUFFICES ASSUME x # None, NEW z PROVE Latency[Moved(x.at, z)] \in Nat /\ Later(z) \in Nat
    OBVIOUS
  <2>1. x.time \in Nat
    BY <1>4 DEF ChainOk, ChainIs
  <2>. QED BY <1>2, <2>1, LatencyIs DEF Later
<1>6. ASSUME Depart
      PROVE  /\ TodoOk(todo', tm) /\ slowest' \in Nat
             /\ ChainOk(y) /\ <<y.src, y.dst>> \in DOMAIN tm /\ y.bytes = tm[<<y.src, y.dst>>]
  <2>1. PICK p \in todo :
          /\ todo' = todo \ {p}
          /\ y = [src |-> p.src, dst |-> p.dst, bytes |-> p.bytes,
                    at |-> Centre(net, Place(p.src)[1], Place(p.src)[2]),
                    hops |-> HopsOf(Place(p.src)[1], Place(p.dst)[1]), hop |-> 1,
                    leg |-> Steps(net.middle, Place(p.src)[2],
                              IF Len(HopsOf(Place(p.src)[1], Place(p.dst)[1])) = 1 THEN Place(p.dst)[2]
                              ELSE Exit(p.src, p.dst, HopsOf(Place(p.src)[1], Place(p.dst)[1]), 1)),
                    past |-> {}, walked |-> 0, time |-> Latency["switch"]]
    BY <1>3, <1>6 DEF Depart, HopsOf
  <2>2. PICK src : src = p.src
    OBVIOUS
  <2>3. PICK dst : dst = p.dst
    OBVIOUS
  <2>4. <<src, dst>> \in DOMAIN tm /\ p = [src |-> src, dst |-> dst, bytes |-> tm[<<src, dst>>]]
    BY <2>2, <2>3 DEF RouteInv, TodoOk
  <2>5. src \in Devices(net) /\ dst \in Devices(net)
    <3>1. <<src, dst>>[1] \in Devices(net) /\ <<src, dst>>[2] \in Devices(net)
      BY <2>4 DEF MatrixOk
    <3>. QED BY <3>1
  <2>6. PICK hops : hops = HopsOf(Place(src)[1], Place(dst)[1])
    OBVIOUS
  <2>7. PICK aim : aim = (IF Len(hops) = 1 THEN Place(dst)[2] ELSE Exit(src, dst, hops, 1))
    OBVIOUS
  <2>8. Latency["switch"] \in Nat
    BY NetAssumption DEF Layers
  <2>9. y = [src |-> src, dst |-> dst, bytes |-> p.bytes,
             at |-> Centre(net, Place(src)[1], Place(src)[2]), hops |-> hops, hop |-> 1,
             leg |-> Steps(net.middle, Place(src)[2], aim),
             past |-> {}, walked |-> 0, time |-> Latency["switch"]]
    BY <2>1, <2>2, <2>3, <2>6, <2>7
  <2>10. ChainOk(y)
    <3>1. PICK b : b = p.bytes
      OBVIOUS
    <3>2. PICK lat \in Nat : lat = Latency["switch"]
      BY <2>8
    <3>. QED BY <1>1, <2>5, <2>6, <2>7, <2>9, <3>1, <3>2, DepartChain
  <2>11. TodoOk(todo', tm)
    BY <2>1 DEF RouteInv, TodoOk
  <2>12. slowest' \in Nat
    BY <1>6 DEF Depart, RouteInv
  <2>. QED BY <2>4, <2>9, <2>10, <2>11, <2>12
<1>7. ASSUME Walk
      PROVE  /\ todo' = todo /\ slowest' = slowest
             /\ ChainOk(y) /\ <<y.src, y.dst>> = <<x.src, x.dst>> /\ y.bytes = x.bytes
  <2>1. /\ x # None /\ x.leg # <<>> /\ todo' = todo /\ slowest' = slowest
        /\ y = [x EXCEPT !.at = Centre(net, x.at[1], Head(x.leg)), !.leg = Tail(x.leg),
                  !.walked = x.walked + 1, !.past = x.past \cup {x.at},
                  !.time = Later(Centre(net, x.at[1], Head(x.leg)))]
    BY <1>2, <1>3, <1>7 DEF Walk, Move
  <2>2. PICK b : b = Centre(net, x.at[1], Head(x.leg))
    OBVIOUS
  <2>3. PICK lat \in Nat : lat = Later(b)
    BY <1>5, <2>1
  <2>4. y = [x EXCEPT !.at = b, !.leg = Tail(x.leg), !.walked = x.walked + 1,
               !.past = x.past \cup {x.at}, !.time = lat]
    BY <2>1, <2>2, <2>3
  <2>5. ChainOk(x)
    BY <1>4, <2>1
  <2>6. ChainOk(y)
    BY <1>1, <2>1, <2>2, <2>4, <2>5, WalkChain
  <2>7. y.src = x.src /\ y.dst = x.dst /\ y.bytes = x.bytes
    BY <2>4, <2>5 DEF ChainOk, ChainIs
  <2>. QED BY <2>1, <2>6, <2>7
<1>8. ASSUME Cross
      PROVE  /\ todo' = todo /\ slowest' = slowest
             /\ ChainOk(y) /\ <<y.src, y.dst>> = <<x.src, x.dst>> /\ y.bytes = x.bytes
  <2>1. PICK i : i = x.hop
    OBVIOUS
  <2>2. PICK in : in = Entry(x.src, x.dst, x.hops, i)
    OBVIOUS
  <2>3. PICK b : b = Centre(net, x.hops[i + 1], in)
    OBVIOUS
  <2>4. PICK leg : leg = NextLeg(x, i, in)
    OBVIOUS
  <2>5. /\ x # None /\ x.leg = <<>> /\ x.hop < Len(x.hops) /\ todo' = todo /\ slowest' = slowest
        /\ y = [x EXCEPT !.at = b, !.leg = leg, !.hop = i + 1,
                  !.past = x.past \cup {x.at}, !.time = Later(b)]
    BY <1>2, <1>3, <1>8, <2>1, <2>2, <2>3, <2>4 DEF Cross, Move, NextLeg
  <2>6. PICK lat \in Nat : lat = Later(b)
    BY <1>5, <2>5
  <2>7. ChainOk(x)
    BY <1>4, <2>5
  <2>8. y = [x EXCEPT !.at = b, !.leg = leg, !.hop = i + 1,
               !.past = x.past \cup {x.at}, !.time = lat]
    BY <2>5, <2>6
  <2>9. ChainOk(y)
    <3>1. net \in Nets /\ ChainOk(x) /\ x.leg = <<>> /\ x.hop < Len(x.hops)
      BY <1>1, <2>5, <2>7
    <3>. QED BY <2>1, <2>2, <2>3, <2>4, <2>8, <3>1, CrossChain, Zenon
  <2>10. y.src = x.src /\ y.dst = x.dst /\ y.bytes = x.bytes
    BY <2>7, <2>8 DEF ChainOk, ChainIs
  <2>. QED BY <2>5, <2>9, <2>10
<1>9. ASSUME Arrive
      PROVE  todo' = todo /\ slowest' \in Nat /\ y = None
  <2>1. PICK b : slowest' = Max({slowest, Later(b)})
    BY <1>9 DEF Arrive
  <2>2. x # None
    BY <1>2, <1>9 DEF Arrive
  <2>3. slowest \in Nat /\ Later(b) \in Nat
    BY <1>5, <2>2 DEF RouteInv
  <2>4. slowest' \in {slowest, Later(b)}
    BY <2>1, <2>3, MaxTwo
  <2>. QED BY <1>3, <1>9, <2>3, <2>4 DEF Arrive, Move
<1>10. TodoOk(todo, tm) /\ slowest \in Nat
  BY DEF RouteInv
<1>11. CASE Depart
  BY <1>3, <1>6, <1>11
<1>12. CASE Walk
  <2>1. x # None
    BY <1>2, <1>12 DEF Walk
  <2>. QED BY <1>3, <1>4, <1>7, <1>10, <1>12, <2>1
<1>13. CASE Cross
  <2>1. x # None
    BY <1>2, <1>13 DEF Cross
  <2>. QED BY <1>3, <1>4, <1>8, <1>10, <1>13, <2>1
<1>14. CASE Arrive
  BY <1>3, <1>9, <1>10, <1>14
<1>. QED BY <1>11, <1>12, <1>13, <1>14 DEF NocNext

MatrixHeld == sent => MatrixOk(tm)

(* An algorithm is compared between two stages.                            *)
LEMMA CompareIdle == StageInv /\ Compare => ~sent
<1> SUFFICES ASSUME StageInv, Compare PROVE ~sent
  OBVIOUS
<1>1. algos # <<>> /\ Len(costs) = Len(Stages(algos[1]))
  BY DEF Compare, AllCounted, AllRouted
<1>2. Len(costs) = StageCount(algos[1]) /\ Len(costs) \in Nat
  BY <1>1, StageFacts
<1>. QED BY <1>1, <1>2 DEF StageInv, StageProgress

(* A stage's pairs, and the chains of them, are those of its matrix.       *)
LEMMA RouteStep ==
  StageInv /\ StageInv' /\ MatrixHeld /\ MatrixHeld' /\ RouteInv /\ [Next]_vars => RouteInv'
<1> SUFFICES ASSUME StageInv, StageInv', MatrixHeld, MatrixHeld', RouteInv, [Next]_vars
             PROVE  RouteInv'
  OBVIOUS
<1> USE DEF nocVars, collectiveVars
<1>1. CASE Fill
  <2>1. ~sent /\ route' = route /\ slowest' = 0 /\ sent' /\ UNCHANGED net
        /\ todo' = {[src |-> p[1], dst |-> p[2], bytes |-> tm'[p]] : p \in DOMAIN tm'}
    BY <1>1 DEF Fill
  <2>2. route' = None
    BY <2>1 DEF StageInv
  <2>3. PICK M : M = tm'
    OBVIOUS
  <2>4. \A p \in DOMAIN M : p = <<p[1], p[2]>>
    BY <2>1, <2>3 DEF MatrixHeld, MatrixOk
  <2>5. PICK T : T = todo'
    OBVIOUS
  <2>6. T = {[src |-> p[1], dst |-> p[2], bytes |-> M[p]] : p \in DOMAIN M}
    BY <2>1, <2>3, <2>5
  <2>7. TodoOk(T, M)
    BY <2>4, <2>6 DEF TodoOk
  <2>. QED BY <2>1, <2>2, <2>3, <2>5, <2>7 DEF RouteInv
<1>2. CASE Route
  <2>1. sent /\ NocNext /\ tm' = tm
    BY <1>2 DEF Route
  <2>2. UNCHANGED net
    BY <2>1 DEF NocNext, Depart, Walk, Cross, Arrive, Move
  <2>3. MatrixOk(tm)
    BY <2>1 DEF MatrixHeld
  <2>4. PICK y : y = route'
    OBVIOUS
  <2>5. /\ TodoOk(todo', tm) /\ slowest' \in Nat
        /\ y # None => ChainOk(y) /\ <<y.src, y.dst>> \in DOMAIN tm /\ y.bytes = tm[<<y.src, y.dst>>]
    BY <2>1, <2>3, <2>4, ChainStep
  <2>6. ChainOk(y)' <=> ChainOk(y)
    BY <2>2, NetSame
  <2>7. None' = None
    BY DEF None
  <2>. QED BY <2>1, <2>4, <2>5, <2>6, <2>7 DEF RouteInv
<1>3. CASE StageRouted \/ Count \/ Compare \/ UNCHANGED vars
  <2>1. UNCHANGED <<net, todo, route, slowest>>
    BY <1>3 DEF StageRouted, Count, Compare, vars
  <2>2. PICK y : y = route
    OBVIOUS
  <2>3. ChainOk(y)' <=> ChainOk(y)
    BY <2>1, NetSame
  <2>4. CASE sent'
    <3>1. tm' = tm
      <4>1. CASE Compare
        <5>1. ~sent
          BY <4>1, CompareIdle
        <5>. QED BY <2>4, <4>1, <5>1 DEF Compare
      <4>. QED BY <1>3, <2>4, <4>1 DEF StageRouted, Count, vars
    <3>. QED BY <2>1, <2>2, <2>3, <3>1 DEF RouteInv
  <2>5. CASE ~sent'
    <3>1. todo' = {} /\ route' = None
      BY <2>5 DEF StageInv
    <3>. QED BY <2>1, <3>1 DEF RouteInv, TodoOk
  <2>. QED BY <2>4, <2>5
<1>. QED BY <1>1, <1>2, <1>3 DEF Next

(* It holds in every state, beside that of the stages.                     *)
LEMMA RouteHolds == Spec => [](StageInv /\ MatrixHeld /\ RouteInv)
<1>1. StageInv => MatrixHeld
  BY MatrixIs DEF MatrixHeld
<1>. QED BY <1>1, StageHolds, RouteInit, RouteStep, PTL DEF Spec

(* Between any two tiles and switches, on every grid.                      *)
THEOREM RoutesDirect ==
  ASSUME \A n \in Nets : PortsAgree(n)
  PROVE  Spec => []RoutesAreDirect
<1>1. StageInv /\ RouteInv => RoutesAreDirect
  <2> SUFFICES ASSUME StageInv, RouteInv, route # None PROVE RoutesAreDirect
    BY DEF RoutesAreDirect
  <2>1. net \in Nets /\ PortsAgree(net)
    BY StageNet DEF NetIn
  <2>2. PICK x : x = route
    OBVIOUS
  <2>3. ChainOk(x)
    BY <2>2 DEF RouteInv
  <2>4. /\ Len(x.hops) - 1 = Distance(net.outer, Place(x.src)[1], Place(x.dst)[1])
        /\ x.at[1] = x.hops[x.hop]
        /\ Place(x.src)[1] = Place(x.dst)[1] =>
             x.walked + Len(x.leg) = Distance(net.middle, Place(x.src)[2], Place(x.dst)[2])
        /\ x.at \notin x.past
    BY <2>1, <2>3, ChainDirect
  <2>. QED BY <2>2, <2>4 DEF RoutesAreDirect
<1>. QED BY <1>1, RouteHolds, PTL

(* The charge of a move, as a function of the traffic before it.           *)
Charge(f, a, b, v) ==
  LET hub  == Centre(net, b[1], b[2])
  IN  IF Moved(a, b) = "switch" THEN Plus(Plus(f, <<a, b>>, v), <<hub, hub>>, v)
      ELSE Plus(f, <<a, b>>, v)

TrafficOk(f) == IsFiniteSet(DOMAIN f) /\ \A x \in DOMAIN f : f[x] \in Nat

(* One charge.                                                             *)
Adding(f, k, v, g) ==
  /\ TrafficOk(g) /\ DOMAIN g = DOMAIN f \cup {k}
  /\ \A x : Bytes(g, x) = Bytes(f, x) + (IF x = k THEN v ELSE 0)
  /\ \A x : Bytes(f, x) \in Nat

(* Adding traffic to a cell changes that cell alone.                       *)
LEMMA PlusIs ==
  ASSUME NEW f, TrafficOk(f), NEW k, NEW v \in Nat
  PROVE  Adding(f, k, v, Plus(f, k, v))
<1>1. \A x : Bytes(f, x) \in Nat
  BY DEF Bytes, TrafficOk
<1>2. DOMAIN Plus(f, k, v) = DOMAIN f \cup {k}
  BY DEF Plus
<1>3. \A x \in DOMAIN f \cup {k} : Plus(f, k, v)[x] = IF x = k THEN Bytes(f, k) + v ELSE f[x]
  BY DEF Plus
<1>4. \A x \in DOMAIN f \cup {k} : Plus(f, k, v)[x] \in Nat
  <2>1. Bytes(f, k) + v \in Nat
    <3>1. \A m, n \in Nat : m + n \in Nat
      OBVIOUS
    <3>. QED BY <1>1, <3>1
  <2>. QED BY <1>3, <2>1 DEF TrafficOk
<1>5. IsFiniteSet(DOMAIN f \cup {k})
  BY FS_AddElement DEF TrafficOk
<1>6. \A x : Bytes(Plus(f, k, v), x) = Bytes(f, x) + (IF x = k THEN v ELSE 0)
  <2> SUFFICES ASSUME NEW x PROVE Bytes(Plus(f, k, v), x) = Bytes(f, x) + (IF x = k THEN v ELSE 0)
    OBVIOUS
  <2>1. CASE x = k
    BY <1>2, <1>3, <2>1 DEF Bytes
  <2>2. CASE x # k
    <3>1. Bytes(Plus(f, k, v), x) = Bytes(f, x)
      BY <1>2, <1>3, <2>2 DEF Bytes
    <3>2. \A n \in Nat : n + 0 = n
      OBVIOUS
    <3>. QED BY <1>1, <2>2, <3>1, <3>2
  <2>. QED BY <2>1, <2>2
<1>. QED BY <1>1, <1>2, <1>4, <1>5, <1>6 DEF TrafficOk, Adding

(* A move charges its cell, and at most a centre's own cell besides.       *)
LEMMA ChargeIs ==
  ASSUME NEW f, TrafficOk(f), NEW a, NEW b, NEW v \in Nat
  PROVE  /\ TrafficOk(Charge(f, a, b, v))
         /\ DOMAIN Charge(f, a, b, v)
              \subseteq DOMAIN f \cup {<<a, b>>, <<Centre(net, b[1], b[2]), Centre(net, b[1], b[2])>>}
         /\ \A x : x # <<Centre(net, b[1], b[2]), Centre(net, b[1], b[2])>> =>
              Bytes(Charge(f, a, b, v), x) = Bytes(f, x) + (IF x = <<a, b>> THEN v ELSE 0)
<1>1. PICK hub : hub = Centre(net, b[1], b[2])
  OBVIOUS
<1>2. PICK g : g = Plus(f, <<a, b>>, v)
  OBVIOUS
<1>3. /\ TrafficOk(g) /\ DOMAIN g = DOMAIN f \cup {<<a, b>>}
      /\ \A x : Bytes(g, x) = Bytes(f, x) + (IF x = <<a, b>> THEN v ELSE 0)
  <2>1. PICK k : k = <<a, b>>
    OBVIOUS
  <2>2. Adding(f, k, v, g)
    BY <1>2, <2>1, PlusIs
  <2>. QED BY <2>1, <2>2 DEF Adding
<1>4. PICK h : h = Plus(g, <<hub, hub>>, v)
  OBVIOUS
<1>5. /\ TrafficOk(h) /\ DOMAIN h = DOMAIN g \cup {<<hub, hub>>}
      /\ \A x : Bytes(h, x) = Bytes(g, x) + (IF x = <<hub, hub>> THEN v ELSE 0)
      /\ \A x : Bytes(g, x) \in Nat
  <2>1. PICK k : k = <<hub, hub>>
    OBVIOUS
  <2>2. Adding(g, k, v, h)
    BY <1>3, <1>4, <2>1, PlusIs
  <2>. QED BY <2>1, <2>2 DEF Adding
<1>6. \A x : x # <<hub, hub>> => Bytes(h, x) = Bytes(g, x)
  BY <1>5
<1>7. Charge(f, a, b, v) = IF Moved(a, b) = "switch" THEN h ELSE g
  BY <1>1, <1>2, <1>4 DEF Charge
<1>. QED BY <1>1, <1>3, <1>5, <1>6, <1>7

(* A device's cells.                                                       *)
Hub(d) == Centre(net, Place(d)[1], Place(d)[2])

(* The cells of a device and its switch belong to no other device, and no  *)
(* link between switches is one of them.                                   *)
LEMMA CellsApart ==
  ASSUME net \in Nets, NEW d \in Devices(net)
  PROVE  /\ \A e \in Devices(net) :
              /\ <<Place(d), Hub(d)>> = <<Place(e), Hub(e)>> <=> d = e
              /\ <<Hub(d), Place(d)>> = <<Hub(e), Place(e)>> <=> d = e
              /\ <<Place(d), Hub(d)>> # <<Hub(e), Place(e)>>
         /\ \A o, m, q, r : /\ <<Place(d), Hub(d)>> # <<Centre(net, o, m), Centre(net, q, r)>>
                            /\ <<Hub(d), Place(d)>> # <<Centre(net, o, m), Centre(net, q, r)>>
<1>1. \A e \in Devices(net) : Place(e)[3] \in 0 .. net.ports - 1
  BY PlaceFacts DEF IsPlace
<1>2. net.ports \in Nat
  BY NetFacts
<1>3. \A e \in Devices(net) : Place(e)[3] # net.ports
  BY <1>1, <1>2
<1>4. \A o, m : Centre(net, o, m)[3] = net.ports
  BY DEF Centre
<1>5. \A e \in Devices(net) : \A o, m : Place(e) # Centre(net, o, m)
  BY <1>3, <1>4
<1>6. \A e \in Devices(net) : Place(d) = Place(e) => d = e
  BY PlaceFacts
<1>7. \A e \in Devices(net) : d = e => Hub(d) = Hub(e) /\ Place(d) = Place(e)
  BY DEF Hub
<1>8. \A p, q, r, s : <<p, q>> = <<r, s>> <=> p = r /\ q = s
  OBVIOUS
<1>9. \A e \in Devices(net) : <<Place(d), Hub(d)>> = <<Place(e), Hub(e)>> <=> d = e
  BY <1>6, <1>7, <1>8
<1>10. \A e \in Devices(net) : <<Hub(d), Place(d)>> = <<Hub(e), Place(e)>> <=> d = e
  BY <1>6, <1>7, <1>8
<1>11. \A e \in Devices(net) : <<Place(d), Hub(d)>> # <<Hub(e), Place(e)>>
  BY <1>5, <1>8 DEF Hub
<1>12. \A o, m, q, r : <<Place(d), Hub(d)>> # <<Centre(net, o, m), Centre(net, q, r)>>
  BY <1>5, <1>8
<1>13. \A o, m, q, r : <<Hub(d), Place(d)>> # <<Centre(net, o, m), Centre(net, q, r)>>
  BY <1>5, <1>8
<1>. QED BY <1>9, <1>10, <1>11, <1>12, <1>13

(* The pairs that begin, or end, at a device.                              *)
Ends(B, k, d) == {p \in B : p[k] = d}
Owed(M, B, k, d) == SumFunctionOnSet(M, Ends(B, k, d))

(* What has been charged to the devices' own links, when the pairs B have  *)
(* left their source and the pairs E have reached their destination.       *)
LedgerOk(f, B, E, M) ==
  /\ TrafficOk(f)
  /\ \A d \in Devices(net) :
       /\ Bytes(f, <<Place(d), Hub(d)>>) = Owed(M, B, 1, d)
       /\ Bytes(f, <<Hub(d), Place(d)>>) = Owed(M, E, 2, d)

Fresh(M, B, p) == IsFiniteSet(B) /\ p \notin B /\ \A x \in B \cup {p} : M[x] \in Nat

OneMore(M, B, p, k, d) == Owed(M, B \cup {p}, k, d) = Owed(M, B, k, d) + M[p]

(* A pair booked for the first time adds its bytes to what its device is   *)
(* owed.                                                                   *)
LEMMA OwedMore ==
  ASSUME NEW M, NEW B, NEW p, Fresh(M, B, p), NEW k, NEW d, p[k] = d
  PROVE  OneMore(M, B, p, k, d)
<1>1. PICK S : S = Ends(B, k, d)
  OBVIOUS
<1>2. S \in SUBSET B /\ p \notin S /\ Ends(B \cup {p}, k, d) = S \cup {p}
  BY <1>1 DEF Ends, Fresh
<1>3. IsFiniteSet(S) /\ \A x \in S \cup {p} : M[x] \in Int
  BY <1>2, FS_Subset DEF Fresh
<1>4. SumFunctionOnSet(M, S \cup {p}) = SumFunctionOnSet(M, S) + M[p]
  BY <1>2, <1>3, SumAdd
<1>. QED BY <1>1, <1>2, <1>4 DEF Owed, OneMore

(* It adds nothing to what another device is owed.                         *)
LEMMA OwedSame ==
  ASSUME NEW M, NEW B, NEW p, NEW k, NEW d, p[k] # d
  PROVE  Owed(M, B \cup {p}, k, d) = Owed(M, B, k, d)
<1>1. Ends(B \cup {p}, k, d) = Ends(B, k, d)
  BY DEF Ends
<1>. QED BY <1>1 DEF Owed

(* Charging the way into the switch books the pair with its source.        *)
LEMMA DepartLedger ==
  ASSUME net \in Nets, NEW f, NEW B, NEW E, NEW M, LedgerOk(f, B, E, M),
         MatrixOk(M), B \subseteq DOMAIN M, NEW p \in DOMAIN M, p \notin B,
         NEW s, s = p[1]
  PROVE  LedgerOk(Charge(f, Place(s), Hub(s), M[p]), B \cup {p}, E, M)
<1>1. s \in Devices(net) /\ M[p] \in Nat /\ IsFiniteSet(B) /\ \A x \in B \cup {p} : M[x] \in Nat
  BY FS_Subset DEF MatrixOk
<1>2. PICK g : g = Charge(f, Place(s), Hub(s), M[p])
  OBVIOUS
<1>3. Centre(net, Hub(s)[1], Hub(s)[2]) = Hub(s)
  BY DEF Hub, Centre
<1>4. PICK a : a = Place(s)
  OBVIOUS
<1>5. PICK b : b = Hub(s)
  OBVIOUS
<1>6. /\ TrafficOk(g)
      /\ \A x : x # <<b, b>> => Bytes(g, x) = Bytes(f, x) + (IF x = <<a, b>> THEN M[p] ELSE 0)
  <2>1. TrafficOk(f)
    BY DEF LedgerOk
  <2>2. Centre(net, b[1], b[2]) = b
    BY <1>3, <1>5
  <2>3. PICK v \in Nat : v = M[p]
    BY <1>1
  <2>4. g = Charge(f, a, b, v)
    BY <1>2, <1>4, <1>5, <2>3
  <2>. QED BY <2>1, <2>2, <2>3, <2>4, ChargeIs
<1>7. ASSUME NEW d \in Devices(net)
      PROVE  /\ Bytes(g, <<Place(d), Hub(d)>>) = Owed(M, B \cup {p}, 1, d)
             /\ Bytes(g, <<Hub(d), Place(d)>>) = Owed(M, E, 2, d)
  <2>1. /\ <<Place(d), Hub(d)>> = <<a, b>> <=> d = s
        /\ <<Hub(d), Place(d)>> # <<a, b>>
        /\ <<Place(d), Hub(d)>> # <<b, b>> /\ <<Hub(d), Place(d)>> # <<b, b>>
    <3>1. <<Place(d), Hub(d)>> = <<Place(s), Hub(s)>> <=> d = s
      BY <1>1, CellsApart
    <3>2. <<Place(s), Hub(s)>> # <<Hub(d), Place(d)>>
      BY <1>1, CellsApart
    <3>3. <<Place(d), Hub(d)>> # <<Hub(s), Hub(s)>> /\ <<Hub(d), Place(d)>> # <<Hub(s), Hub(s)>>
      BY <1>1, CellsApart DEF Hub
    <3>. QED BY <1>4, <1>5, <3>1, <3>2, <3>3
  <2>2. /\ Bytes(f, <<Place(d), Hub(d)>>) = Owed(M, B, 1, d)
        /\ Bytes(f, <<Hub(d), Place(d)>>) = Owed(M, E, 2, d)
    BY DEF LedgerOk
  <2>3. Bytes(f, <<Hub(d), Place(d)>>) \in Nat
    BY DEF LedgerOk, TrafficOk, Bytes
  <2>4. Bytes(g, <<Hub(d), Place(d)>>) = Bytes(f, <<Hub(d), Place(d)>>)
    BY <1>6, <2>1, <2>3
  <2>5. Bytes(g, <<Place(d), Hub(d)>>) = Bytes(f, <<Place(d), Hub(d)>>) + (IF d = s THEN M[p] ELSE 0)
    BY <1>6, <2>1
  <2>6. Fresh(M, B, p)
    BY <1>1 DEF Fresh
  <2>7. CASE d = s
    <3>1. p[1] = d
      BY <2>7
    <3>2. Owed(M, B \cup {p}, 1, d) = Owed(M, B, 1, d) + M[p]
      <4>1. OneMore(M, B, p, 1, d)
        BY <2>6, <3>1, OwedMore
      <4>. QED BY <4>1 DEF OneMore
    <3>3. Bytes(g, <<Place(d), Hub(d)>>) = Bytes(f, <<Place(d), Hub(d)>>) + M[p]
      BY <2>5, <2>7
    <3>. QED BY <2>2, <2>4, <3>2, <3>3
  <2>8. CASE d # s
    <3>1. p[1] # d
      BY <2>8
    <3>2. Owed(M, B \cup {p}, 1, d) = Owed(M, B, 1, d)
      BY <3>1, OwedSame
    <3>3. Bytes(g, <<Place(d), Hub(d)>>) = Bytes(f, <<Place(d), Hub(d)>>)
      <4>1. Bytes(f, <<Place(d), Hub(d)>>) \in Nat
        BY DEF LedgerOk, TrafficOk, Bytes
      <4>. QED BY <2>5, <2>8, <4>1
    <3>. QED BY <2>2, <2>4, <3>2, <3>3
  <2>. QED BY <2>7, <2>8
<1>8. LedgerOk(g, B \cup {p}, E, M)
  BY <1>6, <1>7 DEF LedgerOk
<1>. QED BY <1>2, <1>8

(* Charging the way out of the switch books it with its destination.       *)
LEMMA ArriveLedger ==
  ASSUME net \in Nets, NEW f, NEW B, NEW E, NEW M, LedgerOk(f, B, E, M),
         MatrixOk(M), E \subseteq DOMAIN M, NEW p \in DOMAIN M, p \notin E,
         NEW s, s = p[2]
  PROVE  LedgerOk(Charge(f, Hub(s), Place(s), M[p]), B, E \cup {p}, M)
<1>1. s \in Devices(net) /\ M[p] \in Nat /\ IsFiniteSet(E) /\ \A x \in E \cup {p} : M[x] \in Nat
  BY FS_Subset DEF MatrixOk
<1>2. PICK g : g = Charge(f, Hub(s), Place(s), M[p])
  OBVIOUS
<1>3. Centre(net, Place(s)[1], Place(s)[2]) = Hub(s)
  BY DEF Hub
<1>4. PICK a : a = Hub(s)
  OBVIOUS
<1>5. PICK b : b = Place(s)
  OBVIOUS
<1>6. /\ TrafficOk(g)
      /\ \A x : x # <<a, a>> => Bytes(g, x) = Bytes(f, x) + (IF x = <<a, b>> THEN M[p] ELSE 0)
  <2>1. TrafficOk(f)
    BY DEF LedgerOk
  <2>2. Centre(net, b[1], b[2]) = a
    BY <1>3, <1>4, <1>5
  <2>3. PICK v \in Nat : v = M[p]
    BY <1>1
  <2>4. g = Charge(f, a, b, v)
    BY <1>2, <1>4, <1>5, <2>3
  <2>. QED BY <2>1, <2>2, <2>3, <2>4, ChargeIs
<1>7. ASSUME NEW d \in Devices(net)
      PROVE  /\ Bytes(g, <<Place(d), Hub(d)>>) = Owed(M, B, 1, d)
             /\ Bytes(g, <<Hub(d), Place(d)>>) = Owed(M, E \cup {p}, 2, d)
  <2>1. /\ <<Hub(d), Place(d)>> = <<a, b>> <=> d = s
        /\ <<Place(d), Hub(d)>> # <<a, b>>
        /\ <<Place(d), Hub(d)>> # <<a, a>> /\ <<Hub(d), Place(d)>> # <<a, a>>
    <3>1. <<Hub(d), Place(d)>> = <<Hub(s), Place(s)>> <=> d = s
      BY <1>1, CellsApart
    <3>2. <<Place(d), Hub(d)>> # <<Hub(s), Place(s)>>
      BY <1>1, CellsApart
    <3>3. <<Place(d), Hub(d)>> # <<Hub(s), Hub(s)>> /\ <<Hub(d), Place(d)>> # <<Hub(s), Hub(s)>>
      BY <1>1, CellsApart DEF Hub
    <3>. QED BY <1>4, <1>5, <3>1, <3>2, <3>3
  <2>2. /\ Bytes(f, <<Place(d), Hub(d)>>) = Owed(M, B, 1, d)
        /\ Bytes(f, <<Hub(d), Place(d)>>) = Owed(M, E, 2, d)
    BY DEF LedgerOk
  <2>3. Bytes(f, <<Place(d), Hub(d)>>) \in Nat
    BY DEF LedgerOk, TrafficOk, Bytes
  <2>4. Bytes(g, <<Place(d), Hub(d)>>) = Bytes(f, <<Place(d), Hub(d)>>)
    BY <1>6, <2>1, <2>3
  <2>5. Bytes(g, <<Hub(d), Place(d)>>) = Bytes(f, <<Hub(d), Place(d)>>) + (IF d = s THEN M[p] ELSE 0)
    BY <1>6, <2>1
  <2>6. Fresh(M, E, p)
    BY <1>1 DEF Fresh
  <2>7. CASE d = s
    <3>1. p[2] = d
      BY <2>7
    <3>2. Owed(M, E \cup {p}, 2, d) = Owed(M, E, 2, d) + M[p]
      <4>1. OneMore(M, E, p, 2, d)
        BY <2>6, <3>1, OwedMore
      <4>. QED BY <4>1 DEF OneMore
    <3>3. Bytes(g, <<Hub(d), Place(d)>>) = Bytes(f, <<Hub(d), Place(d)>>) + M[p]
      BY <2>5, <2>7
    <3>. QED BY <2>2, <2>4, <3>2, <3>3
  <2>8. CASE d # s
    <3>1. p[2] # d
      BY <2>8
    <3>2. Owed(M, E \cup {p}, 2, d) = Owed(M, E, 2, d)
      BY <3>1, OwedSame
    <3>3. Bytes(g, <<Hub(d), Place(d)>>) = Bytes(f, <<Hub(d), Place(d)>>)
      <4>1. Bytes(f, <<Hub(d), Place(d)>>) \in Nat
        BY DEF LedgerOk, TrafficOk, Bytes
      <4>. QED BY <2>5, <2>8, <4>1
    <3>. QED BY <2>2, <2>4, <3>2, <3>3
  <2>. QED BY <2>7, <2>8
<1>8. LedgerOk(g, B, E \cup {p}, M)
  BY <1>6, <1>7 DEF LedgerOk
<1>. QED BY <1>2, <1>8

(* A link between switches changes no account of a device.                 *)
LEMMA MoveLedger ==
  ASSUME net \in Nets, NEW f, NEW B, NEW E, NEW M, LedgerOk(f, B, E, M), NEW v \in Nat,
         NEW a, NEW b, a = Centre(net, a[1], a[2]), b = Centre(net, b[1], b[2])
  PROVE  LedgerOk(Charge(f, a, b, v), B, E, M)
<1>1. PICK g : g = Charge(f, a, b, v)
  OBVIOUS
<1>2. TrafficOk(f)
  BY DEF LedgerOk
<1>3. /\ TrafficOk(g)
      /\ \A x : x # <<b, b>> => Bytes(g, x) = Bytes(f, x) + (IF x = <<a, b>> THEN v ELSE 0)
  BY <1>1, <1>2, ChargeIs
<1>4. ASSUME NEW d \in Devices(net)
      PROVE  /\ Bytes(g, <<Place(d), Hub(d)>>) = Owed(M, B, 1, d)
             /\ Bytes(g, <<Hub(d), Place(d)>>) = Owed(M, E, 2, d)
  <2>1. /\ <<Place(d), Hub(d)>> # <<a, b>> /\ <<Hub(d), Place(d)>> # <<a, b>>
        /\ <<Place(d), Hub(d)>> # <<b, b>> /\ <<Hub(d), Place(d)>> # <<b, b>>
    BY CellsApart
  <2>2. Bytes(f, <<Place(d), Hub(d)>>) \in Nat /\ Bytes(f, <<Hub(d), Place(d)>>) \in Nat
    BY <1>2 DEF TrafficOk, Bytes
  <2>3. /\ Bytes(g, <<Place(d), Hub(d)>>) = Bytes(f, <<Place(d), Hub(d)>>)
        /\ Bytes(g, <<Hub(d), Place(d)>>) = Bytes(f, <<Hub(d), Place(d)>>)
    BY <1>3, <2>1, <2>2
  <2>. QED BY <2>3 DEF LedgerOk
<1>5. LedgerOk(g, B, E, M)
  BY <1>3, <1>4 DEF LedgerOk
<1>. QED BY <1>1, <1>5

(* The pairs that have left their source, and the one on its way.          *)
Begun(T, M) == {p \in DOMAIN M : \A x \in T : <<x.src, x.dst>> # p}
Walking(x)  == IF x = None THEN {} ELSE {<<x.src, x.dst>>}

LedgerAt(f, T, x, M) ==
  /\ Walking(x) \subseteq Begun(T, M)
  /\ LedgerOk(f, Begun(T, M), Begun(T, M) \ Walking(x), M)

Ledger == sent => LedgerAt(traffic, todo, route, tm)

(* The ledger speaks of the network only, which never changes.             *)
LEMMA LedgerSame ==
  ASSUME UNCHANGED net
  PROVE  \A f, T, x, M : LedgerAt(f, T, x, M)' <=> LedgerAt(f, T, x, M)
<1>1. \A d : Place(d)' = Place(d) /\ Hub(d)' = Hub(d)
  BY NetSame DEF Hub
<1>2. \A f, B, E, M : LedgerOk(f, B, E, M)' <=> LedgerOk(f, B, E, M)
  BY <1>1 DEF LedgerOk
<1>3. None' = None
  BY DEF None
<1>. QED BY <1>2, <1>3 DEF LedgerAt

(* Before the first route nothing is booked.                               *)
LEMMA LedgerStart ==
  ASSUME NEW T, NEW M, \A p \in DOMAIN M : \E x \in T : <<x.src, x.dst>> = p
  PROVE  LedgerAt(Empty, T, None, M)
<1>1. Begun(T, M) = {} /\ Walking(None) = {}
  BY DEF Begun, Walking
<1>2. TrafficOk(Empty) /\ \A x : Bytes(Empty, x) = 0
  BY FS_EmptySet DEF TrafficOk, Empty, Bytes
<1>3. \A k, d : Owed(M, {}, k, d) = 0
  BY SumEmpty DEF Owed, Ends
<1>. QED BY <1>1, <1>2, <1>3 DEF LedgerAt, LedgerOk

(* Depart books what the pair sends.                                       *)
LEMMA LedgerDepart ==
  ASSUME net \in Nets, NEW f, NEW T, NEW M, LedgerAt(f, T, None, M), TodoOk(T, M), MatrixOk(M),
         NEW p \in T, NEW y, y # None, y.src = p.src, y.dst = p.dst
  PROVE  LedgerAt(Charge(f, Place(p.src), Hub(p.src), p.bytes), T \ {p}, y, M)
<1>1. PICK k : k = <<p.src, p.dst>>
  OBVIOUS
<1>2. k \in DOMAIN M /\ p = [src |-> p.src, dst |-> p.dst, bytes |-> M[k]]
  BY <1>1 DEF TodoOk
<1>3. k \notin Begun(T, M) /\ Begun(T \ {p}, M) = Begun(T, M) \cup {k}
  <2>1. \A x \in T : <<x.src, x.dst>> = k => x = p
    BY <1>1, <1>2 DEF TodoOk
  <2>2. k \notin Begun(T, M)
    BY <1>1 DEF Begun
  <2>3. k \in Begun(T \ {p}, M)
    BY <1>2, <2>1 DEF Begun
  <2>4. \A q \in DOMAIN M : q # k => (q \in Begun(T \ {p}, M) <=> q \in Begun(T, M))
    BY <1>1 DEF Begun
  <2>5. \A q : q \in Begun(T \ {p}, M) \/ q \in Begun(T, M) => q \in DOMAIN M
    BY DEF Begun
  <2>. QED BY <2>2, <2>3, <2>4, <2>5
<1>4. Walking(None) = {} /\ Walking(y) = {k}
  BY <1>1 DEF Walking
<1>5. PICK B : B = Begun(T, M)
  OBVIOUS
<1>6. LedgerOk(f, B, B, M) /\ B \subseteq DOMAIN M
  BY <1>4, <1>5 DEF LedgerAt, Begun
<1>7. PICK s : s = k[1]
  OBVIOUS
<1>8. LedgerOk(Charge(f, Place(s), Hub(s), M[k]), B \cup {k}, B, M)
  BY <1>2, <1>3, <1>5, <1>6, <1>7, DepartLedger
<1>9. s = p.src /\ p.bytes = M[k] /\ (B \cup {k}) \ {k} = B
  BY <1>1, <1>2, <1>3, <1>5, <1>7
<1>. QED BY <1>3, <1>4, <1>5, <1>8, <1>9 DEF LedgerAt

(* Walk and Cross book nothing.                                            *)
LEMMA LedgerMove ==
  ASSUME net \in Nets, NEW f, NEW T, NEW x, NEW M, LedgerAt(f, T, x, M), x # None,
         NEW y, y # None, <<y.src, y.dst>> = <<x.src, x.dst>>,
         NEW v \in Nat, NEW a, NEW b, a = Centre(net, a[1], a[2]), b = Centre(net, b[1], b[2])
  PROVE  LedgerAt(Charge(f, a, b, v), T, y, M)
<1>1. Walking(y) = Walking(x)
  BY DEF Walking
<1>2. PICK B : B = Begun(T, M)
  OBVIOUS
<1>3. PICK E : E = Begun(T, M) \ Walking(x)
  OBVIOUS
<1>4. LedgerOk(f, B, E, M)
  BY <1>2, <1>3 DEF LedgerAt
<1>5. LedgerOk(Charge(f, a, b, v), B, E, M)
  BY <1>4, MoveLedger
<1>. QED BY <1>1, <1>2, <1>3, <1>5 DEF LedgerAt

(* Arrive books what the pair receives.                                    *)
LEMMA LedgerArrive ==
  ASSUME net \in Nets, NEW f, NEW T, NEW x, NEW M, LedgerAt(f, T, x, M), x # None, MatrixOk(M),
         x.bytes = M[<<x.src, x.dst>>]
  PROVE  LedgerAt(Charge(f, Hub(x.dst), Place(x.dst), x.bytes), T, None, M)
<1>1. PICK k : k = <<x.src, x.dst>>
  OBVIOUS
<1>2. Walking(None) = {} /\ Walking(x) = {k}
  BY <1>1 DEF Walking
<1>3. PICK B : B = Begun(T, M)
  OBVIOUS
<1>4. PICK E : E = B \ {k}
  OBVIOUS
<1>5. LedgerOk(f, B, E, M) /\ E \subseteq DOMAIN M /\ k \in DOMAIN M /\ k \notin E /\ B = E \cup {k}
  BY <1>2, <1>3, <1>4 DEF LedgerAt, Begun
<1>6. PICK s : s = k[2]
  OBVIOUS
<1>7. LedgerOk(Charge(f, Hub(s), Place(s), M[k]), B, E \cup {k}, M)
  BY <1>5, <1>6, ArriveLedger
<1>8. s = x.dst /\ x.bytes = M[k] /\ B \ {} = B
  BY <1>1, <1>6
<1>. QED BY <1>2, <1>3, <1>5, <1>7, <1>8 DEF LedgerAt

(* The ledger holds at the start.                                          *)
LEMMA LedgerInit == Init => Ledger
BY DEF Init, Ledger

(* A chain arrives at the switch of its destination.                       *)
LEMMA ChainEnd ==
  ASSUME net \in Nets, NEW x, ChainOk(x), x.leg = <<>>, x.hop = Len(x.hops)
  PROVE  x.at = Hub(x.dst) /\ <<x.at[1], x.at[2], x.dst % net.ports>> = Place(x.dst)
<1>1. ChainIs(x) /\ ChainAt(x)
  BY DEF ChainOk
<1>2. TilePath(Place(x.src)[1], Place(x.dst)[1], x.hops) /\ IsPlace(Place(x.dst))
  BY <1>1, ChainHops
<1>3. x.hops[x.hop] = Place(x.dst)[1]
  BY <1>2 DEF TilePath
<1>4. x.at[2] = Place(x.dst)[2]
  <2>1. Aim(x) = Place(x.dst)[2]
    BY DEF Aim
  <2>2. Len(x.leg) = 0
    OBVIOUS
  <2>. QED BY <1>1, <2>1, <2>2 DEF ChainAt, PathTo
<1>5. x.at = Centre(net, Place(x.dst)[1], Place(x.dst)[2])
  BY <1>1, <1>3, <1>4 DEF ChainAt
<1>6. x.at[1] = Place(x.dst)[1]
  BY <1>5 DEF Centre
<1>7. Place(x.dst)[3] = x.dst % net.ports
  BY DEF Place
<1>. QED BY <1>2, <1>4, <1>5, <1>6, <1>7 DEF Hub, IsPlace

(* A move is charged with the pair's own bytes.                            *)
LEMMA LedgerRoute ==
  ASSUME StageInv, sent, MatrixOk(tm), RouteInv, Ledger, NocNext
  PROVE  LedgerAt(traffic', todo', route', tm)
<1>1. net \in Nets
  BY StageNet DEF NetIn
<1>2. PICK x : x = route
  OBVIOUS
<1>3. PICK f : f = traffic
  OBVIOUS
<1>4. PICK T : T = todo
  OBVIOUS
<1>5. PICK M : M = tm
  OBVIOUS
<1>6. PICK y : y = route'
  OBVIOUS
<1>7. LedgerAt(f, T, x, M) /\ MatrixOk(M) /\ TodoOk(T, M)
  BY <1>2, <1>3, <1>4, <1>5 DEF Ledger, RouteInv
<1>8. \A a, b, v : Charged(a, b, v) = Charge(f, a, b, v)
  BY <1>3 DEF Charged, Charge
<1>9. x # None => /\ ChainOk(x) /\ x.bytes = M[<<x.src, x.dst>>] /\ x.bytes \in Nat
                  /\ x.at = Centre(net, x.at[1], x.at[2])
  <2> SUFFICES ASSUME x # None
               PROVE  /\ ChainOk(x) /\ x.bytes = M[<<x.src, x.dst>>] /\ x.bytes \in Nat
                      /\ x.at = Centre(net, x.at[1], x.at[2])
    OBVIOUS
  <2>1. ChainOk(x) /\ <<x.src, x.dst>> \in DOMAIN M /\ x.bytes = M[<<x.src, x.dst>>]
    BY <1>2, <1>5 DEF RouteInv
  <2>2. x.at = Centre(net, x.hops[x.hop], x.at[2])
    BY <2>1 DEF ChainOk, ChainAt
  <2>3. x.at[1] = x.hops[x.hop]
    BY <2>2 DEF Centre
  <2>4. M[<<x.src, x.dst>>] \in Nat
    BY <1>7, <2>1 DEF MatrixOk
  <2>. QED BY <2>1, <2>2, <2>3, <2>4
<1>10. \A o, m : \A c : c = Centre(net, o, m) => c = Centre(net, c[1], c[2])
  BY DEF Centre
<1>11. ASSUME Depart PROVE LedgerAt(traffic', T \ (T \ todo'), y, M)
  <2>1. PICK p \in T :
          /\ todo' = T \ {p} /\ y.src = p.src /\ y.dst = p.dst /\ y.hop = 1
          /\ traffic' = Charged(Place(p.src), Centre(net, Place(p.src)[1], Place(p.src)[2]), p.bytes)
          /\ x = None
    BY <1>2, <1>4, <1>6, <1>11 DEF Depart
  <2>2. traffic' = Charge(f, Place(p.src), Hub(p.src), p.bytes)
    BY <1>8, <2>1 DEF Hub
  <2>3. y # None
    <3>1. /\ TodoOk(todo', tm) /\ y.src \in Nat
      <4>1. <<p.src, p.dst>> \in DOMAIN M
        BY <1>7, <2>1 DEF TodoOk
      <4>2. p.src \in Devices(net)
        <5>1. <<p.src, p.dst>>[1] \in Devices(net)
          BY <1>7, <4>1 DEF MatrixOk
        <5>. QED BY <5>1
      <4>3. p.src \in Nat
        BY <1>1, <4>2, PlaceFacts
      <4>4. TodoOk(todo', tm)
        BY <1>5, <1>7, <2>1 DEF TodoOk
      <4>. QED BY <2>1, <4>3, <4>4
    <3>. QED BY <3>1 DEF None
  <2>4. LedgerAt(f, T, None, M)
    BY <1>7, <2>1
  <2>5. LedgerAt(Charge(f, Place(p.src), Hub(p.src), p.bytes), T \ {p}, y, M)
    BY <1>1, <1>7, <2>1, <2>3, <2>4, LedgerDepart
  <2>6. T \ (T \ todo') = T \ {p}
    BY <2>1
  <2>. QED BY <2>2, <2>5, <2>6
<1>12. ASSUME Walk PROVE LedgerAt(traffic', T, y, M)
  <2>1. /\ x # None
        /\ y = [x EXCEPT !.at = Centre(net, x.at[1], Head(x.leg)), !.leg = Tail(x.leg),
                  !.walked = x.walked + 1, !.past = x.past \cup {x.at},
                  !.time = Later(Centre(net, x.at[1], Head(x.leg)))]
        /\ traffic' = Charged(x.at, Centre(net, x.at[1], Head(x.leg)), x.bytes)
    BY <1>2, <1>6, <1>12 DEF Walk, Move
  <2>2. PICK b : b = Centre(net, x.at[1], Head(x.leg))
    OBVIOUS
  <2>3. PICK a : a = x.at
    OBVIOUS
  <2>4. PICK v \in Nat : v = x.bytes
    BY <1>9, <2>1
  <2>5. ChainIs(x)
    BY <1>9, <2>1 DEF ChainOk
  <2>6. y.src = x.src /\ y.dst = x.dst
    BY <2>1, <2>5 DEF ChainIs
  <2>7. x.src \in Nat
    BY <1>1, <2>5, PlaceFacts DEF ChainIs
  <2>8. y # None
    BY <2>6, <2>7 DEF None
  <2>9. a = Centre(net, a[1], a[2]) /\ b = Centre(net, b[1], b[2])
    BY <1>9, <1>10, <2>1, <2>2, <2>3
  <2>10. LedgerAt(Charge(f, a, b, v), T, y, M)
    <3>1. <<y.src, y.dst>> = <<x.src, x.dst>> /\ LedgerAt(f, T, x, M)
      BY <1>7, <2>6
    <3>. QED BY <1>1, <2>1, <2>8, <2>9, <3>1, LedgerMove
  <2>. QED BY <1>8, <2>1, <2>2, <2>3, <2>4, <2>10
<1>13. ASSUME Cross PROVE LedgerAt(traffic', T, y, M)
  <2>1. PICK i : i = x.hop
    OBVIOUS
  <2>2. PICK in : in = Entry(x.src, x.dst, x.hops, i)
    OBVIOUS
  <2>3. PICK b : b = Centre(net, x.hops[i + 1], in)
    OBVIOUS
  <2>4. PICK leg : leg = NextLeg(x, i, in)
    OBVIOUS
  <2>5. /\ x # None /\ traffic' = Charged(x.at, b, x.bytes)
        /\ y = [x EXCEPT !.at = b, !.leg = leg, !.hop = i + 1,
                  !.past = x.past \cup {x.at}, !.time = Later(b)]
    BY <1>2, <1>6, <1>13, <2>1, <2>2, <2>3, <2>4 DEF Cross, Move, NextLeg
  <2>6. PICK a : a = x.at
    OBVIOUS
  <2>7. PICK v \in Nat : v = x.bytes
    BY <1>9, <2>5
  <2>8. ChainIs(x)
    BY <1>9, <2>5 DEF ChainOk
  <2>9. y.src = x.src /\ y.dst = x.dst
    BY <2>5, <2>8 DEF ChainIs
  <2>10. x.src \in Nat
    BY <1>1, <2>8, PlaceFacts DEF ChainIs
  <2>11. y # None
    BY <2>9, <2>10 DEF None
  <2>12. a = Centre(net, a[1], a[2]) /\ b = Centre(net, b[1], b[2])
    BY <1>9, <1>10, <2>3, <2>5, <2>6
  <2>13. LedgerAt(Charge(f, a, b, v), T, y, M)
    <3>1. <<y.src, y.dst>> = <<x.src, x.dst>> /\ LedgerAt(f, T, x, M)
      BY <1>7, <2>9
    <3>. QED BY <1>1, <2>5, <2>11, <2>12, <3>1, LedgerMove
  <2>. QED BY <1>8, <2>5, <2>6, <2>7, <2>13
<1>14. ASSUME Arrive PROVE LedgerAt(traffic', T, None, M)
  <2>1. /\ x # None /\ x.leg = <<>> /\ x.hop = Len(x.hops)
        /\ traffic' = Charged(x.at, <<x.at[1], x.at[2], x.dst % net.ports>>, x.bytes)
    BY <1>2, <1>14 DEF Arrive, Move
  <2>2. x.at = Hub(x.dst) /\ <<x.at[1], x.at[2], x.dst % net.ports>> = Place(x.dst)
    BY <1>1, <1>9, <2>1, ChainEnd
  <2>3. traffic' = Charge(f, Hub(x.dst), Place(x.dst), x.bytes)
    BY <1>8, <2>1, <2>2
  <2>4. x.bytes = M[<<x.src, x.dst>>]
    BY <1>9, <2>1
  <2>. QED BY <1>1, <1>7, <2>1, <2>3, <2>4, LedgerArrive
<1>15. CASE Depart
  <2>1. T \ (T \ todo') = todo'
    BY <1>4, <1>15 DEF Depart
  <2>. QED BY <1>5, <1>6, <1>11, <1>15, <2>1
<1>16. CASE Walk
  BY <1>4, <1>5, <1>6, <1>12, <1>16 DEF Walk, Move
<1>17. CASE Cross
  BY <1>4, <1>5, <1>6, <1>13, <1>17 DEF Cross, Move
<1>18. CASE Arrive
  BY <1>4, <1>5, <1>6, <1>14, <1>18 DEF Arrive, Move
<1>. QED BY <1>15, <1>16, <1>17, <1>18 DEF NocNext

(* Every step keeps it.                                                    *)
LEMMA LedgerStep ==
  StageInv /\ StageInv' /\ MatrixHeld /\ MatrixHeld' /\ RouteInv /\ Ledger /\ [Next]_vars => Ledger'
<1> SUFFICES ASSUME StageInv, StageInv', MatrixHeld, MatrixHeld', RouteInv, Ledger, [Next]_vars
             PROVE  Ledger'
  OBVIOUS
<1> USE DEF nocVars, collectiveVars
<1>1. CASE Fill
  <2>1. ~sent /\ route' = route /\ traffic' = Empty /\ sent' /\ UNCHANGED net
        /\ todo' = {[src |-> p[1], dst |-> p[2], bytes |-> tm'[p]] : p \in DOMAIN tm'}
    BY <1>1 DEF Fill
  <2>2. route' = None
    BY <2>1 DEF StageInv
  <2>3. PICK M : M = tm'
    OBVIOUS
  <2>4. \A p \in DOMAIN M : p = <<p[1], p[2]>>
    BY <2>1, <2>3 DEF MatrixHeld, MatrixOk
  <2>5. PICK T : T = todo'
    OBVIOUS
  <2>6. T = {[src |-> p[1], dst |-> p[2], bytes |-> M[p]] : p \in DOMAIN M}
    BY <2>1, <2>3, <2>5
  <2>7. \A p \in DOMAIN M : \E x \in T : <<x.src, x.dst>> = p
    <3> SUFFICES ASSUME NEW p \in DOMAIN M PROVE \E x \in T : <<x.src, x.dst>> = p
      OBVIOUS
    <3>1. PICK x : x = [src |-> p[1], dst |-> p[2], bytes |-> M[p]]
      OBVIOUS
    <3>2. x \in T /\ <<x.src, x.dst>> = p
      BY <2>4, <2>6, <3>1
    <3>. QED BY <3>2
  <2>8. LedgerAt(Empty, T, None, M)
    BY <2>7, LedgerStart
  <2>9. LedgerAt(Empty, T, None, M)'
    BY <2>1, <2>8, LedgerSame
  <2>10. Empty' = Empty /\ None' = None
    BY DEF Empty, None
  <2>. QED BY <2>1, <2>2, <2>3, <2>5, <2>9, <2>10 DEF Ledger
<1>2. CASE Route
  <2>1. sent /\ NocNext /\ tm' = tm
    BY <1>2 DEF Route
  <2>2. UNCHANGED net
    BY <2>1 DEF NocNext, Depart, Walk, Cross, Arrive, Move
  <2>3. MatrixOk(tm)
    BY <2>1 DEF MatrixHeld
  <2>4. PICK y : y = route'
    OBVIOUS
  <2>5. PICK T : T = todo'
    OBVIOUS
  <2>6. PICK f : f = traffic'
    OBVIOUS
  <2>7. PICK M : M = tm
    OBVIOUS
  <2>8. LedgerAt(f, T, y, M)
    BY <2>1, <2>3, <2>4, <2>5, <2>6, <2>7, LedgerRoute
  <2>9. LedgerAt(f, T, y, M)'
    BY <2>2, <2>8, LedgerSame
  <2>. QED BY <2>1, <2>4, <2>5, <2>6, <2>7, <2>9 DEF Ledger
<1>3. CASE StageRouted \/ Count \/ Compare \/ UNCHANGED vars
  <2>1. UNCHANGED <<net, todo, route, traffic>>
    BY <1>3 DEF StageRouted, Count, Compare, vars
  <2> SUFFICES ASSUME sent' PROVE Ledger'
    BY DEF Ledger
  <2>2. sent /\ tm' = tm
    <3>1. CASE Compare
      BY <3>1, CompareIdle DEF Compare
    <3>. QED BY <1>3, <3>1 DEF StageRouted, Count, vars
  <2>3. PICK y : y = route
    OBVIOUS
  <2>4. PICK T : T = todo
    OBVIOUS
  <2>5. PICK f : f = traffic
    OBVIOUS
  <2>6. PICK M : M = tm
    OBVIOUS
  <2>7. LedgerAt(f, T, y, M)'
    BY <2>1, <2>2, <2>3, <2>4, <2>5, <2>6, LedgerSame DEF Ledger
  <2>. QED BY <2>1, <2>2, <2>3, <2>4, <2>5, <2>6, <2>7 DEF Ledger
<1>. QED BY <1>1, <1>2, <1>3 DEF Next

(* It holds in every state.                                                *)
LEMMA LedgerHolds == Spec => [](StageInv /\ MatrixHeld /\ RouteInv /\ Ledger)
BY RouteHolds, LedgerInit, LedgerStep, PTL DEF Spec

(* Once routed, every pair has left its source and reached its destination.*)
LEMMA LedgerEnd ==
  ASSUME Ledger, sent, Routed
  PROVE  LedgerOk(traffic, DOMAIN tm, DOMAIN tm, tm)
<1>1. Begun(todo, tm) = DOMAIN tm /\ Walking(route) = {}
  BY DEF Routed, Begun, Walking
<1>2. PICK B : B = DOMAIN tm
  OBVIOUS
<1>3. B \ {} = B
  OBVIOUS
<1>. QED BY <1>1, <1>2, <1>3 DEF Ledger, LedgerAt

(* On every network, for every matrix.                                     *)
THEOREM EndpointsPaid == Spec => []EndpointsCharged
<1>1. Ledger => EndpointsCharged
  <2> SUFFICES ASSUME Ledger, sent, Routed PROVE EndpointsCharged
    BY DEF EndpointsCharged
  <2>1. LedgerOk(traffic, DOMAIN tm, DOMAIN tm, tm)
    BY LedgerEnd
  <2>. QED BY <2>1 DEF EndpointsCharged, LedgerOk, Owed, Ends, Hub
<1>. QED BY <1>1, LedgerHolds, PTL

(* A neighbour in each direction, where there is one.                      *)
LEMMA EdgeAt ==
  ASSUME NEW g, NEW u \in Nodes(g)
  PROVE  /\ g.rowRing \/ Row(g, u) + 1 \in 0 .. g.rows - 1
              => <<u, Id(g, (Row(g, u) + 1) % g.rows, (Col(g, u) + 0) % g.cols), "down">> \in Neighbours(g)
         /\ g.rowRing \/ Row(g, u) + -1 \in 0 .. g.rows - 1
              => <<u, Id(g, (Row(g, u) + -1) % g.rows, (Col(g, u) + 0) % g.cols), "up">> \in Neighbours(g)
         /\ g.colRing \/ Col(g, u) + 1 \in 0 .. g.cols - 1
              => <<u, Id(g, (Row(g, u) + 0) % g.rows, (Col(g, u) + 1) % g.cols), "right">> \in Neighbours(g)
         /\ g.colRing \/ Col(g, u) + -1 \in 0 .. g.cols - 1
              => <<u, Id(g, (Row(g, u) + 0) % g.rows, (Col(g, u) + -1) % g.cols), "left">> \in Neighbours(g)
<1>1. u \in 0 .. Size(g) - 1
  BY DEF Nodes
<1>. QED BY <1>1 DEF Neighbours

(* A neighbour on a line or ring is one step up or one step down.          *)
LEMMA NextIs ==
  ASSUME NEW n \in Length, NEW ring \in BOOLEAN, NEW a \in 0 .. n - 1, NEW b \in 0 .. n - 1,
         NextTo(n, ring, a, b), a # b
  PROVE  /\ (a + 0) % n = a /\ (b + 0) % n = b
         /\ IF ring THEN IF b = (a - 1) % n THEN (a + -1) % n = b ELSE (a + 1) % n = b
            ELSE IF b > a THEN (a + 1) % n = b /\ a + 1 \in 0 .. n - 1
            ELSE (a + -1) % n = b /\ a + -1 \in 0 .. n - 1
         /\ n > 1 /\ (n = 2 => (a + 1) % n = b /\ (a + -1) % n = b)
<1>1. CASE n = 1
  BY <1>1
<1>2. CASE n = 2
  BY <1>2 DEF NextTo
<1>3. CASE n = 4
  BY <1>3 DEF NextTo
<1>. QED BY <1>1, <1>2, <1>3 DEF Length

(* Two places beside each other are neighbours: along a row under the name *)
(* a route gives the hop, along a column under the opposite name.          *)
Other(dir) == IF dir = "down" THEN "up" ELSE "down"

(* Two grid nodes beside each other are an edge of _neighbors_2d: under    *)
(* the name hop_dir gives it along a row, and under the opposite name      *)
(* along a column.                                                         *)
LEMMA BesideEdge ==
  ASSUME NEW g, IsGrid(g), NEW u \in Nodes(g), NEW v \in Nodes(g), Beside(g, u, v)
  PROVE  /\ Row(g, u) = Row(g, v) => <<u, v, HopDir(g, u, v)>> \in Neighbours(g)
         /\ Row(g, u) # Row(g, v) =>
              /\ <<u, v, Other(HopDir(g, u, v))>> \in Neighbours(g)
              /\ g.rows > 1 /\ HopDir(g, u, v) \in {"down", "up"}
              /\ g.rows = 2 /\ g.rowRing => <<u, v, HopDir(g, u, v)>> \in Neighbours(g)
<1>1. /\ g.rows \in Length /\ g.cols \in Length /\ g.rowRing \in BOOLEAN /\ g.colRing \in BOOLEAN
      /\ Row(g, u) \in 0 .. g.rows - 1 /\ Col(g, u) \in 0 .. g.cols - 1
      /\ Row(g, v) \in 0 .. g.rows - 1 /\ Col(g, v) \in 0 .. g.cols - 1
      /\ u = Id(g, Row(g, u), Col(g, u)) /\ v = Id(g, Row(g, v), Col(g, v))
  BY GridPlace
<1>2. PICK n \in Length : n = g.rows
  BY <1>1
<1>3. PICK m \in Length : m = g.cols
  BY <1>1
<1>4. PICK a \in 0 .. n - 1 : a = Row(g, u)
  BY <1>1, <1>2
<1>5. PICK b \in 0 .. n - 1 : b = Row(g, v)
  BY <1>1, <1>2
<1>6. PICK c \in 0 .. m - 1 : c = Col(g, u)
  BY <1>1, <1>3
<1>7. PICK d \in 0 .. m - 1 : d = Col(g, v)
  BY <1>1, <1>3
<1>8. PICK rr \in BOOLEAN : rr = g.rowRing
  BY <1>1
<1>9. PICK cr \in BOOLEAN : cr = g.colRing
  BY <1>1
<1>10. u = Id(g, a, c) /\ v = Id(g, b, d)
  BY <1>1, <1>4, <1>5, <1>6, <1>7
<1>11. HopDir(g, u, v) = IF a # b
                         THEN IF rr THEN IF b = (a - 1) % n THEN "down" ELSE "up"
                              ELSE IF b > a THEN "up" ELSE "down"
                         ELSE IF cr THEN IF d = (c - 1) % m THEN "left" ELSE "right"
                              ELSE IF d > c THEN "right" ELSE "left"
  BY <1>2, <1>3, <1>4, <1>5, <1>6, <1>7, <1>8, <1>9 DEF HopDir
<1>12. /\ rr \/ a + 1 \in 0 .. n - 1 => <<u, Id(g, (a + 1) % n, (c + 0) % m), "down">> \in Neighbours(g)
       /\ rr \/ a + -1 \in 0 .. n - 1 => <<u, Id(g, (a + -1) % n, (c + 0) % m), "up">> \in Neighbours(g)
       /\ cr \/ c + 1 \in 0 .. m - 1 => <<u, Id(g, (a + 0) % n, (c + 1) % m), "right">> \in Neighbours(g)
       /\ cr \/ c + -1 \in 0 .. m - 1 => <<u, Id(g, (a + 0) % n, (c + -1) % m), "left">> \in Neighbours(g)
  BY <1>2, <1>3, <1>4, <1>6, <1>8, <1>9, EdgeAt
<1>13. CASE a = b
  <2>1. c # d
    BY <1>10, <1>13 DEF Beside
  <2>2. NextTo(m, cr, c, d)
    BY <1>3, <1>4, <1>5, <1>6, <1>7, <1>9, <1>13, <2>1 DEF Beside, RowNext, ColNext
  <2>3. /\ IF cr THEN IF d = (c - 1) % m THEN (c + -1) % m = d ELSE (c + 1) % m = d
           ELSE IF d > c THEN (c + 1) % m = d /\ c + 1 \in 0 .. m - 1
           ELSE (c + -1) % m = d /\ c + -1 \in 0 .. m - 1
    BY <2>1, <2>2, NextIs
  <2>4. (a + 0) % n = b
    <3>1. \A k \in Length : \A x \in 0 .. k - 1 : (x + 0) % k = x
      BY DEF Length
    <3>. QED BY <1>13, <3>1
  <2>5. <<u, v, HopDir(g, u, v)>> \in Neighbours(g)
    <3>1. CASE cr /\ d = (c - 1) % m
      <4>1. HopDir(g, u, v) = "left" /\ (c + -1) % m = d
        BY <1>11, <1>13, <2>3, <3>1
      <4>. QED BY <1>10, <1>12, <2>4, <3>1, <4>1
    <3>2. CASE cr /\ d # (c - 1) % m
      <4>1. HopDir(g, u, v) = "right" /\ (c + 1) % m = d
        BY <1>11, <1>13, <2>3, <3>2
      <4>. QED BY <1>10, <1>12, <2>4, <3>2, <4>1
    <3>3. CASE ~cr /\ d > c
      <4>1. HopDir(g, u, v) = "right" /\ (c + 1) % m = d /\ c + 1 \in 0 .. m - 1
        BY <1>11, <1>13, <2>3, <3>3
      <4>. QED BY <1>10, <1>12, <2>4, <4>1
    <3>4. CASE ~cr /\ ~(d > c)
      <4>1. HopDir(g, u, v) = "left" /\ (c + -1) % m = d /\ c + -1 \in 0 .. m - 1
        BY <1>11, <1>13, <2>3, <3>4
      <4>. QED BY <1>10, <1>12, <2>4, <4>1
    <3>. QED BY <3>1, <3>2, <3>3, <3>4
  <2>. QED BY <1>4, <1>5, <1>13, <2>5
<1>14. CASE a # b
  <2>1. NextTo(n, rr, a, b) /\ c = d
    BY <1>2, <1>4, <1>5, <1>6, <1>7, <1>8, <1>14 DEF Beside, RowNext, ColNext
  <2>2. /\ IF rr THEN IF b = (a - 1) % n THEN (a + -1) % n = b ELSE (a + 1) % n = b
           ELSE IF b > a THEN (a + 1) % n = b /\ a + 1 \in 0 .. n - 1
           ELSE (a + -1) % n = b /\ a + -1 \in 0 .. n - 1
    BY <1>14, <2>1, NextIs
  <2>3. n > 1 /\ (n = 2 => (a + 1) % n = b /\ (a + -1) % n = b)
    BY <1>14, <2>1, NextIs
  <2>4. (c + 0) % m = d
    <3>1. \A k \in Length : \A x \in 0 .. k - 1 : (x + 0) % k = x
      BY DEF Length
    <3>. QED BY <2>1, <3>1
  <2>5. <<u, v, Other(HopDir(g, u, v))>> \in Neighbours(g) /\ HopDir(g, u, v) \in {"down", "up"}
    <3>1. CASE rr /\ b = (a - 1) % n
      <4>1. HopDir(g, u, v) = "down" /\ (a + -1) % n = b
        BY <1>11, <1>14, <2>2, <3>1
      <4>. QED BY <1>10, <1>12, <2>4, <3>1, <4>1 DEF Other
    <3>2. CASE rr /\ b # (a - 1) % n
      <4>1. HopDir(g, u, v) = "up" /\ (a + 1) % n = b
        BY <1>11, <1>14, <2>2, <3>2
      <4>. QED BY <1>10, <1>12, <2>4, <3>2, <4>1 DEF Other
    <3>3. CASE ~rr /\ b > a
      <4>1. HopDir(g, u, v) = "up" /\ (a + 1) % n = b /\ a + 1 \in 0 .. n - 1
        BY <1>11, <1>14, <2>2, <3>3
      <4>. QED BY <1>10, <1>12, <2>4, <4>1 DEF Other
    <3>4. CASE ~rr /\ ~(b > a)
      <4>1. HopDir(g, u, v) = "down" /\ (a + -1) % n = b /\ a + -1 \in 0 .. n - 1
        BY <1>11, <1>14, <2>2, <3>4
      <4>. QED BY <1>10, <1>12, <2>4, <4>1 DEF Other
    <3>. QED BY <3>1, <3>2, <3>3, <3>4
  <2>6. ASSUME n = 2, rr PROVE <<u, v, HopDir(g, u, v)>> \in Neighbours(g)
    <3>1. (a + 1) % n = b /\ (a + -1) % n = b
      BY <2>3, <2>6
    <3>2. <<u, v, "down">> \in Neighbours(g) /\ <<u, v, "up">> \in Neighbours(g)
      BY <1>10, <1>12, <2>4, <2>6, <3>1
    <3>. QED BY <2>5, <3>2
  <2>. QED BY <1>2, <1>4, <1>5, <1>8, <1>14, <2>3, <2>5, <2>6
<1>. QED BY <1>13, <1>14

Table == DOMAIN CellTimesOf[net]

(* The four kinds of cells the table has.                                  *)
LEMMA TableHas ==
  ASSUME net \in Nets
  PROVE  /\ SwitchLinks(net) \subseteq Table /\ CentreLinks(net) \subseteq Table
         /\ MiddleLinks(net) \subseteq Table /\ OuterLinks(net) \subseteq Table
<1>1. CellTimesOf[net] = CellTimes(net)
  BY DEF CellTimesOf
<1> DEFINE C == [outer |-> OuterLinks(net), middle |-> MiddleLinks(net),
                 switch |-> SwitchLinks(net), centre |-> CentreLinks(net)]
<1>2. DOMAIN CellTimes(net) = UNION {C[l] : l \in Layers}
  BY DEF CellTimes
<1>3. /\ C["outer"] = OuterLinks(net) /\ C["middle"] = MiddleLinks(net)
      /\ C["switch"] = SwitchLinks(net) /\ C["centre"] = CentreLinks(net)
  OBVIOUS
<1> HIDE DEF C
<1>4. \A l \in Layers : C[l] \subseteq Table
  BY <1>1, <1>2 DEF Table
<1>. QED BY <1>3, <1>4 DEF Layers

(* A device's own links, and a centre's own cell.                          *)
LEMMA OwnCells ==
  ASSUME net \in Nets
  PROVE  /\ \A o \in Nodes(net.outer), m \in Nodes(net.middle) :
              <<Centre(net, o, m), Centre(net, o, m)>> \in Table
         /\ \A d \in Devices(net) : /\ <<Place(d), Hub(d)>> \in Table
                                    /\ <<Hub(d), Place(d)>> \in Table
                                    /\ <<Hub(d), Hub(d)>> \in Table
<1>1. Tiles(net) = Nodes(net.outer) /\ Switches(net) = Nodes(net.middle)
  BY NetFacts
<1>2. \A o \in Tiles(net), m \in Switches(net) : <<Centre(net, o, m), Centre(net, o, m)>> \in CentreLinks(net)
  BY DEF CentreLinks
<1>3. \A o \in Tiles(net), m \in Switches(net), p \in 0 .. net.ports - 1 :
        /\ <<<<o, m, p>>, Centre(net, o, m)>> \in SwitchLinks(net)
        /\ <<Centre(net, o, m), <<o, m, p>>>> \in SwitchLinks(net)
  <2> SUFFICES ASSUME NEW o \in Tiles(net), NEW m \in Switches(net), NEW p \in 0 .. net.ports - 1
               PROVE  /\ <<<<o, m, p>>, Centre(net, o, m)>> \in SwitchLinks(net)
                      /\ <<Centre(net, o, m), <<o, m, p>>>> \in SwitchLinks(net)
    OBVIOUS
  <2>1. PICK pair : pair = {<<<<o, m, p>>, Centre(net, o, m)>>, <<Centre(net, o, m), <<o, m, p>>>>}
    OBVIOUS
  <2> DEFINE all == {{<<<<a, b, c>>, Centre(net, a, b)>>, <<Centre(net, a, b), <<a, b, c>>>>} :
                            a \in Tiles(net), b \in Switches(net), c \in 0 .. net.ports - 1}
  <2>3. pair \in all
    BY <2>1
  <2>5. SwitchLinks(net) = UNION all
    BY DEF SwitchLinks
  <2> HIDE DEF all
  <2>4. pair \subseteq UNION all
    BY <2>3
  <2>. QED BY <2>1, <2>4, <2>5
<1>4. ASSUME NEW d \in Devices(net)
      PROVE  /\ <<Place(d), Hub(d)>> \in Table /\ <<Hub(d), Place(d)>> \in Table
             /\ <<Hub(d), Hub(d)>> \in Table
  <2>1. IsPlace(Place(d))
    BY PlaceFacts
  <2>2. PICK o \in Tiles(net) : o = Place(d)[1]
    BY <1>1, <2>1 DEF IsPlace
  <2>3. PICK m \in Switches(net) : m = Place(d)[2]
    BY <1>1, <2>1 DEF IsPlace
  <2>4. PICK p \in 0 .. net.ports - 1 : p = Place(d)[3]
    BY <2>1 DEF IsPlace
  <2>5. Place(d) = <<o, m, p>> /\ Hub(d) = Centre(net, o, m)
    BY <2>1, <2>2, <2>3, <2>4 DEF IsPlace, Hub
  <2>. QED BY <1>2, <1>3, <2>5, TableHas
<1>5. \A o \in Nodes(net.outer), m \in Nodes(net.middle) : <<Centre(net, o, m), Centre(net, o, m)>> \in Table
  BY <1>1, <1>2, TableHas
<1>. QED BY <1>4, <1>5

(* A hop inside a tile.                                                    *)
LEMMA MiddleCell ==
  ASSUME net \in Nets, NEW o \in Nodes(net.outer), NEW u \in Nodes(net.middle),
         NEW v \in Nodes(net.middle), Beside(net.middle, u, v)
  PROVE  <<Centre(net, o, u), Centre(net, o, v)>> \in Table
<1>1. IsGrid(net.middle) /\ Tiles(net) = Nodes(net.outer)
  BY NetFacts
<1>2. PICK dir : <<u, v, dir>> \in Neighbours(net.middle)
  BY <1>1, BesideEdge
<1>3. PICK e \in Neighbours(net.middle) : e = <<u, v, dir>>
  BY <1>2
<1>4. <<Centre(net, o, e[1]), Centre(net, o, e[2])>> \in MiddleLinks(net)
  BY <1>1 DEF MiddleLinks
<1>. QED BY <1>3, <1>4, TableHas

(* A hop between tiles, when the names agree or the tiles are in one row.  *)
LEMMA OuterCell ==
  ASSUME net \in Nets, NEW src \in Nat, NEW dst \in Nat, NEW hops, NEW i \in Nat \ {0},
         NEW u \in Nodes(net.outer), u = hops[i],
         NEW v \in Nodes(net.outer), v = hops[i + 1], Beside(net.outer, u, v),
         RowsAgree(net) \/ Row(net.outer, u) = Row(net.outer, v)
  PROVE  <<Centre(net, u, Exit(src, dst, hops, i)), Centre(net, v, Entry(src, dst, hops, i))>> \in Table
<1>1. PICK dir : dir = HopDir(net.outer, hops[i], hops[i + 1])
  OBVIOUS
<1>2. PICK x : x = Exit(src, dst, hops, i)
  OBVIOUS
<1>3. PICK y : y = Entry(src, dst, hops, i)
  OBVIOUS
<1>4. Facing(src, dst, hops, i, dir)
  BY <1>1, CrossingPorts
<1>5. Exit(src, dst, hops, i) \in Nodes(net.middle)
  BY <1>1, CrossingPorts
<1>6. Entry(src, dst, hops, i) \in Nodes(net.middle)
  BY <1>1, CrossingPorts
<1>7. PICK k \in 1 .. SideLen(net.middle, dir) :
              /\ x = PortsOf(net.middle)[Sides[dir][1]][k]
              /\ y = PortsOf(net.middle)[Sides[dir][2]][k]
  BY <1>2, <1>3, <1>4 DEF Facing
<1>8. \A e \in Neighbours(net.outer) :
        \A j \in DOMAIN PortsOf(net.middle)[Sides[e[3]][1]] \cap DOMAIN PortsOf(net.middle)[Sides[e[3]][2]] :
          <<Centre(net, e[1], PortsOf(net.middle)[Sides[e[3]][1]][j]),
            Centre(net, e[2], PortsOf(net.middle)[Sides[e[3]][2]][j])>> \in OuterLinks(net)
  BY DEF OuterLinks
<1>9. IsGrid(net.middle) /\ IsGrid(net.outer)
  BY NetFacts
<1>10. dir = HopDir(net.outer, u, v)
  BY <1>1
<1>11. dir \in {"down", "up", "right", "left"}
  BY <1>10 DEF HopDir
<1>12. ASSUME <<u, v, dir>> \in Neighbours(net.outer)
       PROVE  <<Centre(net, u, x), Centre(net, v, y)>> \in OuterLinks(net)
  <2>1. PICK e \in Neighbours(net.outer) : e = <<u, v, dir>>
    BY <1>12
  <2>2. /\ DOMAIN PortsOf(net.middle)[Sides[dir][1]] = 1 .. SideLen(net.middle, dir)
        /\ DOMAIN PortsOf(net.middle)[Sides[dir][2]] = 1 .. SideLen(net.middle, dir)
    BY <1>9, <1>11, SidePorts
  <2>3. e[1] = u /\ e[2] = v /\ e[3] = dir
    BY <2>1
  <2>. QED BY <1>7, <1>8, <2>2, <2>3
<1>13. ASSUME <<u, v, Other(dir)>> \in Neighbours(net.outer), Size(net.middle) = 1
       PROVE  <<Centre(net, u, x), Centre(net, v, y)>> \in OuterLinks(net)
  <2>1. PICK o \in {"down", "up", "right", "left"} : o = Other(dir)
    BY DEF Other
  <2>2. PICK e \in Neighbours(net.outer) : e = <<u, v, o>>
    BY <1>13, <2>1
  <2>3. PICK p \in Seq(Nodes(net.middle)) : p = PortsOf(net.middle)[Sides[o][1]]
    BY <1>9, SidePorts
  <2>4. PICK q \in Seq(Nodes(net.middle)) : q = PortsOf(net.middle)[Sides[o][2]]
    BY <1>9, SidePorts
  <2>5. Len(p) \in {1, 2} /\ Len(q) \in {1, 2} /\ DOMAIN p = 1 .. Len(p) /\ DOMAIN q = 1 .. Len(q)
    <3>1. /\ Len(p) = SideLen(net.middle, o) /\ DOMAIN p = 1 .. SideLen(net.middle, o)
          /\ SideLen(net.middle, o) \in {1, 2}
      BY <1>9, <2>3, SidePorts
    <3>2. /\ Len(q) = SideLen(net.middle, o) /\ DOMAIN q = 1 .. SideLen(net.middle, o)
      BY <1>9, <2>4, SidePorts
    <3>. QED BY <3>1, <3>2
  <2>6. 1 \in DOMAIN p /\ 1 \in DOMAIN q
    BY <2>5
  <2>7. Nodes(net.middle) = {0}
    BY <1>13 DEF Nodes
  <2>8. p[1] = 0 /\ q[1] = 0
    BY <2>5, <2>6, <2>7, ElementOfSeq
  <2>9. x = 0 /\ y = 0
    BY <1>2, <1>3, <1>5, <1>6, <2>7
  <2>10. e[1] = u /\ e[2] = v /\ e[3] = o
    BY <2>2
  <2>11. <<Centre(net, e[1], p[1]), Centre(net, e[2], q[1])>> \in OuterLinks(net)
    BY <1>8, <2>3, <2>4, <2>6, <2>10
  <2>. QED BY <2>8, <2>9, <2>10, <2>11
<1>14. <<Centre(net, u, x), Centre(net, v, y)>> \in OuterLinks(net)
  <2>1. CASE Row(net.outer, u) = Row(net.outer, v)
    BY <1>9, <1>10, <1>12, <2>1, BesideEdge
  <2>2. CASE Row(net.outer, u) # Row(net.outer, v)
    <3>1. /\ <<u, v, Other(HopDir(net.outer, u, v))>> \in Neighbours(net.outer)
          /\ net.outer.rows > 1
          /\ net.outer.rows = 2 /\ net.outer.rowRing
               => <<u, v, HopDir(net.outer, u, v)>> \in Neighbours(net.outer)
      BY <1>9, <2>2, BesideEdge
    <3>2. \/ net.outer.rows = 2 /\ net.outer.rowRing
          \/ Size(net.middle) = 1
      BY <2>2, <3>1 DEF RowsAgree
    <3>. QED BY <1>10, <1>12, <1>13, <3>1, <3>2
  <2>. QED BY <2>1, <2>2
<1>. QED BY <1>2, <1>3, <1>14, TableHas

(* Between two tiles of a row all hops are in the row.                     *)
LEMMA RowHops ==
  ASSUME net \in Nets, NEW s \in Nodes(net.outer), NEW d \in Nodes(net.outer),
         Row(net.outer, s) = Row(net.outer, d), NEW hops, hops = HopsOf(s, d),
         NEW i \in 1 .. Len(hops)
  PROVE  Row(net.outer, hops[i]) = Row(net.outer, s)
<1>1. IsGrid(net.outer)
  BY NetFacts
<1>2. PICK path : path = Steps(net.outer, s, d)
  OBVIOUS
<1>3. PICK rows \in Seq(0 .. net.outer.rows - 1) : \E cols \in Seq(0 .. net.outer.cols - 1) :
           /\ rows = Line(net.outer.rows, net.outer.rowRing, Row(net.outer, s), Row(net.outer, d))
           /\ path \in Seq(Nodes(net.outer))
           /\ Len(path) = Len(rows) + Len(cols)
           /\ \A k \in 1 .. Len(cols) : Row(net.outer, path[Len(rows) + k]) = Row(net.outer, d)
  BY <1>1, <1>2, StepsParts
<1>4. PICK cols \in Seq(0 .. net.outer.cols - 1) :
           /\ rows = Line(net.outer.rows, net.outer.rowRing, Row(net.outer, s), Row(net.outer, d))
           /\ path \in Seq(Nodes(net.outer))
           /\ Len(path) = Len(rows) + Len(cols)
           /\ \A k \in 1 .. Len(cols) : Row(net.outer, path[Len(rows) + k]) = Row(net.outer, d)
  BY <1>3
<1>5. PICK n \in Length : n = net.outer.rows
  BY <1>1, GridPlace
<1>6. PICK a \in 0 .. n - 1 : a = Row(net.outer, s)
  BY <1>1, <1>5, GridPlace
<1>7. PICK ring \in BOOLEAN : ring = net.outer.rowRing
  BY <1>1, GridPlace
<1>8. Len(rows) = 0
  <2>1. rows = Line(n, ring, a, a)
    BY <1>4, <1>5, <1>6, <1>7
  <2>2. Len(Line(n, ring, a, a)) = Apart(n, ring, a, a)
    BY LineSize
  <2>3. Apart(n, ring, a, a) = 0
    <3>1. (a - a) % n = 0 /\ a - a = 0
      BY DEF Length
    <3>2. Min({0, 0}) = 0 /\ Max({0, 0}) = 0
      BY MinTwo, MaxTwo
    <3>. QED BY <3>1, <3>2 DEF Apart
  <2>. QED BY <2>1, <2>2, <2>3
<1>9. PICK m \in Nat : m = Len(cols)
  BY LenProperties
<1>10. \A k \in 1 .. m : path[k] \in Nodes(net.outer) /\ Row(net.outer, path[k]) = Row(net.outer, d)
  <2> SUFFICES ASSUME NEW k \in 1 .. m
               PROVE  path[k] \in Nodes(net.outer) /\ Row(net.outer, path[k]) = Row(net.outer, d)
    OBVIOUS
  <2>1. 0 + k = k
    OBVIOUS
  <2>2. Len(path) = m
    BY <1>4, <1>8, <1>9
  <2>. QED BY <1>4, <1>8, <1>9, <2>1, <2>2, ElementOfSeq
<1>11. <<s>> \in Seq(Nodes(net.outer)) /\ Len(<<s>>) = 1 /\ <<s>>[1] = s
  OBVIOUS
<1>12. /\ hops = <<s>> \o path /\ Len(path) = m
  BY <1>2, <1>4, <1>8, <1>9 DEF HopsOf
<1>13. /\ Len(hops) = 1 + m
       /\ \A j \in 1 .. 1 + m : hops[j] = IF j <= 1 THEN <<s>>[j] ELSE path[j - 1]
  BY <1>4, <1>11, <1>12, ConcatProperties
<1>14. CASE i = 1
  <2>1. 1 \in 1 .. 1 + m
    OBVIOUS
  <2>. QED BY <1>11, <1>13, <1>14, <2>1
<1>15. CASE i # 1
  <2>1. i \in 1 .. 1 + m /\ ~(i <= 1) /\ i - 1 \in 1 .. m
    BY <1>13, <1>15
  <2>2. hops[i] = path[i - 1]
    BY <1>13, <2>1
  <2>. QED BY <1>10, <2>1, <2>2
<1>. QED BY <1>14, <1>15

(* Two divisions are one.                                                  *)
LEMMA DivDiv ==
  ASSUME NEW d \in Nat, NEW a \in Nat \ {0}, NEW b \in Nat \ {0}
  PROVE  (d \div a) \div b = d \div (a * b)
<1>1. PICK q \in Nat : q = d \div a
  OBVIOUS
<1>2. PICK r \in Nat : r < a /\ d = q * a + r
  <2>1. d = a * (d \div a) + (d % a) /\ d % a \in 0 .. a - 1
    OBVIOUS
  <2>2. a * q = q * a
    OBVIOUS
  <2>. QED BY <1>1, <2>1, <2>2
<1>3. PICK u \in Nat : u = q \div b
  OBVIOUS
<1>4. PICK t \in Nat : t < b /\ q = u * b + t
  <2>1. q = b * (q \div b) + (q % b) /\ q % b \in 0 .. b - 1
    OBVIOUS
  <2>2. b * u = u * b
    OBVIOUS
  <2>. QED BY <1>3, <2>1, <2>2
<1>5. PICK m \in Nat : b = t + 1 + m
  <2>1. b - t - 1 \in Nat /\ b = t + 1 + (b - t - 1)
    BY <1>4
  <2>. QED BY <2>1
<1>6. \A x, y, z, w \in Nat : /\ (x * y + z) * w = x * (w * y) + z * w
                              /\ (x + 1 + y) * w = x * w + w + y * w
                              /\ x * w \in Nat
  OBVIOUS
<1>7. d = u * (a * b) + (t * a + r)
  <2>1. (u * b + t) * a = u * (a * b) + t * a
    BY <1>6
  <2>2. u * (a * b) \in Nat /\ t * a \in Nat
    BY <1>6
  <2>. QED BY <1>2, <1>4, <2>1, <2>2
<1>8. t * a + r < a * b /\ t * a + r \in Nat
  <2>1. (t + 1 + m) * a = t * a + a + m * a /\ t * a \in Nat /\ m * a \in Nat
    BY <1>6
  <2>2. a * b = b * a
    OBVIOUS
  <2>. QED BY <1>2, <1>5, <2>1, <2>2
<1>9. a * b \in Nat \ {0}
  BY <1>6
<1>10. PICK c \in Nat \ {0} : c = a * b
  BY <1>9
<1>11. PICK e \in Nat : e = t * a + r
  BY <1>8
<1>12. d = u * c + e /\ e < c
  BY <1>7, <1>8, <1>10, <1>11
<1>13. d \div c = u
  BY <1>12, RemainderIs
<1>. QED BY <1>1, <1>3, <1>10, <1>13

(* A group lies in one block of the dimensions up to its own.              *)
LEMMA GroupBlock ==
  ASSUME CallOk, NEW g \in Groups
  PROVE  \E n \in Nat : \A k \in Ranks : g[k] \in Nat /\ g[k] \div (Group * Stride) = n
<1>1. PICK s \in Nat \ {0} : s = Stride
  BY CallFacts
<1>2. PICK n \in Nat \ {0} : n = Group
  BY CallFacts
<1>3. PICK block \in 0 .. Blocks - 1 : \E off \in 0 .. Stride - 1 :
        g = [k \in Ranks |-> block * Group * Stride + off + k * Stride]
  BY DEF Groups
<1>4. PICK off \in 0 .. Stride - 1 :
        g = [k \in Ranks |-> block * Group * Stride + off + k * Stride]
  BY <1>3
<1>5. block \in Nat /\ off \in Nat /\ off < s
  BY <1>1, <1>3, <1>4, CallFacts
<1>6. \A b, x, y \in Nat : b * x * y = b * (x * y) /\ x * y \in Nat
  OBVIOUS
<1>7. \A x, k, m, o \in Nat : o < x => o + k * x < (k + 1 + m) * x
  <2>1. \A x, k, m \in Nat : (k + 1 + m) * x = k * x + x + m * x /\ k * x \in Nat /\ m * x \in Nat
    OBVIOUS
  <2>. QED BY <2>1
<1>8. PICK w \in Nat \ {0} : w = n * s
  <2>1. \A x, y \in Nat \ {0} : x * y \in Nat \ {0}
    OBVIOUS
  <2>. QED BY <2>1
<1>9. ASSUME NEW k \in Ranks
      PROVE  g[k] \in Nat /\ g[k] \div w = block
  <2>1. k \in Nat /\ n - k - 1 \in Nat /\ n = k + 1 + (n - k - 1)
    BY <1>2 DEF Ranks
  <2>2. PICK m \in Nat : m = n - k - 1 /\ n = k + 1 + m
    BY <2>1
  <2>3. PICK e \in Nat : e = off + k * s
    BY <1>5, <1>6, <2>1
  <2>4. e < w
    <3>1. off + k * s < (k + 1 + m) * s
      BY <1>5, <1>7, <2>1
    <3>. QED BY <1>8, <2>2, <2>3, <3>1
  <2>5. block * n * s = block * w
    BY <1>5, <1>6, <1>8
  <2>6. PICK z \in Nat : z = block * w
    BY <1>5, <1>6
  <2>7. PICK ks \in Nat : ks = k * s
    BY <1>6, <2>1
  <2>8. g[k] = block * n * s + off + k * s
    BY <1>1, <1>2, <1>4
  <2>9. g[k] = z + e
    BY <1>5, <2>3, <2>5, <2>6, <2>7, <2>8
  <2>10. PICK x \in Nat : x = g[k]
    BY <2>9
  <2>11. x = block * w + e
    BY <2>6, <2>9, <2>10
  <2>12. x \div w = block
    BY <1>5, <2>4, <2>11, RemainderIs
  <2>. QED BY <2>10, <2>12
<1>10. Group * Stride = w
  BY <1>1, <1>2, <1>8
<1>. QED BY <1>5, <1>9, <1>10

RowsOk(s, d) == RowsAgree(net) \/ Row(net.outer, Place(s)[1]) = Row(net.outer, Place(d)[1])

(* When a row of tiles is whole blocks, the devices of a group are in one. *)
LEMMA PairRows ==
  ASSUME CallOk, LinksAgree(call), NEW g \in Groups, NEW i \in Ranks, NEW j \in Ranks
  PROVE  RowsOk(g[i], g[j])
<1>1. CASE RowsAgree(net)
  BY <1>1 DEF RowsOk
<1>2. CASE ~RowsAgree(net)
  <2>1. PICK w \in Nat \ {0} : w = Group * Stride
    <3>1. \A x, y \in Nat \ {0} : x * y \in Nat \ {0}
      OBVIOUS
    <3>. QED BY <3>1, CallFacts
  <2>2. Product(SubSeq(call.dims, 1, call.which)) = w
    <3>1. PICK s \in Seq(Nat \ {0}) : s = call.dims
      BY CallAssumption DEF CallOk
    <3>2. PICK v \in 1 .. Len(s) : v = call.which
      <4>1. DOMAIN s = 1 .. Len(s)
        BY LenProperties
      <4>. QED BY <3>1, <4>1, CallAssumption DEF CallOk
    <3>3. Product(SubSeq(s, 1, v)) = s[v] * Product(SubSeq(s, 1, v - 1))
      BY ProductSplit
    <3>. QED BY <2>1, <3>1, <3>2, <3>3 DEF Group, Stride
  <2>3. PICK m \in Nat \ {0} : m = Size(net.middle)
    BY CallFacts, NetFacts
  <2>4. PICK p \in Nat \ {0} : p = net.ports
    BY CallFacts, NetFacts
  <2>5. PICK c \in Nat \ {0} : c = net.outer.cols
    <3>1. IsGrid(net.outer)
      BY CallFacts, NetFacts
    <3>. QED BY <3>1 DEF IsGrid
  <2>6. PICK a \in Nat \ {0} : a = c * m * p
    BY <2>3, <2>4, <2>5
  <2>7. a % w = 0
    BY <1>2, <2>2, <2>3, <2>4, <2>5, <2>6 DEF LinksAgree, CallOk
  <2>8. PICK q \in Nat \ {0} : a = w * q
    <3>1. a = w * (a \div w) + (a % w) /\ a \div w \in Nat
      OBVIOUS
    <3>2. PICK x \in Nat : x = a \div w
      BY <3>1
    <3>3. a = w * x
      BY <2>7, <3>1, <3>2
    <3>4. w * 0 = 0
      OBVIOUS
    <3>5. x # 0
      BY <3>3, <3>4
    <3>. QED BY <3>3, <3>5
  <2>9. PICK n \in Nat : \A k \in Ranks : g[k] \in Nat /\ g[k] \div w = n
    BY <2>1, GroupBlock
  <2>10. ASSUME NEW k \in Ranks
         PROVE  Row(net.outer, Place(g[k])[1]) = n \div q
    <3>1. PICK d \in Nat : d = g[k] /\ d \div w = n
      BY <2>9
    <3>2. PICK b \in Nat \ {0} : b = m * p
      BY <2>3, <2>4
    <3>3. b * c = a
      <4>1. \A x, y, z \in Nat : (y * z) * x = x * y * z
        OBVIOUS
      <4>. QED BY <2>6, <3>2, <4>1
    <3>4. Row(net.outer, Place(g[k])[1]) = (d \div b) \div c
      BY <2>3, <2>4, <2>5, <3>1, <3>2 DEF Row, Place
    <3>5. (d \div b) \div c = d \div (b * c)
      BY DivDiv
    <3>6. (d \div w) \div q = d \div (w * q)
      BY DivDiv
    <3>. QED BY <2>8, <3>1, <3>3, <3>4, <3>5, <3>6
  <2>. QED BY <2>10 DEF RowsOk
<1>. QED BY <1>1, <1>2

(* The link table depends on the network only.                             *)
LEMMA TableSame == UNCHANGED net => Table' = Table
BY DEF Table

(* A charge to a cell of the table, with the hub's own cell.               *)
LEMMA ChargeCells ==
  ASSUME net \in Nets, NEW f, TrafficOk(f), DOMAIN f \subseteq Table, NEW v \in Nat,
         NEW a, NEW b, <<a, b>> \in Table,
         b[1] \in Nodes(net.outer), b[2] \in Nodes(net.middle)
  PROVE  DOMAIN Charge(f, a, b, v) \subseteq Table
<1>1. PICK hub : hub = Centre(net, b[1], b[2])
  OBVIOUS
<1>2. DOMAIN Charge(f, a, b, v) \subseteq DOMAIN f \cup {<<a, b>>, <<hub, hub>>}
  BY <1>1, ChargeIs
<1>3. <<hub, hub>> \in Table
  BY <1>1, OwnCells
<1>. QED BY <1>2, <1>3

(* The tiles and switches of a chain's places.                             *)
LEMMA HubPlace ==
  ASSUME net \in Nets, NEW d \in Devices(net)
  PROVE  /\ Hub(d)[1] \in Nodes(net.outer) /\ Hub(d)[2] \in Nodes(net.middle)
         /\ Place(d)[1] \in Nodes(net.outer) /\ Place(d)[2] \in Nodes(net.middle)
<1>1. IsPlace(Place(d))
  BY PlaceFacts
<1>. QED BY <1>1 DEF Hub, Centre, IsPlace

(* A step within a tile moves over a link of the table.                    *)
LEMMA WalkCell ==
  ASSUME net \in Nets, NEW x, ChainOk(x), x.leg # <<>>,
         NEW b, b = Centre(net, x.at[1], Head(x.leg))
  PROVE  <<x.at, b>> \in Table /\ b[1] \in Nodes(net.outer) /\ b[2] \in Nodes(net.middle)
<1>1. ChainIs(x) /\ ChainAt(x)
  BY DEF ChainOk
<1>2. x.hop \in 1 .. Len(x.hops)
  BY <1>1 DEF ChainIs
<1>3. PICK o \in Nodes(net.outer) : o = x.hops[x.hop]
  BY <1>1, <1>2, ChainHops DEF TilePath
<1>4. PICK u \in Nodes(net.middle) : u = x.at[2]
  BY <1>1 DEF ChainAt
<1>5. x.at = Centre(net, o, u)
  BY <1>1, <1>3, <1>4 DEF ChainAt
<1>6. x.at[1] = o
  BY <1>5 DEF Centre
<1>7. PICK leg : leg = x.leg
  OBVIOUS
<1>8. PICK aim : aim = Aim(x)
  OBVIOUS
<1>9. PathTo(net.middle, u, leg, aim) /\ leg # <<>>
  BY <1>1, <1>4, <1>7, <1>8 DEF ChainAt
<1>10. PICK v \in Nodes(net.middle) : v = Head(leg) /\ Beside(net.middle, u, v)
  BY <1>9, PathTail
<1>11. b = Centre(net, o, v)
  BY <1>6, <1>7, <1>10
<1>12. <<Centre(net, o, u), Centre(net, o, v)>> \in Table
  BY <1>10, MiddleCell
<1>13. b[1] = o /\ b[2] = v
  BY <1>11 DEF Centre
<1>. QED BY <1>5, <1>11, <1>12, <1>13

(* A hop to the next tile does, when the names of the hop agree.           *)
LEMMA CrossCell ==
  ASSUME net \in Nets, NEW x, ChainOk(x), x.leg = <<>>, x.hop < Len(x.hops),
         RowsOk(x.src, x.dst), NEW i, i = x.hop,
         NEW b, b = Centre(net, x.hops[i + 1], Entry(x.src, x.dst, x.hops, i))
  PROVE  <<x.at, b>> \in Table /\ b[1] \in Nodes(net.outer) /\ b[2] \in Nodes(net.middle)
<1>1. ChainIs(x) /\ ChainAt(x)
  BY DEF ChainOk
<1>2. x.src \in Devices(net) /\ x.dst \in Devices(net) /\ x.hop \in 1 .. Len(x.hops)
      /\ x.hops = HopsOf(Place(x.src)[1], Place(x.dst)[1])
  BY <1>1 DEF ChainIs
<1>3. PICK s \in Nodes(net.outer) : s = Place(x.src)[1]
  BY <1>2, HubPlace
<1>4. PICK d \in Nodes(net.outer) : d = Place(x.dst)[1]
  BY <1>2, HubPlace
<1>5. PICK hops : hops = x.hops /\ hops = HopsOf(s, d)
  BY <1>2, <1>3, <1>4
<1>6. TilePath(s, d, hops)
  BY <1>1, <1>3, <1>4, <1>5, ChainHops
<1>7. PICK n \in Nat : n = Len(hops)
  BY <1>6 DEF TilePath
<1>8. i \in 1 .. n /\ i < n
  BY <1>2, <1>5, <1>7
<1>9. i \in Nat \ {0} /\ i + 1 \in 1 .. n /\ i \in 1 .. n - 1
  BY <1>8
<1>10. PICK u \in Nodes(net.outer) : u = hops[i]
  BY <1>6, <1>7, <1>9 DEF TilePath
<1>11. PICK v \in Nodes(net.outer) : v = hops[i + 1]
  BY <1>6, <1>7, <1>9 DEF TilePath
<1>12. Beside(net.outer, u, v)
  BY <1>6, <1>7, <1>9, <1>10, <1>11 DEF TilePath
<1>13. RowsAgree(net) \/ Row(net.outer, u) = Row(net.outer, v)
  <2> SUFFICES ASSUME ~RowsAgree(net) PROVE Row(net.outer, u) = Row(net.outer, v)
    OBVIOUS
  <2>1. Row(net.outer, s) = Row(net.outer, d)
    BY <1>3, <1>4 DEF RowsOk
  <2>2. i \in 1 .. Len(hops) /\ i + 1 \in 1 .. Len(hops)
    BY <1>7, <1>8, <1>9
  <2>3. Row(net.outer, hops[i]) = Row(net.outer, s)
    BY <1>5, <2>1, <2>2, RowHops
  <2>4. PICK j \in 1 .. Len(hops) : j = i + 1
    BY <2>2
  <2>5. Row(net.outer, hops[j]) = Row(net.outer, s)
    BY <1>5, <2>1, RowHops
  <2>. QED BY <1>10, <1>11, <2>3, <2>4, <2>5
<1>14. PICK src \in Nat : src = x.src
  BY <1>2, PlaceFacts
<1>15. PICK dst \in Nat : dst = x.dst
  BY <1>2, PlaceFacts
<1>16. <<Centre(net, u, Exit(src, dst, hops, i)), Centre(net, v, Entry(src, dst, hops, i))>> \in Table
  BY <1>9, <1>10, <1>11, <1>12, <1>13, OuterCell
<1>17. x.at[2] = Exit(src, dst, hops, i)
  <2>1. Aim(x) = Exit(x.src, x.dst, x.hops, x.hop)
    BY <1>5, <1>7, <1>8 DEF Aim
  <2>2. Len(x.leg) = 0
    OBVIOUS
  <2>3. x.at[2] = Aim(x)
    BY <1>1, <2>2 DEF ChainAt, PathTo
  <2>. QED BY <1>5, <1>14, <1>15, <2>1, <2>3
<1>18. x.at = Centre(net, u, Exit(src, dst, hops, i))
  BY <1>1, <1>5, <1>10, <1>17 DEF ChainAt
<1>19. b = Centre(net, v, Entry(src, dst, hops, i))
  BY <1>5, <1>11, <1>14, <1>15
<1>20. Entry(src, dst, hops, i) \in Nodes(net.middle)
  <2>1. i \in 1 .. Len(x.hops) - 1
    BY <1>5, <1>7, <1>9
  <2>2. Entry(x.src, x.dst, x.hops, i) \in Nodes(net.middle)
    BY <1>1, <2>1, HopPorts
  <2>. QED BY <1>5, <1>14, <1>15, <2>2
<1>21. b[1] = v /\ b[2] = Entry(src, dst, hops, i)
  BY <1>19 DEF Centre
<1>. QED BY <1>16, <1>18, <1>19, <1>20, <1>21

OnLinks == DOMAIN traffic \subseteq Table
PairsOk(M) == \A p \in DOMAIN M : RowsOk(p[1], p[2])

(* Under LinksAgree every pair that is sent is one whose hops have         *)
(* agreeing names.                                                         *)
LEMMA PairsRouted ==
  ASSUME StageInv, sent, LinksAgree(call)
  PROVE  PairsOk(tm)
<1>1. algos # <<>> /\ CallOk
  BY DEF StageInv, StageIdle
<1>2. PICK a \in Algos : a = algos[1]
  BY <1>1, StageFacts
<1>3. PICK s \in 1 .. StageCount(a) : s = Len(costs) + 1
  BY <1>1, <1>2, StageFacts DEF StageInv, StageProgress
<1>4. RankEdges(StageEdges(a, s))
  BY <1>1, EdgesAre
<1>5. DOMAIN tm = Cells(StageEdges(a, s))
  BY <1>2, <1>3 DEF StageInv, StageHeld, StageMatrix
<1> SUFFICES ASSUME NEW p \in DOMAIN tm PROVE RowsOk(p[1], p[2])
  BY DEF PairsOk
<1>6. PICK E : E = StageEdges(a, s)
  OBVIOUS
<1>7. PICK i \in Ranks : i = Rank(p[1])
  <2>1. p[1] \in Devices(net)
    BY <1>1, <1>4, <1>5, CellsAre
  <2>. QED BY <1>1, <2>1, GroupFacts
<1>8. PICK j \in Ranks : j = Rank(p[2])
  <2>1. p[2] \in Devices(net)
    BY <1>1, <1>4, <1>5, CellsAre
  <2>. QED BY <1>1, <2>1, GroupFacts
<1>9. PICK g \in Groups : p[1] = g[i] /\ p[2] = g[j]
  <2>1. \E g \in Groups : p[1] = g[Rank(p[1])] /\ p[2] = g[Rank(p[2])]
    BY <1>1, <1>4, <1>5, CellsAre
  <2>. QED BY <1>7, <1>8, <2>1
<1>10. RowsOk(g[i], g[j])
  BY <1>1, PairRows
<1>. QED BY <1>9, <1>10

(* Every move of a chain is over a link.                                   *)
LEMMA LinksRoute ==
  ASSUME StageInv, sent, MatrixOk(tm), RouteInv, Ledger, LinksAgree(call), NocNext, OnLinks
  PROVE  DOMAIN traffic' \subseteq Table
<1>1. net \in Nets
  BY StageNet DEF NetIn
<1>2. PICK x : x = route
  OBVIOUS
<1>3. PICK f : f = traffic
  OBVIOUS
<1>4. TrafficOk(f) /\ DOMAIN f \subseteq Table
  BY <1>3 DEF Ledger, LedgerAt, LedgerOk, OnLinks
<1>5. \A a, b, v : Charged(a, b, v) = Charge(f, a, b, v)
  BY <1>3 DEF Charged, Charge
<1>6. PairsOk(tm)
  BY PairsRouted
<1>7. x # None => /\ ChainOk(x) /\ ChainIs(x) /\ x.bytes \in Nat /\ RowsOk(x.src, x.dst)
  <2> SUFFICES ASSUME x # None
               PROVE  ChainOk(x) /\ ChainIs(x) /\ x.bytes \in Nat /\ RowsOk(x.src, x.dst)
    OBVIOUS
  <2>1. ChainOk(x) /\ <<x.src, x.dst>> \in DOMAIN tm /\ x.bytes = tm[<<x.src, x.dst>>]
    BY <1>2 DEF RouteInv
  <2>2. tm[<<x.src, x.dst>>] \in Nat
    BY <2>1 DEF MatrixOk
  <2>3. RowsOk(<<x.src, x.dst>>[1], <<x.src, x.dst>>[2])
    BY <1>6, <2>1 DEF PairsOk
  <2>. QED BY <2>1, <2>2, <2>3 DEF ChainOk
<1>8. CASE Depart
  <2>1. PICK p \in todo :
          traffic' = Charged(Place(p.src), Centre(net, Place(p.src)[1], Place(p.src)[2]), p.bytes)
    BY <1>8 DEF Depart
  <2>2. PICK src : src = p.src
    OBVIOUS
  <2>3. PICK q : q = <<src, p.dst>>
    OBVIOUS
  <2>4. q \in DOMAIN tm /\ p = [src |-> src, dst |-> p.dst, bytes |-> tm[q]] /\ q[1] = src
    BY <2>2, <2>3 DEF RouteInv, TodoOk
  <2>5. src \in Devices(net) /\ tm[q] \in Nat
    BY <2>4 DEF MatrixOk
  <2>6. PICK v \in Nat : v = p.bytes
    BY <2>4, <2>5
  <2>7. PICK a : a = Place(src)
    OBVIOUS
  <2>8. PICK b : b = Hub(src)
    OBVIOUS
  <2>9. traffic' = Charge(f, a, b, v)
    BY <1>5, <2>1, <2>2, <2>6, <2>7, <2>8 DEF Hub
  <2>10. <<a, b>> \in Table /\ b[1] \in Nodes(net.outer) /\ b[2] \in Nodes(net.middle)
    BY <1>1, <2>5, <2>7, <2>8, OwnCells, HubPlace
  <2>. QED BY <1>1, <1>4, <2>9, <2>10, ChargeCells
<1>9. CASE Walk
  <2>1. /\ x # None /\ x.leg # <<>>
        /\ traffic' = Charged(x.at, Centre(net, x.at[1], Head(x.leg)), x.bytes)
    BY <1>2, <1>9 DEF Walk, Move
  <2>2. PICK v \in Nat : v = x.bytes
    BY <1>7, <2>1
  <2>3. PICK a : a = x.at
    OBVIOUS
  <2>4. PICK b : b = Centre(net, x.at[1], Head(x.leg))
    OBVIOUS
  <2>5. <<x.at, b>> \in Table /\ b[1] \in Nodes(net.outer) /\ b[2] \in Nodes(net.middle)
    BY <1>1, <1>7, <2>1, <2>4, WalkCell
  <2>6. traffic' = Charge(f, a, b, v)
    BY <1>5, <2>1, <2>2, <2>3, <2>4
  <2>. QED BY <1>1, <1>4, <2>3, <2>5, <2>6, ChargeCells
<1>10. CASE Cross
  <2>1. PICK i : i = x.hop
    OBVIOUS
  <2>2. PICK b : b = Centre(net, x.hops[i + 1], Entry(x.src, x.dst, x.hops, i))
    OBVIOUS
  <2>3. /\ x # None /\ x.leg = <<>> /\ x.hop < Len(x.hops)
        /\ traffic' = Charged(x.at, b, x.bytes)
    BY <1>2, <1>10, <2>1, <2>2 DEF Cross, Move
  <2>4. PICK v \in Nat : v = x.bytes
    BY <1>7, <2>3
  <2>5. PICK a : a = x.at
    OBVIOUS
  <2>6. <<x.at, b>> \in Table /\ b[1] \in Nodes(net.outer) /\ b[2] \in Nodes(net.middle)
    BY <1>1, <1>7, <2>1, <2>2, <2>3, CrossCell
  <2>7. traffic' = Charge(f, a, b, v)
    BY <1>5, <2>3, <2>4, <2>5
  <2>. QED BY <1>1, <1>4, <2>5, <2>6, <2>7, ChargeCells
<1>11. CASE Arrive
  <2>1. /\ x # None /\ x.leg = <<>> /\ x.hop = Len(x.hops)
        /\ traffic' = Charged(x.at, <<x.at[1], x.at[2], x.dst % net.ports>>, x.bytes)
    BY <1>2, <1>11 DEF Arrive, Move
  <2>2. x.at = Hub(x.dst) /\ <<x.at[1], x.at[2], x.dst % net.ports>> = Place(x.dst)
    BY <1>1, <1>7, <2>1, ChainEnd
  <2>3. PICK dst \in Devices(net) : dst = x.dst
    BY <1>7, <2>1 DEF ChainIs
  <2>4. PICK v \in Nat : v = x.bytes
    BY <1>7, <2>1
  <2>5. PICK a : a = Hub(dst)
    OBVIOUS
  <2>6. PICK b : b = Place(dst)
    OBVIOUS
  <2>7. traffic' = Charge(f, a, b, v)
    BY <1>5, <2>1, <2>2, <2>3, <2>4, <2>5, <2>6
  <2>8. <<a, b>> \in Table /\ b[1] \in Nodes(net.outer) /\ b[2] \in Nodes(net.middle)
    BY <1>1, <2>5, <2>6, OwnCells, HubPlace
  <2>. QED BY <1>1, <1>4, <2>7, <2>8, ChargeCells
<1>. QED BY <1>8, <1>9, <1>10, <1>11 DEF NocNext

(* No other step charges anything.                                         *)
LEMMA LinksStep ==
  ASSUME \A c \in Calls : LinksAgree(c)
  PROVE  StageInv /\ MatrixHeld /\ RouteInv /\ Ledger /\ OnLinks /\ [Next]_vars => OnLinks'
<1> SUFFICES ASSUME StageInv, MatrixHeld, RouteInv, Ledger, OnLinks, [Next]_vars
             PROVE  OnLinks'
  OBVIOUS
<1> USE DEF nocVars, collectiveVars
<1>1. LinksAgree(call)
  BY DEF StageInv, CallOk
<1>2. CASE Fill
  <2>1. traffic' = Empty
    BY <1>2 DEF Fill
  <2>. QED BY <2>1 DEF OnLinks, Empty
<1>3. CASE Route
  <2>1. sent /\ NocNext /\ UNCHANGED net
    BY <1>3 DEF Route, NocNext, Depart, Walk, Cross, Arrive, Move
  <2>2. MatrixOk(tm)
    BY <2>1 DEF MatrixHeld
  <2>3. DOMAIN traffic' \subseteq Table
    BY <1>1, <2>1, <2>2, LinksRoute
  <2>. QED BY <2>1, <2>3, TableSame DEF OnLinks
<1>4. CASE StageRouted \/ Count \/ Compare \/ UNCHANGED vars
  <2>1. UNCHANGED <<net, traffic>>
    BY <1>4 DEF StageRouted, Count, Compare, vars
  <2>. QED BY <2>1, TableSame DEF OnLinks
<1>. QED BY <1>2, <1>3, <1>4 DEF Next

(* When no group lies in two rows of tiles, or the names of such hops agree*)
(* (LinksAgree): every move is over a link the table has.                  *)
THEOREM LinksHeld ==
  ASSUME \A c \in Calls : LinksAgree(c)
  PROVE  Spec => []MovesOverLinks
<1>1. Init => OnLinks
  BY DEF Init, OnLinks, Empty
<1>2. OnLinks => MovesOverLinks
  BY DEF OnLinks, MovesOverLinks, Table
<1>. QED BY <1>1, <1>2, LinksStep, LedgerHolds, PTL DEF Spec

(* The time of a byte in a cell; on a link into a device it is the switch  *)
(* layer's, the only one that link is of.                                  *)
LEMMA TimeIs ==
  ASSUME net \in Nets
  PROVE  /\ \A cell \in Table : CellTimesOf[net][cell] \in Nat
         /\ \A d \in Devices(net) :
              CellTimesOf[net][<<Hub(d), Place(d)>>] = ByteTime["switch"]
<1>1. CellTimesOf[net] = CellTimes(net)
  BY DEF CellTimesOf
<1> DEFINE C == [outer |-> OuterLinks(net), middle |-> MiddleLinks(net),
                 switch |-> SwitchLinks(net), centre |-> CentreLinks(net)]
           T(cell) == {ByteTime[l] : l \in {x \in Layers : cell \in C[x]}}
<1>2. CellTimes(net) = [cell \in UNION {C[l] : l \in Layers} |-> Min(T(cell))]
  BY DEF CellTimes
<1>3. /\ C["outer"] = OuterLinks(net) /\ C["middle"] = MiddleLinks(net)
      /\ C["switch"] = SwitchLinks(net) /\ C["centre"] = CentreLinks(net)
  OBVIOUS
<1> HIDE DEF C
<1>4. \A l \in Layers : ByteTime[l] \in Nat
  BY NetAssumption
<1>5. ASSUME NEW cell \in Table
      PROVE  CellTimesOf[net][cell] = Min(T(cell)) /\ Min(T(cell)) \in Nat
  <2>1. cell \in UNION {C[l] : l \in Layers}
    BY <1>1, <1>2 DEF Table
  <2>2. CellTimesOf[net][cell] = Min(T(cell))
    BY <1>1, <1>2, <2>1
  <2>3. PICK l \in Layers : cell \in C[l]
    BY <2>1
  <2>4. T(cell) \in SUBSET Nat /\ T(cell) # {}
    BY <1>4, <2>3
  <2> HIDE DEF T
  <2>5. Min(T(cell)) \in T(cell)
    BY <2>4, NatMin
  <2>. QED BY <2>2, <2>4, <2>5
<1>6. ASSUME NEW d \in Devices(net)
      PROVE  CellTimesOf[net][<<Hub(d), Place(d)>>] = ByteTime["switch"]
  <2>1. PICK cell \in Table : cell = <<Hub(d), Place(d)>>
    BY OwnCells
  <2>2. \A o, m, q, r : cell # <<Centre(net, o, m), Centre(net, q, r)>>
    BY <2>1, CellsApart
  <2>3. cell \notin CentreLinks(net)
    BY <2>2 DEF CentreLinks
  <2>4. cell \notin MiddleLinks(net)
    BY <2>2 DEF MiddleLinks
  <2>5. cell \notin OuterLinks(net)
    BY <2>2 DEF OuterLinks
  <2>6. CellTimesOf[net][cell] = Min(T(cell))
    BY <1>5
  <2>7. \A l \in Layers : cell \in C[l] => l = "switch"
    BY <1>3, <2>3, <2>4, <2>5 DEF Layers
  <2>8. PICK l \in Layers : cell \in C[l]
    BY <1>1, <1>2, <2>1 DEF Table
  <2>9. T(cell) = {ByteTime["switch"]}
    BY <2>7, <2>8
  <2>10. PICK b \in Nat : b = ByteTime["switch"]
    BY <1>4 DEF Layers
  <2>11. {b} = {b, b} /\ Min({b, b}) = b
    BY MinTwo
  <2>. QED BY <2>1, <2>6, <2>9, <2>10, <2>11
<1>. QED BY <1>5, <1>6

(* The transfer time of the bottleneck link is that of every link at least.*)
LEMMA LinkTimeIs ==
  ASSUME net \in Nets, TrafficOk(traffic)
  PROVE  /\ LinkTime \in Nat
         /\ \A cell \in Table : LinkTime >= Bytes(traffic, cell) * CellTimesOf[net][cell]
<1> DEFINE cells == DOMAIN traffic \cap DOMAIN CellTimesOf[net]
           f == [c \in cells |-> traffic[c] * CellTimesOf[net][c]]
           S == {f[c] : c \in cells}
<1>1. \A c \in cells : traffic[c] \in Nat /\ CellTimesOf[net][c] \in Nat
  BY TimeIs DEF TrafficOk, Table
<1>2. \A a, b \in Nat : a * b \in Nat
  OBVIOUS
<1>3. \A c \in cells : f[c] \in Nat
  BY <1>1, <1>2
<1>4. IsFiniteSet(cells)
  BY FS_Subset DEF TrafficOk
<1>5. LinkTime = IF cells = {} THEN 0 ELSE Max(S)
  BY DEF LinkTime
<1>6. \A c \in Table : c \in cells <=> c \in DOMAIN traffic
  BY DEF Table
<1>7. \A c \in cells : f[c] = Bytes(traffic, c) * CellTimesOf[net][c]
  BY DEF Bytes
<1>8. \A c \in Table : c \notin cells => Bytes(traffic, c) * CellTimesOf[net][c] = 0
  <2> SUFFICES ASSUME NEW c \in Table, c \notin cells
               PROVE  Bytes(traffic, c) * CellTimesOf[net][c] = 0
    OBVIOUS
  <2>1. Bytes(traffic, c) = 0
    BY <1>6 DEF Bytes
  <2>2. PICK t \in Nat : t = CellTimesOf[net][c]
    BY TimeIs
  <2>3. 0 * t = 0
    OBVIOUS
  <2>. QED BY <2>1, <2>2, <2>3
<1>9. DOMAIN f = cells
  OBVIOUS
<1>10. CASE cells = {}
  <2>1. LinkTime = 0
    BY <1>5, <1>10
  <2>. QED BY <1>8, <1>10, <2>1
<1>11. CASE cells # {}
  <2> HIDE DEF cells, f
  <2>1. S \in SUBSET Int /\ S # {} /\ \A x \in S : x \in Nat
    BY <1>3, <1>11
  <2>2. IsFiniteSet(S)
    BY <1>4, <1>9, FiniteImage
  <2>3. \A c \in cells : f[c] \in S
    OBVIOUS
  <2> HIDE DEF S
  <2>4. Max(S) \in S /\ \A y \in S : y <= Max(S)
    BY <2>1, <2>2, FiniteMax
  <2>5. PICK m \in Nat : m = LinkTime /\ \A y \in S : y <= m
    BY <1>5, <1>11, <2>1, <2>4
  <2>6. \A c \in cells : m >= f[c]
    BY <1>3, <2>3, <2>5
  <2>7. \A c \in Table : m >= Bytes(traffic, c) * CellTimesOf[net][c]
    <3> SUFFICES ASSUME NEW c \in Table PROVE m >= Bytes(traffic, c) * CellTimesOf[net][c]
      OBVIOUS
    <3>1. CASE c \in cells
      BY <1>7, <2>6, <3>1
    <3>2. CASE c \notin cells
      BY <1>8, <2>5, <3>2
    <3>. QED BY <3>1, <3>2
  <2>. QED BY <2>5, <2>7
<1>. QED BY <1>10, <1>11

(* A device is owed at least one of its messages, and two of them.         *)
LEMMA OwedLeast ==
  ASSUME NEW M, MatrixOk(M), NEW d, NEW p \in DOMAIN M, p[2] = d
  PROVE  /\ Owed(M, DOMAIN M, 2, d) \in Nat /\ Owed(M, DOMAIN M, 2, d) >= M[p]
         /\ \A q \in DOMAIN M : q # p /\ q[2] = d => Owed(M, DOMAIN M, 2, d) >= M[p] + M[q]
<1>1. PICK S : S = Ends(DOMAIN M, 2, d)
  OBVIOUS
<1>2. S \in SUBSET DOMAIN M /\ p \in S /\ \A q \in DOMAIN M : q[2] = d => q \in S
  BY <1>1 DEF Ends
<1>3. IsFiniteSet(S) /\ \A x \in S : M[x] \in Nat
  BY <1>2, FS_Subset DEF MatrixOk
<1>4. \A T \in SUBSET S : IsFiniteSet(T) /\ \A x \in T : M[x] \in Int
  BY <1>3, FS_Subset
<1>5. \A T \in SUBSET S : SumFunctionOnSet(M, T) \in Nat
  <2> SUFFICES ASSUME NEW T \in SUBSET S PROVE SumFunctionOnSet(M, T) \in Nat
    OBVIOUS
  <2> DEFINE z == [x \in T |-> 0]
  <2>1. \A x \in T : z[x] \in Int /\ M[x] \in Int /\ z[x] <= M[x] /\ z[x] = 0 * M[x]
    BY <1>3
  <2> HIDE DEF z
  <2>2. SumFunctionOnSet(z, T) <= SumFunctionOnSet(M, T)
    BY <1>4, <2>1, SumMonotone
  <2>3. SumFunctionOnSet(z, T) = 0 * SumFunctionOnSet(M, T)
    BY <1>4, <2>1, SumScale
  <2>4. SumFunctionOnSet(M, T) \in Int
    BY <1>4, <2>1, SumMeasure
  <2>. QED BY <2>2, <2>3, <2>4
<1>6. PICK a \in Nat : a = SumFunctionOnSet(M, S \ {p}) /\ SumFunctionOnSet(M, S) = M[p] + a
  <2>1. S \ {p} \in SUBSET S
    OBVIOUS
  <2>2. SumFunctionOnSet(M, S) = M[p] + SumFunctionOnSet(M, S \ {p})
    BY <1>2, <1>3, <1>4, SumRemove
  <2>. QED BY <1>5, <2>1, <2>2
<1>7. PICK x \in Nat : x = M[p]
  BY <1>2, <1>3
<1>8. Owed(M, DOMAIN M, 2, d) = x + a
  BY <1>1, <1>6, <1>7 DEF Owed
<1>9. ASSUME NEW q \in DOMAIN M, q # p, q[2] = d
      PROVE  M[q] \in Nat /\ a >= M[q]
  <2>1. PICK T : T = S \ {p}
    OBVIOUS
  <2>2. T \in SUBSET S /\ q \in T /\ T \ {q} \in SUBSET S
    BY <1>2, <1>9, <2>1
  <2>3. SumFunctionOnSet(M, T) = M[q] + SumFunctionOnSet(M, T \ {q})
    BY <1>4, <2>2, SumRemove
  <2>4. SumFunctionOnSet(M, T \ {q}) \in Nat /\ M[q] \in Nat
    BY <1>3, <1>5, <2>2
  <2>. QED BY <1>6, <2>1, <2>3, <2>4
<1>10. ASSUME NEW q \in DOMAIN M, q # p, q[2] = d
       PROVE  x + a >= x + M[q]
  BY <1>9, <1>10
<1>. QED BY <1>7, <1>8, <1>10

(* What a device's own link carries in a stage, at least, and in the first *)
(* n stages counted; a unit is a rank's share of the vector.               *)
Unit == call.bytes \div Group
Several == IF Group = 2 THEN 2 ELSE 2 * Group

Share(algo, k) ==
  CASE algo = "ring" -> 1
    [] algo = "recursive_doubling" -> Group
    [] algo = "double_tree" -> Group \div 2
    [] algo = "all_to_all" -> Several
    [] OTHER -> Group \div 2^k

Paid(algo, n) ==
  CASE algo = "ring" -> n
    [] algo = "recursive_doubling" -> n * Group
    [] algo = "double_tree" -> n * (Group \div 2)
    [] algo = "all_to_all" -> n * Several
    [] OTHER -> IF n <= Rounds THEN Group - Group \div 2^n
                ELSE (Group - 1) + (2^(n - Rounds) - 1)

Halvings == {"rabenseifner", "reduce_scatter", "partial_broadcast"}

(* One more stage pays its share.                                          *)
PaysMore(algo, n) ==
  /\ Paid(algo, n) \in Nat /\ Share(algo, CountAt(algo, n + 1)) \in Nat
  /\ Paid(algo, n + 1) = Paid(algo, n) + Share(algo, CountAt(algo, n + 1))

(* Counting one more stage of a halving pays for the share of the vector   *)
(* it moves.                                                               *)
LEMMA PaysHalving ==
  ASSUME CallOk, NEW algo \in Halvings, NEW n \in 0 .. 2 * Rounds - 1,
         algo = "reduce_scatter" => n + 1 <= Rounds
  PROVE  PaysMore(algo, n) /\ Paid(algo, 0) = 0
<1> DEFINE P(k) == 2^k
<1>1. P(0) = 1 /\ P(1) = 2 /\ P(2) = 4 /\ P(3) = 8
  BY Powers
<1>2. \A k : Share(algo, k) = Group \div P(k)
  BY DEF Share, Halvings
<1>3. \A k : Paid(algo, k) = IF k <= Rounds THEN Group - Group \div P(k)
                             ELSE (Group - 1) + (P(k - Rounds) - 1)
  BY DEF Paid, Halvings
<1>4. CountAt(algo, n + 1) = IF n + 1 <= Rounds THEN n + 1 ELSE 2 * Rounds + 1 - (n + 1)
  BY RoundsIs DEF CountAt, Halvings
<1> HIDE DEF P
<1>5. PICK k : k = CountAt(algo, n + 1)
  OBVIOUS
<1>6. SUFFICES /\ Paid(algo, n) \in Nat /\ Share(algo, k) \in Nat
               /\ Paid(algo, n + 1) = Paid(algo, n) + Share(algo, k)
               /\ Paid(algo, 0) = 0
  BY <1>5 DEF PaysMore
<1>7. CASE Group = 2 /\ Rounds = 1
  <2>1. Group \div P(0) = 2 /\ Group \div P(1) = 1
    BY <1>1, <1>7
  <2>2. Share(algo, 1) = 1
    BY <1>2, <2>1
  <2>3. Paid(algo, 0) = 0 /\ Paid(algo, 1) = 1
    BY <1>3, <1>7, <2>1
  <2>4. Paid(algo, 2) = 2
    <3>1. ~(2 <= Rounds) /\ 2 - Rounds = 1
      BY <1>7
    <3>2. Paid(algo, 2) = (Group - 1) + (P(1) - 1)
      BY <1>3, <3>1
    <3>. QED BY <1>1, <1>7, <3>2
  <2>5. CASE n = 0
    <3>1. k = 1 /\ n + 1 = 1
      BY <1>4, <1>5, <1>7, <2>5
    <3>. QED BY <2>2, <2>3, <2>5, <3>1
  <2>6. CASE n = 1
    <3>1. k = 1 /\ n + 1 = 2
      BY <1>4, <1>5, <1>7, <2>6
    <3>. QED BY <2>2, <2>3, <2>4, <2>6, <3>1
  <2>. QED BY <1>7, <2>5, <2>6
<1>8. CASE Group = 4 /\ Rounds = 2
  <2>1. Group \div P(0) = 4 /\ Group \div P(1) = 2 /\ Group \div P(2) = 1
    BY <1>1, <1>8
  <2>2. Share(algo, 1) = 2 /\ Share(algo, 2) = 1
    BY <1>2, <2>1
  <2>3. Paid(algo, 0) = 0 /\ Paid(algo, 1) = 2 /\ Paid(algo, 2) = 3
    BY <1>3, <1>8, <2>1
  <2>4. Paid(algo, 3) = 4
    <3>1. ~(3 <= Rounds) /\ 3 - Rounds = 1
      BY <1>8
    <3>2. Paid(algo, 3) = (Group - 1) + (P(1) - 1)
      BY <1>3, <3>1
    <3>. QED BY <1>1, <1>8, <3>2
  <2>5. Paid(algo, 4) = 6
    <3>1. ~(4 <= Rounds) /\ 4 - Rounds = 2
      BY <1>8
    <3>2. Paid(algo, 4) = (Group - 1) + (P(2) - 1)
      BY <1>3, <3>1
    <3>. QED BY <1>1, <1>8, <3>2
  <2>6. CASE n = 0
    <3>1. k = 1 /\ n + 1 = 1
      BY <1>4, <1>5, <1>8, <2>6
    <3>. QED BY <2>2, <2>3, <2>6, <3>1
  <2>7. CASE n = 1
    <3>1. k = 2 /\ n + 1 = 2
      BY <1>4, <1>5, <1>8, <2>7
    <3>. QED BY <2>2, <2>3, <2>7, <3>1
  <2>8. CASE n = 2
    <3>1. k = 2 /\ n + 1 = 3
      BY <1>4, <1>5, <1>8, <2>8
    <3>. QED BY <2>2, <2>3, <2>4, <2>8, <3>1
  <2>9. CASE n = 3
    <3>1. k = 1 /\ n + 1 = 4
      BY <1>4, <1>5, <1>8, <2>9
    <3>. QED BY <2>2, <2>3, <2>4, <2>5, <2>9, <3>1
  <2>. QED BY <1>8, <2>6, <2>7, <2>8, <2>9
<1>9. CASE Group = 8 /\ Rounds = 3
  <2>1. Group \div P(0) = 8 /\ Group \div P(1) = 4 /\ Group \div P(2) = 2 /\ Group \div P(3) = 1
    BY <1>1, <1>9
  <2>2. Share(algo, 1) = 4 /\ Share(algo, 2) = 2 /\ Share(algo, 3) = 1
    BY <1>2, <2>1
  <2>3. Paid(algo, 0) = 0 /\ Paid(algo, 1) = 4 /\ Paid(algo, 2) = 6 /\ Paid(algo, 3) = 7
    BY <1>3, <1>9, <2>1
  <2>4. Paid(algo, 4) = 8
    <3>1. ~(4 <= Rounds) /\ 4 - Rounds = 1
      BY <1>9
    <3>2. Paid(algo, 4) = (Group - 1) + (P(1) - 1)
      BY <1>3, <3>1
    <3>. QED BY <1>1, <1>9, <3>2
  <2>5. Paid(algo, 5) = 10
    <3>1. ~(5 <= Rounds) /\ 5 - Rounds = 2
      BY <1>9
    <3>2. Paid(algo, 5) = (Group - 1) + (P(2) - 1)
      BY <1>3, <3>1
    <3>. QED BY <1>1, <1>9, <3>2
  <2>6. Paid(algo, 6) = 14
    <3>1. ~(6 <= Rounds) /\ 6 - Rounds = 3
      BY <1>9
    <3>2. Paid(algo, 6) = (Group - 1) + (P(3) - 1)
      BY <1>3, <3>1
    <3>. QED BY <1>1, <1>9, <3>2
  <2>7. CASE n = 0
    <3>1. k = 1 /\ n + 1 = 1
      BY <1>4, <1>5, <1>9, <2>7
    <3>. QED BY <2>2, <2>3, <2>7, <3>1
  <2>8. CASE n = 1
    <3>1. k = 2 /\ n + 1 = 2
      BY <1>4, <1>5, <1>9, <2>8
    <3>. QED BY <2>2, <2>3, <2>8, <3>1
  <2>9. CASE n = 2
    <3>1. k = 3 /\ n + 1 = 3
      BY <1>4, <1>5, <1>9, <2>9
    <3>. QED BY <2>2, <2>3, <2>9, <3>1
  <2>10. CASE n = 3
    <3>1. k = 3 /\ n + 1 = 4
      BY <1>4, <1>5, <1>9, <2>10
    <3>. QED BY <2>2, <2>3, <2>4, <2>10, <3>1
  <2>11. CASE n = 4
    <3>1. k = 2 /\ n + 1 = 5
      BY <1>4, <1>5, <1>9, <2>11
    <3>. QED BY <2>2, <2>3, <2>4, <2>5, <2>11, <3>1
  <2>12. CASE n = 5
    <3>1. k = 1 /\ n + 1 = 6
      BY <1>4, <1>5, <1>9, <2>12
    <3>. QED BY <2>2, <2>3, <2>5, <2>6, <2>12, <3>1
  <2>. QED BY <1>9, <2>7, <2>8, <2>9, <2>10, <2>11, <2>12
<1>. QED BY <1>7, <1>8, <1>9, RoundsIs

(* Counting one more stage of any algorithm pays for the share it moves.   *)
LEMMA Pays ==
  ASSUME CallOk, NEW algo \in Algos, NEW n \in 0 .. CountLen(algo) - 1
  PROVE  PaysMore(algo, n) /\ Paid(algo, 0) = 0
<1>1. CASE algo \in Halvings
  <2>1. n \in 0 .. 2 * Rounds - 1
    BY <1>1, RoundsIs, SharedIs DEF CountLen, StageCount, Halvings
  <2>2. algo = "reduce_scatter" => n + 1 <= Rounds
    BY <1>1, RoundsIs DEF CountLen, StageCount, Halvings
  <2>. QED BY <1>1, <2>1, <2>2, PaysHalving
<1>2. n \in Nat
  BY CountsAre
<1>3. ASSUME NEW c \in Nat, \A k : Share(algo, k) = c, \A k : Paid(algo, k) = k * c
      PROVE  PaysMore(algo, n) /\ Paid(algo, 0) = 0
  <2>1. \A a, b \in Nat : a * b \in Nat /\ (a + 1) * b = a * b + b /\ 0 * b = 0
    OBVIOUS
  <2>2. n * c \in Nat /\ (n + 1) * c = n * c + c /\ 0 * c = 0
    BY <1>2, <2>1
  <2>. QED BY <1>3, <2>2 DEF PaysMore
<1>4. CASE algo = "ring"
  <2>1. \A k : Share(algo, k) = 1
    BY <1>4 DEF Share
  <2>2. Paid(algo, n) = n /\ Paid(algo, n + 1) = n + 1 /\ Paid(algo, 0) = 0
    BY <1>4 DEF Paid
  <2>. QED BY <1>2, <2>1, <2>2 DEF PaysMore
<1>5. CASE algo = "recursive_doubling"
  <2>1. PICK c \in Nat : c = Group
    BY CallFacts
  <2>2. \A k : Share(algo, k) = c /\ Paid(algo, k) = k * c
    BY <1>5, <2>1 DEF Share, Paid
  <2>. QED BY <1>3, <2>2
<1>6. CASE algo = "double_tree"
  <2>1. PICK c \in Nat : c = Group \div 2
    BY CallFacts
  <2>2. \A k : Share(algo, k) = c /\ Paid(algo, k) = k * c
    BY <1>6, <2>1 DEF Share, Paid
  <2>. QED BY <1>3, <2>2
<1>7. CASE algo = "all_to_all"
  <2>1. PICK c \in Nat : c = Several
    BY CallFacts DEF Several
  <2>2. \A k : Share(algo, k) = c /\ Paid(algo, k) = k * c
    BY <1>7, <2>1 DEF Share, Paid
  <2>. QED BY <1>3, <2>2
<1>. QED BY <1>1, <1>4, <1>5, <1>6, <1>7 DEF Algos, Halvings

(* All the stages pay what no rank can avoid to receive.                   *)
LEMMA PaysAll ==
  ASSUME CallOk, NEW algo \in Algos
  PROVE  /\ Cardinality(Owned(algo, 0)) \in Nat
         /\ Paid(algo, CountLen(algo)) \in Nat
         /\ Paid(algo, CountLen(algo)) >= Group - 1 + Cardinality(Owned(algo, 0)) - 1
<1>1. PICK n \in {2, 4, 8} : n = Group /\ Ranks = 0 .. n - 1
  BY CallFacts DEF Ranks
<1>2. Cardinality(Ranks) = n
  <2>1. n \in Nat
    OBVIOUS
  <2>. QED BY <1>1, <2>1, UpToSize
<1>3. CASE algo \notin {"reduce_scatter", "partial_broadcast"}
  <2>1. Cardinality(Owned(algo, 0)) = n
    BY <1>2, <1>3 DEF Owned
  <2>2. CASE algo = "ring"
    BY <1>1, <2>1, <2>2 DEF Paid, CountLen
  <2>3. CASE algo = "recursive_doubling"
    <3>1. Paid(algo, CountLen(algo)) = Rounds * n
      BY <1>1, <2>3 DEF Paid, CountLen, StageCount
    <3>. QED BY <1>1, <2>1, <3>1, RoundsIs
  <2>4. CASE algo = "double_tree"
    <3>1. Paid(algo, CountLen(algo)) = (2 * Rounds) * (n \div 2)
      BY <1>1, <2>4 DEF Paid, CountLen, StageCount
    <3>2. (2 * Rounds) * (n \div 2) = Rounds * n
      <4>1. n \div 2 = IF n = 2 THEN 1 ELSE IF n = 4 THEN 2 ELSE 4
        BY <1>1
      <4>2. \A r \in {1, 2, 3} : /\ (2 * r) * 1 = r * 2 /\ (2 * r) * 2 = r * 4
                               /\ (2 * r) * 4 = r * 8
        OBVIOUS
      <4>. QED BY <1>1, <4>1, <4>2, RoundsIs
    <3>. QED BY <1>1, <2>1, <3>1, <3>2, RoundsIs
  <2>5. CASE algo = "all_to_all"
    <3>1. Paid(algo, CountLen(algo)) = 1 * Several
      BY <2>5 DEF Paid, CountLen, StageCount
    <3>2. Several = IF n = 2 THEN 2 ELSE 2 * n
      BY <1>1 DEF Several
    <3>. QED BY <1>1, <2>1, <3>1, <3>2
  <2>6. CASE algo = "rabenseifner"
    <3> DEFINE P(k) == 2^k
    <3>1. P(Rounds) = n
      BY <1>1, RoundsIs
    <3>2. Paid(algo, CountLen(algo)) =
            IF 2 * Rounds <= Rounds THEN Group - Group \div P(2 * Rounds)
            ELSE (Group - 1) + (P(2 * Rounds - Rounds) - 1)
      BY <2>6 DEF Paid, CountLen
    <3> HIDE DEF P
    <3>3. ~(2 * Rounds <= Rounds) /\ 2 * Rounds - Rounds = Rounds
      BY RoundsIs
    <3>. QED BY <1>1, <2>1, <3>1, <3>2, <3>3
  <2>. QED BY <1>3, <2>2, <2>3, <2>4, <2>5, <2>6 DEF Algos
<1>4. CASE algo = "reduce_scatter"
  <2>1. Owned(algo, 0) = {0}
    BY <1>4 DEF Owned
  <2>2. Cardinality(Owned(algo, 0)) = 1
    BY <2>1, FS_Singleton
  <2> DEFINE P(k) == 2^k
  <2>3. P(Rounds) = n
    BY <1>1, RoundsIs
  <2>4. Paid(algo, CountLen(algo)) =
          IF Rounds <= Rounds THEN Group - Group \div P(Rounds)
          ELSE (Group - 1) + (P(Rounds - Rounds) - 1)
    BY <1>4 DEF Paid, CountLen, StageCount
  <2> HIDE DEF P
  <2>5. Paid(algo, CountLen(algo)) = n - n \div n
    BY <1>1, <2>3, <2>4, RoundsIs
  <2>6. n \div n = 1
    BY <1>1
  <2>. QED BY <1>1, <2>2, <2>5, <2>6
<1>5. CASE algo = "partial_broadcast"
  <2>1. PICK g \in {1, 2, 4, 8} : g = call.degree /\ g <= n
    BY <1>1, CallFacts
  <2>2. PICK s : s = n \div g
    OBVIOUS
  <2>3. Owned(algo, 0) = {c \in Ranks : c % s = 0 % s}
    BY <1>1, <1>5, <2>1, <2>2 DEF Owned
  <2>4. Cardinality(Owned(algo, 0)) = g
    <3>1. CASE s = 1
      <4>0. g = n
        BY <1>1, <2>1, <2>2, <3>1
      <4>1. Owned(algo, 0) = Ranks
        <5>1. \A c \in Ranks : c % 1 = 0 % 1
          BY <1>1
        <5>. QED BY <2>3, <3>1, <5>1
      <4>. QED BY <1>2, <4>0, <4>1
    <3>2. CASE s # 1
      <4>1. s \in {2, 4, 8} /\ s <= n /\ n \div s = g
        BY <2>1, <2>2, <3>2
      <4>2. Owned(algo, 0) = {c \in 0 .. n - 1 : c % s = 0} /\ 0 \in 0 .. s - 1
        BY <1>1, <2>3, <4>1
      <4>. QED BY <4>1, <4>2, ResidueCount
    <3>. QED BY <3>1, <3>2
  <2> DEFINE P(k) == 2^k
  <2>5. P(Shared) = g /\ P(Rounds) = n /\ P(0) = 1 /\ Shared \in 0 .. Rounds
    BY <1>1, <2>1, RoundsIs, SharedIs, Powers
  <2>6. PICK m : m = Rounds + Shared
    OBVIOUS
  <2>9. Paid(algo, m) = IF m <= Rounds THEN Group - Group \div P(m)
                        ELSE (Group - 1) + (P(m - Rounds) - 1)
    BY <1>5 DEF Paid
  <2>10. CountLen(algo) = m
    BY <1>5, <2>6 DEF CountLen
  <2> HIDE DEF P
  <2>7. CASE Shared = 0
    <3>1. m = Rounds
      BY <2>6, <2>7, RoundsIs
    <3>2. Paid(algo, m) = n - n \div n
      BY <1>1, <2>5, <2>9, <3>1, RoundsIs
    <3>3. n \div n = 1 /\ g = 1
      BY <1>1, <2>5, <2>7
    <3>. QED BY <1>1, <2>4, <2>10, <3>2, <3>3
  <2>8. CASE Shared # 0
    <3>1. ~(m <= Rounds) /\ m - Rounds = Shared
      BY <2>5, <2>6, <2>8, RoundsIs
    <3>2. Paid(algo, m) = (n - 1) + (g - 1)
      BY <1>1, <2>5, <2>9, <3>1
    <3>. QED BY <1>1, <2>1, <2>4, <2>10, <3>2
  <2>. QED BY <2>7, <2>8
<1>. QED BY <1>3, <1>4, <1>5

(* The bytes of a message, in units.                                       *)
LEMMA StageUnits ==
  ASSUME CallOk, NEW algo \in Algos, NEW k \in 1 .. StageCount(algo)
  PROVE  /\ Unit \in Nat /\ Share(algo, k) \in Nat
         /\ algo # "all_to_all" => StageBytes(algo, k) = Share(algo, k) * Unit
         /\ algo = "all_to_all" => StageBytes(algo, k) = Group * Unit
<1>1. PICK n \in {2, 4, 8} : n = Group
  BY CallFacts
<1>2. PICK u \in Nat : u = Unit /\ call.bytes = n * u
  BY <1>1, CallFacts DEF Unit
<1>3. CASE algo = "ring"
  <2>1. 1 * u = u
    OBVIOUS
  <2>2. StageBytes(algo, k) = u /\ Share(algo, k) = 1
    BY <1>2, <1>3 DEF StageBytes, Share, Unit
  <2>. QED BY <1>2, <1>3, <2>1, <2>2
<1>4. CASE algo = "recursive_doubling"
  <2>1. StageBytes(algo, k) = n * u /\ Share(algo, k) = n
    BY <1>1, <1>2, <1>4 DEF StageBytes, Share
  <2>. QED BY <1>1, <1>2, <1>4, <2>1
<1>5. CASE algo = "all_to_all"
  <2>1. StageBytes(algo, k) = n * u /\ Share(algo, k) \in Nat
    BY <1>1, <1>2, <1>5 DEF StageBytes, Share, Several
  <2>. QED BY <1>1, <1>2, <1>5, <2>1
<1>6. CASE algo = "double_tree"
  <2>1. StageBytes(algo, k) = (n * u) \div 2 /\ Share(algo, k) = n \div 2
    BY <1>1, <1>2, <1>6 DEF StageBytes, Share
  <2>2. (n * u) \div 2 = (n \div 2) * u
    OBVIOUS
  <2>3. n \div 2 \in Nat
    OBVIOUS
  <2>. QED BY <1>2, <1>6, <2>1, <2>2, <2>3
<1>7. CASE algo \in Halvings
  <2>1. k \in 1 .. Rounds
    BY <1>7 DEF StageCount, Halvings
  <2>2. PICK s \in {2, 4, 8} : s = 2^k /\ s <= n
    <3>1. k = 1 \/ k = 2 \/ k = 3
      BY <2>1, RoundsIs
    <3>2. k = 1 => 2^k = 2
      BY Powers
    <3>3. k = 2 => 2^k = 4
      BY Powers
    <3>4. k = 3 => 2^k = 8
      BY Powers
    <3>. QED BY <1>1, <2>1, <3>1, <3>2, <3>3, <3>4, RoundsIs
  <2>3. StageBytes(algo, k) = (n * u) \div s /\ Share(algo, k) = n \div s
    BY <1>1, <1>2, <1>7, <2>2 DEF StageBytes, Share, Halvings
  <2>4. (n * u) \div s = (n \div s) * u
    <3>1. CASE s = 2
      BY <3>1
    <3>2. CASE s = 4
      BY <2>2, <3>2
    <3>3. CASE s = 8
      BY <2>2, <3>3
    <3>. QED BY <3>1, <3>2, <3>3
  <2>5. n \div s \in Nat
    OBVIOUS
  <2>. QED BY <1>2, <1>7, <2>3, <2>4, <2>5 DEF Halvings
<1>. QED BY <1>3, <1>4, <1>5, <1>6, <1>7 DEF Algos, Halvings

ByteOnSwitch == ByteTime["switch"]

(* There is a device whose own link carries the stage's share.             *)
LEMMA ShareOwed ==
  ASSUME StageInv, sent, MatrixOk(tm), NEW a \in Algos, a = algos[1], algos # <<>>,
         NEW s \in 1 .. StageCount(a), s = Len(costs) + 1
  PROVE  \E d \in Devices(net) : /\ Owed(tm, DOMAIN tm, 2, d) \in Nat
                                 /\ Owed(tm, DOMAIN tm, 2, d) >= Share(a, s) * Unit
<1>1. CallOk
  BY DEF StageInv
<1>2. PICK E : E = StageEdges(a, s)
  OBVIOUS
<1>3. RankEdges(E)
  BY <1>1, <1>2, EdgesAre
<1>4. PICK b \in Nat : b = StageBytes(a, s)
  BY <1>1, EdgesAre
<1>5. PICK M : M = tm /\ MatrixOk(M)
  OBVIOUS
<1>6. M = [p \in Cells(E) |-> b]
  BY <1>2, <1>4, <1>5 DEF StageInv, StageHeld, StageMatrix
<1>7. PICK g \in Groups : TRUE
  <2>1. PICK d \in Devices(net) : d = 0
    <3>1. \A x, y, z \in Nat \ {0} : 0 \in 0 .. (x * y) * z - 1
      <4>1. \A x, y, z \in Nat \ {0} : (x * y) * z \in Nat \ {0}
        OBVIOUS
      <4>. QED BY <4>1
    <3>2. Group \in Nat \ {0}
      <4>1. Group \in {2, 4, 8}
        BY <1>1, CallFacts
      <4>. QED BY <4>1
    <3>. QED BY <1>1, <3>1, <3>2, CallFacts
  <2>. QED BY <1>1, <2>1, GroupFacts
<1>8. \A i, j \in Ranks : <<i, j>> \in E => <<g[i], g[j]>> \in DOMAIN M /\ M[<<g[i], g[j]>>] = b
  BY <1>1, <1>3, <1>6, CellsAre
<1>9. CASE a # "all_to_all" \/ Group = 2
  <2>1. PICK i \in Ranks, j \in Ranks : <<i, j>> \in E
    BY <1>3 DEF RankEdges
  <2>2. PICK d \in Devices(net) : d = g[j]
    BY <1>1, GroupFacts
  <2>3. PICK p \in DOMAIN M : p = <<g[i], g[j]>> /\ M[p] = b
    BY <1>8, <2>1
  <2>4. p[2] = d
    BY <2>2, <2>3
  <2>5. Owed(M, DOMAIN M, 2, d) \in Nat /\ Owed(M, DOMAIN M, 2, d) >= M[p]
    BY <1>5, <2>4, OwedLeast
  <2>6. b = Share(a, s) * Unit
    <3>1. CASE a # "all_to_all"
      BY <1>1, <1>4, <3>1, StageUnits
    <3>2. CASE a = "all_to_all"
      <4>1. Share(a, s) = Group
        BY <1>9, <3>2 DEF Share, Several
      <4>. QED BY <1>1, <1>4, <3>2, <4>1, StageUnits
    <3>. QED BY <3>1, <3>2
  <2>. QED BY <1>5, <2>3, <2>5, <2>6
<1>10. CASE a = "all_to_all" /\ Group # 2
  <2>1. PICK n \in {4, 8} : n = Group
    BY <1>1, <1>10, CallFacts
  <2>2. 0 \in Ranks /\ 1 \in Ranks /\ 2 \in Ranks
    BY <2>1 DEF Ranks
  <2>3. <<1, 0>> \in E /\ <<2, 0>> \in E
    <3>1. E = {q \in Ranks \X Ranks : q[1] # q[2]}
      BY <1>2, <1>10 DEF StageEdges
    <3>. QED BY <2>2, <3>1
  <2>4. PICK d \in Devices(net) : d = g[0]
    BY <1>1, <2>2, GroupFacts
  <2>5. PICK p \in DOMAIN M : p = <<g[1], g[0]>> /\ M[p] = b
    BY <1>8, <2>2, <2>3
  <2>6. PICK q \in DOMAIN M : q = <<g[2], g[0]>> /\ M[q] = b
    BY <1>8, <2>2, <2>3
  <2>7. g[1] # g[2]
    BY <1>1, <2>2, GroupFacts
  <2>8. p # q /\ p[2] = d /\ q[2] = d
    BY <2>4, <2>5, <2>6, <2>7
  <2>9. /\ Owed(M, DOMAIN M, 2, d) \in Nat
        /\ Owed(M, DOMAIN M, 2, d) >= M[p] + M[q]
    BY <1>5, <2>8, OwedLeast
  <2>10. b + b = Share(a, s) * Unit
    <3>1. b = Group * Unit /\ Share(a, s) = 2 * Group /\ Unit \in Nat
      BY <1>1, <1>4, <1>10, StageUnits DEF Share, Several
    <3>2. \A x, y \in Nat : x * y + x * y = (2 * x) * y
      OBVIOUS
    <3>3. Group \in Nat
      BY <2>1
    <3>. QED BY <3>1, <3>2, <3>3
  <2>. QED BY <1>5, <2>5, <2>6, <2>9, <2>10
<1>. QED BY <1>9, <1>10

(* A routed stage costs at least that share on that link.                  *)
LEMMA LinkPays ==
  ASSUME StageInv, sent, MatrixOk(tm), Ledger, Routed, NEW a \in Algos, a = algos[1],
         algos # <<>>, NEW s \in 1 .. StageCount(a), s = Len(costs) + 1
  PROVE  LinkTime \in Nat /\ LinkTime >= Share(a, s) * (Unit * ByteOnSwitch)
<1>1. net \in Nets
  BY StageNet DEF NetIn
<1>2. LedgerOk(traffic, DOMAIN tm, DOMAIN tm, tm)
  BY LedgerEnd
<1>3. PICK d \in Devices(net) : /\ Owed(tm, DOMAIN tm, 2, d) \in Nat
                                /\ Owed(tm, DOMAIN tm, 2, d) >= Share(a, s) * Unit
  BY ShareOwed
<1>4. PICK cell \in Table : cell = <<Hub(d), Place(d)>>
  BY <1>1, OwnCells
<1>5. Bytes(traffic, cell) = Owed(tm, DOMAIN tm, 2, d)
  BY <1>2, <1>4 DEF LedgerOk
<1>6. CellTimesOf[net][cell] = ByteOnSwitch
  BY <1>1, <1>4, TimeIs DEF ByteOnSwitch
<1>7. LinkTime \in Nat /\ LinkTime >= Bytes(traffic, cell) * CellTimesOf[net][cell]
  BY <1>1, <1>2, LinkTimeIs DEF LedgerOk
<1>8. PICK w \in Nat : w = ByteOnSwitch
  BY NetAssumption DEF ByteOnSwitch, Layers
<1>9. PICK x \in Nat : x = Share(a, s) /\ Unit \in Nat
  BY StageUnits DEF StageInv
<1>10. PICK u \in Nat : u = Unit
  BY <1>9
<1>11. PICK o \in Nat : o = Owed(tm, DOMAIN tm, 2, d) /\ o >= x * u
  BY <1>3, <1>9, <1>10
<1>12. o * w >= (x * u) * w
  <2>1. x * u \in Nat /\ x * u <= o /\ w <= w
    BY <1>11
  <2>2. PICK y \in Nat : y = x * u
    BY <2>1
  <2>3. y * w \in Nat /\ o * w \in Nat /\ y * w <= o * w
    BY <2>1, <2>2, TimesMonotone
  <2>. QED BY <2>2, <2>3
<1>13. (x * u) * w = x * (u * w)
  OBVIOUS
<1>14. LinkTime >= o * w
  BY <1>5, <1>6, <1>7, <1>8, <1>11
<1>15. LinkTime >= x * (u * w)
  <2>1. PICK p \in Nat : p = o * w
    OBVIOUS
  <2>2. PICK q \in Nat : q = x * (u * w)
    OBVIOUS
  <2>. QED BY <1>7, <1>12, <1>13, <1>14, <2>1, <2>2
<1>. QED BY <1>7, <1>8, <1>9, <1>10, <1>15

(* A routed stage, and the stages counted, cost what they must.            *)
UnitTime == Unit * ByteOnSwitch

CostPaid(x, algo, k) ==
  /\ x.hop \in Nat /\ x.link \in Nat
  /\ x.link >= Share(algo, k) * UnitTime

TotalPaid(t, algo, n) == t \in Nat /\ t >= Paid(algo, n) * UnitTime

CostsPaid == \A k \in 1 .. Len(costs) : CostPaid(costs[k], algos[1], k)

Paying == algos # <<>> => CostsPaid /\ TotalPaid(total, algos[1], counted)

(* What is paid depends on the call only, which never changes.             *)
LEMMA PayingSame ==
  ASSUME UNCHANGED <<call, net>>
  PROVE  /\ \A x, algo, k : CostPaid(x, algo, k)' <=> CostPaid(x, algo, k)
         /\ \A t, algo, n : TotalPaid(t, algo, n)' <=> TotalPaid(t, algo, n)
<1>1. call' = call
  OBVIOUS
<1>2. Group' = Group /\ Rounds' = Rounds
  BY CallSame
<1>3. Unit' = Unit /\ Several' = Several
  BY <1>1, <1>2 DEF Unit, Several
<1>4. ByteOnSwitch' = ByteOnSwitch
  BY DEF ByteOnSwitch
<1>5. UnitTime' = UnitTime
  BY <1>3, <1>4 DEF UnitTime
<1>6. \A algo, k : Share(algo, k)' = Share(algo, k)
  BY <1>2, <1>3 DEF Share
<1>7. \A algo, k : Paid(algo, k)' = Paid(algo, k)
  BY <1>2, <1>3 DEF Paid
<1>. QED BY <1>5, <1>6, <1>7 DEF CostPaid, TotalPaid

(* Nothing counted, nothing paid.                                          *)
LEMMA NothingPaid ==
  ASSUME CallOk, NEW a \in Algos
  PROVE  TotalPaid(0, a, 0) /\ UnitTime \in Nat
<1>1. UnitTime \in Nat
  <2>1. PICK w \in Nat : w = ByteOnSwitch
    BY NetAssumption DEF ByteOnSwitch, Layers
  <2>2. PICK u \in Nat : u = Unit
    BY CallFacts DEF Unit
  <2>. QED BY <2>1, <2>2 DEF UnitTime
<1>2. PICK w \in Nat : w = UnitTime
  BY <1>1
<1>3. Paid(a, 0) = 0
  <2>1. 0 \in 0 .. CountLen(a) - 1
    BY CountsAre
  <2>. QED BY <2>1, Pays
<1>4. 0 * w = 0
  OBVIOUS
<1>. QED BY <1>2, <1>3, <1>4 DEF TotalPaid

(* Nothing is owed at the start.                                           *)
LEMMA PayingInit == Init => Paying
<1> SUFFICES ASSUME Init PROVE Paying
  OBVIOUS
<1>1. StageInv
  BY StageInit
<1> SUFFICES ASSUME algos # <<>> PROVE CostsPaid /\ TotalPaid(total, algos[1], counted)
  BY DEF Paying
<1>2. PICK a \in Algos : a = algos[1]
  BY <1>1, StageFacts
<1>3. costs = <<>> /\ total = 0 /\ counted = 0
  BY DEF Init
<1>4. CallOk
  BY <1>1 DEF StageInv
<1>. QED BY <1>2, <1>3, <1>4, NothingPaid DEF CostsPaid

(* A stage that is routed costs at least the bytes one device receives     *)
(* over its own link.                                                      *)
LEMMA PayingRouted ==
  ASSUME StageInv, StageInv', MatrixHeld, RouteInv, Ledger, Paying, StageRouted
  PROVE  Paying'
<1>1. /\ sent /\ Routed
      /\ costs' = Append(costs, [tm |-> tm, hop |-> slowest, link |-> LinkTime])
      /\ UNCHANGED <<call, net, algos, counted, total>>
  BY DEF StageRouted, nocVars
<1>2. algos # <<>> /\ MatrixOk(tm) /\ CallOk
  BY <1>1 DEF StageInv, StageIdle, MatrixHeld
<1>3. PICK a \in Algos : a = algos[1]
  BY <1>2, StageFacts
<1>4. PICK s \in 1 .. StageCount(a) : s = Len(costs) + 1
  BY <1>1, <1>2, <1>3, StageFacts DEF StageInv, StageProgress
<1>5. LinkTime \in Nat /\ LinkTime >= Share(a, s) * UnitTime
  BY <1>1, <1>2, <1>3, <1>4, LinkPays DEF UnitTime
<1>6. PICK x : x = [tm |-> tm, hop |-> slowest, link |-> LinkTime]
  OBVIOUS
<1>7. CostPaid(x, a, s)
  BY <1>5, <1>6 DEF CostPaid, RouteInv
<1>8. PICK T : costs \in Seq(T)
  BY DEF StageInv
<1>9. costs \in Seq(T \cup {x}) /\ x \in T \cup {x}
  BY <1>8, SeqMonotonic
<1>10. /\ Len(costs') = Len(costs) + 1
       /\ \A i \in 1 .. Len(costs) : costs'[i] = costs[i]
       /\ costs'[Len(costs) + 1] = x
  BY <1>1, <1>6, <1>9, AppendProperties
<1>11. PICK n \in Nat : n = Len(costs)
  BY <1>8, LenProperties
<1>12. \A k \in 1 .. n : CostPaid(costs[k], a, k)
  BY <1>2, <1>3, <1>11 DEF Paying, CostsPaid
<1>13. PICK c : c = costs'
  OBVIOUS
<1>14. \A k \in 1 .. n + 1 : CostPaid(c[k], a, k)
  <2> SUFFICES ASSUME NEW k \in 1 .. n + 1 PROVE CostPaid(c[k], a, k)
    OBVIOUS
  <2>1. CASE k = n + 1
    BY <1>4, <1>7, <1>10, <1>11, <1>13, <2>1
  <2>2. CASE k # n + 1
    <3>1. k \in 1 .. n
      BY <2>2
    <3>2. c[k] = costs[k]
      BY <1>10, <1>11, <1>13, <3>1
    <3>. QED BY <1>12, <3>1, <3>2
  <2>. QED BY <2>1, <2>2
<1>15. CostsPaid'
  <2>1. Len(c) = n + 1 /\ c = costs' /\ a = algos'[1]
    BY <1>1, <1>3, <1>10, <1>11, <1>13
  <2>2. \A k \in 1 .. n + 1 : CostPaid(c[k], a, k)'
    BY <1>1, <1>14, PayingSame
  <2>. QED BY <2>1, <2>2 DEF CostsPaid
<1>16. PICK t : t = total /\ TotalPaid(t, a, counted)
  BY <1>2, <1>3 DEF Paying
<1>17. PICK m : m = counted
  OBVIOUS
<1>18. TotalPaid(t, a, m)'
  BY <1>1, <1>16, <1>17, PayingSame
<1>19. TotalPaid(total, algos[1], counted)'
  BY <1>1, <1>3, <1>16, <1>17, <1>18
<1>. QED BY <1>15, <1>19 DEF Paying

(* A stage that is counted adds at least its share to the total.           *)
LEMMA PayingCount ==
  ASSUME StageInv, Paying, Count
  PROVE  Paying'
<1>1. /\ UNCHANGED <<call, net, algos, costs>> /\ counted' = counted + 1
      /\ AllRouted /\ ~AllCounted
      /\ total' = total + costs[Counts(algos[1])[counted + 1]].hop
                        + costs[Counts(algos[1])[counted + 1]].link
  BY DEF Count, nocVars
<1>2. algos # <<>> /\ CallOk /\ Len(costs) = StageCount(algos[1]) /\ counted # CountLen(algos[1])
  BY <1>1, StageFacts DEF AllRouted, AllCounted, StageInv
<1>3. PICK a \in Algos : a = algos[1]
  BY <1>2, StageFacts
<1>4. PICK n \in 0 .. CountLen(a) - 1 : n = counted
  BY <1>2, <1>3, StageFacts DEF StageInv, StageProgress
<1>5. n + 1 \in 1 .. CountLen(a)
  <2>1. CountLen(a) \in Nat
    BY <1>2, CountsAre
  <2>. QED BY <2>1
<1>6. PICK k \in 1 .. StageCount(a) : k = CountAt(a, n + 1) /\ k = Counts(a)[n + 1]
  BY <1>2, <1>5, CountsAre
<1>7. PICK x : x = costs[k]
  OBVIOUS
<1>8. CostPaid(x, a, k)
  BY <1>2, <1>3, <1>6, <1>7 DEF Paying, CostsPaid
<1>9. TotalPaid(total, a, n)
  BY <1>2, <1>3, <1>4 DEF Paying
<1>10. PICK t \in Nat : t = total /\ t >= Paid(a, n) * UnitTime
  BY <1>9 DEF TotalPaid
<1>11. PICK z : z = t + x.hop + x.link
  OBVIOUS
<1>12. total' = z
  BY <1>1, <1>3, <1>4, <1>6, <1>7, <1>10, <1>11
<1>13. TotalPaid(z, a, n + 1)
  <2>1. PaysMore(a, n)
    BY <1>2, Pays
  <2>2. PICK p \in Nat : p = Paid(a, n)
    BY <2>1 DEF PaysMore
  <2>3. PICK q \in Nat : q = Share(a, k)
    BY <1>6, <2>1 DEF PaysMore
  <2>4. Paid(a, n + 1) = p + q
    BY <1>6, <2>1, <2>2, <2>3 DEF PaysMore
  <2>5. PICK w \in Nat : w = UnitTime
    BY <1>2, NothingPaid
  <2>6. PICK h \in Nat : h = x.hop
    BY <1>8 DEF CostPaid
  <2>7. PICK l \in Nat : l = x.link /\ l >= q * w
    BY <1>8, <2>3, <2>5 DEF CostPaid
  <2>8. (p + q) * w = p * w + q * w /\ p * w \in Nat /\ q * w \in Nat
    OBVIOUS
  <2>9. PICK pw \in Nat : pw = p * w
    BY <2>8
  <2>10. PICK qw \in Nat : qw = q * w
    BY <2>8
  <2>11. t >= pw /\ l >= qw /\ (p + q) * w = pw + qw
    BY <1>10, <2>2, <2>5, <2>7, <2>8, <2>9, <2>10
  <2>12. z \in Nat /\ z >= pw + qw
    BY <1>11, <2>6, <2>7, <2>11
  <2>13. Paid(a, n + 1) * UnitTime = pw + qw
    BY <2>4, <2>5, <2>11
  <2>. QED BY <2>12, <2>13 DEF TotalPaid
<1>14. TotalPaid(z, a, n + 1)'
  BY <1>1, <1>13, PayingSame
<1>15. TotalPaid(total, algos[1], counted)'
  BY <1>1, <1>3, <1>4, <1>12, <1>14
<1>16. CostsPaid'
  <2>1. PICK c : c = costs
    OBVIOUS
  <2>2. \A i \in 1 .. Len(c) : CostPaid(c[i], a, i)
    BY <1>2, <1>3, <2>1 DEF Paying, CostsPaid
  <2>3. \A i \in 1 .. Len(c) : CostPaid(c[i], a, i)'
    BY <1>1, <2>2, PayingSame
  <2>. QED BY <1>1, <1>3, <2>1, <2>3 DEF CostsPaid
<1>. QED BY <1>15, <1>16 DEF Paying

(* Every step keeps it.                                                    *)
LEMMA PayingStep ==
  StageInv /\ StageInv' /\ MatrixHeld /\ RouteInv /\ Ledger /\ Paying /\ [Next]_vars => Paying'
<1> SUFFICES ASSUME StageInv, StageInv', MatrixHeld, RouteInv, Ledger, Paying, [Next]_vars
             PROVE  Paying'
  OBVIOUS
<1>1. CASE Fill \/ Route \/ UNCHANGED vars
  <2>1. UNCHANGED <<call, net, algos, costs, counted, total>>
    BY <1>1 DEF Fill, Route, vars, nocVars, collectiveVars, NocNext, Depart, Walk, Cross, Arrive, Move
  <2>2. PICK c : c = costs
    OBVIOUS
  <2>3. PICK a : a = algos[1]
    OBVIOUS
  <2>4. PICK t : t = total
    OBVIOUS
  <2>5. PICK n : n = counted
    OBVIOUS
  <2>6. algos # <<>> => (\A i \in 1 .. Len(c) : CostPaid(c[i], a, i)) /\ TotalPaid(t, a, n)
    BY <2>2, <2>3, <2>4, <2>5 DEF Paying, CostsPaid
  <2>7. algos # <<>> => (\A i \in 1 .. Len(c) : CostPaid(c[i], a, i)') /\ TotalPaid(t, a, n)'
    BY <2>1, <2>6, PayingSame
  <2>. QED BY <2>1, <2>2, <2>3, <2>4, <2>5, <2>7 DEF Paying, CostsPaid
<1>2. CASE StageRouted
  BY <1>2, PayingRouted
<1>3. CASE Count
  BY <1>3, PayingCount
<1>4. CASE Compare
  <2>1. UNCHANGED <<call, net>> /\ costs' = <<>> /\ total' = 0 /\ counted' = 0 /\ algos' = Tail(algos)
        /\ algos # <<>>
    BY <1>4 DEF Compare, nocVars, AllCounted, AllRouted
  <2> SUFFICES ASSUME algos' # <<>> PROVE CostsPaid' /\ TotalPaid(total, algos[1], counted)'
    BY DEF Paying
  <2>2. PICK a \in Algos : a = algos'[1]
    <3>1. algos' \in Seq(Algos) /\ algos' # <<>>
      BY <2>1, StageFacts
    <3>2. 1 \in 1 .. Len(algos')
      BY <3>1, EmptySeq
    <3>. QED BY <3>1, <3>2, ElementOfSeq
  <2>3. TotalPaid(0, a, 0)
    BY NothingPaid DEF StageInv
  <2>4. TotalPaid(0, a, 0)'
    BY <2>1, <2>3, PayingSame
  <2>. QED BY <2>1, <2>2, <2>4 DEF CostsPaid
<1>. QED BY <1>1, <1>2, <1>3, <1>4 DEF Next

(* For every network and algorithm, and every call whose bytes are a       *)
(* multiple of its group.                                                  *)
THEOREM NothingFree == Spec => []NoFreeReduce
<1>1. StageInv /\ Paying => NoFreeReduce
  <2> SUFFICES ASSUME StageInv, Paying, AllCounted PROVE NoFreeReduce
    BY DEF NoFreeReduce
  <2>1. algos # <<>> /\ CallOk /\ counted = CountLen(algos[1])
    BY StageFacts DEF AllCounted, AllRouted, StageInv
  <2>2. PICK a \in Algos : a = algos[1]
    BY <2>1, StageFacts
  <2>3. PICK p \in Nat : p = Paid(a, CountLen(a)) /\ p >= Group - 1 + Cardinality(Owned(a, 0)) - 1
    BY <2>1, PaysAll
  <2>4. TotalPaid(total, a, CountLen(a))
    BY <2>1, <2>2 DEF Paying
  <2>5. PICK w \in Nat : w = ByteOnSwitch
    BY NetAssumption DEF ByteOnSwitch, Layers
  <2>6. PICK u \in Nat : u = Unit
    BY <2>1, CallFacts DEF Unit
  <2>7. PICK t \in Nat : t = total /\ t >= p * (u * w)
    BY <2>3, <2>4, <2>5, <2>6 DEF TotalPaid, UnitTime
  <2>8. PICK m \in Int : m = Group - 1 + Cardinality(Owned(a, 0)) - 1
    BY <2>1, PaysAll, CallFacts
  <2>9. m * u * w <= p * (u * w)
    <3>1. PICK v \in Nat : v = u * w
      OBVIOUS
    <3>2. m * u * w = m * v
      BY <3>1
    <3>3. p - m \in Nat
      BY <2>3, <2>8
    <3>4. \A x \in Nat, y \in Int, z \in Nat : y * z + x * z = (y + x) * z /\ x * z \in Nat
      OBVIOUS
    <3>5. m * v + (p - m) * v = (m + (p - m)) * v /\ (p - m) * v \in Nat
      BY <3>3, <3>4
    <3>6. m + (p - m) = p
      OBVIOUS
    <3>7. PICK a1 \in Int : a1 = m * v
      OBVIOUS
    <3>8. PICK b1 \in Nat : b1 = (p - m) * v
      BY <3>5
    <3>9. p * v = a1 + b1
      BY <3>5, <3>6, <3>7, <3>8
    <3>. QED BY <3>1, <3>2, <3>7, <3>8, <3>9
  <2>10. t >= m * u * w
    <3>1. PICK x \in Int : x = m * u * w
      OBVIOUS
    <3>2. PICK y \in Int : y = p * (u * w)
      OBVIOUS
    <3>. QED BY <2>7, <2>9, <3>1, <3>2
  <2>. QED BY <2>2, <2>5, <2>6, <2>7, <2>8, <2>10 DEF NoFreeReduce, Unit, ByteOnSwitch
<1>. QED BY <1>1, LedgerHolds, PayingInit, PayingStep, PTL DEF Spec

(* From whom a rank receives a chunk in the r-th stage counted.            *)
Senders(algo, r, i, c) ==
  {j \in Ranks : /\ <<j, i>> \in StageEdges(algo, CountAt(algo, r))
                 /\ c \in Cargo(algo, r, j, i)}

(* Ranks that differ in their n lowest bits only, and ranks that agree in  *)
(* them.                                                                   *)
Near(n, i, k) ==
  CASE n = 0 -> k = i
    [] n = 1 -> k \div 2 = i \div 2
    [] n = 2 -> k \div 4 = i \div 4
    [] OTHER -> k \div 8 = i \div 8

Same(n, i, c) ==
  CASE n = 0 -> TRUE
    [] n = 1 -> c % 2 = i % 2
    [] n = 2 -> c % 4 = i % 4
    [] OTHER -> c % 8 = i % 8

(* After n rounds of halving a rank has a chunk from the ranks near it as  *)
(* far as its number and the chunk's agree.                                *)
Met(n, i, c, k) ==
  IF n >= 3 /\ Same(3, i, c) THEN Near(3, i, k)
  ELSE IF n >= 2 /\ Same(2, i, c) THEN Near(2, i, k)
  ELSE IF n >= 1 /\ Same(1, i, c) THEN Near(1, i, k)
  ELSE k = i

(* The height of a rank in the right tree, and the ranks below it; the left*)
(* tree, which moves the upper half of the chunks, is the mirror image.    *)
Height(x) ==
  IF x % 2 = 0 THEN 0 ELSE IF x % 4 = 1 THEN 1 ELSE IF x % 8 = 3 THEN 2 ELSE 3

Below(h, x, y) ==
  CASE h = 0 -> y = x
    [] h = 1 -> y < x + 2 /\ x < y + 2
    [] h = 2 -> y < x + 4 /\ x < y + 4
    [] OTHER -> TRUE

Mirrored(c, i) == IF c < Group \div 2 THEN i ELSE Group - 1 - i

HasTree(r, x, y) ==
  IF r <= Rounds THEN IF Height(x) <= r THEN Below(Height(x), x, y) ELSE y = x
  ELSE Height(x) >= 2 * Rounds - r \/ Below(Height(x), x, y)

HasRing(r, i, c, k) ==
  IF r < Group THEN IF (i - c) % Group <= r THEN (k - c) % Group <= (i - c) % Group ELSE k = i
  ELSE (i - c) % Group < r - (Group - 1) \/ (k - c) % Group <= (i - c) % Group

HasHalving(r, i, c, k) ==
  IF r <= Rounds THEN Met(r, i, c, k)
  ELSE Same(2 * Rounds - r, i, c) \/ Met(Rounds, i, c, k)

(* After r stages rank i has the contribution of rank k to chunk c.        *)
Has(algo, r, i, c, k) ==
  CASE algo = "recursive_doubling" -> Near(r, i, k)
    [] algo = "ring" -> HasRing(r, i, c, k)
    [] algo = "double_tree" -> HasTree(r, Mirrored(c, i), Mirrored(c, k))
    [] algo = "all_to_all" -> r > 0 \/ k = i
    [] OTHER -> HasHalving(r, i, c, k)

(* A stage hands on what its senders have; what it adds is new.            *)
Handed(algo, r, i, c, k) ==
  \/ \E j \in Senders(algo, r, i, c) : Has(algo, r - 1, j, c, k)
  \/ (Adds(algo, r) \/ Senders(algo, r, i, c) = {}) /\ Has(algo, r - 1, i, c, k)

NotTwice(algo, r, i, c, k) ==
  Adds(algo, r) =>
    \A s, t \in Senders(algo, r, i, c) \cup {i} :
      s # t => ~(Has(algo, r - 1, s, c, k) /\ Has(algo, r - 1, t, c, k))

StageHands(algo, r) ==
  \A i, c, k \in Ranks : /\ Has(algo, r, i, c, k) <=> Handed(algo, r, i, c, k)
                         /\ NotTwice(algo, r, i, c, k)

(* A stage in which a rank hears of a chunk from one rank at most.         *)
LEMMA OneSender ==
  ASSUME NEW algo, NEW r, NEW i \in Ranks, NEW c, NEW k, NEW p \in Ranks, NEW heard \in BOOLEAN,
         \A j \in Ranks : j \in Senders(algo, r, i, c) <=> heard /\ j = p,
         heard => (Has(algo, r, i, c, k) <=>
                     Has(algo, r - 1, p, c, k) \/ (Adds(algo, r) /\ Has(algo, r - 1, i, c, k))),
         ~heard => (Has(algo, r, i, c, k) <=> Has(algo, r - 1, i, c, k)),
         heard /\ Adds(algo, r) => ~(Has(algo, r - 1, p, c, k) /\ Has(algo, r - 1, i, c, k))
  PROVE  /\ Has(algo, r, i, c, k) <=> Handed(algo, r, i, c, k)
         /\ NotTwice(algo, r, i, c, k)
<1>1. Senders(algo, r, i, c) \subseteq Ranks
  BY DEF Senders
<1>2. PICK S : S = Senders(algo, r, i, c) /\ S \subseteq Ranks
  BY <1>1
<1>3. CASE heard
  <2>1. S = {p}
    BY <1>2, <1>3
  <2>2. Handed(algo, r, i, c, k) <=>
          Has(algo, r - 1, p, c, k) \/ (Adds(algo, r) /\ Has(algo, r - 1, i, c, k))
    BY <1>2, <2>1 DEF Handed
  <2>3. NotTwice(algo, r, i, c, k)
    BY <1>2, <1>3, <2>1 DEF NotTwice
  <2>. QED BY <1>3, <2>2, <2>3
<1>4. CASE ~heard
  <2>1. S = {}
    BY <1>2, <1>4
  <2>2. Handed(algo, r, i, c, k) <=> Has(algo, r - 1, i, c, k)
    BY <1>2, <2>1 DEF Handed
  <2>3. NotTwice(algo, r, i, c, k)
    BY <1>2, <2>1 DEF NotTwice
  <2>. QED BY <1>4, <2>2, <2>3
<1>. QED BY <1>3, <1>4

(* One rank sends everybody else everything.                               *)
LEMMA AllHands ==
  ASSUME CallOk
  PROVE  StageHands("all_to_all", 1)
<1>1. 1 - 1 = 0 /\ ~(0 > 0) /\ 1 > 0
  OBVIOUS
<1>2. \A i, c, k : Has("all_to_all", 1, i, c, k) /\ (Has("all_to_all", 0, i, c, k) <=> k = i)
  BY <1>1 DEF Has
<1>3. ASSUME NEW i \in Ranks, NEW c \in Ranks PROVE Senders("all_to_all", 1, i, c) = Ranks \ {i}
  <2>1. \A j \in Ranks : c \in Cargo("all_to_all", 1, j, i)
    BY DEF Cargo
  <2>2. StageEdges("all_to_all", CountAt("all_to_all", 1)) = {q \in Ranks \X Ranks : q[1] # q[2]}
    BY DEF StageEdges
  <2>3. \A j \in Ranks : <<j, i>> \in {q \in Ranks \X Ranks : q[1] # q[2]} <=> j # i
    OBVIOUS
  <2>. QED BY <2>1, <2>2, <2>3 DEF Senders
<1>4. Adds("all_to_all", 1)
  BY DEF Adds
<1>. QED
  <2> SUFFICES ASSUME NEW i \in Ranks, NEW c \in Ranks, NEW k \in Ranks
               PROVE  /\ Has("all_to_all", 1, i, c, k) <=> Handed("all_to_all", 1, i, c, k)
                      /\ NotTwice("all_to_all", 1, i, c, k)
    BY DEF StageHands
  <2>1. Handed("all_to_all", 1, i, c, k)
    BY <1>1, <1>2, <1>3, <1>4 DEF Handed
  <2>2. NotTwice("all_to_all", 1, i, c, k)
    BY <1>1, <1>2, <1>3 DEF NotTwice
  <2>. QED BY <1>2, <2>1, <2>2

(* What exchanging with the partner of bit s does to nearness and          *)
(* agreement.                                                              *)
BitFacts(s, i, p, c, k) ==
  /\ Near(s + 1, i, k) <=> Near(s, p, k) \/ Near(s, i, k)
  /\ ~(Near(s, p, k) /\ Near(s, i, k))
  /\ Same(s, p, c) <=> Same(s, i, c)
  /\ Same(s + 1, p, c) <=> Same(s, i, c) /\ ~Same(s + 1, i, c)
  /\ Same(s + 1, i, c) => Same(s, i, c)

(* Exchanging with the partner of bit s doubles the ranks that are near,   *)
(* and splits those that agree.                                            *)
LEMMA PartnerBits ==
  ASSUME CallOk, NEW i \in Ranks, NEW c \in Ranks, NEW k \in Ranks, NEW s \in 0 .. Rounds - 1
  PROVE  BitFacts(s, i, Partner(i, s), c, k)
<1>1. PICK n \in {2, 4, 8} : n = Group /\ Ranks = 0 .. n - 1
  BY CallFacts DEF Ranks
<1>2. s = 0 \/ s = 1 \/ s = 2
  BY RoundsIs
<1>3. i \in 0 .. 7 /\ c \in 0 .. 7 /\ k \in 0 .. 7
  BY <1>1
<1>4. CASE s = 0
  <2>1. PICK p \in Int : p = Partner(i, s) /\ p = IF i % 2 = 0 THEN i + 1 ELSE i - 1
    <3>1. Partner(i, s) = IF (i \div 1) % 2 = 0 THEN i + 1 ELSE i - 1
      BY <1>4, Powers DEF Partner
    <3>2. i \div 1 = i /\ i + 1 \in Int /\ i - 1 \in Int
      BY <1>3
    <3>. QED BY <3>1, <3>2
  <2>2. \A x, y : /\ Near(0, x, y) <=> y = x
                  /\ Near(1, x, y) <=> y \div 2 = x \div 2
                  /\ Same(0, x, y) /\ (Same(1, x, y) <=> y % 2 = x % 2)
    BY DEF Near, Same
  <2>3. k \div 2 = i \div 2 <=> k = p \/ k = i
    BY <1>3, <2>1
  <2>4. p # i
    BY <1>3, <2>1
  <2>5. c % 2 = p % 2 <=> c % 2 # i % 2
    BY <1>3, <2>1
  <2>. QED BY <1>4, <2>1, <2>2, <2>3, <2>4, <2>5 DEF BitFacts
<1>5. CASE s = 1
  <2>1. PICK p \in Int : p = Partner(i, s) /\ p = IF (i \div 2) % 2 = 0 THEN i + 2 ELSE i - 2
    <3>1. Partner(i, s) = IF (i \div 2) % 2 = 0 THEN i + 2 ELSE i - 2
      BY <1>5, Powers DEF Partner
    <3>2. i + 2 \in Int /\ i - 2 \in Int
      BY <1>3
    <3>. QED BY <3>1, <3>2
  <2>2. \A x, y : /\ Near(1, x, y) <=> y \div 2 = x \div 2
                  /\ Near(2, x, y) <=> y \div 4 = x \div 4
                  /\ Same(1, x, y) <=> y % 2 = x % 2
                  /\ Same(2, x, y) <=> y % 4 = x % 4
    BY DEF Near, Same
  <2>3. k \div 4 = i \div 4 <=> k \div 2 = p \div 2 \/ k \div 2 = i \div 2
    BY <1>3, <2>1
  <2>4. ~(k \div 2 = p \div 2 /\ k \div 2 = i \div 2)
    BY <1>3, <2>1
  <2>5. c % 2 = p % 2 <=> c % 2 = i % 2
    BY <1>3, <2>1
  <2>6. c % 4 = p % 4 <=> c % 2 = i % 2 /\ c % 4 # i % 4
    BY <1>3, <2>1
  <2>7. c % 4 = i % 4 => c % 2 = i % 2
    BY <1>3
  <2>. QED BY <1>5, <2>1, <2>2, <2>3, <2>4, <2>5, <2>6, <2>7 DEF BitFacts
<1>6. CASE s = 2
  <2>1. PICK p \in Int : p = Partner(i, s) /\ p = IF (i \div 4) % 2 = 0 THEN i + 4 ELSE i - 4
    <3>1. Partner(i, s) = IF (i \div 4) % 2 = 0 THEN i + 4 ELSE i - 4
      BY <1>6, Powers DEF Partner
    <3>2. i + 4 \in Int /\ i - 4 \in Int
      BY <1>3
    <3>. QED BY <3>1, <3>2
  <2>2. \A x, y : /\ Near(2, x, y) <=> y \div 4 = x \div 4
                  /\ Near(3, x, y) <=> y \div 8 = x \div 8
                  /\ Same(2, x, y) <=> y % 4 = x % 4
                  /\ Same(3, x, y) <=> y % 8 = x % 8
    BY DEF Near, Same
  <2>3. k \div 8 = i \div 8 <=> k \div 4 = p \div 4 \/ k \div 4 = i \div 4
    BY <1>3, <2>1
  <2>4. ~(k \div 4 = p \div 4 /\ k \div 4 = i \div 4)
    BY <1>3, <2>1
  <2>5. c % 4 = p % 4 <=> c % 4 = i % 4
    BY <1>3, <2>1
  <2>6. c % 8 = p % 8 <=> c % 4 = i % 4 /\ c % 8 # i % 8
    BY <1>3, <2>1
  <2>7. c % 8 = i % 8 => c % 4 = i % 4
    BY <1>3
  <2>. QED BY <1>6, <2>1, <2>2, <2>3, <2>4, <2>5, <2>6, <2>7 DEF BitFacts
<1>. QED BY <1>2, <1>4, <1>5, <1>6

(* In a group every rank is near every other in the end, and none but      *)
(* itself at the start.                                                    *)
LEMMA NearEnds ==
  ASSUME CallOk, NEW i \in Ranks, NEW k \in Ranks
  PROVE  Near(Rounds, i, k) /\ (Near(0, i, k) <=> k = i)
<1>1. PICK n \in {2, 4, 8} : n = Group /\ Ranks = 0 .. n - 1
  BY CallFacts DEF Ranks
<1>2. Near(0, i, k) <=> k = i
  BY DEF Near
<1>3. CASE n = 2
  <2>1. Rounds = 1 /\ k \div 2 = i \div 2
    BY <1>1, <1>3, RoundsIs
  <2>. QED BY <1>2, <2>1 DEF Near
<1>4. CASE n = 4
  <2>1. Rounds = 2 /\ k \div 4 = i \div 4
    BY <1>1, <1>4, RoundsIs
  <2>. QED BY <1>2, <2>1 DEF Near
<1>5. CASE n = 8
  <2>1. Rounds = 3 /\ k \div 8 = i \div 8
    BY <1>1, <1>5, RoundsIs
  <2>. QED BY <1>2, <2>1 DEF Near
<1>. QED BY <1>3, <1>4, <1>5

(* Met, by its last round.                                                 *)
LEMMA MetNext ==
  ASSUME NEW n \in {1, 2, 3}, NEW i, NEW c, NEW k
  PROVE  /\ Same(n, i, c) => (Met(n, i, c, k) <=> Near(n, i, k))
         /\ ~Same(n, i, c) => (Met(n, i, c, k) <=> Met(n - 1, i, c, k))
         /\ Same(n - 1, i, c) => (Met(n - 1, i, c, k) <=> Near(n - 1, i, k))
<1>1. CASE n = 1
  <2>1. /\ Met(1, i, c, k) <=> IF Same(1, i, c) THEN Near(1, i, k) ELSE k = i
        /\ Met(0, i, c, k) <=> k = i
        /\ Near(0, i, k) <=> k = i
    BY DEF Met, Near
  <2>. QED BY <1>1, <2>1
<1>2. CASE n = 2
  <2>1. /\ Met(2, i, c, k) <=> IF Same(2, i, c) THEN Near(2, i, k)
                               ELSE IF Same(1, i, c) THEN Near(1, i, k) ELSE k = i
        /\ Met(1, i, c, k) <=> IF Same(1, i, c) THEN Near(1, i, k) ELSE k = i
    BY DEF Met
  <2>. QED BY <1>2, <2>1
<1>3. CASE n = 3
  <2>1. /\ Met(3, i, c, k) <=> IF Same(3, i, c) THEN Near(3, i, k) ELSE IF Same(2, i, c) THEN Near(2, i, k)
                               ELSE IF Same(1, i, c) THEN Near(1, i, k) ELSE k = i
        /\ Met(2, i, c, k) <=> IF Same(2, i, c) THEN Near(2, i, k)
                               ELSE IF Same(1, i, c) THEN Near(1, i, k) ELSE k = i
    BY DEF Met
  <2>. QED BY <1>3, <2>1
<1>. QED BY <1>1, <1>2, <1>3

(* An exchange sends to the partner what the cargo says.                   *)
LEMMA ExchangeFrom ==
  ASSUME CallOk, NEW algo, NEW r, NEW s \in 0 .. Rounds - 1, NEW i \in Ranks, NEW c \in Ranks,
         StageEdges(algo, CountAt(algo, r)) = {<<x, Partner(x, s)>> : x \in Ranks}
  PROVE  \A j \in Ranks : j \in Senders(algo, r, i, c)
                            <=> c \in Cargo(algo, r, Partner(i, s), i) /\ j = Partner(i, s)
<1>1. ASSUME NEW j \in Ranks
      PROVE  <<j, i>> \in {<<x, Partner(x, s)>> : x \in Ranks} <=> j = Partner(i, s)
  <2>1. Partner(Partner(i, s), s) = i /\ Partner(i, s) \in Ranks /\ Partner(Partner(j, s), s) = j
    BY PartnerIs
  <2>2. <<j, i>> \in {<<x, Partner(x, s)>> : x \in Ranks} <=> i = Partner(j, s)
    OBVIOUS
  <2>. QED BY <2>1, <2>2
<1>. QED BY <1>1 DEF Senders

(* Recursive doubling: what two partners have is joined.                   *)
LEMMA DoublingHands ==
  ASSUME CallOk, NEW r \in 1 .. Rounds, NEW algo, algo = "recursive_doubling"
  PROVE  StageHands(algo, r)
<1>1. PICK s \in 0 .. Rounds - 1 : s = r - 1 /\ s + 1 = r
  BY RoundsIs
<1>2. StageEdges(algo, CountAt(algo, r)) = {<<x, Partner(x, s)>> : x \in Ranks}
  BY <1>1 DEF StageEdges, CountAt
<1>3. Adds(algo, r)
  BY DEF Adds
<1>4. \A i, c, k : /\ Has(algo, r, i, c, k) <=> Near(r, i, k)
                   /\ Has(algo, r - 1, i, c, k) <=> Near(s, i, k)
  BY <1>1 DEF Has
<1>5. \A i, j, c : c \in Ranks => c \in Cargo(algo, r, j, i)
  BY DEF Cargo
<1>6. ASSUME NEW i \in Ranks, NEW c \in Ranks, NEW k \in Ranks
      PROVE  /\ Has(algo, r, i, c, k) <=> Handed(algo, r, i, c, k)
             /\ NotTwice(algo, r, i, c, k)
  <2>1. PICK p \in Ranks : p = Partner(i, s)
    BY PartnerIs
  <2>2. BitFacts(s, i, p, c, k)
    BY <2>1, PartnerBits
  <2>0. PICK h \in BOOLEAN : h = TRUE
    OBVIOUS
  <2>3. \A j \in Ranks : j \in Senders(algo, r, i, c) <=> h /\ j = p
    <3>1. \A j \in Ranks : j \in Senders(algo, r, i, c)
                            <=> c \in Cargo(algo, r, Partner(i, s), i) /\ j = Partner(i, s)
      BY <1>2, ExchangeFrom
    <3>2. c \in Cargo(algo, r, Partner(i, s), i)
      BY <1>5
    <3>. QED BY <2>0, <2>1, <3>1, <3>2
  <2>4. Near(r, i, k) <=> Near(s, p, k) \/ Near(s, i, k)
    BY <1>1, <2>2 DEF BitFacts
  <2>5. ~(Near(s, p, k) /\ Near(s, i, k))
    BY <2>2 DEF BitFacts
  <2>6. h => (Has(algo, r, i, c, k) <=>
                Has(algo, r - 1, p, c, k) \/ (Adds(algo, r) /\ Has(algo, r - 1, i, c, k)))
    BY <1>3, <1>4, <2>4
  <2>7. h /\ Adds(algo, r) => ~(Has(algo, r - 1, p, c, k) /\ Has(algo, r - 1, i, c, k))
    BY <1>4, <2>5
  <2>8. ~h => (Has(algo, r, i, c, k) <=> Has(algo, r - 1, i, c, k))
    BY <2>0
  <2>. QED BY <2>3, <2>6, <2>7, <2>8, OneSender
<1>. QED BY <1>6 DEF StageHands

Halves == {"rabenseifner", "reduce_scatter", "partial_broadcast"}

(* What the halves of an exchange are, by its number.                      *)
LEMMA HalvingCargo ==
  ASSUME CallOk, NEW algo \in Halves, NEW r \in 1 .. CountLen(algo), NEW n \in 1 .. Rounds,
         n = CountAt(algo, r), NEW i \in Ranks, NEW j \in Ranks, NEW c \in Ranks
  PROVE  c \in Cargo(algo, r, j, i) <=> Same(n, IF r <= Rounds THEN i ELSE j, c)
<1>1. PICK x \in Ranks : x = IF r <= Rounds THEN i ELSE j
  OBVIOUS
<1>2. Counts(algo)[r] = n
  BY CountsAre DEF Halves, Algos
<1>3. PICK q \in {2, 4, 8} : q = 2^n /\ \A u, v : Same(n, u, v) <=> v % q = u % q
  <2>1. n = 1 \/ n = 2 \/ n = 3
    BY RoundsIs
  <2>2. CASE n = 1
    <3>1. 2^n = 2 /\ \A u, v : Same(n, u, v) <=> v % 2 = u % 2
      BY <2>2, Powers DEF Same
    <3>. QED BY <3>1
  <2>3. CASE n = 2
    <3>1. 2^n = 4 /\ \A u, v : Same(n, u, v) <=> v % 4 = u % 4
      BY <2>3, Powers DEF Same
    <3>. QED BY <3>1
  <2>4. CASE n = 3
    <3>1. 2^n = 8 /\ \A u, v : Same(n, u, v) <=> v % 8 = u % 8
      BY <2>4, Powers DEF Same
    <3>. QED BY <3>1
  <2>. QED BY <2>1, <2>2, <2>3, <2>4
<1>4. Cargo(algo, r, j, i) = {y \in Ranks : y % q = x % q}
  BY <1>1, <1>2, <1>3 DEF Cargo, Halves
<1>. QED BY <1>1, <1>3, <1>4

(* The r-th stage of a halving: exchanges of ever higher bits, then of the *)
(* same bits backwards.                                                    *)
LEMMA HalvingStages ==
  ASSUME CallOk, NEW algo \in Halves, NEW r \in 1 .. CountLen(algo)
  PROVE  /\ r \in 1 .. 2 * Rounds
         /\ CountAt(algo, r) = IF r <= Rounds THEN r ELSE 2 * Rounds + 1 - r
         /\ CountAt(algo, r) \in 1 .. Rounds
         /\ StageEdges(algo, CountAt(algo, r))
              = {<<x, Partner(x, CountAt(algo, r) - 1)>> : x \in Ranks}
         /\ Adds(algo, r) <=> r <= Rounds
         /\ \A q, i, c, k : Has(algo, q, i, c, k) <=> HasHalving(q, i, c, k)
<1>1. PICK R \in {1, 2, 3} : R = Rounds
  BY RoundsIs
<1>2. PICK t \in 0 .. R : t = Shared
  BY <1>1, SharedIs
<1>3. r \in 1 .. 2 * R /\ (algo = "reduce_scatter" => r <= R)
  <2>1. CASE algo = "rabenseifner"
    BY <1>1, <2>1 DEF CountLen
  <2>2. CASE algo = "reduce_scatter"
    BY <1>1, <2>2 DEF CountLen, StageCount
  <2>3. CASE algo = "partial_broadcast"
    BY <1>1, <1>2, <2>3 DEF CountLen
  <2>. QED BY <2>1, <2>2, <2>3 DEF Halves
<1>4. CountAt(algo, r) = IF r <= R THEN r ELSE 2 * R + 1 - r
  BY <1>1, <1>3 DEF CountAt, Halves
<1>5. CountAt(algo, r) \in 1 .. R
  BY <1>3, <1>4
<1>6. StageEdges(algo, CountAt(algo, r)) = {<<x, Partner(x, CountAt(algo, r) - 1)>> : x \in Ranks}
  BY DEF StageEdges, Halves
<1>7. Adds(algo, r) <=> r <= R
  BY <1>1 DEF Adds, Halves
<1>8. \A q, i, c, k : Has(algo, q, i, c, k) <=> HasHalving(q, i, c, k)
  BY DEF Has, Halves
<1>. QED BY <1>1, <1>3, <1>4, <1>5, <1>6, <1>7, <1>8

(* Halving: first the sums of ever smaller parts, then whole parts back.   *)
LEMMA HalvingHands ==
  ASSUME CallOk, NEW algo \in Halves, NEW r \in 1 .. CountLen(algo)
  PROVE  StageHands(algo, r)
<1>1. PICK R \in {1, 2, 3} : R = Rounds
  BY RoundsIs
<1>2. PICK n \in 1 .. R : n = CountAt(algo, r) /\ n = IF r <= R THEN r ELSE 2 * R + 1 - r
  BY <1>1, HalvingStages
<1>3. PICK s \in 0 .. R - 1 : s = n - 1 /\ s + 1 = n
  BY <1>2
<1>4. r \in 1 .. 2 * R /\ (Adds(algo, r) <=> r <= R)
  BY <1>1, HalvingStages
<1>5. \A q, i, c, k : Has(algo, q, i, c, k) <=> HasHalving(q, i, c, k)
  BY HalvingStages
<1>6. StageEdges(algo, CountAt(algo, r)) = {<<x, Partner(x, s)>> : x \in Ranks}
  <2>1. StageEdges(algo, CountAt(algo, r)) = {<<x, Partner(x, CountAt(algo, r) - 1)>> : x \in Ranks}
    BY HalvingStages
  <2>2. CountAt(algo, r) - 1 = s
    BY <1>2, <1>3
  <2>. QED BY <2>1, <2>2, Zenon
<1>7. ASSUME NEW i \in Ranks, NEW c \in Ranks, NEW k \in Ranks
      PROVE  /\ Has(algo, r, i, c, k) <=> Handed(algo, r, i, c, k)
             /\ NotTwice(algo, r, i, c, k)
  <2>1. PICK p \in Ranks : p = Partner(i, s)
    BY <1>1, PartnerIs
  <2>2. BitFacts(s, i, p, c, k)
    BY <1>1, <2>1, PartnerBits
  <2>3. /\ Near(n, i, k) <=> Near(s, p, k) \/ Near(s, i, k)
        /\ ~(Near(s, p, k) /\ Near(s, i, k))
        /\ Same(s, p, c) <=> Same(s, i, c)
        /\ Same(n, p, c) <=> Same(s, i, c) /\ ~Same(n, i, c)
        /\ Same(n, i, c) => Same(s, i, c)
    BY <1>3, <2>2 DEF BitFacts
  <2>4. PICK h \in BOOLEAN : h <=> c \in Cargo(algo, r, p, i)
    OBVIOUS
  <2>5. \A j \in Ranks : j \in Senders(algo, r, i, c) <=> h /\ j = p
    <3>1. \A j \in Ranks : j \in Senders(algo, r, i, c)
                            <=> c \in Cargo(algo, r, Partner(i, s), i) /\ j = Partner(i, s)
      BY <1>1, <1>6, ExchangeFrom
    <3>. QED BY <2>1, <2>4, <3>1
  <2>6. h <=> Same(n, IF r <= R THEN i ELSE p, c)
    BY <1>1, <1>2, <2>4, HalvingCargo
  <2>7. CASE r <= R
    <3>1. n = r /\ n \in {1, 2, 3} /\ r - 1 = n - 1 /\ n - 1 <= R
      BY <1>1, <1>2, <2>7
    <3>2. \A x : /\ Same(n, x, c) => (Met(n, x, c, k) <=> Near(n, x, k))
                 /\ ~Same(n, x, c) => (Met(n, x, c, k) <=> Met(s, x, c, k))
                 /\ Same(s, x, c) => (Met(s, x, c, k) <=> Near(s, x, k))
      BY <1>3, <3>1, MetNext
    <3>3. \A x : /\ Has(algo, r, x, c, k) <=> Met(n, x, c, k)
                 /\ Has(algo, r - 1, x, c, k) <=> Met(s, x, c, k)
      BY <1>1, <1>3, <1>5, <2>7, <3>1 DEF HasHalving
    <3>4. h <=> Same(n, i, c)
      BY <2>6, <2>7
    <3>5. h => (Has(algo, r, i, c, k) <=>
                  Has(algo, r - 1, p, c, k) \/ (Adds(algo, r) /\ Has(algo, r - 1, i, c, k)))
      BY <1>4, <2>3, <2>7, <3>2, <3>3, <3>4
    <3>6. ~h => (Has(algo, r, i, c, k) <=> Has(algo, r - 1, i, c, k))
      BY <3>2, <3>3, <3>4
    <3>7. h /\ Adds(algo, r) => ~(Has(algo, r - 1, p, c, k) /\ Has(algo, r - 1, i, c, k))
      BY <2>3, <3>2, <3>3, <3>4
    <3>. QED BY <2>5, <3>5, <3>6, <3>7, OneSender
  <2>8. CASE r > R
    <3>1. r - 1 >= R /\ 2 * R - r = s /\ (r - 1 > R => 2 * R - (r - 1) = n) /\ (r - 1 = R => n = R)
          /\ R \in {1, 2, 3}
      BY <1>2, <1>3, <1>4, <2>8
    <3>2. \A x \in Ranks : Same(R, x, c) => Met(R, x, c, k)
      <4>1. \A x \in Ranks : Near(R, x, k)
        BY <1>1, NearEnds
      <4>2. \A x : Same(R, x, c) => (Met(R, x, c, k) <=> Near(R, x, k))
        BY <3>1, MetNext
      <4>. QED BY <4>1, <4>2
    <3>3. \A x : Has(algo, r, x, c, k) <=> Same(s, x, c) \/ Met(R, x, c, k)
      BY <1>1, <1>5, <2>8, <3>1 DEF HasHalving
    <3>4. \A x \in Ranks : Has(algo, r - 1, x, c, k) <=> Same(n, x, c) \/ Met(R, x, c, k)
      <4>1. CASE r - 1 > R
        BY <1>1, <1>5, <3>1, <4>1 DEF HasHalving
      <4>2. CASE r - 1 = R
        <5>1. \A x : Has(algo, r - 1, x, c, k) <=> Met(R, x, c, k)
          BY <1>1, <1>5, <4>2 DEF HasHalving
        <5>. QED BY <3>1, <3>2, <4>2, <5>1
      <4>. QED BY <3>1, <4>1, <4>2
    <3>5. h <=> Same(n, p, c)
      BY <2>6, <2>8
    <3>6. ~Adds(algo, r)
      BY <1>4, <2>8
    <3>7. h => (Has(algo, r, i, c, k) <=>
                  Has(algo, r - 1, p, c, k) \/ (Adds(algo, r) /\ Has(algo, r - 1, i, c, k)))
      BY <2>3, <3>3, <3>4, <3>5
    <3>8. ~h => (Has(algo, r, i, c, k) <=> Has(algo, r - 1, i, c, k))
      BY <2>3, <3>3, <3>4, <3>5
    <3>9. h /\ Adds(algo, r) => ~(Has(algo, r - 1, p, c, k) /\ Has(algo, r - 1, i, c, k))
      BY <3>6
    <3>. QED BY <2>5, <3>7, <3>8, <3>9, OneSender
  <2>. QED BY <1>4, <2>7, <2>8
<1>. QED BY <1>7 DEF StageHands

(* Places on a ring, counted from that of a chunk.                         *)
RingFacts(n, i, p, c, k, a, b, e) ==
  /\ a \in 0 .. n - 1 /\ b \in 0 .. n - 1 /\ e \in 0 .. n - 1
  /\ a = (i - c) % n /\ b = (k - c) % n /\ e = (p - c) % n
  /\ k = i <=> b = a
  /\ k = p <=> b = e
  /\ e = IF a = 0 THEN n - 1 ELSE a - 1

(* Distances round the ring, one step on.                                  *)
LEMMA RingPlaces ==
  ASSUME NEW n \in {2, 4, 8}, NEW i \in 0 .. n - 1, NEW c \in 0 .. n - 1, NEW k \in 0 .. n - 1,
         NEW p, p = IF i = 0 THEN n - 1 ELSE i - 1
  PROVE  /\ p \in 0 .. n - 1
         /\ \A j \in 0 .. n - 1 : i = (j + 1) % n <=> j = p
         /\ RingFacts(n, i, p, c, k, (i - c) % n, (k - c) % n, (p - c) % n)
         /\ \A r \in 1 .. n - 1 : c = (p - r + 1) % n <=> (i - c) % n = r
         /\ \A r \in n .. 2 * (n - 1) : c = (p + 1 - (r - n)) % n <=> (i - c) % n = r - n
<1>1. p \in 0 .. n - 1
  OBVIOUS
<1>2. ASSUME NEW x \in 0 .. n - 1, NEW y \in 0 .. n - 1
      PROVE  (x - y) % n = IF x >= y THEN x - y ELSE x - y + n
  <2>1. CASE n = 2
    BY <2>1
  <2>2. CASE n = 4
    BY <2>2
  <2>3. CASE n = 8
    BY <2>3
  <2>. QED BY <2>1, <2>2, <2>3
<1>3. ASSUME NEW j \in 0 .. n - 1 PROVE i = (j + 1) % n <=> j = p
  <2>1. CASE n = 2
    BY <2>1
  <2>2. CASE n = 4
    BY <2>2
  <2>3. CASE n = 8
    BY <2>3
  <2>. QED BY <2>1, <2>2, <2>3
<1>4. /\ (i - c) % n = IF i >= c THEN i - c ELSE i - c + n
      /\ (k - c) % n = IF k >= c THEN k - c ELSE k - c + n
      /\ (p - c) % n = IF p >= c THEN p - c ELSE p - c + n
  BY <1>1, <1>2
<1>5. RingFacts(n, i, p, c, k, (i - c) % n, (k - c) % n, (p - c) % n)
  <2>1. PICK a \in Int : a = (i - c) % n /\ a = IF i >= c THEN i - c ELSE i - c + n
    BY <1>4
  <2>2. PICK b \in Int : b = (k - c) % n /\ b = IF k >= c THEN k - c ELSE k - c + n
    BY <1>4
  <2>3. PICK e \in Int : e = (p - c) % n /\ e = IF p >= c THEN p - c ELSE p - c + n
    BY <1>1, <1>4
  <2>4. a \in 0 .. n - 1 /\ b \in 0 .. n - 1 /\ e \in 0 .. n - 1
    <3>1. \A x, y \in 0 .. n - 1 : (IF x >= y THEN x - y ELSE x - y + n) \in 0 .. n - 1
      OBVIOUS
    <3>. QED BY <1>1, <2>1, <2>2, <2>3, <3>1
  <2>5. (k = i <=> b = a) /\ (k = p <=> b = e)
    <3>1. \A x, y \in 0 .. n - 1 :
            x = y <=> (IF x >= c THEN x - c ELSE x - c + n) = (IF y >= c THEN y - c ELSE y - c + n)
      OBVIOUS
    <3>. QED BY <1>1, <2>1, <2>2, <2>3, <3>1
  <2>6. e = IF a = 0 THEN n - 1 ELSE a - 1
    BY <1>1, <2>1, <2>3
  <2>. QED BY <2>1, <2>2, <2>3, <2>4, <2>5, <2>6 DEF RingFacts
<1>6. ASSUME NEW r \in 1 .. n - 1 PROVE c = (p - r + 1) % n <=> (i - c) % n = r
  <2>1. (p - r + 1) % n = (i - r) % n
    <3>1. CASE n = 2
      BY <3>1
    <3>2. CASE n = 4
      BY <3>2
    <3>3. CASE n = 8
      BY <3>3
    <3>. QED BY <3>1, <3>2, <3>3
  <2>2. (i - r) % n = IF i >= r THEN i - r ELSE i - r + n
    BY <1>2
  <2>. QED BY <1>4, <2>1, <2>2
<1>7. ASSUME NEW r \in n .. 2 * (n - 1)
      PROVE  c = (p + 1 - (r - n)) % n <=> (i - c) % n = r - n
  <2>0. PICK t \in 0 .. n - 1 : t = r - n
    OBVIOUS
  <2>1. (p + 1 - t) % n = (i - t) % n
    <3>1. CASE n = 2
      BY <3>1
    <3>2. CASE n = 4
      BY <3>2
    <3>3. CASE n = 8
      BY <3>3
    <3>. QED BY <3>1, <3>2, <3>3
  <2>2. (i - t) % n = IF i >= t THEN i - t ELSE i - t + n
    BY <1>2
  <2>. QED BY <1>4, <2>0, <2>1, <2>2
<1>. QED BY <1>1, <1>3, <1>5, <1>6, <1>7

(* The ring: a chunk gathers contributions once round, and is then handed  *)
(* on as it is.                                                            *)
LEMMA RingHands ==
  ASSUME CallOk, NEW algo, algo = "ring", NEW r \in 1 .. CountLen(algo)
  PROVE  StageHands(algo, r)
<1>1. PICK n \in {2, 4, 8} : n = Group /\ Ranks = 0 .. n - 1
  BY CallFacts DEF Ranks
<1>2. r \in 1 .. 2 * (n - 1)
  BY <1>1 DEF CountLen
<1>3. StageEdges(algo, CountAt(algo, r)) = {<<x, (x + 1) % n>> : x \in Ranks}
  BY <1>1 DEF StageEdges
<1>4. Adds(algo, r) <=> r < n
  BY <1>1 DEF Adds
<1>5. \A q, i, c, k : Has(algo, q, i, c, k) <=> HasRing(q, i, c, k)
  BY DEF Has
<1>6. \A j, i : Cargo(algo, r, j, i) = {(IF r < n THEN j - r + 1 ELSE j + 1 - (r - n)) % n}
  BY <1>1 DEF Cargo
<1>7. ASSUME NEW i \in Ranks, NEW c \in Ranks, NEW k \in Ranks
      PROVE  /\ Has(algo, r, i, c, k) <=> Handed(algo, r, i, c, k)
             /\ NotTwice(algo, r, i, c, k)
  <2>1. PICK p \in Ranks : p = IF i = 0 THEN n - 1 ELSE i - 1
    BY <1>1
  <2>2. PICK a : a = (i - c) % n
    OBVIOUS
  <2>3. PICK b : b = (k - c) % n
    OBVIOUS
  <2>4. PICK e : e = (p - c) % n
    OBVIOUS
  <2>5. /\ i \in 0 .. n - 1 /\ c \in 0 .. n - 1 /\ k \in 0 .. n - 1 /\ p \in 0 .. n - 1
    BY <1>1
  <2>6. RingFacts(n, i, p, c, k, a, b, e)
    <3>1. RingFacts(n, i, p, c, k, (i - c) % n, (k - c) % n, (p - c) % n)
      BY <2>1, <2>5, RingPlaces
    <3>. QED BY <2>2, <2>3, <2>4, <3>1, Zenon
  <2>7. PICK h \in BOOLEAN : h <=> c \in Cargo(algo, r, p, i)
    OBVIOUS
  <2>8. \A j \in Ranks : j \in Senders(algo, r, i, c) <=> h /\ j = p
    <3>1. \A j \in Ranks : i = (j + 1) % n <=> j = p
      BY <1>1, <2>1, <2>5, RingPlaces
    <3>2. \A j \in Ranks : <<j, i>> \in {<<x, (x + 1) % n>> : x \in Ranks} <=> i = (j + 1) % n
      OBVIOUS
    <3>. QED BY <1>3, <2>7, <3>1, <3>2 DEF Senders
  <2>9. CASE r < n
    <3>0. r \in 1 .. n - 1
      BY <1>2, <2>9
    <3>1. h <=> a = r
      <4>1. c = (p - r + 1) % n <=> (i - c) % n = r
        BY <2>1, <2>5, <3>0, RingPlaces
      <4>2. h <=> c = (p - r + 1) % n
        BY <1>6, <2>7, <2>9
      <4>. QED BY <2>2, <4>1, <4>2
    <3>2. \A q \in {r - 1, r} :
            /\ Has(algo, q, i, c, k) <=> IF a <= q THEN b <= a ELSE k = i
            /\ Has(algo, q, p, c, k) <=> IF e <= q THEN b <= e ELSE k = p
      <4>1. \A q \in {r - 1, r} : q < n
        BY <1>1, <3>0
      <4>. QED BY <1>1, <1>5, <2>2, <2>3, <2>4, <4>1 DEF HasRing
    <3>3. /\ Has(algo, r, i, c, k) <=> IF a <= r THEN b <= a ELSE k = i
          /\ Has(algo, r - 1, i, c, k) <=> IF a <= r - 1 THEN b <= a ELSE k = i
          /\ Has(algo, r - 1, p, c, k) <=> IF e <= r - 1 THEN b <= e ELSE k = p
      BY <3>2
    <3>4. a = r => (/\ Has(algo, r, i, c, k) <=> b <= r
                    /\ Has(algo, r - 1, i, c, k) <=> b = r
                    /\ Has(algo, r - 1, p, c, k) <=> b <= r - 1)
      BY <2>6, <3>0, <3>3 DEF RingFacts
    <3>5. h => (Has(algo, r, i, c, k) <=>
                  Has(algo, r - 1, p, c, k) \/ (Adds(algo, r) /\ Has(algo, r - 1, i, c, k)))
      <4>1. b <= r <=> b <= r - 1 \/ b = r
        BY <2>6, <3>0 DEF RingFacts
      <4>. QED BY <1>4, <2>9, <3>1, <3>4, <4>1
    <3>6. ~h => (Has(algo, r, i, c, k) <=> Has(algo, r - 1, i, c, k))
      <4>1. a # r => (a <= r <=> a <= r - 1)
        BY <2>6, <3>0 DEF RingFacts
      <4>. QED BY <3>1, <3>3, <4>1
    <3>7. h /\ Adds(algo, r) => ~(Has(algo, r - 1, p, c, k) /\ Has(algo, r - 1, i, c, k))
      <4>1. ~(b <= r - 1 /\ b = r)
        BY <3>0
      <4>. QED BY <3>1, <3>4, <4>1
    <3>. QED BY <2>8, <3>5, <3>6, <3>7, OneSender, ZenonT(60)
  <2>10. CASE r >= n
    <3>0. PICK t \in 1 .. n - 1 : t = r - (n - 1) /\ r - n = t - 1 /\ r \in n .. 2 * (n - 1)
      BY <1>2, <2>10
    <3>1. h <=> a = t - 1
      <4>1. c = (p + 1 - (r - n)) % n <=> (i - c) % n = r - n
        BY <2>1, <2>5, <3>0, RingPlaces
      <4>2. h <=> c = (p + 1 - (r - n)) % n
        <5>1. ~(r < n)
          BY <1>2, <2>10
        <5>. QED BY <1>6, <2>7, <5>1
      <4>. QED BY <2>2, <3>0, <4>1, <4>2
    <3>2. Has(algo, r, i, c, k) <=> a < t \/ b <= a
      <4>1. ~(r < n)
        BY <3>0
      <4>. QED BY <1>1, <1>5, <2>2, <2>3, <3>0, <4>1 DEF HasRing
    <3>3. /\ Has(algo, r - 1, i, c, k) <=> a < t - 1 \/ b <= a
          /\ Has(algo, r - 1, p, c, k) <=> e < t - 1 \/ b <= e
      <4>1. CASE t = 1
        <5>1. r - 1 = n - 1 /\ n - 1 < n /\ a <= n - 1 /\ e <= n - 1 /\ ~(a < t - 1) /\ ~(e < t - 1)
          BY <2>6, <3>0, <4>1 DEF RingFacts
        <5>. QED BY <1>1, <1>5, <2>2, <2>3, <2>4, <5>1 DEF HasRing
      <4>2. CASE t > 1
        <5>1. ~(r - 1 < n) /\ (r - 1) - (n - 1) = t - 1
          BY <3>0, <4>2
        <5>. QED BY <1>1, <1>5, <2>2, <2>3, <2>4, <5>1 DEF HasRing
      <4>. QED BY <3>0, <4>1, <4>2
    <3>4. a = t - 1 => (e < t - 1 \/ b <= e) /\ a < t
      BY <2>6, <3>0 DEF RingFacts
    <3>5. a # t - 1 => (a < t <=> a < t - 1)
      BY <2>6, <3>0 DEF RingFacts
    <3>6. ~Adds(algo, r)
      BY <1>4, <3>0
    <3>7. h => (Has(algo, r, i, c, k) <=>
                  Has(algo, r - 1, p, c, k) \/ (Adds(algo, r) /\ Has(algo, r - 1, i, c, k)))
      BY <3>1, <3>2, <3>3, <3>4
    <3>8. ~h => (Has(algo, r, i, c, k) <=> Has(algo, r - 1, i, c, k))
      BY <3>1, <3>2, <3>3, <3>5
    <3>9. h /\ Adds(algo, r) => ~(Has(algo, r - 1, p, c, k) /\ Has(algo, r - 1, i, c, k))
      BY <3>6
    <3>. QED BY <2>8, <3>7, <3>8, <3>9, OneSender, ZenonT(60)
  <2>. QED BY <1>1, <1>2, <2>9, <2>10
<1>. QED BY <1>7 DEF StageHands

(* In the right tree y is a child of x, one level up.                      *)
Gap(l) == IF l = 0 THEN 1 ELSE IF l = 1 THEN 2 ELSE 4

Joins(l, y, x) == Height(x) = l + 1 /\ (y = x - Gap(l) \/ y = x + Gap(l))

(* The heights of the ranks.                                               *)
LEMMA HeightsAre ==
  /\ Height(0) = 0 /\ Height(1) = 1 /\ Height(2) = 0 /\ Height(3) = 2
  /\ Height(4) = 0 /\ Height(5) = 1 /\ Height(6) = 0 /\ Height(7) = 3
<1>1. /\ 0 % 2 = 0 /\ 1 % 2 = 1 /\ 2 % 2 = 0 /\ 3 % 2 = 1 /\ 4 % 2 = 0 /\ 5 % 2 = 1 /\ 6 % 2 = 0 /\ 7 % 2 = 1
      /\ 1 % 4 = 1 /\ 3 % 4 = 3 /\ 5 % 4 = 1 /\ 7 % 4 = 3 /\ 3 % 8 = 3 /\ 7 % 8 = 7
  OBVIOUS
<1>. QED BY <1>1 DEF Height

(* Who is whose child, rank by rank.                                       *)
LEMMA JoinsAre ==
  ASSUME NEW x \in 0 .. 7, NEW y \in 0 .. 7
  PROVE  /\ Joins(0, y, x) <=> (x = 1 /\ y \in {0, 2}) \/ (x = 5 /\ y \in {4, 6})
         /\ Joins(1, y, x) <=> x = 3 /\ y \in {1, 5}
         /\ Joins(2, y, x) <=> x = 7 /\ y = 3
<1>1. x = 0 \/ x = 1 \/ x = 2 \/ x = 3 \/ x = 4 \/ x = 5 \/ x = 6 \/ x = 7
  OBVIOUS
<1>2. /\ Height(x) = 1 <=> x = 1 \/ x = 5
      /\ Height(x) = 2 <=> x = 3
      /\ Height(x) = 3 <=> x = 7
  BY <1>1, HeightsAre
<1>3. Gap(0) = 1 /\ Gap(1) = 2 /\ Gap(2) = 4 /\ 0 + 1 = 1 /\ 1 + 1 = 2 /\ 2 + 1 = 3
  BY DEF Gap
<1>4. Joins(0, y, x) <=> (x = 1 \/ x = 5) /\ (y = x - 1 \/ y = x + 1)
  BY <1>2, <1>3 DEF Joins
<1>5. Joins(1, y, x) <=> x = 3 /\ (y = x - 2 \/ y = x + 2)
  BY <1>2, <1>3 DEF Joins
<1>6. Joins(2, y, x) <=> x = 7 /\ (y = x - 4 \/ y = x + 4)
  BY <1>2, <1>3 DEF Joins
<1>. QED BY <1>4, <1>5, <1>6

(* The edges of a level, and those of the left tree seen in the mirror.    *)
LEMMA TreeJoins ==
  ASSUME CallOk, NEW l \in 0 .. Rounds - 1, NEW x \in Ranks, NEW y \in Ranks
  PROVE  /\ <<y, x>> \in RightTree(l) <=> Joins(l, y, x)
         /\ <<Group - 1 - y, Group - 1 - x>> \in LeftTree(l) <=> Joins(l, y, x)
<1>1. PICK n \in {2, 4, 8} : n = Group /\ Ranks = 0 .. n - 1
  BY CallFacts DEF Ranks
<1>2. (l = 0 /\ n = 2) \/ (l \in {0, 1} /\ n = 4) \/ (l \in {0, 1, 2} /\ n = 8)
  BY <1>1, RoundsIs
<1>3. x \in 0 .. 7 /\ y \in 0 .. 7 /\ x \in 0 .. n - 1 /\ y \in 0 .. n - 1
  BY <1>1
<1>4. /\ Joins(0, y, x) <=> (x = 1 /\ y \in {0, 2}) \/ (x = 5 /\ y \in {4, 6})
      /\ Joins(1, y, x) <=> x = 3 /\ y \in {1, 5}
      /\ Joins(2, y, x) <=> x = 7 /\ y = 3
  BY <1>3, JoinsAre
<1>5. CASE l = 0 /\ n = 2
  <2>1. RightTree(l) = {<<0, 1>>} /\ LeftTree(l) = {<<1, 0>>}
    BY <1>1, <1>5, TreesAre
  <2>2. Joins(l, y, x) <=> x = 1 /\ y = 0
    BY <1>3, <1>4, <1>5
  <2>3. <<y, x>> \in {<<0, 1>>} <=> x = 1 /\ y = 0
    OBVIOUS
  <2>4. <<2 - 1 - y, 2 - 1 - x>> \in {<<1, 0>>} <=> x = 1 /\ y = 0
    BY <1>3
  <2>. QED BY <1>1, <1>5, <2>1, <2>2, <2>3, <2>4
<1>6. CASE l = 0 /\ n = 4
  <2>1. RightTree(l) = {<<0, 1>>, <<2, 1>>} /\ LeftTree(l) = {<<1, 2>>, <<3, 2>>}
    BY <1>1, <1>6, TreesAre
  <2>2. Joins(l, y, x) <=> x = 1 /\ (y = 0 \/ y = 2)
    BY <1>3, <1>4, <1>6
  <2>3. <<y, x>> \in {<<0, 1>>, <<2, 1>>} <=> x = 1 /\ (y = 0 \/ y = 2)
    OBVIOUS
  <2>4. <<4 - 1 - y, 4 - 1 - x>> \in {<<1, 2>>, <<3, 2>>} <=> x = 1 /\ (y = 0 \/ y = 2)
    BY <1>3
  <2>. QED BY <1>1, <1>6, <2>1, <2>2, <2>3, <2>4
<1>7. CASE l = 1 /\ n = 4
  <2>1. RightTree(l) = {<<1, 3>>} /\ LeftTree(l) = {<<2, 0>>}
    BY <1>1, <1>7, TreesAre
  <2>2. Joins(l, y, x) <=> x = 3 /\ y = 1
    BY <1>3, <1>4, <1>7
  <2>3. <<y, x>> \in {<<1, 3>>} <=> x = 3 /\ y = 1
    OBVIOUS
  <2>4. <<4 - 1 - y, 4 - 1 - x>> \in {<<2, 0>>} <=> x = 3 /\ y = 1
    BY <1>3
  <2>. QED BY <1>1, <1>7, <2>1, <2>2, <2>3, <2>4
<1>8. CASE l = 0 /\ n = 8
  <2>1. /\ RightTree(l) = {<<0, 1>>, <<2, 1>>, <<4, 5>>, <<6, 5>>}
        /\ LeftTree(l) = {<<1, 2>>, <<3, 2>>, <<5, 6>>, <<7, 6>>}
    BY <1>1, <1>8, TreesAre
  <2>2. Joins(l, y, x) <=> (x = 1 /\ (y = 0 \/ y = 2)) \/ (x = 5 /\ (y = 4 \/ y = 6))
    BY <1>3, <1>4, <1>8
  <2>3. <<y, x>> \in {<<0, 1>>, <<2, 1>>, <<4, 5>>, <<6, 5>>}
          <=> (x = 1 /\ (y = 0 \/ y = 2)) \/ (x = 5 /\ (y = 4 \/ y = 6))
    OBVIOUS
  <2>4. <<8 - 1 - y, 8 - 1 - x>> \in {<<1, 2>>, <<3, 2>>, <<5, 6>>, <<7, 6>>}
          <=> (x = 1 /\ (y = 0 \/ y = 2)) \/ (x = 5 /\ (y = 4 \/ y = 6))
    BY <1>3
  <2>. QED BY <1>1, <1>8, <2>1, <2>2, <2>3, <2>4
<1>9. CASE l = 1 /\ n = 8
  <2>1. RightTree(l) = {<<1, 3>>, <<5, 3>>} /\ LeftTree(l) = {<<2, 4>>, <<6, 4>>}
    BY <1>1, <1>9, TreesAre
  <2>2. Joins(l, y, x) <=> x = 3 /\ (y = 1 \/ y = 5)
    BY <1>3, <1>4, <1>9
  <2>3. <<y, x>> \in {<<1, 3>>, <<5, 3>>} <=> x = 3 /\ (y = 1 \/ y = 5)
    OBVIOUS
  <2>4. <<8 - 1 - y, 8 - 1 - x>> \in {<<2, 4>>, <<6, 4>>} <=> x = 3 /\ (y = 1 \/ y = 5)
    BY <1>3
  <2>. QED BY <1>1, <1>9, <2>1, <2>2, <2>3, <2>4
<1>10. CASE l = 2 /\ n = 8
  <2>1. RightTree(l) = {<<3, 7>>} /\ LeftTree(l) = {<<4, 0>>}
    BY <1>1, <1>10, TreesAre
  <2>2. Joins(l, y, x) <=> x = 7 /\ y = 3
    BY <1>3, <1>4, <1>10
  <2>3. <<y, x>> \in {<<3, 7>>} <=> x = 7 /\ y = 3
    OBVIOUS
  <2>4. <<8 - 1 - y, 8 - 1 - x>> \in {<<4, 0>>} <=> x = 7 /\ y = 3
    BY <1>3
  <2>. QED BY <1>1, <1>10, <2>1, <2>2, <2>3, <2>4
<1>. QED BY <1>2, <1>5, <1>6, <1>7, <1>8, <1>9, <1>10

(* What each rank of a tree has on the way up, rank by rank.               *)
TreeTable(q, x, z) ==
  \/ z = x
  \/ q >= 1 /\ (x = 1 \/ x = 5) /\ (z = x - 1 \/ z = x + 1)
  \/ q >= 2 /\ x = 3 /\ z < 7
  \/ q >= 3 /\ x = 7

(* What joining a level of a tree adds below a rank, height by height.     *)
LEMMA TreeUpIs ==
  ASSUME CallOk, NEW q \in 0 .. Rounds, NEW x \in 0 .. 7, NEW z \in 0 .. 7
  PROVE  HasTree(q, x, z) <=> TreeTable(q, x, z)
<1>1. q \in 0 .. 3 /\ (HasTree(q, x, z) <=> IF Height(x) <= q THEN Below(Height(x), x, z) ELSE z = x)
  BY RoundsIs DEF HasTree
<1>2. /\ Below(0, x, z) <=> z = x
      /\ Below(1, x, z) <=> z = x \/ z = x - 1 \/ z = x + 1
      /\ Below(2, x, z) <=> z < x + 4 /\ x < z + 4
      /\ Below(3, x, z)
  <2>1. /\ Below(0, x, z) <=> z = x
        /\ Below(1, x, z) <=> z < x + 2 /\ x < z + 2
        /\ Below(2, x, z) <=> z < x + 4 /\ x < z + 4
        /\ Below(3, x, z)
    BY DEF Below
  <2>2. z < x + 2 /\ x < z + 2 <=> z = x \/ z = x - 1 \/ z = x + 1
    OBVIOUS
  <2>. QED BY <2>1, <2>2
<1>3. x = 0 \/ x = 1 \/ x = 2 \/ x = 3 \/ x = 4 \/ x = 5 \/ x = 6 \/ x = 7
  OBVIOUS
<1>4. CASE x \in {0, 2, 4, 6}
  <2>1. Height(x) = 0
    BY <1>4, HeightsAre
  <2>2. TreeTable(q, x, z) <=> z = x
    BY <1>4 DEF TreeTable
  <2>. QED BY <1>1, <1>2, <2>1, <2>2
<1>5. CASE x \in {1, 5}
  <2>1. Height(x) = 1
    BY <1>5, HeightsAre
  <2>2. TreeTable(q, x, z) <=> z = x \/ (q >= 1 /\ (z = x - 1 \/ z = x + 1))
    BY <1>5 DEF TreeTable
  <2>. QED BY <1>1, <1>2, <2>1, <2>2
<1>6. CASE x = 3
  <2>1. Height(x) = 2
    BY <1>6, HeightsAre
  <2>2. TreeTable(q, x, z) <=> z = x \/ (q >= 2 /\ z < 7)
    BY <1>6 DEF TreeTable
  <2>3. Below(2, x, z) <=> z < 7
    BY <1>2, <1>6
  <2>. QED BY <1>1, <1>6, <2>1, <2>2, <2>3
<1>7. CASE x = 7
  <2>1. Height(x) = 3
    BY <1>7, HeightsAre
  <2>2. TreeTable(q, x, z) <=> z = x \/ q >= 3
    BY <1>7 DEF TreeTable
  <2>. QED BY <1>1, <1>2, <2>1, <2>2
<1>. QED BY <1>3, <1>4, <1>5, <1>6, <1>7

(* Upwards, a parent adds what its children have to its own.               *)
LEMMA TreeUpStep ==
  ASSUME CallOk, NEW r \in 1 .. Rounds, NEW x \in Ranks, NEW z \in Ranks
  PROVE  /\ HasTree(r, x, z) <=> \/ \E y \in Ranks : Joins(r - 1, y, x) /\ HasTree(r - 1, y, z)
                                 \/ HasTree(r - 1, x, z)
         /\ \A s, t \in Ranks :
              /\ Joins(r - 1, s, x) \/ s = x
              /\ Joins(r - 1, t, x) \/ t = x
              /\ s # t
              => ~(HasTree(r - 1, s, z) /\ HasTree(r - 1, t, z))
<1>1. PICK n \in {2, 4, 8} : n = Group /\ Ranks = 0 .. n - 1
  BY CallFacts DEF Ranks
<1>2. PICK R \in {1, 2, 3} : R = Rounds /\ r \in 1 .. R
  BY RoundsIs
<1>3. x \in 0 .. 7 /\ z \in 0 .. 7 /\ \A y \in Ranks : y \in 0 .. 7
  BY <1>1
<1>4. \A y \in Ranks : /\ HasTree(r, y, z) <=> TreeTable(r, y, z)
                       /\ HasTree(r - 1, y, z) <=> TreeTable(r - 1, y, z)
  BY <1>2, <1>3, TreeUpIs
<1>5. \A y \in Ranks : /\ Joins(0, y, x) <=> (x = 1 /\ (y = 0 \/ y = 2)) \/ (x = 5 /\ (y = 4 \/ y = 6))
                       /\ Joins(1, y, x) <=> x = 3 /\ (y = 1 \/ y = 5)
                       /\ Joins(2, y, x) <=> x = 7 /\ y = 3
  BY <1>3, JoinsAre
<1>6. CASE r = 1
  <2>1. \A y \in Ranks : TreeTable(0, y, z) <=> z = y
    BY <1>3 DEF TreeTable
  <2>2. TreeTable(1, x, z) <=> z = x \/ ((x = 1 \/ x = 5) /\ (z = x - 1 \/ z = x + 1))
    BY DEF TreeTable
  <2>3. (x = 1 \/ x = 5) /\ (z = x - 1 \/ z = x + 1) <=> Joins(0, z, x)
    BY <1>3, <1>5
  <2>4. r - 1 = 0
    BY <1>6
  <2>. QED BY <1>4, <1>6, <2>1, <2>2, <2>3, <2>4
<1>7. CASE r = 2
  <2>1. \A y \in Ranks : TreeTable(1, y, z) <=> z = y \/ ((y = 1 \/ y = 5) /\ (z = y - 1 \/ z = y + 1))
    BY DEF TreeTable
  <2>2. TreeTable(2, x, z) <=> TreeTable(1, x, z) \/ (x = 3 /\ z < 7)
    BY DEF TreeTable
  <2>3. r - 1 = 1
    BY <1>7
  <2>4. CASE x = 3
    <3>1. z < 7 => (\E y \in Ranks : (y = 1 \/ y = 5) /\ (z = y \/ z = y - 1 \/ z = y + 1)) \/ z = x
      <4>1. n \in {4, 8} /\ 1 \in Ranks
        BY <1>1, <2>4
      <4>2. z > 3 => 5 \in Ranks
        BY <1>1
      <4>3. z < 7 => z = 0 \/ z = 1 \/ z = 2 \/ z = 3 \/ z = 4 \/ z = 5 \/ z = 6
        BY <1>3
      <4>. QED BY <2>4, <4>1, <4>2, <4>3
    <3>2. \A y \in Ranks : (y = 1 \/ y = 5) /\ (z = y \/ z = y - 1 \/ z = y + 1) => z < 7 /\ z # 3
      BY <1>3
    <3>3. \A s, t \in Ranks : (s = 1 \/ s = 5 \/ s = 3) /\ (t = 1 \/ t = 5 \/ t = 3) /\ s # t
             => ~(TreeTable(1, s, z) /\ TreeTable(1, t, z))
      BY <1>3, <2>1
    <3>4. \A y \in Ranks : Joins(1, y, x) <=> y = 1 \/ y = 5
      BY <1>5, <2>4
    <3>5. TreeTable(1, x, z) <=> z = x
      BY <2>1, <2>4
    <3>6. (\E y \in Ranks : (y = 1 \/ y = 5) /\ TreeTable(1, y, z)) \/ z = x <=> z < 7
      BY <1>3, <2>1, <2>4, <3>1, <3>2
    <3>. QED BY <1>4, <1>7, <2>2, <2>3, <2>4, <3>3, <3>4, <3>5, <3>6
  <2>5. CASE x # 3
    <3>1. \A y \in Ranks : ~Joins(1, y, x)
      BY <1>5, <2>5
    <3>. QED BY <1>4, <1>7, <2>2, <2>3, <2>5, <3>1
  <2>. QED BY <2>4, <2>5
<1>8. CASE r = 3
  <2>1. TreeTable(3, x, z) <=> TreeTable(2, x, z) \/ x = 7
    BY DEF TreeTable
  <2>2. r - 1 = 2
    BY <1>8
  <2>3. CASE x = 7
    <3>1. 3 \in Ranks /\ \A y \in Ranks : Joins(2, y, x) <=> y = 3
      BY <1>1, <1>5, <2>3
    <3>2. TreeTable(2, 3, z) <=> z < 7
      BY <1>3 DEF TreeTable
    <3>3. TreeTable(2, x, z) <=> z = 7
      BY <2>3 DEF TreeTable
    <3>. QED BY <1>3, <1>4, <1>8, <2>1, <2>2, <2>3, <3>1, <3>2, <3>3
  <2>4. CASE x # 7
    <3>1. \A y \in Ranks : ~Joins(2, y, x)
      BY <1>5, <2>4
    <3>. QED BY <1>4, <1>8, <2>1, <2>2, <2>4, <3>1
  <2>. QED BY <2>3, <2>4
<1>. QED BY <1>2, <1>6, <1>7, <1>8

(* Downwards, a child has what its parent has, and the others what they had*)
(* before.                                                                 *)
LEMMA TreeDownStep ==
  ASSUME CallOk, NEW r \in Rounds + 1 .. 2 * Rounds, NEW x \in Ranks, NEW z \in Ranks
  PROVE  /\ \A y \in Ranks : Joins(2 * Rounds - r, x, y) => HasTree(r - 1, y, z) /\ HasTree(r, x, z)
         /\ (\A y \in Ranks : ~Joins(2 * Rounds - r, x, y))
              => (HasTree(r, x, z) <=> HasTree(r - 1, x, z))
<1>1. PICK n \in {2, 4, 8} : n = Group /\ Ranks = 0 .. n - 1
  BY CallFacts DEF Ranks
<1>2. PICK R \in {1, 2, 3} : /\ R = Rounds /\ r \in R + 1 .. 2 * R
                             /\ n = 2 => R = 1
                             /\ n = 4 => R = 2
                             /\ n = 8 => R = 3
  BY <1>1, RoundsIs
<1>3. PICK l \in 0 .. R - 1 : l = 2 * R - r
  BY <1>2
<1>4. \A y \in Ranks : Height(y) \in 0 .. R /\ (Height(y) = R => y = n - 1)
  <2> SUFFICES ASSUME NEW y \in Ranks PROVE Height(y) \in 0 .. R /\ (Height(y) = R => y = n - 1)
    OBVIOUS
  <2>1. y = 0 \/ y = 1 \/ y = 2 \/ y = 3 \/ y = 4 \/ y = 5 \/ y = 6 \/ y = 7
    BY <1>1
  <2>2. CASE n = 2
    BY <1>1, <1>2, <2>1, <2>2, HeightsAre
  <2>3. CASE n = 4
    BY <1>1, <1>2, <2>1, <2>3, HeightsAre
  <2>4. CASE n = 8
    BY <1>1, <1>2, <2>1, <2>4, HeightsAre
  <2>. QED BY <2>2, <2>3, <2>4
<1>5. Below(R, n - 1, z)
  <2>1. CASE n = 2
    <3>1. z < 1 + 2 /\ 1 < z + 2
      BY <1>1, <2>1
    <3>. QED BY <1>2, <2>1, <3>1 DEF Below
  <2>2. CASE n = 4
    <3>1. z < 3 + 4 /\ 3 < z + 4
      BY <1>1, <2>2
    <3>. QED BY <1>2, <2>2, <3>1 DEF Below
  <2>3. CASE n = 8
    BY <1>2, <2>3 DEF Below
  <2>. QED BY <2>1, <2>2, <2>3
<1>6. \A y \in Ranks : HasTree(r, y, z) <=> Height(y) >= l \/ Below(Height(y), y, z)
  BY <1>2, <1>3 DEF HasTree
<1>7. \A y \in Ranks : HasTree(r - 1, y, z) <=> Height(y) >= l + 1 \/ Below(Height(y), y, z)
  <2>1. CASE r - 1 > R
    <3>1. ~(r - 1 <= R) /\ 2 * R - (r - 1) = l + 1
      BY <1>2, <1>3, <2>1
    <3>. QED BY <1>2, <3>1 DEF HasTree
  <2>2. CASE r - 1 = R
    <3>1. l + 1 = R /\ r - 1 <= R
      BY <1>2, <1>3, <2>2
    <3>2. \A y \in Ranks : HasTree(r - 1, y, z) <=> Below(Height(y), y, z)
      BY <1>2, <1>4, <2>2 DEF HasTree
    <3>3. \A y \in Ranks : Height(y) >= R => Below(Height(y), y, z)
      BY <1>2, <1>4, <1>5
    <3>. QED BY <3>1, <3>2, <3>3
  <2>. QED BY <1>2, <2>1, <2>2
<1>8. \A y \in Ranks : Joins(l, x, y) => Height(y) = l + 1 /\ Height(x) = l
  <2> SUFFICES ASSUME NEW y \in Ranks, Joins(l, x, y) PROVE Height(y) = l + 1 /\ Height(x) = l
    OBVIOUS
  <2>1. x \in 0 .. 7 /\ y \in 0 .. 7 /\ (l = 0 \/ l = 1 \/ l = 2)
    BY <1>1, <1>2
  <2>2. Height(y) = l + 1
    BY DEF Joins
  <2>3. CASE l = 0
    <3>1. x = 0 \/ x = 2 \/ x = 4 \/ x = 6
      BY <2>1, <2>3, JoinsAre
    <3>. QED BY <2>2, <2>3, <3>1, HeightsAre
  <2>4. CASE l = 1
    <3>1. x = 1 \/ x = 5
      BY <2>1, <2>4, JoinsAre
    <3>. QED BY <2>2, <2>4, <3>1, HeightsAre
  <2>5. CASE l = 2
    <3>1. x = 3
      BY <2>1, <2>5, JoinsAre
    <3>. QED BY <2>2, <2>5, <3>1, HeightsAre
  <2>. QED BY <2>1, <2>3, <2>4, <2>5
<1>9. Height(x) = l => \E y \in Ranks : Joins(l, x, y)
  <2> SUFFICES ASSUME Height(x) = l PROVE \E y \in Ranks : Joins(l, x, y)
    OBVIOUS
  <2>0. x = 0 \/ x = 1 \/ x = 2 \/ x = 3 \/ x = 4 \/ x = 5 \/ x = 6 \/ x = 7
    BY <1>1
  <2>1. x \in 0 .. 7 /\ x < n
    BY <1>1
  <2>2. \A y \in 0 .. 7 : y < n => y \in Ranks
    BY <1>1
  <2>3. CASE l = 0
    <3>1. x = 0 \/ x = 2 \/ x = 4 \/ x = 6
      BY <2>0, <2>3, HeightsAre
    <3>2. PICK y \in {1, 5} : y < n /\ (x = y - 1 \/ x = y + 1)
      BY <2>1, <3>1
    <3>3. Joins(0, x, y) /\ y \in Ranks
      <4>1. y \in 0 .. 7
        BY <3>2
      <4>. QED BY <2>1, <2>2, <3>1, <3>2, <4>1, JoinsAre
    <3>. QED BY <2>3, <3>3
  <2>4. CASE l = 1
    <3>1. (x = 1 \/ x = 5) /\ n \in {4, 8}
      BY <1>2, <2>0, <2>4, HeightsAre
    <3>2. 3 \in Ranks /\ 3 \in 0 .. 7
      BY <1>1, <3>1
    <3>3. Joins(1, x, 3)
      BY <2>1, <3>1, <3>2, JoinsAre
    <3>. QED BY <2>4, <3>2, <3>3
  <2>5. CASE l = 2
    <3>1. x = 3 /\ n = 8
      BY <1>2, <2>0, <2>5, HeightsAre
    <3>2. 7 \in Ranks /\ 7 \in 0 .. 7
      BY <1>1, <3>1
    <3>3. Joins(2, x, 7)
      BY <2>1, <3>1, <3>2, JoinsAre
    <3>. QED BY <2>5, <3>2, <3>3
  <2>. QED BY <1>2, <2>3, <2>4, <2>5
<1>10. \A y \in Ranks : Joins(l, x, y) => HasTree(r - 1, y, z) /\ HasTree(r, x, z)
  BY <1>3, <1>6, <1>7, <1>8
<1>11. (\A y \in Ranks : ~Joins(l, x, y)) => (HasTree(r, x, z) <=> HasTree(r - 1, x, z))
  <2>1. Height(x) \in Nat
    BY <1>4
  <2>2. (\A y \in Ranks : ~Joins(l, x, y)) => Height(x) # l
    BY <1>9
  <2>3. Height(x) # l => (Height(x) >= l <=> Height(x) >= l + 1)
    BY <1>3, <2>1
  <2>. QED BY <1>6, <1>7, <2>2, <2>3
<1>. QED BY <1>2, <1>3, <1>10, <1>11

(* The mirror turns a tree around and back.                                *)
LEMMA MirrorIs ==
  ASSUME CallOk, NEW c \in Ranks
  PROVE  /\ \A i \in Ranks : Mirrored(c, i) \in Ranks /\ Mirrored(c, Mirrored(c, i)) = i
         /\ \A i, j \in Ranks : Mirrored(c, i) = Mirrored(c, j) => i = j
<1>1. PICK n \in {2, 4, 8} : n = Group /\ Ranks = 0 .. n - 1
  BY CallFacts DEF Ranks
<1>2. \A i : Mirrored(c, i) = IF c < n \div 2 THEN i ELSE n - 1 - i
  BY <1>1 DEF Mirrored
<1>3. \A i \in 0 .. n - 1 : n - 1 - i \in 0 .. n - 1 /\ n - 1 - (n - 1 - i) = i
  OBVIOUS
<1>. QED BY <1>1, <1>2, <1>3

(* An edge of a level belongs to the tree of the chunk it carries.         *)
LEMMA TreeCarries ==
  ASSUME CallOk, NEW l \in 0 .. Rounds - 1, NEW c \in Ranks, NEW i \in Ranks, NEW j \in Ranks
  PROVE  /\ <<j, i>> \in TreeEdges(l)
         /\ c < Group \div 2 <=> <<j, i>> \in RightTree(l)
         <=> Joins(l, Mirrored(c, j), Mirrored(c, i))
<1>1. PICK n \in {2, 4, 8} : n = Group /\ Ranks = 0 .. n - 1
  BY CallFacts DEF Ranks
<1>2. RightTree(l) \cap LeftTree(l) = {} /\ TreeEdges(l) = RightTree(l) \cup LeftTree(l)
  BY TreePairs DEF TreeEdges
<1>3. PICK x \in Ranks : x = Mirrored(c, i)
  BY MirrorIs
<1>4. PICK y \in Ranks : y = Mirrored(c, j)
  BY MirrorIs
<1>5. CASE c < Group \div 2
  <2>1. x = i /\ y = j
    BY <1>3, <1>4, <1>5 DEF Mirrored
  <2>2. <<y, x>> \in RightTree(l) <=> Joins(l, y, x)
    BY TreeJoins
  <2>. QED BY <1>2, <1>3, <1>4, <1>5, <2>1, <2>2
<1>6. CASE ~(c < Group \div 2)
  <2>1. x = Group - 1 - i /\ y = Group - 1 - j
    BY <1>3, <1>4, <1>6 DEF Mirrored
  <2>2. Group - 1 - x = i /\ Group - 1 - y = j
    BY <1>1, <2>1
  <2>3. <<Group - 1 - y, Group - 1 - x>> \in LeftTree(l) <=> Joins(l, y, x)
    BY TreeJoins
  <2>. QED BY <1>2, <1>3, <1>4, <1>6, <2>2, <2>3
<1>. QED BY <1>5, <1>6

(* The double tree: sums go up to the roots, and come down from them.      *)
LEMMA TreeHands ==
  ASSUME CallOk, NEW algo, algo = "double_tree", NEW r \in 1 .. CountLen(algo)
  PROVE  StageHands(algo, r)
<1>1. PICK R \in {1, 2, 3} : R = Rounds
  BY RoundsIs
<1>2. r \in 1 .. 2 * R
  BY <1>1 DEF CountLen, StageCount
<1>3. CountAt(algo, r) = r
  BY DEF CountAt
<1>4. Adds(algo, r) <=> r <= R
  BY <1>1 DEF Adds
<1>5. \A q, i, c, k : Has(algo, q, i, c, k) <=> HasTree(q, Mirrored(c, i), Mirrored(c, k))
  BY DEF Has
<1>6. CASE r <= R
  <2>1. PICK l \in 0 .. Rounds - 1 : l = r - 1 /\ r - 1 \in 0 .. Rounds - 1 /\ r \in 1 .. Rounds
    BY <1>1, <1>2, <1>6
  <2>2. StageEdges(algo, CountAt(algo, r)) = TreeEdges(l)
    BY <1>1, <1>3, <1>6, <2>1 DEF StageEdges
  <2>3. \A j, i : Cargo(algo, r, j, i) = {c \in Ranks : c < Group \div 2 <=> <<j, i>> \in RightTree(l)}
    BY <1>1, <1>6, <2>1 DEF Cargo
  <2>4. ASSUME NEW i \in Ranks, NEW c \in Ranks, NEW k \in Ranks
        PROVE  /\ Has(algo, r, i, c, k) <=> Handed(algo, r, i, c, k)
               /\ NotTwice(algo, r, i, c, k)
    <3>1. PICK x \in Ranks : x = Mirrored(c, i)
      BY MirrorIs
    <3>2. PICK z \in Ranks : z = Mirrored(c, k)
      BY MirrorIs
    <3>3. PICK S : S = Senders(algo, r, i, c)
      OBVIOUS
    <3>4. S \subseteq Ranks /\ \A j \in Ranks : j \in S <=> Joins(l, Mirrored(c, j), x)
      <4>1. \A j \in Ranks : j \in S <=> /\ <<j, i>> \in TreeEdges(l)
                                         /\ c < Group \div 2 <=> <<j, i>> \in RightTree(l)
        BY <2>2, <2>3, <3>3 DEF Senders
      <4>2. S \subseteq Ranks
        BY <3>3 DEF Senders
      <4>. QED BY <3>1, <4>1, <4>2, TreeCarries
    <3>5. HasTree(r, x, z) <=> \/ \E y \in Ranks : Joins(l, y, x) /\ HasTree(l, y, z)
                               \/ HasTree(l, x, z)
      BY <2>1, TreeUpStep
    <3>6. \A s, t \in Ranks : /\ Joins(l, s, x) \/ s = x
                              /\ Joins(l, t, x) \/ t = x
                              /\ s # t
                              => ~(HasTree(l, s, z) /\ HasTree(l, t, z))
      <4>1. \A s, t \in Ranks : /\ Joins(r - 1, s, x) \/ s = x
                                /\ Joins(r - 1, t, x) \/ t = x
                                /\ s # t
                                => ~(HasTree(r - 1, s, z) /\ HasTree(r - 1, t, z))
        BY <2>1, TreeUpStep
      <4>. QED BY <2>1, <4>1
    <3>7. /\ Has(algo, r, i, c, k) <=> HasTree(r, x, z)
          /\ \A j : Has(algo, r - 1, j, c, k) <=> HasTree(l, Mirrored(c, j), z)
      BY <1>5, <2>1, <3>1, <3>2
    <3>8. (\E y \in Ranks : Joins(l, y, x) /\ HasTree(l, y, z))
            <=> \E j \in S : HasTree(l, Mirrored(c, j), z)
      <4>1. \A y \in Ranks : Mirrored(c, y) \in Ranks /\ Mirrored(c, Mirrored(c, y)) = y
        BY MirrorIs
      <4>. QED BY <3>4, <4>1
    <3>9. Handed(algo, r, i, c, k) <=> (\E j \in S : HasTree(l, Mirrored(c, j), z)) \/ HasTree(l, x, z)
      <4>1. Handed(algo, r, i, c, k) <=> (\E j \in S : Has(algo, r - 1, j, c, k)) \/ Has(algo, r - 1, i, c, k)
        BY <1>4, <1>6, <3>3 DEF Handed
      <4>. QED BY <3>1, <3>7, <4>1
    <3>10. NotTwice(algo, r, i, c, k)
      <4>1. \A s, t \in S \cup {i} : s # t =>
               ~(HasTree(l, Mirrored(c, s), z) /\ HasTree(l, Mirrored(c, t), z))
        <5> SUFFICES ASSUME NEW s \in S \cup {i}, NEW t \in S \cup {i}, s # t
                     PROVE  ~(HasTree(l, Mirrored(c, s), z) /\ HasTree(l, Mirrored(c, t), z))
          OBVIOUS
        <5>1. s \in Ranks /\ t \in Ranks
          BY <3>4
        <5>2. PICK a \in Ranks : a = Mirrored(c, s) /\ (Joins(l, a, x) \/ a = x)
          BY <3>1, <3>4, <5>1, MirrorIs
        <5>3. PICK b \in Ranks : b = Mirrored(c, t) /\ (Joins(l, b, x) \/ b = x)
          BY <3>1, <3>4, <5>1, MirrorIs
        <5>4. a # b
          BY <5>1, <5>2, <5>3, MirrorIs
        <5>. QED BY <3>6, <5>2, <5>3, <5>4
      <4>. QED BY <3>3, <3>7, <4>1 DEF NotTwice
    <3>. QED BY <3>5, <3>7, <3>8, <3>9, <3>10
  <2>. QED BY <2>4 DEF StageHands
<1>7. CASE r > R
  <2>1. PICK l \in 0 .. Rounds - 1 : /\ l = 2 * Rounds - r /\ 2 * Rounds - r \in 0 .. Rounds - 1
                                     /\ r \in Rounds + 1 .. 2 * Rounds /\ ~(r <= Rounds)
    <3>1. 2 * R - r \in 0 .. R - 1 /\ r \in R + 1 .. 2 * R /\ ~(r <= R)
      BY <1>2, <1>7
    <3>2. 2 * Rounds - r \in 0 .. Rounds - 1 /\ r \in Rounds + 1 .. 2 * Rounds /\ ~(r <= Rounds)
      BY <1>1, <3>1
    <3>. QED BY <3>2
  <2>2. StageEdges(algo, CountAt(algo, r)) = {<<e[2], e[1]>> : e \in TreeEdges(l)}
    BY <1>3, <2>1 DEF StageEdges
  <2>3. \A j, i : Cargo(algo, r, j, i) = {c \in Ranks : c < Group \div 2 <=> <<i, j>> \in RightTree(l)}
    BY <2>1 DEF Cargo
  <2>4. ASSUME NEW i \in Ranks, NEW c \in Ranks, NEW k \in Ranks
        PROVE  /\ Has(algo, r, i, c, k) <=> Handed(algo, r, i, c, k)
               /\ NotTwice(algo, r, i, c, k)
    <3>1. PICK x \in Ranks : x = Mirrored(c, i)
      BY MirrorIs
    <3>2. PICK z \in Ranks : z = Mirrored(c, k)
      BY MirrorIs
    <3>3. PICK S : S = Senders(algo, r, i, c)
      OBVIOUS
    <3>4. S \subseteq Ranks /\ \A j \in Ranks : j \in S <=> Joins(l, x, Mirrored(c, j))
      <4>1. \A j : <<j, i>> \in {<<e[2], e[1]>> : e \in TreeEdges(l)} <=> <<i, j>> \in TreeEdges(l)
        <5>1. \A e \in TreeEdges(l) : \E u, v : e = <<u, v>>
          BY TreePairs
        <5>. QED BY <5>1
      <4>2. \A j \in Ranks : j \in S <=> /\ <<i, j>> \in TreeEdges(l)
                                         /\ c < Group \div 2 <=> <<i, j>> \in RightTree(l)
        BY <2>2, <2>3, <3>3, <4>1 DEF Senders
      <4>3. S \subseteq Ranks
        BY <3>3 DEF Senders
      <4>. QED BY <3>1, <4>2, <4>3, TreeCarries
    <3>5. /\ \A y \in Ranks : Joins(l, x, y) => HasTree(r - 1, y, z) /\ HasTree(r, x, z)
          /\ (\A y \in Ranks : ~Joins(l, x, y)) => (HasTree(r, x, z) <=> HasTree(r - 1, x, z))
      BY <2>1, TreeDownStep
    <3>6. /\ Has(algo, r, i, c, k) <=> HasTree(r, x, z)
          /\ \A j : Has(algo, r - 1, j, c, k) <=> HasTree(r - 1, Mirrored(c, j), z)
      BY <1>5, <3>1, <3>2
    <3>7. ~Adds(algo, r)
      BY <1>4, <1>7, <1>2
    <3>8. NotTwice(algo, r, i, c, k)
      BY <3>7 DEF NotTwice
    <3>9. \A j \in Ranks : Mirrored(c, j) \in Ranks /\ Mirrored(c, Mirrored(c, j)) = j
      BY MirrorIs
    <3>10. CASE S = {}
      <4>1. Handed(algo, r, i, c, k) <=> Has(algo, r - 1, i, c, k)
        BY <3>3, <3>10 DEF Handed
      <4>2. \A y \in Ranks : ~Joins(l, x, y)
        BY <3>4, <3>9, <3>10
      <4>. QED BY <3>1, <3>5, <3>6, <3>8, <4>1, <4>2
    <3>11. CASE S # {}
      <4>1. Handed(algo, r, i, c, k) <=> \E j \in S : Has(algo, r - 1, j, c, k)
        BY <3>3, <3>7, <3>11 DEF Handed
      <4>2. PICK j \in S : TRUE
        BY <3>11
      <4>3. Joins(l, x, Mirrored(c, j)) /\ Mirrored(c, j) \in Ranks
        BY <3>4, <3>9, <4>2
      <4>. QED BY <3>5, <3>6, <3>8, <4>1, <4>3
    <3>. QED BY <3>10, <3>11
  <2>. QED BY <2>4 DEF StageHands
<1>. QED BY <1>2, <1>6, <1>7

(* Every stage of every algorithm hands on what Has says.                  *)
LEMMA AllStagesHand ==
  ASSUME CallOk, NEW algo \in Algos, NEW r \in 1 .. CountLen(algo)
  PROVE  StageHands(algo, r)
<1>1. CASE algo = "recursive_doubling"
  <2>1. CountLen(algo) = Rounds
    BY <1>1 DEF CountLen, StageCount
  <2>. QED BY <1>1, <2>1, DoublingHands
<1>2. CASE algo = "ring"
  BY <1>2, RingHands
<1>3. CASE algo = "double_tree"
  BY <1>3, TreeHands
<1>4. CASE algo = "all_to_all"
  <2>1. CountLen(algo) = 1
    BY <1>4 DEF CountLen, StageCount
  <2>2. r = 1
    BY <2>1
  <2>. QED BY <1>4, <2>2, AllHands
<1>5. CASE algo \in Halves
  BY <1>5, HalvingHands
<1>. QED BY <1>1, <1>2, <1>3, <1>4, <1>5 DEF Algos, Halves

(* Before the first stage a rank has its own contributions.                *)
LEMMA HasOwn ==
  ASSUME CallOk, NEW algo \in Algos, NEW i \in Ranks, NEW c \in Ranks, NEW k \in Ranks
  PROVE  Has(algo, 0, i, c, k) <=> k = i
<1>1. PICK n \in {2, 4, 8} : n = Group /\ Ranks = 0 .. n - 1
  BY CallFacts DEF Ranks
<1>2. PICK R \in {1, 2, 3} : R = Rounds
  BY RoundsIs
<1>3. CASE algo = "recursive_doubling"
  BY <1>3, NearEnds DEF Has
<1>4. CASE algo = "ring"
  <2>1. Has(algo, 0, i, c, k) <=> HasRing(0, i, c, k)
    BY <1>4 DEF Has
  <2>2. 0 < n
    BY <1>1
  <2>3. HasRing(0, i, c, k) <=> IF (i - c) % n <= 0 THEN (k - c) % n <= (i - c) % n ELSE k = i
    BY <1>1, <2>2 DEF HasRing
  <2>4. (i - c) % n <= 0 => ((k - c) % n <= (i - c) % n <=> k = i)
    <3>1. CASE n = 2
      BY <1>1, <3>1
    <3>2. CASE n = 4
      BY <1>1, <3>2
    <3>3. CASE n = 8
      BY <1>1, <3>3
    <3>. QED BY <3>1, <3>2, <3>3
  <2>. QED BY <2>1, <2>3, <2>4
<1>5. CASE algo = "double_tree"
  <2>1. PICK x \in Ranks : x = Mirrored(c, i)
    BY MirrorIs
  <2>2. PICK z \in Ranks : z = Mirrored(c, k)
    BY MirrorIs
  <2>3. Has(algo, 0, i, c, k) <=> HasTree(0, x, z)
    BY <1>5, <2>1, <2>2 DEF Has
  <2>4. 0 <= R
    OBVIOUS
  <2>5. HasTree(0, x, z) <=> IF Height(x) <= 0 THEN Below(Height(x), x, z) ELSE z = x
    BY <1>2, <2>4 DEF HasTree
  <2>6. Height(x) <= 0 => Height(x) = 0
    BY DEF Height
  <2>7. Below(0, x, z) <=> z = x
    BY DEF Below
  <2>8. z = x <=> k = i
    BY <2>1, <2>2, MirrorIs
  <2>. QED BY <2>3, <2>5, <2>6, <2>7, <2>8
<1>6. CASE algo = "all_to_all"
  <2>1. ~(0 > 0)
    OBVIOUS
  <2>. QED BY <1>6, <2>1 DEF Has
<1>7. CASE algo \in Halves
  <2>1. Has(algo, 0, i, c, k) <=> HasHalving(0, i, c, k)
    BY <1>7 DEF Has, Halves
  <2>2. 0 <= R
    OBVIOUS
  <2>3. HasHalving(0, i, c, k) <=> Met(0, i, c, k)
    BY <1>2, <2>2 DEF HasHalving
  <2>4. Met(0, i, c, k) <=> k = i
    BY DEF Met
  <2>. QED BY <2>1, <2>3, <2>4
<1>. QED BY <1>3, <1>4, <1>5, <1>6, <1>7 DEF Algos, Halves

(* A chunk shared by the ranks that agree in the bits a partial broadcast  *)
(* does not reach.                                                         *)
LEMMA SharedChunk ==
  ASSUME CallOk, NEW i \in Ranks, NEW c \in Ranks,
         c % (Group \div call.degree) = i % (Group \div call.degree)
  PROVE  Same(Rounds - Shared, i, c)
<1>1. PICK R \in {1, 2, 3}, n \in {2, 4, 8} : R = Rounds /\ n = Group /\ Ranks = 0 .. n - 1
         /\ ((R = 1 /\ n = 2) \/ (R = 2 /\ n = 4) \/ (R = 3 /\ n = 8))
  BY CallFacts, RoundsIs DEF Ranks
<1>2. PICK t \in 0 .. R : t = Shared
  BY <1>1, SharedIs
<1>3. PICK d \in {1, 2, 4, 8} : d = call.degree
  BY CallFacts
<1>4. (t = 0 /\ d = 1) \/ (t = 1 /\ d = 2) \/ (t = 2 /\ d = 4) \/ (t = 3 /\ d = 8)
  <2>1. t = 0 \/ t = 1 \/ t = 2 \/ t = 3
    BY <1>2
  <2>2. 2^t = d
    BY <1>2, <1>3, SharedIs
  <2>. QED BY <2>1, <2>2, Powers
<1>5. PICK q \in Nat : q = n \div d /\ c % q = i % q
  <2>1. n \div d \in Nat
    OBVIOUS
  <2>. QED BY <1>1, <1>3, <2>1
<1>6. (R - t = 0 /\ q = 1) \/ (R - t = 1 /\ q = 2) \/ (R - t = 2 /\ q = 4) \/ (R - t = 3 /\ q = 8)
  <2>1. CASE R = 1
    BY <1>1, <1>2, <1>4, <1>5, <2>1
  <2>2. CASE R = 2
    BY <1>1, <1>2, <1>4, <1>5, <2>2
  <2>3. CASE R = 3
    BY <1>1, <1>2, <1>4, <1>5, <2>3
  <2>. QED BY <2>1, <2>2, <2>3
<1>7. PICK m \in 0 .. 3 : m = Rounds - Shared /\ ((m = 0) \/ (m = 1 /\ q = 2) \/ (m = 2 /\ q = 4) \/ (m = 3 /\ q = 8))
  BY <1>1, <1>2, <1>6
<1>8. Same(m, i, c)
  BY <1>5, <1>7 DEF Same
<1>. QED BY <1>7, <1>8

(* After the last stage a rank has every contribution to what it is to own.*)
LEMMA HasOwned ==
  ASSUME CallOk, NEW algo \in Algos, NEW i \in Ranks, NEW c \in Ranks, c \in Owned(algo, i),
         NEW k \in Ranks
  PROVE  Has(algo, CountLen(algo), i, c, k)
<1>1. PICK n \in {2, 4, 8} : n = Group /\ Ranks = 0 .. n - 1
  BY CallFacts DEF Ranks
<1>2. PICK R \in {1, 2, 3} : R = Rounds
  BY RoundsIs
<1>3. CASE algo = "recursive_doubling"
  <2>1. CountLen(algo) = Rounds
    BY <1>3 DEF CountLen, StageCount
  <2>. QED BY <1>3, <2>1, NearEnds DEF Has
<1>4. CASE algo = "ring"
  <2>1. CountLen(algo) = 2 * (n - 1)
    BY <1>1, <1>4 DEF CountLen
  <2>2. PICK r \in Nat : r = 2 * (n - 1)
    BY <1>1
  <2>3. Has(algo, r, i, c, k) <=> HasRing(r, i, c, k)
    BY <1>4 DEF Has
  <2>4. HasRing(r, i, c, k)
    <3>1. PICK a \in 0 .. n - 1 : a = (i - c) % n
      BY <1>1
    <3>2. PICK b \in 0 .. n - 1 : b = (k - c) % n
      BY <1>1
    <3>3. HasRing(r, i, c, k) <=> IF r < n THEN IF a <= r THEN b <= a ELSE k = i
                                  ELSE a < r - (n - 1) \/ b <= a
      BY <1>1, <3>1, <3>2 DEF HasRing
    <3>4. CASE n = 2
      <4>1. r = 2 /\ ~(r < n) /\ r - (n - 1) = 1
        BY <2>2, <3>4
      <4>2. a < 1 \/ b <= a
        BY <3>4
      <4>. QED BY <3>3, <4>1, <4>2
    <3>5. CASE n # 2
      <4>1. ~(r < n) /\ r - (n - 1) = n - 1
        BY <2>2, <3>5
      <4>2. a < n - 1 \/ b <= a
        OBVIOUS
      <4>. QED BY <3>3, <4>1, <4>2
    <3>. QED BY <3>4, <3>5
  <2>. QED BY <2>1, <2>2, <2>3, <2>4
<1>5. CASE algo = "double_tree"
  <2>1. CountLen(algo) = 2 * R
    BY <1>2, <1>5 DEF CountLen, StageCount
  <2>2. PICK r \in Nat : r = 2 * R /\ ~(r <= R) /\ 2 * R - r = 0
    OBVIOUS
  <2>3. Has(algo, r, i, c, k) <=> HasTree(r, Mirrored(c, i), Mirrored(c, k))
    BY <1>5 DEF Has
  <2>4. \A x : Height(x) >= 0
    BY DEF Height
  <2>5. \A x, z : HasTree(r, x, z)
    BY <1>2, <2>2, <2>4 DEF HasTree
  <2>. QED BY <2>1, <2>2, <2>3, <2>5
<1>6. CASE algo = "all_to_all"
  <2>1. CountLen(algo) = 1 /\ 1 > 0
    BY <1>6 DEF CountLen, StageCount
  <2>. QED BY <1>6, <2>1 DEF Has
<1>7. CASE algo \in Halves
  <2>1. \A r : Has(algo, r, i, c, k) <=> HasHalving(r, i, c, k)
    BY <1>7 DEF Has, Halves
  <2>2. CASE algo = "reduce_scatter"
    <3>1. CountLen(algo) = R /\ R <= R
      BY <1>2, <2>2 DEF CountLen, StageCount
    <3>2. c = i
      BY <2>2 DEF Owned
    <3>3. Same(R, i, c)
      BY <1>1, <3>2 DEF Same
    <3>4. Met(R, i, c, k)
      <4>1. Near(R, i, k)
        BY <1>2, NearEnds
      <4>. QED BY <3>3, <4>1, MetNext
    <3>5. HasHalving(R, i, c, k)
      BY <1>2, <3>1, <3>4 DEF HasHalving
    <3>. QED BY <2>1, <3>1, <3>5
  <2>3. CASE algo = "rabenseifner"
    <3>1. CountLen(algo) = 2 * R
      BY <1>2, <2>3 DEF CountLen
    <3>2. PICK r \in Nat : r = 2 * R /\ ~(r <= R) /\ 2 * R - r = 0
      OBVIOUS
    <3>3. Same(0, i, c)
      BY DEF Same
    <3>4. HasHalving(r, i, c, k)
      BY <1>2, <3>2, <3>3 DEF HasHalving
    <3>. QED BY <2>1, <3>1, <3>2, <3>4
  <2>4. CASE algo = "partial_broadcast"
    <3>1. PICK t \in 0 .. R : t = Shared
      BY <1>2, SharedIs
    <3>2. CountLen(algo) = R + t
      BY <1>2, <2>4, <3>1 DEF CountLen
    <3>3. Same(R - t, i, c)
      <4>1. c % (Group \div call.degree) = i % (Group \div call.degree)
        BY <2>4 DEF Owned
      <4>. QED BY <1>2, <3>1, <4>1, SharedChunk
    <3>4. CASE t = 0
      <4>1. R + t = R /\ R - t = R /\ R <= R
        BY <3>4
      <4>2. Near(R, i, k)
        BY <1>2, NearEnds
      <4>3. Same(R, i, c)
        BY <3>3, <4>1
      <4>4. Met(R, i, c, k)
        BY <4>2, <4>3, MetNext
      <4>5. HasHalving(R, i, c, k)
        BY <1>2, <4>1, <4>4 DEF HasHalving
      <4>. QED BY <2>1, <3>2, <4>1, <4>5
    <3>5. CASE t # 0
      <4>1. PICK r \in Nat : r = R + t /\ ~(r <= R) /\ 2 * R - r = R - t
        BY <3>5
      <4>2. HasHalving(r, i, c, k)
        BY <1>2, <3>3, <4>1 DEF HasHalving
      <4>. QED BY <2>1, <3>2, <4>1, <4>2
    <3>. QED BY <3>4, <3>5
  <2>. QED BY <1>7, <2>2, <2>3, <2>4 DEF Halves
<1>. QED BY <1>3, <1>4, <1>5, <1>6, <1>7 DEF Algos, Halves

(* After n stages the device of every rank holds of each chunk the         *)
(* contributions Has tells, all of them of its own group.                  *)
Contributions(g, algo, n, i, c) == {g[k] : k \in {x \in Ranks : Has(algo, n, i, c, x)}}

HeldIs(h, algo, n) ==
  \A g \in Groups, i, c \in Ranks : h[g[i]][c] = Contributions(g, algo, n, i, c)

(* The members of a group a device hears of a chunk from.                  *)
Heard(g, algo, r, i, c) == {g[j] : j \in Senders(algo, r, i, c)}

After(h, I, algo, r, d, c) ==
  IF I = {} THEN h[d][c]
  ELSE (UNION {h[s][c] : s \in I}) \cup (IF Adds(algo, r) THEN h[d][c] ELSE {})

Unshared(h, I, algo, r, d, c) ==
  Adds(algo, r) => \A s, t \in I \cup {d} : s # t => h[s][c] \cap h[t][c] = {}

(* A device receives from the senders of its own group.                    *)
LEMMA IntoIs ==
  ASSUME StageInv, AllRouted, NEW a \in Algos, a = algos[1], NEW r \in 1 .. CountLen(a),
         NEW g \in Groups, NEW i \in Ranks, NEW c \in Ranks
  PROVE  Into(r, g[i], c) = Heard(g, a, r, i, c)
<1>1. CallOk /\ Len(costs) = StageCount(a)
  BY StageFacts DEF StageInv, AllRouted
<1>2. PICK m \in 1 .. StageCount(a) : m = CountAt(a, r) /\ m = Counts(a)[r]
  BY <1>1, CountsAre
<1>3. PICK E : E = StageEdges(a, m) /\ RankEdges(E)
  BY <1>1, EdgesAre
<1>4. DOMAIN costs[m].tm = Cells(E)
  <2>1. costs[m].tm = StageMatrix(a, m)
    BY <1>1, <1>2 DEF StageInv, StagePast
  <2>. QED BY <1>3, <2>1 DEF StageMatrix
<1>5. Into(r, g[i], c) = {p[1] : p \in {q \in Cells(E) : /\ q[2] = g[i]
                                                        /\ c \in Cargo(a, r, Rank(q[1]), Rank(g[i]))}}
  BY <1>2, <1>4 DEF Into
<1>6. Rank(g[i]) = i
  BY <1>1, GroupFacts
<1>7. \A j : j \in Senders(a, r, i, c) <=> j \in Ranks /\ <<j, i>> \in E /\ c \in Cargo(a, r, j, i)
  BY <1>2, <1>3 DEF Senders
<1>8. ASSUME NEW q \in Cells(E), q[2] = g[i], c \in Cargo(a, r, Rank(q[1]), i)
      PROVE  \E j \in Senders(a, r, i, c) : q[1] = g[j]
  <2>1. /\ q[1] \in Devices(net) /\ q[2] \in Devices(net)
        /\ <<Rank(q[1]), Rank(q[2])>> \in E
        /\ \E h \in Groups : q[1] = h[Rank(q[1])] /\ q[2] = h[Rank(q[2])]
    BY <1>1, <1>3, CellsAre
  <2>2. PICK j \in Ranks : j = Rank(q[1])
    BY <1>1, <2>1, GroupFacts
  <2>3. Rank(q[2]) = i
    BY <1>6, <1>8
  <2>4. PICK h \in Groups : q[1] = h[j] /\ q[2] = h[i]
    BY <2>1, <2>2, <2>3
  <2>5. h[i] = g[i]
    BY <1>8, <2>4
  <2>6. \A x, y \in Groups : \A u, v \in Ranks : x[u] = y[v] => x = y /\ u = v
    BY <1>1, GroupFacts
  <2>7. h = g
    BY <2>5, <2>6
  <2>8. j \in Senders(a, r, i, c)
    BY <1>7, <1>8, <2>1, <2>2, <2>3
  <2>. QED BY <2>4, <2>7, <2>8
<1>9. ASSUME NEW j \in Senders(a, r, i, c)
      PROVE  \E q \in Cells(E) : q[2] = g[i] /\ c \in Cargo(a, r, Rank(q[1]), i) /\ q[1] = g[j]
  <2>1. j \in Ranks /\ <<j, i>> \in E /\ c \in Cargo(a, r, j, i)
    BY <1>7
  <2>2. <<g[j], g[i]>> \in Cells(E)
    BY <1>1, <1>3, <2>1, CellsAre
  <2>3. PICK q \in Cells(E) : q = <<g[j], g[i]>>
    BY <2>2
  <2>4. q[1] = g[j] /\ q[2] = g[i]
    BY <2>3
  <2>5. Rank(g[j]) = j
    BY <1>1, <2>1, GroupFacts
  <2>. QED BY <2>1, <2>4, <2>5
<1>. QED BY <1>5, <1>6, <1>8, <1>9 DEF Heard

(* One stage, for one rank and chunk of a group.                           *)
LEMMA HandsOn ==
  ASSUME CallOk, NEW a \in Algos, NEW r \in 1 .. CountLen(a), NEW h, HeldIs(h, a, r - 1),
         NEW g \in Groups, NEW i \in Ranks, NEW c \in Ranks, NEW I, I = Heard(g, a, r, i, c)
  PROVE  /\ After(h, I, a, r, g[i], c) = Contributions(g, a, r, i, c)
         /\ Unshared(h, I, a, r, g[i], c)
<1>1. PICK S : S = Senders(a, r, i, c) /\ S \subseteq Ranks
  BY DEF Senders
<1>2. I = {g[j] : j \in S}
  BY <1>1 DEF Heard
<1>3. \A x, y \in Ranks : g[x] = g[y] => x = y
  BY GroupFacts
<1>4. ASSUME NEW j \in Ranks
      PROVE  \A u : u \in h[g[j]][c] <=> \E k \in Ranks : u = g[k] /\ Has(a, r - 1, j, c, k)
  <2>1. h[g[j]][c] = Contributions(g, a, r - 1, j, c)
    BY DEF HeldIs
  <2>. QED BY <2>1 DEF Contributions
<1>5. \A k \in Ranks : /\ Has(a, r, i, c, k) <=> Handed(a, r, i, c, k)
                       /\ NotTwice(a, r, i, c, k)
  <2>1. StageHands(a, r)
    BY AllStagesHand
  <2>. QED BY <2>1 DEF StageHands
<1>6. \A u : u \in Contributions(g, a, r, i, c) <=> \E k \in Ranks : u = g[k] /\ Handed(a, r, i, c, k)
  BY <1>5 DEF Contributions
<1>7. CASE S = {}
  <2>1. I = {}
    BY <1>2, <1>7
  <2>2. \A k : Handed(a, r, i, c, k) <=> Has(a, r - 1, i, c, k)
    BY <1>1, <1>7 DEF Handed
  <2>3. h[g[i]][c] = Contributions(g, a, r, i, c)
    BY <1>4, <1>6, <2>2
  <2>4. \A s, t \in I \cup {g[i]} : s = t
    BY <2>1
  <2>5. After(h, I, a, r, g[i], c) = h[g[i]][c]
    BY <2>1 DEF After
  <2>6. Unshared(h, I, a, r, g[i], c)
    BY <2>4 DEF Unshared
  <2>. QED BY <2>3, <2>5, <2>6
<1>8. CASE S # {}
  <2>1. I # {}
    BY <1>2, <1>8
  <2>2. \A k : Handed(a, r, i, c, k) <=> \/ \E j \in S : Has(a, r - 1, j, c, k)
                                         \/ Adds(a, r) /\ Has(a, r - 1, i, c, k)
    BY <1>1, <1>8 DEF Handed
  <2>3. \A u : u \in UNION {h[s][c] : s \in I} <=> \E j \in S : u \in h[g[j]][c]
    BY <1>2
  <2>4. \A u : u \in UNION {h[s][c] : s \in I}
                 <=> \E k \in Ranks : u = g[k] /\ \E j \in S : Has(a, r - 1, j, c, k)
    BY <1>1, <1>4, <2>3
  <2>5. \A u : u \in (UNION {h[s][c] : s \in I}) \cup (IF Adds(a, r) THEN h[g[i]][c] ELSE {})
                 <=> u \in Contributions(g, a, r, i, c)
    BY <1>4, <1>6, <2>2, <2>4
  <2>6. (UNION {h[s][c] : s \in I}) \cup (IF Adds(a, r) THEN h[g[i]][c] ELSE {})
          = Contributions(g, a, r, i, c)
    BY <2>5
  <2>7. ASSUME Adds(a, r), NEW s \in I \cup {g[i]}, NEW t \in I \cup {g[i]}, s # t
        PROVE  h[s][c] \cap h[t][c] = {}
    <3>1. PICK x \in S \cup {i} : s = g[x]
      BY <1>2
    <3>2. PICK y \in S \cup {i} : t = g[y]
      BY <1>2
    <3>3. x \in Ranks /\ y \in Ranks /\ x # y
      BY <1>1, <2>7, <3>1, <3>2
    <3>4. \A k \in Ranks : ~(Has(a, r - 1, x, c, k) /\ Has(a, r - 1, y, c, k))
      BY <1>1, <1>5, <2>7, <3>3 DEF NotTwice
    <3>5. ASSUME NEW u \in h[s][c] \cap h[t][c] PROVE FALSE
      <4>1. PICK k \in Ranks : u = g[k] /\ Has(a, r - 1, x, c, k)
        BY <1>4, <3>1, <3>3, <3>5
      <4>2. PICK l \in Ranks : u = g[l] /\ Has(a, r - 1, y, c, l)
        BY <1>4, <3>2, <3>3, <3>5
      <4>3. k = l
        BY <1>3, <4>1, <4>2
      <4>. QED BY <3>4, <4>1, <4>2, <4>3
    <3>. QED BY <3>5
  <2>8. After(h, I, a, r, g[i], c) = Contributions(g, a, r, i, c)
    BY <2>1, <2>6 DEF After
  <2>9. Unshared(h, I, a, r, g[i], c)
    BY <2>7 DEF Unshared
  <2>. QED BY <2>8, <2>9
<1>. QED BY <1>7, <1>8

(* One stage, for all.                                                     *)
LEMMA Delivers ==
  ASSUME StageInv, AllRouted, NEW a \in Algos, a = algos[1], NEW r \in 1 .. CountLen(a),
         HeldIs(held, a, r - 1)
  PROVE  HeldIs(Delivered(r), a, r) /\ ~Overlap(r)
<1>1. CallOk
  BY DEF StageInv
<1>2. PICK h : h = held /\ HeldIs(h, a, r - 1)
  OBVIOUS
<1>3. ASSUME NEW g \in Groups, NEW i \in Ranks, NEW c \in Ranks
      PROVE  Delivered(r)[g[i]][c] = Contributions(g, a, r, i, c)
  <2>1. PICK I : I = Heard(g, a, r, i, c) /\ I = Into(r, g[i], c)
    BY IntoIs
  <2>2. g[i] \in Devices(net)
    BY <1>1, GroupFacts
  <2>3. PICK d \in Devices(net) : d = g[i]
    BY <2>2
  <2>4. Delivered(r)[d][c] = IF Into(r, d, c) = {} THEN held[d][c]
                             ELSE (UNION {held[s][c] : s \in Into(r, d, c)})
                                    \cup (IF Adds(algos[1], r) THEN held[d][c] ELSE {})
    BY DEF Delivered
  <2>5. Delivered(r)[d][c] = After(h, I, a, r, d, c)
    BY <1>2, <2>1, <2>3, <2>4 DEF After
  <2>6. After(h, I, a, r, g[i], c) = Contributions(g, a, r, i, c)
    <3>1. CallOk /\ HeldIs(h, a, r - 1) /\ I = Heard(g, a, r, i, c)
      BY <1>1, <1>2, <2>1
    <3>. QED BY <3>1, HandsOn
  <2>. QED BY <2>3, <2>5, <2>6
<1>4. ASSUME Overlap(r) PROVE FALSE
  <2>1. PICK d \in Devices(net), c \in Ranks :
          Adds(a, r) /\ \E s, t \in Into(r, d, c) \cup {d} : s # t /\ held[s][c] \cap held[t][c] # {}
    BY <1>4 DEF Overlap
  <2>2. PICK i \in Ranks, g \in Groups : g[i] = d
    BY <1>1, GroupFacts
  <2>3. PICK I : I = Heard(g, a, r, i, c) /\ I = Into(r, g[i], c)
    BY IntoIs
  <2>4. Adds(a, r) => \A s, t \in I \cup {g[i]} : s # t => h[s][c] \cap h[t][c] = {}
    <3>1. Unshared(h, I, a, r, g[i], c)
      BY <1>1, <1>2, <2>3, HandsOn
    <3>. QED BY <3>1 DEF Unshared
  <2>. QED BY <1>2, <2>1, <2>2, <2>3, <2>4
<1>. QED BY <1>3, <1>4 DEF HeldIs

(* The data held is what Has tells after the stages counted, and none of it*)
(* was added twice.                                                        *)
Holding == algos # <<>> => twice = FALSE /\ HeldIs(held, algos[1], counted)

(* What is held changes with the data alone.                               *)
LEMMA HeldSame ==
  ASSUME UNCHANGED <<call, net>>
  PROVE  \A h, algo, n : HeldIs(h, algo, n)' <=> HeldIs(h, algo, n)
<1>1. Group' = Group /\ Rounds' = Rounds /\ Ranks' = Ranks /\ Groups' = Groups
  BY CallSame
<1>2. \A c, i : Mirrored(c, i)' = Mirrored(c, i)
  BY <1>1 DEF Mirrored
<1>3. \A r, x, y : HasTree(r, x, y)' <=> HasTree(r, x, y)
  BY <1>1 DEF HasTree
<1>4. \A r, i, c, k : HasRing(r, i, c, k)' <=> HasRing(r, i, c, k)
  BY <1>1 DEF HasRing
<1>5. \A r, i, c, k : HasHalving(r, i, c, k)' <=> HasHalving(r, i, c, k)
  BY <1>1 DEF HasHalving
<1>6. \A algo, r, i, c, k : Has(algo, r, i, c, k)' <=> Has(algo, r, i, c, k)
  BY <1>2, <1>3, <1>4, <1>5 DEF Has
<1>7. \A g, algo, n, i, c : Contributions(g, algo, n, i, c)' = Contributions(g, algo, n, i, c)
  BY <1>1, <1>6 DEF Contributions
<1>. QED BY <1>1, <1>7 DEF HeldIs

(* A device's own contribution, before any stage.                          *)
LEMMA OwnHeld ==
  ASSUME CallOk, NEW a \in Algos
  PROVE  HeldIs(Own, a, 0)
<1> SUFFICES ASSUME NEW g \in Groups, NEW i \in Ranks, NEW c \in Ranks
             PROVE  Own[g[i]][c] = Contributions(g, a, 0, i, c)
  BY DEF HeldIs
<1>1. g[i] \in Devices(net)
  BY GroupFacts
<1>2. Own[g[i]][c] = {g[i]}
  BY <1>1 DEF Own
<1>3. {x \in Ranks : Has(a, 0, i, c, x)} = {i}
  <2>1. \A x \in Ranks : Has(a, 0, i, c, x) <=> x = i
    BY HasOwn
  <2>. QED BY <2>1
<1>4. Contributions(g, a, 0, i, c) = {g[i]}
  BY <1>3 DEF Contributions
<1>. QED BY <1>2, <1>4

(* Every rank starts with its own contribution.                            *)
LEMMA HoldingInit == Init => Holding
<1> SUFFICES ASSUME Init, algos # <<>> PROVE twice = FALSE /\ HeldIs(held, algos[1], counted)
  BY DEF Holding
<1>1. StageInv
  BY StageInit
<1>2. PICK a \in Algos : a = algos[1]
  BY <1>1, StageFacts
<1>3. HeldIs(Own, a, 0)
  BY <1>1, OwnHeld DEF StageInv
<1>4. held = Own /\ counted = 0 /\ twice = FALSE
  BY DEF Init
<1>. QED BY <1>2, <1>3, <1>4

(* Counting a stage delivers what Has tells of the next.                   *)
LEMMA HoldingCount ==
  ASSUME StageInv, Holding, Count
  PROVE  Holding'
<1>1. /\ UNCHANGED <<call, net, algos>> /\ counted' = counted + 1
      /\ held' = Delivered(counted + 1) /\ twice' = (twice \/ Overlap(counted + 1))
      /\ AllRouted /\ ~AllCounted
  BY DEF Count, nocVars
<1>2. algos # <<>> /\ counted # CountLen(algos[1])
  BY <1>1, StageFacts DEF AllRouted, AllCounted
<1>3. PICK a \in Algos : a = algos[1]
  BY <1>2, StageFacts
<1>4. PICK r \in 1 .. CountLen(a) : r = counted + 1 /\ r - 1 = counted
  BY <1>2, <1>3, StageFacts DEF StageInv, StageProgress
<1>5. twice = FALSE /\ HeldIs(held, a, r - 1)
  BY <1>2, <1>3, <1>4 DEF Holding
<1>6. HeldIs(Delivered(r), a, r) /\ ~Overlap(r)
  BY <1>1, <1>3, <1>5, Delivers
<1>7. PICK h : h = Delivered(r) /\ HeldIs(h, a, r)
  BY <1>6
<1>8. HeldIs(h, a, r)'
  BY <1>1, <1>7, HeldSame
<1>9. twice' = FALSE
  BY <1>1, <1>4, <1>5, <1>6
<1>10. HeldIs(held, algos[1], counted)'
  <2>1. h = held' /\ a = algos'[1] /\ r = counted'
    BY <1>1, <1>3, <1>4, <1>7
  <2>. QED BY <1>8, <2>1
<1>. QED BY <1>9, <1>10 DEF Holding

(* The next algorithm starts from the ranks' own contributions.            *)
LEMMA HoldingCompare ==
  ASSUME StageInv, Holding, Compare
  PROVE  Holding'
<1>1. /\ UNCHANGED <<call, net>> /\ counted' = 0 /\ algos' = Tail(algos) /\ algos # <<>>
      /\ held' = Own /\ twice' = FALSE
  BY DEF Compare, nocVars, AllCounted, AllRouted
<1> SUFFICES ASSUME algos' # <<>> PROVE HeldIs(held, algos[1], counted)'
  BY <1>1 DEF Holding
<1>2. PICK a \in Algos : a = algos'[1]
  <2>1. algos' \in Seq(Algos) /\ algos' # <<>>
    BY <1>1, StageFacts
  <2>2. 1 \in 1 .. Len(algos')
    BY <2>1, EmptySeq
  <2>. QED BY <2>1, <2>2, ElementOfSeq
<1>3. PICK h : h = Own /\ HeldIs(h, a, 0)
  BY OwnHeld DEF StageInv
<1>4. HeldIs(h, a, 0)'
  BY <1>1, <1>3, HeldSame
<1>5. h = held' /\ a = algos'[1] /\ counted' = 0
  BY <1>1, <1>2, <1>3
<1>. QED BY <1>4, <1>5

(* Every step keeps what is held.                                          *)
LEMMA HoldingStep == StageInv /\ Holding /\ [Next]_vars => Holding'
<1> SUFFICES ASSUME StageInv, Holding, [Next]_vars PROVE Holding'
  OBVIOUS
<1>1. CASE Fill \/ Route \/ StageRouted \/ UNCHANGED vars
  <2>1. UNCHANGED <<call, net, algos, counted, held, twice>>
    BY <1>1 DEF Fill, Route, StageRouted, vars, nocVars, collectiveVars, NocNext, Depart, Walk,
                Cross, Arrive, Move
  <2>2. PICK h : h = held
    OBVIOUS
  <2>3. PICK a : a = algos[1]
    OBVIOUS
  <2>4. PICK n : n = counted
    OBVIOUS
  <2>5. algos # <<>> => twice = FALSE /\ HeldIs(h, a, n)
    BY <2>2, <2>3, <2>4 DEF Holding
  <2>6. algos # <<>> => twice = FALSE /\ HeldIs(h, a, n)'
    BY <2>1, <2>5, HeldSame
  <2>. QED BY <2>1, <2>2, <2>3, <2>4, <2>6 DEF Holding
<1>2. CASE Count
  BY <1>2, HoldingCount
<1>3. CASE Compare
  BY <1>3, HoldingCompare
<1>. QED BY <1>1, <1>2, <1>3 DEF Next

(* For every network, call and algorithm: the stages counted are a         *)
(* collective, every rank ends with all contributions to what it is to own.*)
THEOREM CollectiveDelivers == Spec => []CollectiveCompletes
<1>1. StageInv /\ Holding => CollectiveCompletes
  <2> SUFFICES ASSUME StageInv, Holding, AllCounted PROVE CollectiveCompletes
    BY DEF CollectiveCompletes
  <2>1. algos # <<>> /\ CallOk /\ counted = CountLen(algos[1])
    BY StageFacts DEF AllCounted, AllRouted, StageInv
  <2>2. PICK a \in Algos : a = algos[1]
    BY <2>1, StageFacts
  <2>3. PICK r : r = CountLen(a) /\ r = counted
    BY <2>1, <2>2
  <2>4. twice = FALSE /\ HeldIs(held, a, r)
    BY <2>1, <2>2, <2>3 DEF Holding
  <2>5. ASSUME NEW g \in Groups, NEW i \in Ranks, NEW c \in Owned(a, i)
        PROVE  held[g[i]][c] = {g[k] : k \in Ranks}
    <3>1. c \in Ranks
      BY DEF Owned
    <3>2. {x \in Ranks : Has(a, r, i, c, x)} = Ranks
      <4>1. \A x \in Ranks : Has(a, CountLen(a), i, c, x)
        BY <2>1, <3>1, HasOwned
      <4>. QED BY <2>3, <4>1
    <3>3. held[g[i]][c] = Contributions(g, a, r, i, c)
      BY <2>4, <3>1 DEF HeldIs
    <3>. QED BY <3>2, <3>3 DEF Contributions
  <2>. QED BY <2>2, <2>4, <2>5 DEF CollectiveCompletes
<1>2. Spec => []Holding
  BY HoldingInit, HoldingStep, StageHolds, PTL DEF Spec
<1>. QED BY <1>1, <1>2, StageHolds, PTL
=============================================================================
