----------------------------- MODULE CannonProofs -----------------------------
(***************************************************************************)
(* Theorems about Cannon's schedule for every side of the grid, all        *)
(* extents, padded or ragged shards and both storage arrangements: skew,   *)
(* shifts and products are three formulas modulo Q, and they agree.        *)
(***************************************************************************)
EXTENDS Cannon, FiniteProofs

(* Remainders.  Division with remainder is all that is used of div and %.  *)

LEMMA Division ==
  ASSUME NEW x \in Int
  PROVE  /\ x \div Q \in Int /\ x % Q \in Index
         /\ x = Q * (x \div Q) + (x % Q)
BY CannonAssumption DEF Index

(* A number has one remainder.                                             *)
LEMMA Unique ==
  ASSUME NEW k \in Int, NEW j \in Int, NEW a \in Index, NEW b \in Index,
         Q * k + a = Q * j + b
  PROVE  a = b
<1>1. Q \in Nat /\ Q > 0 /\ a \in Nat /\ b \in Nat /\ a < Q /\ b < Q
  BY CannonAssumption DEF Index
<1>2. CASE k = j
  BY <1>1, <1>2
<1>3. CASE k > j
  <2>1. PICK d \in Nat : k = j + 1 + d
    <3>1. k - j - 1 \in Nat /\ k = j + 1 + (k - j - 1)
      BY <1>3
    <3> QED BY <3>1
  <2>2. Q * k = Q * j + Q + Q * d /\ Q * d >= 0
    BY <1>1, <2>1
  <2>3. Q * k \in Int /\ Q * j \in Int /\ Q * d \in Int
    BY <1>1
  <2> QED BY <1>1, <2>2, <2>3
<1>4. CASE j > k
  <2>1. PICK d \in Nat : j = k + 1 + d
    <3>1. j - k - 1 \in Nat /\ j = k + 1 + (j - k - 1)
      BY <1>4
    <3> QED BY <3>1
  <2>2. Q * j = Q * k + Q + Q * d /\ Q * d >= 0
    BY <1>1, <2>1
  <2>3. Q * k \in Int /\ Q * j \in Int /\ Q * d \in Int
    BY <1>1
  <2> QED BY <1>1, <2>2, <2>3
<1> QED BY <1>2, <1>3, <1>4

(* Remainders may be taken before or after adding.                         *)
LEMMA ModAdd ==
  ASSUME NEW x \in Int, NEW y \in Int
  PROVE  ((x % Q) + y) % Q = (x + y) % Q
<1> DEFINE z == (x % Q) + y
<1>1. x \div Q \in Int /\ x % Q \in Index /\ x = Q * (x \div Q) + (x % Q)
  BY Division
<1>2. Q \in Int /\ z \in Int /\ x + y \in Int
  BY <1>1, CannonAssumption DEF Index
<1>3. z \div Q \in Int /\ z % Q \in Index /\ z = Q * (z \div Q) + (z % Q)
  BY <1>2, Division
<1>4. (x + y) \div Q \in Int /\ (x + y) % Q \in Index
      /\ x + y = Q * ((x + y) \div Q) + ((x + y) % Q)
  BY <1>2, Division
<1>5. x + y = Q * (x \div Q) + z
  BY <1>1, <1>2 DEF Index
<1> HIDE DEF z
<1>6. x + y = Q * ((x \div Q) + (z \div Q)) + (z % Q)
  <2>1. Q * ((x \div Q) + (z \div Q)) = Q * (x \div Q) + Q * (z \div Q)
    BY <1>1, <1>2, <1>3
  <2>2. Q * (x \div Q) \in Int /\ Q * (z \div Q) \in Int /\ z % Q \in Int
    BY <1>1, <1>2, <1>3 DEF Index
  <2> QED BY <1>3, <1>5, <2>1, <2>2
<1>7. (x \div Q) + (z \div Q) \in Int
  BY <1>1, <1>3
<1>8. z % Q = (x + y) % Q
  BY <1>3, <1>4, <1>6, <1>7, Unique
<1> QED BY <1>8 DEF z

LEMMA ModSmall ==
  ASSUME NEW x \in Index
  PROVE  x % Q = x
BY CannonAssumption DEF Index

(* Going round the grid and back.                                          *)
LEMMA ModBack ==
  ASSUME NEW a \in Index, NEW x \in Int
  PROVE  /\ (((a - x) % Q) + x) % Q = a
         /\ (((a + x) % Q) - x) % Q = a
<1>1. a \in Int /\ a - x \in Int /\ a + x \in Int /\ 0 - x \in Int
  BY CannonAssumption DEF Index
<1>2. (((a - x) % Q) + x) % Q = ((a - x) + x) % Q
  BY <1>1, ModAdd
<1>3. (((a + x) % Q) + (0 - x)) % Q = ((a + x) + (0 - x)) % Q
  BY <1>1, ModAdd
<1>4. (a - x) + x = a /\ (a + x) + (0 - x) = a
  BY <1>1
<1>5. (a + x) % Q \in Int
  BY <1>1, Division DEF Index
<1>6. ((a + x) % Q) + (0 - x) = ((a + x) % Q) - x
  BY <1>1, <1>5
<1> QED BY <1>2, <1>3, <1>4, <1>6, ModSmall
------------------------------------------------------------------------------
(* Where the blocks are before round r.                                    *)
HeldA(r) == [c \in Cluster |-> {<<c[1], AtWork(c, r)>>} \cap BlocksA]
HeldB(r) == [c \in Cluster |-> {<<AtWork(c, r), c[2]>>} \cap BlocksB]

CannonInv ==
  /\ phase \in {"load", "skew", "rounds", "stored"}
  /\ round \in 0 .. Q
  /\ phase \in {"load", "skew"} => round = 0
  /\ phase = "stored" => round = Q
  /\ phase = "skew" =>
       /\ aAt = Hold(BlocksA, LAMBDA b : IF plan.runtime THEN b ELSE SkewA(b))
       /\ bAt = Hold(BlocksB, LAMBDA b : IF plan.runtime THEN b ELSE SkewB(b))
  /\ phase \in {"rounds", "stored"} /\ (round < Q \/ plan.restore) =>
       aAt = HeldA(round) /\ bAt = HeldB(round)

(* The skew takes to a cluster the block of its first product.             *)
LEMMA SkewMeetsWork ==
  ASSUME NEW c \in Cluster, NEW b \in Index \X Index
  PROVE  /\ SkewA(b) = c <=> b = <<c[1], AtWork(c, 0)>>
         /\ SkewB(b) = c <=> b = <<AtWork(c, 0), c[2]>>
<1>1. PICK i \in Index, j \in Index : c = <<i, j>>
  BY DEF Cluster
<1>2. PICK x \in Index, y \in Index : b = <<x, y>>
  OBVIOUS
<1>3. Index \subseteq Int
  BY CannonAssumption DEF Index
<1>4. AtWork(c, 0) = (i + j) % Q /\ i + j = j + i
  BY <1>1, <1>3 DEF AtWork
<1>5. SkewA(b) = <<x, (y - x) % Q>> /\ SkewB(b) = <<(x - y) % Q, y>>
  BY <1>2 DEF SkewA, SkewB
<1>6. x = i => ((y - x) % Q = j <=> y = (i + j) % Q)
  BY <1>3, <1>4, ModBack
<1>7. y = j => ((x - y) % Q = i <=> x = (i + j) % Q)
  BY <1>3, <1>4, ModBack
<1> QED BY <1>1, <1>2, <1>4, <1>5, <1>6, <1>7

LEMMA SkewedIsHeld ==
  /\ Hold(BlocksA, SkewA) = HeldA(0)
  /\ Hold(BlocksB, SkewB) = HeldB(0)
<1>1. BlocksA \subseteq Index \X Index /\ BlocksB \subseteq Index \X Index
  BY DEF BlocksA, BlocksB
<1>2. ASSUME NEW c \in Cluster
      PROVE  /\ {b \in BlocksA : SkewA(b) = c} = {<<c[1], AtWork(c, 0)>>} \cap BlocksA
             /\ {b \in BlocksB : SkewB(b) = c} = {<<AtWork(c, 0), c[2]>>} \cap BlocksB
  BY <1>1, SkewMeetsWork
<1> QED BY <1>2 DEF Hold, HeldA, HeldB

(* After the last shift every block is where the skew had put it.          *)
LEMMA FullTurn == HeldA(Q) = HeldA(0) /\ HeldB(Q) = HeldB(0)
<1>1. ASSUME NEW c \in Cluster PROVE AtWork(c, Q) = AtWork(c, 0)
  <2>1. c[1] \in Int /\ c[2] \in Int /\ Q \in Int /\ c[1] + c[2] \in Int
    BY CannonAssumption DEF Cluster, Index
  <2>2. ((Q % Q) + (c[1] + c[2])) % Q = (Q + (c[1] + c[2])) % Q
    BY <2>1, ModAdd
  <2>3. Q % Q = 0
    BY CannonAssumption
  <2>4. /\ Q + (c[1] + c[2]) = (c[1] + c[2]) + Q
        /\ 0 + (c[1] + c[2]) = (c[1] + c[2]) + 0
    BY <2>1
  <2> QED BY <2>2, <2>3, <2>4 DEF AtWork
<1> QED BY <1>1 DEF HeldA, HeldB

(* A shift brings to a cluster the block of its next product, from the one *)
(* cluster that has it.                                                    *)
LEMMA ShiftMeetsWork ==
  ASSUME NEW r \in 0 .. Q - 1, NEW c \in Cluster
  PROVE  /\ \E d \in Cluster : /\ ShiftA(d) = c /\ d[1] = c[1]
                               /\ AtWork(d, r) = AtWork(c, r + 1)
         /\ \A d \in Cluster :
              ShiftA(d) = c => d[1] = c[1] /\ AtWork(d, r) = AtWork(c, r + 1)
         /\ \E d \in Cluster : /\ ShiftB(d) = c /\ d[2] = c[2]
                               /\ AtWork(d, r) = AtWork(c, r + 1)
         /\ \A d \in Cluster :
              ShiftB(d) = c => d[2] = c[2] /\ AtWork(d, r) = AtWork(c, r + 1)
<1>1. PICK i \in Index, j \in Index : c = <<i, j>>
  BY DEF Cluster
<1>2. Index \subseteq Int /\ r \in Int /\ Q \in Int
  BY CannonAssumption DEF Index
<1>3. ASSUME NEW x \in Index
      PROVE  (x + 1) % Q \in Index /\ (((x + 1) % Q) - 1) % Q = x
  <2>1. x + 1 \in Int /\ 1 \in Int
    BY <1>2
  <2>2. (x + 1) % Q \in Index
    BY <2>1, Division
  <2>3. (((x + 1) % Q) - 1) % Q = x
    BY <2>1, ModBack
  <2> QED BY <2>2, <2>3
<1>4. ASSUME NEW x \in Index, NEW y \in Index, (y - 1) % Q = x
      PROVE  y = (x + 1) % Q
  BY <1>2, <1>4, ModBack
<1>5. ASSUME NEW x \in Index, NEW y \in Index
      PROVE  (y + ((x + 1) % Q) + r) % Q = (y + x + (r + 1)) % Q
  <2>1. (((x + 1) % Q) + (y + r)) % Q = ((x + 1) + (y + r)) % Q
    <3>1. x + 1 \in Int /\ y + r \in Int
      BY <1>2
    <3> QED BY <3>1, ModAdd
  <2>2. (x + 1) % Q \in Int
    BY <1>2, Division
  <2>3. /\ ((x + 1) % Q) + (y + r) = y + ((x + 1) % Q) + r
        /\ (x + 1) + (y + r) = y + x + (r + 1)
    BY <1>2, <2>2
  <2> QED BY <2>1, <2>3
<1>6. AtWork(c, r + 1) = (i + j + (r + 1)) % Q
  BY <1>1 DEF AtWork
<1>7. AtWork(<<i, (j + 1) % Q>>, r) = AtWork(c, r + 1)
  BY <1>5, <1>6 DEF AtWork
<1>8. AtWork(<<(i + 1) % Q, j>>, r) = AtWork(c, r + 1)
  <2>1. (j + ((i + 1) % Q) + r) % Q = (j + i + (r + 1)) % Q
    BY <1>5
  <2>2. (i + 1) % Q \in Int
    BY <1>2, Division
  <2>3. j + ((i + 1) % Q) + r = ((i + 1) % Q) + j + r /\ j + i = i + j
    BY <1>2, <2>2
  <2> QED BY <1>6, <2>1, <2>3 DEF AtWork
<1>9. <<i, (j + 1) % Q>> \in Cluster /\ ShiftA(<<i, (j + 1) % Q>>) = c
  BY <1>1, <1>3 DEF Cluster, ShiftA
<1>10. <<(i + 1) % Q, j>> \in Cluster /\ ShiftB(<<(i + 1) % Q, j>>) = c
  BY <1>1, <1>3 DEF Cluster, ShiftB
<1>11. ASSUME NEW d \in Cluster, ShiftA(d) = c PROVE d = <<i, (j + 1) % Q>>
  BY <1>1, <1>4, <1>11 DEF Cluster, ShiftA
<1>12. ASSUME NEW d \in Cluster, ShiftB(d) = c PROVE d = <<(i + 1) % Q, j>>
  BY <1>1, <1>4, <1>12 DEF Cluster, ShiftB
<1>13. <<i, (j + 1) % Q>>[1] = c[1] /\ <<(i + 1) % Q, j>>[2] = c[2]
  BY <1>1
<1> QED BY <1>7, <1>8, <1>9, <1>10, <1>11, <1>12, <1>13

LEMMA ShiftKeepsHeld ==
  ASSUME NEW r \in 0 .. Q - 1
  PROVE  /\ Moved(HeldA(r), ShiftFlowsA(r)) = HeldA(r + 1)
         /\ Moved(HeldB(r), ShiftFlowsB(r)) = HeldB(r + 1)
<1>1. ASSUME NEW c \in Cluster
      PROVE  Moved(HeldA(r), ShiftFlowsA(r))[c] = {<<c[1], AtWork(c, r + 1)>>} \cap BlocksA
  <2> DEFINE Of(d) == [from |-> d, to |-> ShiftA(d), block |-> <<d[1], AtWork(d, r)>>]
             gone == {f.block : f \in {g \in ShiftFlowsA(r) : g.from = c}}
             come == {f.block : f \in {g \in ShiftFlowsA(r) :
                                         g.to = c /\ g.block \in HeldA(r)[g.from]}}
  <2>1. ShiftFlowsA(r) = {Of(d) : d \in Cluster}
    BY DEF ShiftFlowsA
  <2>2. \A d \in Cluster : HeldA(r)[d] = {<<d[1], AtWork(d, r)>>} \cap BlocksA
    BY DEF HeldA
  <2>3. <<c[1], AtWork(c, r)>> \in gone
    <3>1. Of(c) \in {g \in ShiftFlowsA(r) : g.from = c}
      BY <2>1
    <3> QED BY <3>1
  <2>4. HeldA(r)[c] \ gone = {}
    BY <2>2, <2>3
  <2>5. come = {<<c[1], AtWork(c, r + 1)>>} \cap BlocksA
    <3>1. ASSUME NEW b \in come PROVE b \in {<<c[1], AtWork(c, r + 1)>>} \cap BlocksA
      <4>1. PICK d \in Cluster : /\ b = Of(d).block /\ Of(d).to = c
                                 /\ Of(d).block \in HeldA(r)[Of(d).from]
        BY <2>1
      <4>2. b = <<d[1], AtWork(d, r)>> /\ ShiftA(d) = c /\ b \in HeldA(r)[d]
        BY <4>1
      <4>3. d[1] = c[1] /\ AtWork(d, r) = AtWork(c, r + 1)
        BY <4>2, ShiftMeetsWork
      <4>4. b \in BlocksA
        BY <2>2, <4>2
      <4> HIDE DEF come
      <4> QED BY <4>2, <4>3, <4>4
    <3>2. ASSUME <<c[1], AtWork(c, r + 1)>> \in BlocksA
          PROVE  <<c[1], AtWork(c, r + 1)>> \in come
      <4>1. PICK d \in Cluster : /\ ShiftA(d) = c /\ d[1] = c[1]
                                 /\ AtWork(d, r) = AtWork(c, r + 1)
        BY ShiftMeetsWork
      <4>2. Of(d) \in ShiftFlowsA(r) /\ Of(d).to = c /\ Of(d).from = d
            /\ Of(d).block = <<c[1], AtWork(c, r + 1)>>
        BY <2>1, <4>1
      <4>3. Of(d).block \in HeldA(r)[Of(d).from]
        BY <2>2, <3>2, <4>1, <4>2
      <4> QED BY <4>2, <4>3
    <3> HIDE DEF come
    <3> QED BY <3>1, <3>2
  <2>6. Moved(HeldA(r), ShiftFlowsA(r))[c] = (HeldA(r)[c] \ gone) \cup come
    BY DEF Moved
  <2> HIDE DEF come, gone
  <2> QED BY <2>4, <2>5, <2>6
<1>2. ASSUME NEW c \in Cluster
      PROVE  Moved(HeldB(r), ShiftFlowsB(r))[c] = {<<AtWork(c, r + 1), c[2]>>} \cap BlocksB
  <2> DEFINE Of(d) == [from |-> d, to |-> ShiftB(d), block |-> <<AtWork(d, r), d[2]>>]
             gone == {f.block : f \in {g \in ShiftFlowsB(r) : g.from = c}}
             come == {f.block : f \in {g \in ShiftFlowsB(r) :
                                         g.to = c /\ g.block \in HeldB(r)[g.from]}}
  <2>1. ShiftFlowsB(r) = {Of(d) : d \in Cluster}
    BY DEF ShiftFlowsB
  <2>2. \A d \in Cluster : HeldB(r)[d] = {<<AtWork(d, r), d[2]>>} \cap BlocksB
    BY DEF HeldB
  <2>3. <<AtWork(c, r), c[2]>> \in gone
    <3>1. Of(c) \in {g \in ShiftFlowsB(r) : g.from = c}
      BY <2>1
    <3> QED BY <3>1
  <2>4. HeldB(r)[c] \ gone = {}
    BY <2>2, <2>3
  <2>5. come = {<<AtWork(c, r + 1), c[2]>>} \cap BlocksB
    <3>1. ASSUME NEW b \in come PROVE b \in {<<AtWork(c, r + 1), c[2]>>} \cap BlocksB
      <4>1. PICK d \in Cluster : /\ b = Of(d).block /\ Of(d).to = c
                                 /\ Of(d).block \in HeldB(r)[Of(d).from]
        BY <2>1
      <4>2. b = <<AtWork(d, r), d[2]>> /\ ShiftB(d) = c /\ b \in HeldB(r)[d]
        BY <4>1
      <4>3. d[2] = c[2] /\ AtWork(d, r) = AtWork(c, r + 1)
        BY <4>2, ShiftMeetsWork
      <4>4. b \in BlocksB
        BY <2>2, <4>2
      <4> HIDE DEF come
      <4> QED BY <4>2, <4>3, <4>4
    <3>2. ASSUME <<AtWork(c, r + 1), c[2]>> \in BlocksB
          PROVE  <<AtWork(c, r + 1), c[2]>> \in come
      <4>1. PICK d \in Cluster : /\ ShiftB(d) = c /\ d[2] = c[2]
                                 /\ AtWork(d, r) = AtWork(c, r + 1)
        BY ShiftMeetsWork
      <4>2. Of(d) \in ShiftFlowsB(r) /\ Of(d).to = c /\ Of(d).from = d
            /\ Of(d).block = <<AtWork(c, r + 1), c[2]>>
        BY <2>1, <4>1
      <4>3. Of(d).block \in HeldB(r)[Of(d).from]
        BY <2>2, <3>2, <4>1, <4>2
      <4> QED BY <4>2, <4>3
    <3> HIDE DEF come
    <3> QED BY <3>1, <3>2
  <2>6. Moved(HeldB(r), ShiftFlowsB(r))[c] = (HeldB(r)[c] \ gone) \cup come
    BY DEF Moved
  <2> HIDE DEF come, gone
  <2> QED BY <2>4, <2>5, <2>6
<1>3. /\ Moved(HeldA(r), ShiftFlowsA(r)) =
           [c \in Cluster |-> Moved(HeldA(r), ShiftFlowsA(r))[c]]
      /\ Moved(HeldB(r), ShiftFlowsB(r)) =
           [c \in Cluster |-> Moved(HeldB(r), ShiftFlowsB(r))[c]]
  BY DEF Moved
<1> QED BY <1>1, <1>2, <1>3 DEF HeldA, HeldB

(* The initial skew, for both storage arrangements.                        *)
LEMMA SkewLeavesHeld ==
  ASSUME aAt = Hold(BlocksA, LAMBDA b : IF plan.runtime THEN b ELSE SkewA(b)),
         bAt = Hold(BlocksB, LAMBDA b : IF plan.runtime THEN b ELSE SkewB(b))
  PROVE  /\ Moved(aAt, SkewFlows(SkewA)) = HeldA(0)
         /\ Moved(bAt, SkewFlows(SkewB)) = HeldB(0)
<1>1. CASE ~plan.runtime
  <2>1. SkewFlows(SkewA) = {} /\ SkewFlows(SkewB) = {}
    BY <1>1 DEF SkewFlows
  <2>2. aAt = HeldA(0) /\ bAt = HeldB(0)
    <3>1. aAt = Hold(BlocksA, SkewA) /\ bAt = Hold(BlocksB, SkewB)
      BY <1>1 DEF Hold
    <3> QED BY <3>1, SkewedIsHeld
  <2>3. /\ Moved(aAt, {}) = [c \in Cluster |-> aAt[c]]
        /\ Moved(bAt, {}) = [c \in Cluster |-> bAt[c]]
    BY DEF Moved
  <2> QED BY <2>1, <2>2, <2>3 DEF HeldA, HeldB
<1>2. CASE plan.runtime
  <2>1. /\ \A c \in Cluster : aAt[c] = {b \in BlocksA : b = c}
        /\ \A c \in Cluster : bAt[c] = {b \in BlocksB : b = c}
    BY <1>2 DEF Hold
  <2>2. /\ SkewFlows(SkewA) = {[from |-> b, to |-> SkewA(b), block |-> b] : b \in Cluster}
        /\ SkewFlows(SkewB) = {[from |-> b, to |-> SkewB(b), block |-> b] : b \in Cluster}
    BY <1>2 DEF SkewFlows, Cluster
  <2>3. /\ BlocksA \subseteq Cluster /\ BlocksB \subseteq Cluster
        /\ Cluster = Index \X Index
    BY DEF BlocksA, BlocksB, Cluster
  <2>4. ASSUME NEW c \in Cluster
        PROVE  Moved(aAt, SkewFlows(SkewA))[c] = HeldA(0)[c]
    <3> DEFINE gone == {f.block : f \in {g \in SkewFlows(SkewA) : g.from = c}}
               come == {f.block : f \in {g \in SkewFlows(SkewA) :
                                           g.to = c /\ g.block \in aAt[g.from]}}
    <3>1. c \in gone
      <4>1. [from |-> c, to |-> SkewA(c), block |-> c]
              \in {g \in SkewFlows(SkewA) : g.from = c}
        BY <2>2
      <4> QED BY <4>1
    <3>2. aAt[c] \ gone = {}
      BY <2>1, <3>1
    <3>3. come = {b \in BlocksA : SkewA(b) = c}
      <4> DEFINE Of(b) == [from |-> b, to |-> SkewA(b), block |-> b]
      <4>1. ASSUME NEW b \in come PROVE b \in BlocksA /\ SkewA(b) = c
        <5>1. PICK d \in Cluster : /\ b = Of(d).block /\ Of(d).to = c
                                   /\ Of(d).block \in aAt[Of(d).from]
          BY <2>2
        <5>2. b = d /\ SkewA(d) = c /\ d \in aAt[d]
          BY <5>1
        <5> QED BY <2>1, <5>2
      <4>2. ASSUME NEW b \in BlocksA, SkewA(b) = c PROVE b \in come
        <5>1. /\ b \in Cluster /\ Of(b) \in SkewFlows(SkewA)
              /\ Of(b).to = c /\ Of(b).from = b /\ Of(b).block = b
          BY <2>2, <2>3, <4>2
        <5>2. Of(b).block \in aAt[Of(b).from]
          BY <2>1, <5>1
        <5> QED BY <5>1, <5>2
      <4> HIDE DEF come
      <4> QED BY <4>1, <4>2
    <3>4. {b \in BlocksA : SkewA(b) = c} = HeldA(0)[c]
      BY SkewedIsHeld DEF Hold
    <3>5. Moved(aAt, SkewFlows(SkewA))[c] = (aAt[c] \ gone) \cup come
      BY DEF Moved
    <3> HIDE DEF gone, come
    <3> QED BY <3>2, <3>3, <3>4, <3>5
  <2>5. ASSUME NEW c \in Cluster
        PROVE  Moved(bAt, SkewFlows(SkewB))[c] = HeldB(0)[c]
    <3> DEFINE gone == {f.block : f \in {g \in SkewFlows(SkewB) : g.from = c}}
               come == {f.block : f \in {g \in SkewFlows(SkewB) :
                                           g.to = c /\ g.block \in bAt[g.from]}}
    <3>1. c \in gone
      <4>1. [from |-> c, to |-> SkewB(c), block |-> c]
              \in {g \in SkewFlows(SkewB) : g.from = c}
        BY <2>2
      <4> QED BY <4>1
    <3>2. bAt[c] \ gone = {}
      BY <2>1, <3>1
    <3>3. come = {b \in BlocksB : SkewB(b) = c}
      <4> DEFINE Of(b) == [from |-> b, to |-> SkewB(b), block |-> b]
      <4>1. ASSUME NEW b \in come PROVE b \in BlocksB /\ SkewB(b) = c
        <5>1. PICK d \in Cluster : /\ b = Of(d).block /\ Of(d).to = c
                                   /\ Of(d).block \in bAt[Of(d).from]
          BY <2>2
        <5>2. b = d /\ SkewB(d) = c /\ d \in bAt[d]
          BY <5>1
        <5> QED BY <2>1, <5>2
      <4>2. ASSUME NEW b \in BlocksB, SkewB(b) = c PROVE b \in come
        <5>1. /\ b \in Cluster /\ Of(b) \in SkewFlows(SkewB)
              /\ Of(b).to = c /\ Of(b).from = b /\ Of(b).block = b
          BY <2>2, <2>3, <4>2
        <5>2. Of(b).block \in bAt[Of(b).from]
          BY <2>1, <5>1
        <5> QED BY <5>1, <5>2
      <4> HIDE DEF come
      <4> QED BY <4>1, <4>2
    <3>4. {b \in BlocksB : SkewB(b) = c} = HeldB(0)[c]
      BY SkewedIsHeld DEF Hold
    <3>5. Moved(bAt, SkewFlows(SkewB))[c] = (bAt[c] \ gone) \cup come
      BY DEF Moved
    <3> HIDE DEF gone, come
    <3> QED BY <3>2, <3>3, <3>4, <3>5
  <2>6. /\ Moved(aAt, SkewFlows(SkewA)) =
             [c \in Cluster |-> Moved(aAt, SkewFlows(SkewA))[c]]
        /\ Moved(bAt, SkewFlows(SkewB)) =
             [c \in Cluster |-> Moved(bAt, SkewFlows(SkewB))[c]]
        /\ HeldA(0) = [c \in Cluster |-> HeldA(0)[c]]
        /\ HeldB(0) = [c \in Cluster |-> HeldB(0)[c]]
    BY DEF Moved, HeldA, HeldB
  <2> QED BY <2>4, <2>5, <2>6
<1> QED BY <1>1, <1>2
------------------------------------------------------------------------------
(* split_extent.  Start(e, i, pad) is where shard i starts; shards follow   *)
(* each other without a gap from 0 to the end of the extent or beyond.     *)
LEMMA SplitFollows ==
  ASSUME NEW e \in Nat \ {0}, NEW pad \in BOOLEAN, NEW i \in 0 .. Q - 1
  PROVE  /\ Start(e, i, pad) \in Nat /\ Start(e, i + 1, pad) \in Nat
         /\ Width(e, i, pad) \in Nat /\ Stop(e, i, pad) \in Nat
         /\ Stop(e, i, pad) = Start(e, i, pad) + Width(e, i, pad)
         /\ Start(e, i + 1, pad) = Stop(e, i, pad)
<1>1. Q \in Nat \ {0} /\ i \in Nat /\ i < Q
  BY CannonAssumption
<1>2. CeilDiv(e, Q) \in Nat
  BY <1>1 DEF CeilDiv
<1>3. e \div Q \in Nat /\ e % Q \in Nat
  BY <1>1
<1>4. /\ Stop(e, i, pad) = Start(e, i, pad) + Width(e, i, pad)
      /\ Min({i, e % Q}) = IF i <= e % Q THEN i ELSE e % Q
      /\ Min({i + 1, e % Q}) = IF i + 1 <= e % Q THEN i + 1 ELSE e % Q
  BY <1>1, <1>3, MinTwo DEF Stop
<1>5. CASE pad
  <2>1. /\ Start(e, i, pad) = i * CeilDiv(e, Q)
        /\ Start(e, i + 1, pad) = (i + 1) * CeilDiv(e, Q)
        /\ Width(e, i, pad) = CeilDiv(e, Q)
    BY <1>5 DEF Start, Width
  <2>2. \A w \in Nat : i * w \in Nat /\ (i + 1) * w = i * w + w
    BY <1>1
  <2>. QED BY <1>2, <1>4, <2>1, <2>2
<1>6. CASE ~pad
  <2>1. /\ Start(e, i, pad) = i * (e \div Q) + Min({i, e % Q})
        /\ Start(e, i + 1, pad) = (i + 1) * (e \div Q) + Min({i + 1, e % Q})
        /\ Width(e, i, pad) = (e \div Q) + (IF i < e % Q THEN 1 ELSE 0)
    BY <1>6 DEF Start, Width
  <2>2. \A w \in Nat : i * w \in Nat /\ (i + 1) * w = i * w + w
    BY <1>1
  <2>3. Min({i + 1, e % Q}) = Min({i, e % Q}) + (IF i < e % Q THEN 1 ELSE 0)
        /\ Min({i, e % Q}) \in Nat
    BY <1>1, <1>3, <1>4
  <2> DEFINE one == IF i < e % Q THEN 1 ELSE 0
  <2>4. one \in Nat
    OBVIOUS
  <2> HIDE DEF one
  <2>5. /\ i * (e \div Q) \in Nat
        /\ (i + 1) * (e \div Q) = i * (e \div Q) + (e \div Q)
    BY <1>3, <2>2
  <2>6. /\ Width(e, i, pad) = (e \div Q) + one
        /\ Min({i + 1, e % Q}) = Min({i, e % Q}) + one
    BY <2>1, <2>3 DEF one
  <2>. QED BY <1>3, <1>4, <2>1, <2>3, <2>4, <2>5, <2>6
<1>. QED BY <1>5, <1>6

LEMMA SplitEnds ==
  ASSUME NEW e \in Nat \ {0}, NEW pad \in BOOLEAN
  PROVE  /\ Start(e, 0, pad) = 0 /\ Start(e, Q, pad) >= e
         /\ ~pad => Start(e, Q, pad) = e
<1>1. Q \in Nat \ {0} /\ CeilDiv(e, Q) \in Nat /\ e <= Q * CeilDiv(e, Q)
  BY CannonAssumption DEF CeilDiv
<1>2. /\ e \div Q \in Nat /\ e % Q \in Nat /\ e % Q <= Q
      /\ e = Q * (e \div Q) + (e % Q)
  BY CannonAssumption
<1>3. Min({0, e % Q}) = 0 /\ Min({Q, e % Q}) = e % Q
  BY <1>1, <1>2, MinTwo
<1>4. \A w \in Nat : 0 * w = 0
  OBVIOUS
<1>5. CASE pad
  <2>1. Start(e, 0, pad) = 0 * CeilDiv(e, Q) /\ Start(e, Q, pad) = Q * CeilDiv(e, Q)
    BY <1>5 DEF Start
  <2>. QED BY <1>1, <1>4, <1>5, <2>1
<1>6. CASE ~pad
  <2>1. /\ Start(e, 0, pad) = 0 * (e \div Q) + Min({0, e % Q})
        /\ Start(e, Q, pad) = Q * (e \div Q) + Min({Q, e % Q})
    BY <1>6 DEF Start
  <2>. QED BY <1>2, <1>3, <1>4, <2>1
<1>. QED BY <1>5, <1>6

(* So the shards are in order.                                             *)
LEMMA SplitMonotone ==
  ASSUME NEW e \in Nat \ {0}, NEW pad \in BOOLEAN
  PROVE  \A j \in 0 .. Q : /\ Start(e, j, pad) \in Nat
                           /\ \A i \in 0 .. j : Start(e, i, pad) <= Start(e, j, pad)
<1> DEFINE S(i) == Start(e, i, pad)
           Good == {j \in Nat : j <= Q => /\ S(j) \in Nat
                                          /\ \A i \in 0 .. j : S(i) <= S(j)}
<1>1. Q \in Nat /\ S(0) = 0
  BY CannonAssumption, SplitEnds
<1>2. 0 \in Good
  BY <1>1
<1>3. ASSUME NEW j \in Nat, j \in Good PROVE j + 1 \in Good
  <2> SUFFICES ASSUME j + 1 <= Q
               PROVE  S(j + 1) \in Nat /\ \A i \in 0 .. j + 1 : S(i) <= S(j + 1)
    BY <1>3
  <2>1. j \in 0 .. Q - 1
    BY <1>1, <1>3
  <2>2. S(j) \in Nat /\ S(j + 1) \in Nat /\ S(j) <= S(j + 1)
    BY <2>1, SplitFollows
  <2>3. ASSUME NEW i \in 0 .. j PROVE S(i) <= S(j) /\ S(i) \in Nat
    <3>1. S(i) <= S(j)
      BY <1>1, <1>3, <2>1, <2>3
    <3>2. i \in 0 .. Q - 1
      BY <1>1, <2>1
    <3>. QED BY <3>1, <3>2, SplitFollows
  <2> HIDE DEF S
  <2>4. ASSUME NEW i \in 0 .. j + 1 PROVE S(i) <= S(j + 1)
    <3>1. i \in 0 .. j \/ i = j + 1
      OBVIOUS
    <3>. QED BY <2>2, <2>3, <3>1
  <2>. QED BY <2>2, <2>4
<1> HIDE DEF Good
<1>4. \A j \in Nat : j \in Good
  BY <1>2, <1>3, NatSetInduction
<1>. QED BY <1>1, <1>4 DEF Good

(* An index of the extent is in the first shard that stops beyond it, and  *)
(* in no other.                                                            *)
LEMMA OneShard ==
  ASSUME NEW e \in Nat \ {0}, NEW pad \in BOOLEAN, NEW x \in 0 .. e - 1
  PROVE  Cardinality({i \in Index : Start(e, i, pad) <= x /\ x < Stop(e, i, pad)}) = 1
<1> DEFINE S(i) == Start(e, i, pad)
           Beyond == {i \in Index : x < S(i + 1)}
           In == {i \in Index : S(i) <= x /\ x < S(i + 1)}
<1>1. Q \in Nat \ {0} /\ x \in Nat /\ x < e /\ Index = 0 .. Q - 1
  BY CannonAssumption DEF Index
<1>2. \A i \in Index : S(i) \in Nat /\ S(i + 1) \in Nat /\ Stop(e, i, pad) = S(i + 1)
  BY <1>1, SplitFollows
<1>3. S(0) = 0 /\ e <= S(Q) /\ S(Q) \in Nat
  BY <1>1, SplitEnds, SplitMonotone
<1>4. \A i, j \in 0 .. Q : i <= j => S(i) <= S(j)
  BY <1>1, SplitMonotone
<1> HIDE DEF S
<1>5. Q - 1 \in Beyond /\ Beyond \in SUBSET Nat
  <2>1. Q - 1 \in Index /\ (Q - 1) + 1 = Q
    BY <1>1
  <2>2. x < S((Q - 1) + 1)
    BY <1>1, <1>3, <2>1
  <2>. QED BY <1>1, <2>1, <2>2
<1>6. PICK i \in Beyond : \A j \in Beyond : i <= j
  <2> HIDE DEF Beyond
  <2>. QED BY <1>5, NatMin
<1>7. S(i) <= x
  <2>1. CASE i = 0
    BY <1>1, <1>3, <2>1
  <2>2. CASE i # 0
    <3>1. i - 1 \in Index /\ (i - 1) + 1 = i /\ i - 1 \notin Beyond
      BY <1>1, <1>6, <2>2
    <3>2. ~ (x < S((i - 1) + 1))
      BY <3>1
    <3>. QED BY <1>1, <1>2, <3>1, <3>2
  <2>. QED BY <2>1, <2>2
<1>8. i \in In
  BY <1>7
<1>9. ASSUME NEW j \in In PROVE j = i
  <2>1. /\ i \in Index /\ j \in Index /\ S(i) \in Nat /\ S(j) \in Nat
        /\ S(i + 1) \in Nat /\ S(j + 1) \in Nat
        /\ S(i) <= x /\ x < S(i + 1) /\ S(j) <= x /\ x < S(j + 1)
    BY <1>2, <1>8
  <2>2. ~ (i < j)
    <3>1. SUFFICES ASSUME i < j PROVE FALSE
      OBVIOUS
    <3>2. S(i + 1) <= S(j)
      <4>1. i + 1 \in 0 .. Q /\ j \in 0 .. Q /\ i + 1 <= j
        BY <1>1, <2>1, <3>1
      <4>. QED BY <1>4, <4>1
    <3>. QED BY <1>1, <2>1, <3>2
  <2>3. ~ (j < i)
    <3>1. SUFFICES ASSUME j < i PROVE FALSE
      OBVIOUS
    <3>2. S(j + 1) <= S(i)
      <4>1. j + 1 \in 0 .. Q /\ i \in 0 .. Q /\ j + 1 <= i
        BY <1>1, <2>1, <3>1
      <4>. QED BY <1>4, <4>1
    <3>. QED BY <1>1, <2>1, <3>2
  <2>. QED BY <1>1, <2>1, <2>2, <2>3
<1>10. In = {i}
  BY <1>8, <1>9
<1>11. {k \in Index : Start(e, k, pad) <= x /\ x < Stop(e, k, pad)} = In
  BY <1>2 DEF S
<1>. QED BY <1>10, <1>11, FS_Singleton

LEMMA ShardsTiled == plan \in Plan => ShardsTile
<1> SUFFICES ASSUME plan \in Plan PROVE ShardsTile
  OBVIOUS
<1>1. SUFFICES ASSUME NEW e \in {plan.m, plan.n, plan.k}
               PROVE  /\ \A x \in 0 .. e - 1 :
                           Cardinality({i \in Index : Start(e, i, plan.pad) <= x
                                          /\ x < Stop(e, i, plan.pad)}) = 1
                      /\ ~plan.pad => Stop(e, Q - 1, plan.pad) = e
  BY DEF ShardsTile
<1>2. e \in Nat \ {0} /\ plan.pad \in BOOLEAN
  BY CannonAssumption DEF Plan
<1>3. ~plan.pad => Stop(e, Q - 1, plan.pad) = e
  <2>1. Q - 1 \in 0 .. Q - 1 /\ (Q - 1) + 1 = Q
    BY CannonAssumption
  <2>2. Start(e, (Q - 1) + 1, plan.pad) = Stop(e, Q - 1, plan.pad)
    BY <1>2, <2>1, SplitFollows
  <2>. QED BY <1>2, <2>1, <2>2, SplitEnds
<1>. QED BY <1>2, <1>3, OneShard

(* What of an extent lies before shard i.                                  *)
Upto(e, i, pad) == IF Start(e, i, pad) < e THEN Start(e, i, pad) ELSE e

LEMMA LogicalIsData ==
  ASSUME NEW e \in Nat \ {0}, NEW pad \in BOOLEAN, NEW i \in Index
  PROVE  /\ LogicalSize(e, i, pad) = Upto(e, i + 1, pad) - Upto(e, i, pad)
         /\ Upto(e, i, pad) \in Nat /\ Upto(e, i + 1, pad) \in Nat
         /\ LogicalSize(e, i, pad) \in Nat /\ Width(e, i, pad) \in Nat
         /\ LogicalSize(e, i, pad) <= Width(e, i, pad)
         /\ ~pad => LogicalSize(e, i, pad) = Width(e, i, pad)
<1>1. Q \in Nat \ {0} /\ i \in 0 .. Q - 1 /\ i + 1 \in 0 .. Q /\ Q \in 0 .. Q
  BY CannonAssumption DEF Index
<1>2. PICK s \in Nat, w \in Nat :
        /\ Start(e, i, pad) = s /\ Width(e, i, pad) = w
        /\ Stop(e, i, pad) = s + w /\ Start(e, i + 1, pad) = s + w
  BY <1>1, SplitFollows
<1>3. /\ Upto(e, i, pad) = IF s < e THEN s ELSE e
      /\ Upto(e, i + 1, pad) = IF s + w < e THEN s + w ELSE e
  BY <1>2 DEF Upto
<1>4. CASE pad
  <2>1. LogicalSize(e, i, pad) = Max({0, Min({s + w, e}) - s})
    BY <1>2, <1>4 DEF LogicalSize
  <2>2. Min({s + w, e}) = IF s + w <= e THEN s + w ELSE e
    BY <1>2, MinTwo
  <2> DEFINE d == Min({s + w, e}) - s
  <2>3. d \in Int
    BY <1>2, <2>2
  <2> HIDE DEF d
  <2>4. Max({0, d}) = IF 0 <= d THEN d ELSE 0
    BY <2>3, MaxTwo
  <2>5. LogicalSize(e, i, pad) = IF 0 <= d THEN d ELSE 0
    BY <2>1, <2>4 DEF d
  <2>6. d = (IF s + w <= e THEN s + w ELSE e) - s
    BY <2>2 DEF d
  <2>7. LogicalSize(e, i, pad)
          = (IF s + w < e THEN s + w ELSE e) - (IF s < e THEN s ELSE e)
    BY <2>5, <2>6
  <2>8. LogicalSize(e, i, pad) \in Nat /\ LogicalSize(e, i, pad) <= w
    BY <2>5, <2>6
  <2>9. Upto(e, i, pad) \in Nat /\ Upto(e, i + 1, pad) \in Nat
    BY <1>3
  <2>10. LogicalSize(e, i, pad) = Upto(e, i + 1, pad) - Upto(e, i, pad)
    BY <1>3, <2>7, Zenon
  <2>. QED BY <1>2, <1>4, <2>8, <2>9, <2>10
<1>5. CASE ~pad
  <2>1. LogicalSize(e, i, pad) = w
    BY <1>2, <1>5 DEF LogicalSize
  <2>2. s + w <= e
    <3>1. Start(e, i + 1, pad) <= Start(e, Q, pad)
      BY <1>1, SplitMonotone
    <3>2. Start(e, Q, pad) = e
      BY <1>5, SplitEnds
    <3>. QED BY <1>2, <3>1, <3>2
  <2>. QED BY <1>2, <1>3, <2>1, <2>2
<1>. QED BY <1>4, <1>5, Zenon

(* The data of all shards are the extent.                                  *)
LEMMA LogicalSum ==
  ASSUME NEW e \in Nat \ {0}, NEW pad \in BOOLEAN, NEW f,
         \A i \in Index : f[i] = LogicalSize(e, i, pad)
  PROVE  /\ IsFiniteSet(Index) /\ \A i \in Index : f[i] \in Int
         /\ SumFunctionOnSet(f, Index) = e
<1>1. Q \in Nat \ {0} /\ Index = 0 .. Q - 1
  BY CannonAssumption DEF Index
<1>2. IsFiniteSet(Index)
  BY <1>1, FS_Interval
<1>3. \A i \in Index : f[i] \in Int
  BY LogicalIsData
<1> DEFINE Good == {n \in Nat : n <= Q =>
                      SumFunctionOnSet(f, 0 .. n - 1) = Upto(e, n, pad)}
<1>4. 0 \in Good
  <2>1. 0 .. 0 - 1 = {}
    OBVIOUS
  <2>2. Upto(e, 0, pad) = 0
    BY SplitEnds DEF Upto
  <2>. QED BY <2>1, <2>2, SumEmpty
<1>5. ASSUME NEW n \in Nat, n \in Good PROVE n + 1 \in Good
  <2>1. SUFFICES ASSUME n + 1 <= Q
                 PROVE  SumFunctionOnSet(f, 0 .. n) = Upto(e, n + 1, pad)
    <3>1. (n + 1) - 1 = n
      OBVIOUS
    <3>. QED BY <2>1, <3>1
  <2>2. n \in Index /\ 0 .. n - 1 \subseteq Index /\ n <= Q
    BY <1>1, <2>1
  <2>3. SumFunctionOnSet(f, 0 .. n - 1) = Upto(e, n, pad)
    BY <1>5, <2>2
  <2>4. 0 .. n = (0 .. n - 1) \cup {n} /\ n \notin 0 .. n - 1
    OBVIOUS
  <2>5. IsFiniteSet(0 .. n - 1) /\ \A i \in (0 .. n - 1) \cup {n} : f[i] \in Int
    BY <1>2, <1>3, <2>2, FS_Subset
  <2>6. SumFunctionOnSet(f, (0 .. n - 1) \cup {n})
          = SumFunctionOnSet(f, 0 .. n - 1) + f[n]
    BY <2>4, <2>5, SumAdd
  <2>7. /\ f[n] = Upto(e, n + 1, pad) - Upto(e, n, pad)
        /\ Upto(e, n, pad) \in Nat /\ Upto(e, n + 1, pad) \in Nat
    BY <2>2, LogicalIsData
  <2>8. SumFunctionOnSet(f, 0 .. n)
          = SumFunctionOnSet(f, 0 .. n - 1) + f[n]
    BY <2>4, <2>6, Zenon
  <2>. QED BY <2>3, <2>7, <2>8
<1> HIDE DEF Good
<1>6. \A n \in Nat : n \in Good
  BY <1>4, <1>5, NatSetInduction
<1>7. Upto(e, Q, pad) = e
  <2>1. Start(e, Q, pad) >= e /\ Start(e, Q, pad) \in Nat
    <3>1. Q \in 0 .. Q
      BY <1>1
    <3>. QED BY <3>1, SplitEnds, SplitMonotone
  <2>. QED BY <2>1 DEF Upto
<1>8. SumFunctionOnSet(f, 0 .. Q - 1) = Upto(e, Q, pad)
  BY <1>1, <1>6 DEF Good
<1>. QED BY <1>1, <1>2, <1>3, <1>7, <1>8

(* Every k index is worked on once: another round is another index, and    *)
(* every index has a round.                                                *)
LEMMA RoundsDiffer ==
  ASSUME NEW c \in Cluster, NEW r \in Index, NEW s \in Index,
         AtWork(c, r) = AtWork(c, s)
  PROVE  r = s
<1>1. PICK i \in Index, j \in Index : c = <<i, j>>
  BY DEF Cluster
<1>2. i \in Int /\ j \in Int /\ r \in Int /\ s \in Int /\ i + j \in Int
  BY CannonAssumption DEF Index
<1>3. AtWork(c, r) = (r + (i + j)) % Q /\ AtWork(c, s) = (s + (i + j)) % Q
  <2>1. i + j + r = r + (i + j) /\ i + j + s = s + (i + j)
    BY <1>2
  <2>. QED BY <1>1, <2>1 DEF AtWork
<1>4. /\ (((r + (i + j)) % Q) - (i + j)) % Q = r
      /\ (((s + (i + j)) % Q) - (i + j)) % Q = s
  BY <1>2, ModBack
<1>. QED BY <1>3, <1>4

LEMMA EveryIndexHasARound ==
  ASSUME NEW c \in Cluster, NEW x \in Index
  PROVE  \E r \in Index : AtWork(c, r) = x
<1>1. PICK i \in Index, j \in Index : c = <<i, j>>
  BY DEF Cluster
<1>2. i \in Int /\ j \in Int /\ x \in Int /\ i + j \in Int
  BY CannonAssumption DEF Index
<1> DEFINE r == (x - (i + j)) % Q
<1>3. r \in Index /\ r \in Int
  <2>1. x - (i + j) \in Int
    BY <1>2
  <2>. QED BY <2>1, Division, CannonAssumption DEF Index
<1>4. (r + (i + j)) % Q = x
  BY <1>2, ModBack
<1> HIDE DEF r
<1>5. AtWork(c, r) = (r + (i + j)) % Q
  <2>1. i + j + r = r + (i + j)
    BY <1>2, <1>3
  <2>. QED BY <1>1, <2>1 DEF AtWork
<1>. QED BY <1>3, <1>4, <1>5

LEMMA AtWorkInRange ==
  ASSUME NEW c \in Cluster, NEW r \in Index
  PROVE  AtWork(c, r) \in Index
<1>1. c[1] + c[2] + r \in Int
  BY CannonAssumption DEF Cluster, Index
<1>. QED BY <1>1, Division DEF AtWork
------------------------------------------------------------------------------
(* The area of a cluster's block of C, how deep each k index is, and what  *)
(* of the product is done before round r.                                  *)
Area(c)       == LogicalSize(plan.m, c[1], plan.pad)
                   * LogicalSize(plan.n, c[2], plan.pad)
Slice         == [x \in Index |-> LogicalSize(plan.k, x, plan.pad)]
Before(c, r)  == {AtWork(c, x) : x \in 0 .. r - 1}
DoneBefore(r) == [c \in Cluster |->
                    Area(c) * SumFunctionOnSet(Slice, Before(c, r))]

CannonSums ==
  /\ plan \in Plan
  /\ products = [c \in Cluster |-> {<<x, AtWork(c, x)>> : x \in 0 .. round - 1}]
  /\ useful = SumFunction(DoneBefore(round))
  /\ useful \in Nat /\ modeled \in Nat /\ useful <= modeled
  /\ plan.pad \/ useful = modeled

LEMMA PlanFacts ==
  ASSUME plan \in Plan
  PROVE  /\ plan.m \in Nat \ {0} /\ plan.n \in Nat \ {0} /\ plan.k \in Nat \ {0}
         /\ plan.pad \in BOOLEAN
BY CannonAssumption DEF Plan

LEMMA ClusterFacts ==
  /\ IsFiniteSet(Index) /\ IsFiniteSet(Cluster)
  /\ \A c \in Cluster : c[1] \in Index /\ c[2] \in Index
<1>1. IsFiniteSet(Index)
  BY CannonAssumption, FS_Interval DEF Index
<1>2. IsFiniteSet(Cluster)
  BY <1>1, FS_Product DEF Cluster
<1>. QED BY <1>1, <1>2 DEF Cluster

(* What one cluster does in one round.                                     *)
LEMMA OneProduct ==
  ASSUME plan \in Plan, NEW c \in Cluster, NEW r \in Index
  PROVE  /\ Area(c) \in Nat /\ Slice[AtWork(c, r)] \in Nat
         /\ Useful(c, r) = Area(c) * Slice[AtWork(c, r)]
         /\ Useful(c, r) \in Nat /\ Modeled(c, r) \in Nat
         /\ Useful(c, r) <= Modeled(c, r)
         /\ plan.pad \/ Useful(c, r) = Modeled(c, r)
<1>1. c[1] \in Index /\ c[2] \in Index /\ AtWork(c, r) \in Index
  BY ClusterFacts, AtWorkInRange
<1> DEFINE a == LogicalSize(plan.m, c[1], plan.pad)
           b == LogicalSize(plan.n, c[2], plan.pad)
           d == LogicalSize(plan.k, AtWork(c, r), plan.pad)
           x == Width(plan.m, c[1], plan.pad)
           y == Width(plan.n, c[2], plan.pad)
           z == Width(plan.k, AtWork(c, r), plan.pad)
<1>2. /\ a \in Nat /\ x \in Nat /\ a <= x /\ (plan.pad \/ a = x)
      /\ b \in Nat /\ y \in Nat /\ b <= y /\ (plan.pad \/ b = y)
      /\ d \in Nat /\ z \in Nat /\ d <= z /\ (plan.pad \/ d = z)
  BY <1>1, PlanFacts, LogicalIsData
<1>3. /\ Area(c) = a * b /\ Slice[AtWork(c, r)] = d
      /\ Useful(c, r) = a * b * d /\ Modeled(c, r) = x * y * z
  BY <1>1 DEF Area, Slice, Useful, Modeled, Rows, Columns, Depth
<1> HIDE DEF a, b, d, x, y, z
<1>4. a * b \in Nat /\ x * y \in Nat /\ a * b <= x * y /\ (plan.pad \/ a * b = x * y)
  <2>1. \A p, q, u, v \in Nat : p <= u /\ q <= v =>
          p * q \in Nat /\ u * v \in Nat /\ p * q <= u * v
    BY TimesMonotone
  <2>. QED BY <1>2, <2>1
<1>5. /\ (a * b) * d \in Nat /\ (x * y) * z \in Nat /\ (a * b) * d <= (x * y) * z
      /\ plan.pad \/ (a * b) * d = (x * y) * z
  BY <1>2, <1>4, TimesMonotone
<1>. QED BY <1>2, <1>3, <1>4, <1>5

(* One round adds its products.                                            *)
LEMMA OneRound ==
  ASSUME plan \in Plan, NEW r \in Index
  PROVE  SumFunction(DoneBefore(r + 1))
           = SumFunction(DoneBefore(r)) + SumFunction([c \in Cluster |-> Useful(c, r)])
<1> DEFINE f == DoneBefore(r)
           g == [c \in Cluster |-> Useful(c, r)]
           h == DoneBefore(r + 1)
<1>1. r \in Nat /\ r < Q /\ Q \in Nat /\ (r + 1) - 1 = r
  BY CannonAssumption DEF Index
<1>2. ASSUME NEW c \in Cluster
      PROVE  f[c] \in Int /\ g[c] \in Int /\ h[c] = f[c] + g[c]
  <2>1. 0 .. r = (0 .. r - 1) \cup {r} /\ 0 .. r \subseteq Index
    BY <1>1 DEF Index
  <2>2. Before(c, r + 1) = {AtWork(c, x) : x \in 0 .. r}
    BY <1>1 DEF Before
  <2>3. Before(c, r + 1) = Before(c, r) \cup {AtWork(c, r)}
    BY <2>1, <2>2 DEF Before
  <2>4. AtWork(c, r) \notin Before(c, r)
    <3>1. \A x \in 0 .. r - 1 : x \in Index /\ x # r
      BY <1>1, <2>1
    <3>. QED BY <3>1, RoundsDiffer DEF Before
  <2>5. Before(c, r) \cup {AtWork(c, r)} \subseteq Index
    BY <2>1, AtWorkInRange DEF Before
  <2>6. IsFiniteSet(Before(c, r))
    BY <2>5, ClusterFacts, FS_Subset
  <2>7. \A x \in Index : Slice[x] \in Int
    BY PlanFacts, LogicalIsData DEF Slice
  <2>8. /\ SumFunctionOnSet(Slice, Before(c, r)) \in Int
        /\ SumFunctionOnSet(Slice, Before(c, r) \cup {AtWork(c, r)})
             = SumFunctionOnSet(Slice, Before(c, r)) + Slice[AtWork(c, r)]
    BY <2>4, <2>5, <2>6, <2>7, SumAdd
  <2>9. SumFunctionOnSet(Slice, Before(c, r + 1))
          = SumFunctionOnSet(Slice, Before(c, r)) + Slice[AtWork(c, r)]
    BY <2>3, <2>8, Zenon
  <2>10. /\ f[c] = Area(c) * SumFunctionOnSet(Slice, Before(c, r))
         /\ h[c] = Area(c) * SumFunctionOnSet(Slice, Before(c, r + 1))
         /\ g[c] = Area(c) * Slice[AtWork(c, r)]
         /\ Area(c) \in Int /\ Slice[AtWork(c, r)] \in Int
    BY OneProduct DEF DoneBefore
  <2>11. \A p, q, u \in Int : p * (q + u) = p * q + p * u /\ p * q \in Int
    OBVIOUS
  <2> HIDE DEF f, g, h
  <2>. QED BY <2>8, <2>9, <2>10, <2>11
<1>3. /\ SumFunction(f) = SumFunctionOnSet(f, Cluster)
      /\ SumFunction(g) = SumFunctionOnSet(g, Cluster)
      /\ SumFunction(h) = SumFunctionOnSet(h, Cluster)
  <2>1. DOMAIN f = Cluster /\ DOMAIN g = Cluster /\ DOMAIN h = Cluster
    BY DEF DoneBefore
  <2>. QED BY <2>1 DEF SumFunction
<1> HIDE DEF f, g, h
<1>4. \A c \in Cluster : f[c] \in Int /\ g[c] \in Int /\ h[c] = 1 * f[c] + 1 * g[c]
  BY <1>2
<1>5. SumFunctionOnSet(h, Cluster)
        = 1 * SumFunctionOnSet(f, Cluster) + 1 * SumFunctionOnSet(g, Cluster)
  BY <1>4, ClusterFacts, SumLinear
<1>6. SumFunctionOnSet(f, Cluster) \in Int /\ SumFunctionOnSet(g, Cluster) \in Int
  BY <1>2, ClusterFacts, SumMeasure
<1>7. SumFunction(h) = SumFunction(f) + SumFunction(g)
  BY <1>3, <1>5, <1>6
<1>. QED BY <1>7 DEF f, g, h

(* What a round models is at least what it does, and without padding it is *)
(* that.                                                                   *)
LEMMA OneRoundModels ==
  ASSUME plan \in Plan, NEW r \in Index
  PROVE  /\ SumFunction([c \in Cluster |-> Useful(c, r)]) \in Nat
         /\ SumFunction([c \in Cluster |-> Modeled(c, r)]) \in Nat
         /\ SumFunction([c \in Cluster |-> Useful(c, r)])
              <= SumFunction([c \in Cluster |-> Modeled(c, r)])
         /\ \/ plan.pad
            \/ SumFunction([c \in Cluster |-> Useful(c, r)])
                 = SumFunction([c \in Cluster |-> Modeled(c, r)])
<1> DEFINE f == [c \in Cluster |-> Useful(c, r)]
           g == [c \in Cluster |-> Modeled(c, r)]
           none == [c \in Cluster |-> 0]
<1>1. SumFunction(f) = SumFunctionOnSet(f, Cluster)
      /\ SumFunction(g) = SumFunctionOnSet(g, Cluster)
  BY DEF SumFunction
<1>2. \A c \in Cluster : /\ f[c] \in Int /\ g[c] \in Int /\ f[c] <= g[c]
                         /\ plan.pad \/ f[c] = g[c]
                         /\ none[c] \in Int /\ none[c] = 0 * f[c] /\ none[c] <= f[c]
  BY OneProduct
<1> HIDE DEF f, g, none
<1>3. SumFunctionOnSet(f, Cluster) \in Int /\ SumFunctionOnSet(g, Cluster) \in Int
  BY <1>2, ClusterFacts, SumMeasure
<1>4. SumFunctionOnSet(f, Cluster) <= SumFunctionOnSet(g, Cluster)
  BY <1>2, ClusterFacts, SumMonotone
<1>5. 0 <= SumFunctionOnSet(f, Cluster)
  <2>1. SumFunctionOnSet(none, Cluster) = 0 * SumFunctionOnSet(f, Cluster)
    BY <1>2, ClusterFacts, SumScale
  <2>2. SumFunctionOnSet(none, Cluster) <= SumFunctionOnSet(f, Cluster)
    BY <1>2, ClusterFacts, SumMonotone
  <2>. QED BY <1>3, <2>1, <2>2
<1>6. plan.pad \/ SumFunctionOnSet(f, Cluster) = SumFunctionOnSet(g, Cluster)
  <2>1. CASE ~plan.pad
    BY <1>2, <2>1, ClusterFacts, SumSame
  <2>. QED BY <2>1
<1>7. /\ SumFunction(f) \in Nat /\ SumFunction(g) \in Nat
      /\ SumFunction(f) <= SumFunction(g)
      /\ plan.pad \/ SumFunction(f) = SumFunction(g)
  BY <1>1, <1>3, <1>4, <1>5, <1>6
<1>. QED BY <1>7 DEF f, g

LEMMA NothingDone ==
  ASSUME plan \in Plan
  PROVE  SumFunction(DoneBefore(0)) = 0
<1> DEFINE f == DoneBefore(0)
<1>1. 0 .. 0 - 1 = {}
  OBVIOUS
<1>2. \A c \in Cluster : f[c] = 0
  <2>1. SUFFICES ASSUME NEW c \in Cluster PROVE f[c] = 0
    OBVIOUS
  <2>2. Before(c, 0) = {}
    BY <1>1 DEF Before
  <2>3. 0 \in Index
    BY CannonAssumption DEF Index
  <2>4. Area(c) \in Nat
    BY <2>3, OneProduct
  <2>5. f[c] = Area(c) * SumFunctionOnSet(Slice, Before(c, 0))
    BY DEF DoneBefore
  <2>6. f[c] = Area(c) * 0
    BY <2>2, <2>5, SumEmpty
  <2>. QED BY <2>4, <2>6
<1>3. SumFunction(f) = SumFunctionOnSet(f, Cluster)
  BY DEF SumFunction, DoneBefore
<1> HIDE DEF f
<1>4. \A c \in Cluster : f[c] \in Int /\ f[c] = 0 * f[c]
  BY <1>2
<1>5. SumFunctionOnSet(f, Cluster) = 0 * SumFunctionOnSet(f, Cluster)
  BY <1>4, ClusterFacts, SumScale
<1>6. SumFunctionOnSet(f, Cluster) \in Int
  BY <1>4, ClusterFacts, SumMeasure
<1>7. SumFunction(f) = 0
  BY <1>3, <1>5, <1>6
<1>. QED BY <1>7 DEF f

(* After the last round the whole product is done.                         *)
LEMMA AllDone ==
  ASSUME plan \in Plan
  PROVE  /\ \A c \in Cluster : Before(c, Q) = Index
         /\ SumFunction(DoneBefore(Q)) = plan.m * plan.n * plan.k
<1>1. 0 .. Q - 1 = Index
  BY DEF Index
<1>2. ASSUME NEW c \in Cluster PROVE Before(c, Q) = Index
  <2>1. Before(c, Q) = {AtWork(c, r) : r \in Index}
    BY <1>1 DEF Before
  <2>. QED BY <2>1, AtWorkInRange, EveryIndexHasARound
<1> DEFINE f == DoneBefore(Q)
           row == [i \in Index |-> LogicalSize(plan.m, i, plan.pad)]
           column == [j \in Index |-> LogicalSize(plan.n, j, plan.pad)]
           area == [c \in Cluster |-> Area(c)]
<1>3. /\ SumFunctionOnSet(row, Index) = plan.m
      /\ SumFunctionOnSet(column, Index) = plan.n
      /\ SumFunctionOnSet(Slice, Index) = plan.k
      /\ \A i \in Index : row[i] \in Int /\ column[i] \in Int
  <2>1. /\ \A i \in Index : row[i] = LogicalSize(plan.m, i, plan.pad)
        /\ \A i \in Index : column[i] = LogicalSize(plan.n, i, plan.pad)
        /\ \A i \in Index : Slice[i] = LogicalSize(plan.k, i, plan.pad)
    BY DEF Slice
  <2> HIDE DEF row, column
  <2>2. SumFunctionOnSet(row, Index) = plan.m /\ \A i \in Index : row[i] \in Int
    BY <2>1, PlanFacts, LogicalSum
  <2>3. SumFunctionOnSet(column, Index) = plan.n /\ \A i \in Index : column[i] \in Int
    BY <2>1, PlanFacts, LogicalSum
  <2>4. SumFunctionOnSet(Slice, Index) = plan.k
    BY <2>1, PlanFacts, LogicalSum
  <2>. QED BY <2>2, <2>3, <2>4
<1>4. \A i \in Index, j \in Index : area[<<i, j>>] = row[i] * column[j]
  BY DEF Area, Cluster
<1>5. \A c \in Cluster : area[c] \in Int /\ f[c] = plan.k * area[c]
  <2>1. SUFFICES ASSUME NEW c \in Cluster
                 PROVE  area[c] \in Int /\ f[c] = plan.k * area[c]
    OBVIOUS
  <2>2. Area(c) \in Nat
    <3>1. 0 \in Index
      BY CannonAssumption DEF Index
    <3>. QED BY <3>1, OneProduct
  <2>3. f[c] = Area(c) * SumFunctionOnSet(Slice, Before(c, Q))
    BY DEF DoneBefore
  <2>4. f[c] = Area(c) * plan.k
    BY <1>2, <1>3, <2>3
  <2>. QED BY <2>2, <2>4, PlanFacts
<1>6. SumFunction(f) = SumFunctionOnSet(f, Index \X Index)
  BY DEF SumFunction, DoneBefore, Cluster
<1> HIDE DEF f, row, column, area
<1>7. SumFunctionOnSet(area, Index \X Index) = plan.m * plan.n
  <2>1. SumFunctionOnSet(area, Index \X Index)
          = SumFunctionOnSet(row, Index) * SumFunctionOnSet(column, Index)
    BY <1>3, <1>4, ClusterFacts, SumProduct
  <2>. QED BY <1>3, <2>1
<1>8. SumFunctionOnSet(f, Index \X Index)
        = plan.k * SumFunctionOnSet(area, Index \X Index)
  BY <1>5, ClusterFacts, PlanFacts, SumScale DEF Cluster
<1>9. plan.k * (plan.m * plan.n) = plan.m * plan.n * plan.k
  BY PlanFacts
<1>10. SumFunction(f) = plan.m * plan.n * plan.k
  BY <1>6, <1>7, <1>8, <1>9
<1>. QED BY <1>2, <1>10 DEF f
------------------------------------------------------------------------------
(* Before every round each block is where the round needs it.              *)
THEOREM CannonInvariant == CannonSpec => []CannonInv
<1>1. CannonInit => CannonInv
  BY CannonAssumption DEF CannonInit, CannonInv
<1>2. CannonInv /\ [CannonNext]_cannonVars => CannonInv'
  <2> SUFFICES ASSUME CannonInv, [CannonNext]_cannonVars PROVE CannonInv'
    OBVIOUS
  <2>1. CASE Load
    <3>1. /\ phase = "load" /\ phase' = "skew" /\ plan' = plan /\ round' = round
          /\ aAt' = Hold(BlocksA, LAMBDA b : IF plan.runtime THEN b ELSE SkewA(b))
          /\ bAt' = Hold(BlocksB, LAMBDA b : IF plan.runtime THEN b ELSE SkewB(b))
      BY <2>1 DEF Load
    <3>2. /\ Hold(BlocksA, LAMBDA b : IF plan.runtime THEN b ELSE SkewA(b))' =
               Hold(BlocksA, LAMBDA b : IF plan.runtime THEN b ELSE SkewA(b))
          /\ Hold(BlocksB, LAMBDA b : IF plan.runtime THEN b ELSE SkewB(b))' =
               Hold(BlocksB, LAMBDA b : IF plan.runtime THEN b ELSE SkewB(b))
      BY <3>1 DEF Hold, BlocksA, BlocksB, Rows, Columns, Depth
    <3> QED BY <3>1, <3>2 DEF CannonInv
  <2>2. CASE InitialSkew
    <3>1. /\ phase = "skew" /\ phase' = "rounds" /\ plan' = plan /\ round' = round
          /\ aAt' = Moved(aAt, SkewFlows(SkewA))
          /\ bAt' = Moved(bAt, SkewFlows(SkewB))
      BY <2>2 DEF InitialSkew
    <3>2. aAt' = HeldA(0) /\ bAt' = HeldB(0) /\ round = 0 /\ round \in 0 .. Q
      BY <3>1, SkewLeavesHeld DEF CannonInv
    <3>3. HeldA(0)' = HeldA(0) /\ HeldB(0)' = HeldB(0)
      BY <3>1 DEF HeldA, HeldB, BlocksA, BlocksB, Rows, Columns, Depth
    <3> QED BY <3>1, <3>2, <3>3 DEF CannonInv
  <2>3. CASE Round
    <3>1. /\ phase = "rounds" /\ round < Q /\ round' = round + 1
          /\ plan' = plan /\ phase' = phase
          /\ HasShift(round) => /\ aAt' = Moved(aAt, ShiftFlowsA(round))
                                /\ bAt' = Moved(bAt, ShiftFlowsB(round))
      BY <2>3 DEF Round
    <3>2. round \in 0 .. Q - 1 /\ round + 1 \in 0 .. Q /\ Q \in Nat
      BY <3>1, CannonAssumption DEF CannonInv
    <3>3. aAt = HeldA(round) /\ bAt = HeldB(round)
      BY <3>1 DEF CannonInv
    <3>4. ASSUME round + 1 < Q \/ plan.restore
          PROVE  aAt' = HeldA(round + 1) /\ bAt' = HeldB(round + 1)
      <4>1. HasShift(round)
        BY <3>2, <3>4 DEF HasShift
      <4> QED BY <3>1, <3>2, <3>3, <4>1, ShiftKeepsHeld
    <3>5. HeldA(round + 1) = HeldA(round)' /\ HeldB(round + 1) = HeldB(round)'
      BY <3>1 DEF HeldA, HeldB, BlocksA, BlocksB, Rows, Columns, Depth
    <3> QED BY <3>1, <3>2, <3>4, <3>5 DEF CannonInv
  <2>4. CASE Store \/ UNCHANGED cannonVars
    <3>1. /\ plan' = plan /\ round' = round /\ aAt' = aAt /\ bAt' = bAt
          /\ phase' = phase \/ (phase = "rounds" /\ round = Q /\ phase' = "stored")
      BY <2>4 DEF Store, cannonVars
    <3>2. /\ HeldA(round)' = HeldA(round) /\ HeldB(round)' = HeldB(round)
          /\ Hold(BlocksA, LAMBDA b : IF plan.runtime THEN b ELSE SkewA(b))' =
               Hold(BlocksA, LAMBDA b : IF plan.runtime THEN b ELSE SkewA(b))
          /\ Hold(BlocksB, LAMBDA b : IF plan.runtime THEN b ELSE SkewB(b))' =
               Hold(BlocksB, LAMBDA b : IF plan.runtime THEN b ELSE SkewB(b))
      BY <3>1 DEF HeldA, HeldB, Hold, BlocksA, BlocksB, Rows, Columns, Depth
    <3> QED BY <3>1, <3>2 DEF CannonInv
  <2> QED BY <2>1, <2>2, <2>3, <2>4 DEF CannonNext
<1> QED BY <1>1, <1>2, PTL DEF CannonSpec

(* Every round finds in each cluster the blocks it multiplies there.       *)
THEOREM OperandsMeet == CannonSpec => []OperandsAtHand
<1>1. CannonInv => OperandsAtHand
  BY DEF CannonInv, OperandsAtHand, HeldA, HeldB
<1> QED BY <1>1, CannonInvariant, PTL

(* With the last shift the blocks are where the skew had put them.         *)
THEOREM SkewComesBack == CannonSpec => []SkewRestored
<1>1. CannonInv => SkewRestored
  BY SkewedIsHeld, FullTurn DEF CannonInv, SkewRestored
<1> QED BY <1>1, CannonInvariant, PTL

(* After every round the products that are done are those of the schedule, *)
(* and the counters agree with them.                                       *)
THEOREM CannonSumsInvariant == CannonSpec => []CannonSums
<1>1. CannonInit => CannonSums
  <2> SUFFICES ASSUME CannonInit PROVE CannonSums
    OBVIOUS
  <2>1. /\ plan \in Plan /\ round = 0 /\ useful = 0 /\ modeled = 0
        /\ products = [c \in Cluster |-> {}]
    BY DEF CannonInit
  <2>2. 0 .. round - 1 = {}
    BY <2>1
  <2>3. products = [c \in Cluster |-> {<<x, AtWork(c, x)>> : x \in 0 .. round - 1}]
    BY <2>1, <2>2
  <2>4. useful = SumFunction(DoneBefore(round))
    BY <2>1, NothingDone
  <2>. QED BY <2>1, <2>3, <2>4 DEF CannonSums
<1>2. CannonInv /\ CannonSums /\ [CannonNext]_cannonVars => CannonSums'
  <2> SUFFICES ASSUME CannonInv, CannonSums, [CannonNext]_cannonVars
               PROVE  CannonSums'
    OBVIOUS
  <2>1. CASE Round
    <3>1. /\ round < Q /\ round' = round + 1 /\ plan' = plan
          /\ products' = [c \in Cluster |->
                            products[c] \cup {<<round, AtWork(c, round)>>}]
          /\ useful' = useful + SumFunction([c \in Cluster |-> Useful(c, round)])
          /\ modeled' = modeled + SumFunction([c \in Cluster |-> Modeled(c, round)])
      BY <2>1 DEF Round
    <3>2. round \in Index /\ round \in Nat /\ plan \in Plan
      BY <3>1, CannonAssumption DEF CannonInv, CannonSums, Index
    <3>3. products' = [c \in Cluster |-> {<<x, AtWork(c, x)>> : x \in 0 .. round' - 1}]
      <4>1. 0 .. round' - 1 = (0 .. round - 1) \cup {round}
        BY <3>1, <3>2
      <4>2. \A c \in Cluster :
              products[c] \cup {<<round, AtWork(c, round)>>}
                = {<<x, AtWork(c, x)>> : x \in (0 .. round - 1) \cup {round}}
        BY DEF CannonSums
      <4>. QED BY <3>1, <4>1, <4>2
    <3>4. useful' = SumFunction(DoneBefore(round + 1))
      BY <3>1, <3>2, OneRound DEF CannonSums
    <3>5. DoneBefore(round + 1) = DoneBefore(round)'
      BY <3>1 DEF DoneBefore, Area, Slice, Before
    <3>6. /\ useful' \in Nat /\ modeled' \in Nat /\ useful' <= modeled'
          /\ plan.pad \/ useful' = modeled'
      <4> DEFINE u == SumFunction([c \in Cluster |-> Useful(c, round)])
                 v == SumFunction([c \in Cluster |-> Modeled(c, round)])
      <4>1. u \in Nat /\ v \in Nat /\ u <= v /\ (plan.pad \/ u = v)
        BY <3>2, OneRoundModels
      <4>2. useful' = useful + u /\ modeled' = modeled + v
        BY <3>1
      <4>3. /\ useful \in Nat /\ modeled \in Nat /\ useful <= modeled
            /\ plan.pad \/ useful = modeled
        BY DEF CannonSums
      <4> HIDE DEF u, v
      <4>4. useful' \in Nat /\ modeled' \in Nat /\ useful' <= modeled'
        BY <4>1, <4>2, <4>3
      <4>5. CASE plan.pad
        BY <4>4, <4>5
      <4>6. CASE ~plan.pad
        BY <4>1, <4>2, <4>3, <4>4, <4>6
      <4>. QED BY <4>5, <4>6
    <3>. QED BY <3>1, <3>2, <3>3, <3>4, <3>5, <3>6 DEF CannonSums
  <2>2. CASE Load \/ InitialSkew \/ Store \/ UNCHANGED cannonVars
    <3>1. UNCHANGED <<plan, round, products, useful, modeled>>
      BY <2>2 DEF Load, InitialSkew, Store, cannonVars
    <3>2. DoneBefore(round)' = DoneBefore(round)
      BY <3>1 DEF DoneBefore, Area, Slice, Before
    <3>. QED BY <3>1, <3>2 DEF CannonSums
  <2>. QED BY <2>1, <2>2 DEF CannonNext
<1>. QED BY <1>1, <1>2, CannonInvariant, PTL DEF CannonSpec

(* Every block of C is complete when it is stored, each pair of blocks     *)
(* multiplied once, and the multiply-adds are those of the whole product.  *)
THEOREM ProductsAreExact == CannonSpec => []ProductExact
<1>1. CannonInv /\ CannonSums => ProductExact
  <2> SUFFICES ASSUME CannonInv, CannonSums, phase = "stored"
               PROVE  /\ \A c \in Cluster : {p[2] : p \in products[c]} = Index
                      /\ useful = plan.m * plan.n * plan.k
                      /\ useful <= modeled /\ (plan.pad \/ useful = modeled)
    BY DEF ProductExact
  <2>1. round = Q /\ plan \in Plan
    BY DEF CannonInv, CannonSums
  <2>2. \A c \in Cluster : {p[2] : p \in products[c]} = Before(c, Q)
    <3>1. ASSUME NEW c \in Cluster
          PROVE  {p[2] : p \in products[c]} = {AtWork(c, x) : x \in 0 .. Q - 1}
      <4>1. products[c] = {<<x, AtWork(c, x)>> : x \in 0 .. Q - 1}
        BY <2>1 DEF CannonSums
      <4>2. \A x \in 0 .. Q - 1 : <<x, AtWork(c, x)>>[2] = AtWork(c, x)
        OBVIOUS
      <4>. QED BY <4>1, <4>2
    <3>. QED BY <3>1 DEF Before
  <2>. QED BY <2>1, <2>2, AllDone DEF CannonSums
<1>. QED BY <1>1, CannonInvariant, CannonSumsInvariant, PTL

(* The shards of every extent of every plan tile it.                       *)
THEOREM ShardsAreTiles == CannonSpec => []ShardsTile
<1>1. CannonSums => ShardsTile
  BY ShardsTiled DEF CannonSums
<1>. QED BY <1>1, CannonSumsInvariant, PTL
==============================================================================
