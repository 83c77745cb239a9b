------------------------- MODULE DistributedGemmProofs -------------------------
(***************************************************************************)
(* Theorems about model_distributed_gemm, for any number of clusters, any  *)
(* plans and any earlier use of the session.                               *)
(***************************************************************************)
EXTENDS DistributedGemm, DistributedL2Proofs

(* The plans.                                                              *)

LEMMA PlanFacts ==
  ASSUME NEW p \in Plans
  PROVE  /\ \A x \in Axes : p.problem[x] \in Nat \ {0} /\ p.grid[x] \in Nat \ {0}
         /\ p.problem.m \in Nat \ {0} /\ p.problem.n \in Nat \ {0}
         /\ p.problem.k \in Nat \ {0}
         /\ p.grid.m \in Nat \ {0} /\ p.grid.n \in Nat \ {0} /\ p.grid.k \in Nat \ {0}
         /\ p.grid.m * p.grid.n * p.grid.k = Cardinality(Cluster)
         /\ p.id \in Nat /\ p.base \in Nat /\ p.pad \in BOOLEAN /\ p.fits \in BOOLEAN
         /\ \A t \in Tensors : /\ p.placement[t] \in Placements
                               /\ p.swizzle[t] \in Swizzles
                               /\ Width(p, t) \in Nat \ {0}
<1>1. IsPlan(p) /\ PerLine \in Nat \ {0}
  BY GemmAssumption
<1>2. /\ p.problem \in [Axes -> Nat \ {0}] /\ p.grid \in [Axes -> Nat \ {0}]
      /\ p.placement \in [Tensors -> Placements] /\ p.swizzle \in [Tensors -> Swizzles]
  BY <1>1 DEF IsPlan
<1>3. \A t \in Tensors : Width(p, t) \in Nat \ {0}
  BY <1>1 DEF Width, IsPlan
<1>4. "m" \in Axes /\ "n" \in Axes /\ "k" \in Axes
  BY DEF Axes
<1>5. /\ p.grid.m * p.grid.n * p.grid.k = Cardinality(Cluster)
      /\ p.id \in Nat /\ p.base \in Nat /\ p.pad \in BOOLEAN /\ p.fits \in BOOLEAN
  BY <1>1 DEF IsPlan
<1>. QED BY <1>2, <1>3, <1>4, <1>5

LEMMA ClusterIs ==
  /\ IsFiniteSet(Cluster) /\ Cardinality(Cluster) \in Nat
  /\ Cluster = 0 .. Cardinality(Cluster) - 1
BY SessionAssumption, FS_CardinalityType

(* Where a rank is in the grid.                                            *)
LEMMA RankAt ==
  ASSUME NEW p \in Plans, NEW rank \in Cluster
  PROVE  /\ At(p, rank).m \in 0 .. p.grid.m - 1
         /\ At(p, rank).n \in 0 .. p.grid.n - 1
         /\ At(p, rank).k \in 0 .. p.grid.k - 1
         /\ \A x \in Axes : At(p, rank)[x] \in 0 .. p.grid[x] - 1
         /\ Rank(p, At(p, rank).m, At(p, rank).n, At(p, rank).k) = rank
<1>1. /\ p.grid.m \in Nat \ {0} /\ p.grid.n \in Nat \ {0} /\ p.grid.k \in Nat \ {0}
      /\ p.grid.m * p.grid.n * p.grid.k = Cardinality(Cluster)
  BY PlanFacts
<1> DEFINE gm == p.grid.m
           gn == p.grid.n
           gk == p.grid.k
<1>2. rank \in Nat /\ rank < (gm * gn) * gk
  BY <1>1, ClusterIs
<1>3. At(p, rank) = [m |-> rank \div (gn * gk), n |-> (rank \div gk) % gn, k |-> rank % gk]
  BY DEF At
<1>4. \A m, n, k : Rank(p, m, n, k) = (m * gn + n) * gk + k
  BY DEF Rank
<1>5. Axes = {"m", "n", "k"}
  BY DEF Axes
<1>6. gm \in Nat \ {0} /\ gn \in Nat \ {0} /\ gk \in Nat \ {0}
  BY <1>1
<1>7. /\ At(p, rank).m = rank \div (gn * gk) /\ At(p, rank).n = (rank \div gk) % gn
      /\ At(p, rank).k = rank % gk
      /\ p.grid["m"] = gm /\ p.grid["n"] = gn /\ p.grid["k"] = gk
  BY <1>3
<1> HIDE DEF gm, gn, gk
<1>8. /\ rank \div (gn * gk) \in 0 .. gm - 1 /\ (rank \div gk) % gn \in 0 .. gn - 1
      /\ rank % gk \in 0 .. gk - 1
      /\ rank = ((rank \div (gn * gk)) * gn + ((rank \div gk) % gn)) * gk + (rank % gk)
  <2>1. Digits(rank, gm, gn, gk)
    BY <1>2, <1>6, Split3
  <2>. QED BY <2>1 DEF Digits
<1>9. Rank(p, At(p, rank).m, At(p, rank).n, At(p, rank).k) = rank
  BY <1>4, <1>7, <1>8
<1>10. /\ p.grid.m = gm /\ p.grid.n = gn /\ p.grid.k = gk
       /\ At(p, rank)["m"] = At(p, rank).m /\ At(p, rank)["n"] = At(p, rank).n
       /\ At(p, rank)["k"] = At(p, rank).k
  BY DEF gm, gn, gk
<1>. QED BY <1>5, <1>7, <1>8, <1>9, <1>10

(* A shard is an interval of its extent.                                   *)
LEMMA ShardIs ==
  ASSUME NEW p \in Plans, NEW axis \in Axes, NEW i \in 0 .. p.grid[axis] - 1
  PROVE  /\ Extent(p, axis) \in Nat \ {0}
         /\ \E a, b \in Nat : a <= b /\ b <= Extent(p, axis) /\ Shard(p, axis, i) = a .. b - 1
<1> DEFINE e == p.problem[axis]
           parts == p.grid[axis]
           w == CeilDiv(e, parts)
           q == e \div parts
           x == e % parts
           one == IF i < x THEN 1 ELSE 0
           start == i * q + Min({i, x})
<1>1. e \in Nat \ {0} /\ parts \in Nat \ {0} /\ i \in Nat /\ i < parts
  BY PlanFacts
<1>2. Shard(p, axis, i) = IF p.pad THEN i * w .. (i + 1) * w - 1
                          ELSE start .. start + q + one - 1
  BY DEF Shard
<1>3. Extent(p, axis) = IF p.pad THEN w * parts ELSE e
  BY DEF Extent
<1>4. w = (e + parts - 1) \div parts
  BY DEF CeilDiv
<1> HIDE DEF e, parts
<1>5. w \in Nat \ {0}
  <2>1. \A y \in Nat \ {0}, z \in Nat \ {0} : (y + z - 1) \div z \in Nat \ {0}
    OBVIOUS
  <2>. QED BY <1>1, <1>4, <2>1
<1>6. q \in Nat /\ x \in Nat /\ e = parts * q + x
  BY <1>1
<1>7. Min({i, x}) = IF i <= x THEN i ELSE x
  BY <1>1, <1>6, MinTwo
<1> HIDE DEF w, q, x
<1>8. one \in Nat /\ Min({i, x}) \in Nat /\ Min({i, x}) + one <= x
  BY <1>1, <1>6, <1>7
<1>9. CASE p.pad
  <2>1. (i + 1) * w <= parts * w /\ i * w <= (i + 1) * w
    BY <1>1, <1>5, TimesMonotone
  <2>2. /\ i * w \in Nat /\ (i + 1) * w \in Nat /\ w * parts \in Nat \ {0}
        /\ parts * w = w * parts
    BY <1>1, <1>5
  <2>3. Shard(p, axis, i) = i * w .. (i + 1) * w - 1 /\ Extent(p, axis) = w * parts
    BY <1>2, <1>3, <1>9
  <2>4. i * w <= (i + 1) * w /\ (i + 1) * w <= Extent(p, axis)
    BY <2>1, <2>2, <2>3
  <2>. QED BY <2>2, <2>3, <2>4
<1>10. CASE ~p.pad
  <2>1. (i + 1) * q <= parts * q
    BY <1>1, <1>6, TimesMonotone
  <2>2. (i + 1) * q = i * q + q /\ i * q \in Nat /\ parts * q \in Nat
    BY <1>1, <1>6
  <2>3. start \in Nat /\ start + q + one \in Nat
    BY <1>6, <1>8, <2>2
  <2>4. start + q + one <= e
    BY <1>1, <1>6, <1>8, <2>1, <2>2
  <2>5. Shard(p, axis, i) = start .. (start + q + one) - 1 /\ Extent(p, axis) = e
    <3>1. Shard(p, axis, i) = start .. start + q + one - 1 /\ Extent(p, axis) = e
      BY <1>2, <1>3, <1>10
    <3>2. start + q + one - 1 = (start + q + one) - 1
      <4>1. start \in Int /\ q \in Int /\ one \in Int
        BY <1>6, <1>8, <2>3
      <4> HIDE DEF start, one
      <4>. QED BY <4>1
    <3>. QED BY <3>1, <3>2, Zenon
  <2> HIDE DEF start, one
  <2>6. start <= start + q + one /\ start + q + one <= Extent(p, axis)
    <3>1. one \in Nat
      BY <1>8
    <3>. QED BY <1>6, <2>3, <2>4, <2>5, <3>1
  <2>. QED BY <1>1, <2>3, <2>5, <2>6
<1>. QED BY <1>9, <1>10

(* Rows and columns of a tensor are axes of the product.                   *)
LEMMA TensorAxes ==
  ASSUME NEW t \in Tensors
  PROVE  RowsOf(t) \in Axes /\ ColsOf(t) \in Axes
BY DEF Tensors, RowsOf, ColsOf, Axes

LEMMA StorageIs ==
  ASSUME NEW p \in Plans, NEW t \in Tensors
  PROVE  /\ Extent(p, RowsOf(t)) \in Nat \ {0} /\ Extent(p, ColsOf(t)) \in Nat \ {0}
         /\ Storage(p, t) \in Nat \ {0}
         /\ \A x \in Nat : x < Extent(p, RowsOf(t)) * Extent(p, ColsOf(t)) =>
              x \div Width(p, t) \in Nat /\ x \div Width(p, t) < Storage(p, t)
<1> DEFINE rows == Extent(p, RowsOf(t))
           cols == Extent(p, ColsOf(t))
           w == Width(p, t)
<1>1. rows \in Nat \ {0} /\ cols \in Nat \ {0}
  <2>1. \A x \in Axes : Extent(p, x) \in Nat \ {0}
    <3> SUFFICES ASSUME NEW x \in Axes PROVE Extent(p, x) \in Nat \ {0}
      OBVIOUS
    <3>1. 0 \in 0 .. p.grid[x] - 1
      BY PlanFacts
    <3>. QED BY <3>1, ShardIs
  <2>. QED BY <2>1, TensorAxes
<1>2. w \in Nat \ {0} /\ Storage(p, t) = CeilDiv(rows * cols, w)
  BY PlanFacts DEF Storage
<1> HIDE DEF rows, cols, w
<1>3. PICK all \in Nat \ {0} : all = rows * cols
  BY <1>1
<1>4. \A y \in Nat \ {0}, z \in Nat \ {0} :
        /\ (y + z - 1) \div z \in Nat \ {0}
        /\ \A x \in Nat : x < y => x \div z \in Nat /\ x \div z < (y + z - 1) \div z
  <2>1. \A y \in Nat \ {0}, z \in Nat \ {0} : (y + z - 1) \div z \in Nat \ {0}
    OBVIOUS
  <2>2. ASSUME NEW y \in Nat \ {0}, NEW z \in Nat \ {0}, NEW x \in Nat, x < y
        PROVE  x \div z \in Nat /\ x \div z < (y + z - 1) \div z
    <3>1. PICK u \in Nat, r \in 0 .. z - 1 : x \div z = u /\ x = z * u + r
      <4>1. x \div z \in Nat /\ x % z \in 0 .. z - 1 /\ x = z * (x \div z) + (x % z)
        OBVIOUS
      <4>. QED BY <4>1
    <3>2. PICK v \in Nat, s \in 0 .. z - 1 :
            (y + z - 1) \div z = v /\ y + z - 1 = z * v + s
      <4>1. y + z - 1 \in Nat
        OBVIOUS
      <4>2. \A d \in Nat : d \div z \in Nat /\ d % z \in 0 .. z - 1
                             /\ d = z * (d \div z) + (d % z)
        OBVIOUS
      <4>. QED BY <4>1, <4>2
    <3>3. u < v
      <4>1. SUFFICES ASSUME v <= u PROVE FALSE
        OBVIOUS
      <4>2. z * v <= z * u /\ z * v \in Nat /\ z * u \in Nat
        BY <4>1, TimesMonotone
      <4>. QED BY <2>2, <3>1, <3>2, <4>2
    <3>. QED BY <3>1, <3>2, <3>3
  <2>. QED BY <2>1, <2>2
<1>5. CeilDiv(all, w) = (all + w - 1) \div w
  BY DEF CeilDiv
<1>6. /\ Storage(p, t) \in Nat \ {0}
      /\ \A x \in Nat : x < rows * cols => x \div w \in Nat /\ x \div w < Storage(p, t)
  BY <1>2, <1>3, <1>4, <1>5
<1>. QED BY <1>1, <1>6 DEF rows, cols, w

(* A block lies in its tensor's region.                                    *)
LEMMA BlockInRegion ==
  ASSUME NEW p \in Plans, NEW t \in Tensors, NEW rank \in Cluster, NEW slot \in Nat
  PROVE  LET at == At(p, rank)  start == Region(p, t, slot)[1]
         IN  /\ start \in Nat
             /\ Region(p, t, slot) = <<start, start + Storage(p, t)>>
             /\ IsFiniteSet(Block(p, t, at, slot))
             /\ Block(p, t, at, slot) \in SUBSET Nat
             /\ \A s \in Block(p, t, at, slot) :
                  start <= s /\ s < start + Storage(p, t)
<1> DEFINE at == At(p, rank)
           rows == Shard(p, RowsOf(t), at[RowsOf(t)])
           cols == Shard(p, ColsOf(t), at[ColsOf(t)])
           start == Region(p, t, slot)[1]
           Line1(r, c) == IF Packed(p, t)
                          THEN (r - Min(rows)) * Cardinality(cols) + c - Min(cols)
                          ELSE r * Extent(p, ColsOf(t)) + c
           of == [x \in rows \X cols |-> start + (Line1(x[1], x[2]) \div Width(p, t))]
<1>1. start \in Nat /\ Region(p, t, slot) = <<start, start + Storage(p, t)>>
  <2> DEFINE first == p.base + (IF t = "A" THEN 0 ELSE Storage(p, "A"))
                        + (IF t = "C" THEN Storage(p, "B") + slot * Storage(p, "C") ELSE 0)
  <2>1. Region(p, t, slot) = <<first, first + Storage(p, t)>>
    BY DEF Region
  <2>2. \A u \in Tensors : Storage(p, u) \in Nat
    BY StorageIs
  <2>3. "A" \in Tensors /\ "B" \in Tensors /\ "C" \in Tensors
    BY DEF Tensors
  <2>4. p.base \in Nat /\ slot * Storage(p, "C") \in Nat
    <3>1. \A u \in Nat : slot * u \in Nat
      OBVIOUS
    <3>. QED BY <2>2, <2>3, <3>1, PlanFacts
  <2>5. first \in Nat
    BY <2>2, <2>3, <2>4
  <2> HIDE DEF first
  <2>. QED BY <2>1, <2>5
<1>2. PICK a \in Nat, b \in Nat : a <= b /\ b <= Extent(p, RowsOf(t)) /\ rows = a .. b - 1
  BY TensorAxes, RankAt, ShardIs
<1>3. PICK c \in Nat, d \in Nat : c <= d /\ d <= Extent(p, ColsOf(t)) /\ cols = c .. d - 1
  BY TensorAxes, RankAt, ShardIs
<1>4. IsFiniteSet(rows) /\ IsFiniteSet(cols) /\ IsFiniteSet(rows \X cols)
  <2>1. IsFiniteSet(rows)
    BY <1>2, FS_Interval
  <2>2. IsFiniteSet(cols)
    BY <1>3, FS_Interval
  <2>. QED BY <2>1, <2>2, FS_Product
<1>5. Block(p, t, at, slot) = {of[x] : x \in rows \X cols}
  <2>1. Block(p, t, at, slot) = {start + (Line1(r, l) \div Width(p, t)) : r \in rows, l \in cols}
    BY DEF Block
  <2>2. ASSUME NEW r \in rows, NEW l \in cols
        PROVE  of[<<r, l>>] = start + (Line1(r, l) \div Width(p, t)) /\ <<r, l>> \in rows \X cols
    OBVIOUS
  <2>3. \A x \in rows \X cols : \E r \in rows, l \in cols : x = <<r, l>>
    OBVIOUS
  <2> HIDE DEF of, Line1, start, rows, cols
  <2>4. ASSUME NEW s
        PROVE  s \in Block(p, t, at, slot) <=> s \in {of[x] : x \in rows \X cols}
    <3>1. s \in Block(p, t, at, slot) <=>
            \E r \in rows, l \in cols : s = start + (Line1(r, l) \div Width(p, t))
      BY <2>1, SMT
    <3>2. s \in {of[x] : x \in rows \X cols} <=> \E x \in rows \X cols : s = of[x]
      OBVIOUS
    <3>3. (\E x \in rows \X cols : s = of[x])
            <=> \E r \in rows, l \in cols : s = of[<<r, l>>]
      BY <2>3
    <3>. QED BY <2>2, <3>1, <3>2, <3>3
  <2>. QED BY <2>4
<1>6. IsFiniteSet(Block(p, t, at, slot))
  <2>1. DOMAIN of = rows \X cols
    OBVIOUS
  <2> HIDE DEF of
  <2>. QED BY <1>4, <1>5, <2>1, FiniteImage
<1>7. ASSUME NEW r \in rows, NEW l \in cols
      PROVE  /\ Line1(r, l) \in Nat
             /\ Line1(r, l) < Extent(p, RowsOf(t)) * Extent(p, ColsOf(t))
  <2>1. /\ r \in Nat /\ a <= r /\ r < b /\ l \in Nat /\ c <= l /\ l < d
        /\ Extent(p, RowsOf(t)) \in Nat /\ Extent(p, ColsOf(t)) \in Nat
    BY <1>2, <1>3, StorageIs
  <2>2. CASE Packed(p, t)
    <3>1. Min(rows) \in rows /\ \A y \in rows : Min(rows) <= y
      <4>1. rows \in SUBSET Nat /\ rows # {}
        BY <1>2
      <4>. QED BY <4>1, NatMin
    <3>2. Min(cols) \in cols /\ \A y \in cols : Min(cols) <= y
      <4>1. cols \in SUBSET Nat /\ cols # {}
        BY <1>3
      <4>. QED BY <4>1, NatMin
    <3>3. Min(rows) = a /\ Min(cols) = c
      <4>1. a \in rows /\ c \in cols
        BY <1>2, <1>3, <2>1
      <4>. QED BY <1>2, <1>3, <3>1, <3>2, <4>1
    <3>4. Cardinality(cols) = d - c
      <4>1. c \in Int /\ d - 1 \in Int /\ c <= d - 1
        BY <2>1
      <4>2. Cardinality(c .. d - 1) = (d - 1) - c + 1
        BY <4>1, FS_Interval
      <4>. QED BY <1>3, <2>1, <4>2
    <3>5. Line1(r, l) = (r - a) * (d - c) + l - c
      BY <2>2, <3>3, <3>4
    <3>6. /\ r - a \in Nat /\ b - a \in Nat /\ r - a < b - a
          /\ l - c \in Nat /\ d - c \in Nat /\ l - c < d - c
      BY <2>1
    <3>7. (r - a) * (d - c) + (l - c) \in Nat
          /\ (r - a) * (d - c) + (l - c) < (b - a) * (d - c)
      BY <3>6, InTable
    <3>8. /\ (b - a) * (d - c) <= Extent(p, RowsOf(t)) * Extent(p, ColsOf(t))
          /\ (b - a) * (d - c) \in Nat
          /\ Extent(p, RowsOf(t)) * Extent(p, ColsOf(t)) \in Nat
      <4>1. b - a <= Extent(p, RowsOf(t)) /\ d - c <= Extent(p, ColsOf(t))
        BY <1>2, <1>3, <2>1
      <4>. QED BY <2>1, <3>6, <4>1, TimesMonotone
    <3>9. (r - a) * (d - c) + l - c = (r - a) * (d - c) + (l - c)
      <4>1. (r - a) * (d - c) \in Int /\ l \in Int /\ c \in Int
        BY <2>1, <3>6
      <4>. QED BY <4>1
    <3>. QED BY <3>5, <3>7, <3>8, <3>9
  <2>3. CASE ~Packed(p, t)
    <3>1. Line1(r, l) = r * Extent(p, ColsOf(t)) + l
      BY <2>3
    <3>2. r < Extent(p, RowsOf(t)) /\ l < Extent(p, ColsOf(t))
      BY <1>2, <1>3, <2>1
    <3>. QED BY <2>1, <3>1, <3>2, InTable
  <2>. QED BY <2>2, <2>3
<1>8. ASSUME NEW s \in Block(p, t, at, slot)
      PROVE  s \in Nat /\ start <= s /\ s < start + Storage(p, t)
  <2>1. PICK x \in rows \X cols : s = start + (Line1(x[1], x[2]) \div Width(p, t))
    <3>1. PICK x \in rows \X cols : s = of[x]
      BY <1>5
    <3>. QED BY <3>1
  <2>2. x[1] \in rows /\ x[2] \in cols
    OBVIOUS
  <2>3. PICK line \in Nat : line = Line1(x[1], x[2])
    BY <1>7, <2>2
  <2>4. line \div Width(p, t) \in Nat /\ line \div Width(p, t) < Storage(p, t)
    BY <1>7, <2>2, <2>3, StorageIs
  <2>5. Storage(p, t) \in Nat
    BY StorageIs
  <2>. QED BY <1>1, <2>1, <2>3, <2>4, <2>5
<1>. QED BY <1>1, <1>6, <1>8

LEMMA RankInCluster ==
  ASSUME NEW p \in Plans, NEW i \in 0 .. p.grid.m - 1, NEW j \in 0 .. p.grid.n - 1,
         NEW l \in 0 .. p.grid.k - 1
  PROVE  Rank(p, i, j, l) \in Cluster
<1>1. /\ p.grid.m \in Nat \ {0} /\ p.grid.n \in Nat \ {0} /\ p.grid.k \in Nat \ {0}
      /\ p.grid.m * p.grid.n * p.grid.k = Cardinality(Cluster)
      /\ p.grid.m * p.grid.n \in Nat
  BY PlanFacts
<1>2. i * p.grid.n + j \in Nat /\ i * p.grid.n + j < p.grid.m * p.grid.n
  BY <1>1, InTable
<1>3. /\ (i * p.grid.n + j) * p.grid.k + l \in Nat
      /\ (i * p.grid.n + j) * p.grid.k + l < (p.grid.m * p.grid.n) * p.grid.k
  BY <1>1, <1>2, InTable
<1>4. Rank(p, i, j, l) = (i * p.grid.n + j) * p.grid.k + l
  BY DEF Rank
<1>. QED BY <1>1, <1>3, <1>4, ClusterIs

LEMMA HomeInCluster ==
  ASSUME NEW p \in Plans, NEW t \in Tensors, NEW rank \in Cluster
  PROVE  HomeOf(p, t, At(p, rank), rank) \in Cluster
<1> DEFINE at == At(p, rank)
<1>1. /\ at.m \in 0 .. p.grid.m - 1 /\ at.n \in 0 .. p.grid.n - 1
      /\ at.k \in 0 .. p.grid.k - 1
  BY RankAt
<1>2. 0 \in 0 .. p.grid.m - 1 /\ 0 \in 0 .. p.grid.n - 1 /\ 0 \in 0 .. p.grid.k - 1
  BY PlanFacts
<1>3. Owner(p, t, at, rank) \in Cluster
  <2>1. /\ Rank(p, at.m, 0, at.k) \in Cluster /\ Rank(p, 0, at.n, at.k) \in Cluster
        /\ Rank(p, at.m, at.n, 0) \in Cluster
    BY <1>1, <1>2, RankInCluster
  <2> HIDE DEF at
  <2>. QED BY <2>1 DEF Owner
<1>4. p.placement[t] \in Placements
  BY PlanFacts
<1> DEFINE place == p.placement[t]
<1>5. HomeOf(p, t, at, rank) = IF place = Replicated THEN rank
                               ELSE IF place = Sharded THEN Owner(p, t, at, rank)
                               ELSE place[2]
  <2> HIDE DEF at
  <2>1. Replicated # Sharded
    <3>1. Replicated[1] = "replicated" /\ Sharded[1] = "sharded"
      BY DEF Replicated, Sharded
    <3>. QED BY <3>1
  <2>. QED BY <2>1 DEF HomeOf
<1>6. \/ place = Replicated \/ place = Sharded
      \/ place[2] \in Cluster
  <2>1. \A c \in Cluster : Canonical(c)[2] = c
    BY DEF Canonical
  <2>. QED BY <1>4, <2>1 DEF Placements
<1> HIDE DEF at, place
<1>7. HomeOf(p, t, at, rank) \in Cluster
  BY <1>3, <1>5, <1>6
<1>. QED BY <1>7 DEF at

(* The copy of a tensor, by its name, that belongs to an owner.            *)
CopyOf(p, name, owner) ==
  (p.id * (4 + Cardinality(Cluster)) + name) * Cardinality(Cluster) + owner

LEMMA AskIs ==
  ASSUME NEW p \in Plans, NEW t \in Tensors, NEW rank \in Cluster
  PROVE  LET x == Ask(p, t, rank)
             at == At(p, rank)
         IN  /\ x.requester = rank /\ x.owner = HomeOf(p, t, at, rank)
             /\ x.owner \in Cluster /\ x.tensor = Name(p, t, at) /\ x.tensor \in Nat
             /\ x.copy = CopyOf(p, x.tensor, x.owner) /\ x.copy \in Nat
             /\ x.sectors = Block(p, t, at, Slot(p, t, at))
             /\ x.sectors \in SUBSET Nat /\ IsFiniteSet(x.sectors)
             /\ x.offset = 0 /\ x.epoch = 0
             /\ x.mapping = Layout(p, t, at, Slot(p, t, at))
             /\ x.interval = Region(p, t, Slot(p, t, at))
             /\ x.interval[1] \in Nat
             /\ x.interval = <<x.interval[1], x.interval[1] + Storage(p, t)>>
             /\ \A s \in x.sectors : x.interval[1] <= s /\ s < x.interval[1] + Storage(p, t)
<1> DEFINE x == Ask(p, t, rank)
           at == At(p, rank)
<1>1. /\ x.requester = rank /\ x.owner = HomeOf(p, t, at, rank)
      /\ x.tensor = Name(p, t, at) /\ x.offset = 0 /\ x.epoch = 0
      /\ x.sectors = Block(p, t, at, Slot(p, t, at))
      /\ x.mapping = Layout(p, t, at, Slot(p, t, at))
      /\ x.interval = Region(p, t, Slot(p, t, at))
      /\ x.copy = CopyOf(p, x.tensor, x.owner)
  BY DEF Ask, CopyOf
<1>2. x.owner \in Cluster
  BY <1>1, HomeInCluster
<1>3. at.k \in Nat
  <2>1. at.k \in 0 .. p.grid.k - 1
    BY RankAt
  <2>. QED BY <2>1
<1> HIDE DEF x
<1>4. Slot(p, t, at) \in Nat /\ Name(p, t, at) \in Nat
  <2> HIDE DEF at
  <2>. QED BY <1>3 DEF Slot, Name
<1>5. x.copy \in Nat
  <2>1. \A a, b, c, d \in Nat : (a * (4 + b) + c) * b + d \in Nat
    OBVIOUS
  <2>2. p.id \in Nat /\ Cardinality(Cluster) \in Nat /\ x.owner \in Nat /\ x.tensor \in Nat
    BY <1>1, <1>2, <1>4, PlanFacts, ClusterIs
  <2>. QED BY <1>1, <2>1, <2>2 DEF CopyOf
<1>6. LET start == Region(p, t, Slot(p, t, at))[1]
      IN  /\ start \in Nat
          /\ Region(p, t, Slot(p, t, at)) = <<start, start + Storage(p, t)>>
          /\ IsFiniteSet(x.sectors) /\ x.sectors \in SUBSET Nat
          /\ \A s \in x.sectors : start <= s /\ s < start + Storage(p, t)
  BY <1>1, <1>4, BlockInRegion
<1> HIDE DEF at
<1>7. /\ x.sectors \in SUBSET Nat /\ IsFiniteSet(x.sectors) /\ x.interval[1] \in Nat
      /\ x.interval = <<x.interval[1], x.interval[1] + Storage(p, t)>>
      /\ \A s \in x.sectors : x.interval[1] <= s /\ s < x.interval[1] + Storage(p, t)
  BY <1>1, <1>6
<1>8. x.tensor \in Nat
  BY <1>1, <1>4
<1>. QED BY <1>1, <1>2, <1>5, <1>7, <1>8 DEF x, at

LEMMA WorkingRanks ==
  ASSUME NEW p \in Plans
  PROVE  Working(p) \subseteq Cluster /\ IsFiniteSet(Working(p))
<1>1. Working(p) \subseteq Cluster
  BY DEF Working
<1>. QED BY <1>1, ClusterIs, FS_Subset

(* A and B blocks are asked for as tensors 0 and 1, and one owner has one  *)
(* copy of a tensor.                                                       *)
LEMMA ReadsAsk ==
  ASSUME NEW p \in Plans
  PROVE  /\ Requests(Reads(p))
         /\ \A x \in Reads(p) : /\ x.offset = 0 /\ x.tensor \in {0, 1}
                                /\ x.copy = CopyOf(p, x.tensor, x.owner)
<1> DEFINE asked == [y \in {"A", "B"} \X Working(p) |-> Ask(p, y[1], y[2])]
<1>1. Reads(p) = {asked[y] : y \in {"A", "B"} \X Working(p)}
  <2>1. Reads(p) = {Ask(p, t, rank) : t \in {"A", "B"}, rank \in Working(p)}
    BY DEF Reads
  <2>2. \A t \in {"A", "B"}, rank \in Working(p) :
          asked[<<t, rank>>] = Ask(p, t, rank) /\ <<t, rank>> \in {"A", "B"} \X Working(p)
    OBVIOUS
  <2>3. \A y \in {"A", "B"} \X Working(p) :
          \E t \in {"A", "B"}, rank \in Working(p) : y = <<t, rank>>
    OBVIOUS
  <2> HIDE DEF asked
  <2>4. ASSUME NEW x
        PROVE  x \in Reads(p) <=> x \in {asked[y] : y \in {"A", "B"} \X Working(p)}
    <3>1. x \in Reads(p) <=> \E t \in {"A", "B"}, rank \in Working(p) : x = Ask(p, t, rank)
      BY <2>1, SMT
    <3>2. x \in {asked[y] : y \in {"A", "B"} \X Working(p)}
            <=> \E y \in {"A", "B"} \X Working(p) : x = asked[y]
      OBVIOUS
    <3>3. (\E y \in {"A", "B"} \X Working(p) : x = asked[y])
            <=> \E t \in {"A", "B"}, rank \in Working(p) : x = asked[<<t, rank>>]
      BY <2>3
    <3>. QED BY <2>2, <3>1, <3>2, <3>3
  <2>. QED BY <2>4
<1>2. IsFiniteSet({"A", "B"} \X Working(p))
  <2>1. {"A", "B"} = {"A"} \cup {"B"}
    OBVIOUS
  <2>2. IsFiniteSet({"A", "B"})
    <3>1. IsFiniteSet({"A"}) /\ IsFiniteSet({"B"})
      BY FS_Singleton
    <3>2. IsFiniteSet({"A"} \cup {"B"})
      BY <3>1, FS_Union
    <3>. QED BY <2>1, <3>2
  <2>. QED BY <2>2, WorkingRanks, FS_Product
<1>3. IsFiniteSet(Reads(p))
  <2>1. DOMAIN asked = {"A", "B"} \X Working(p)
    OBVIOUS
  <2> HIDE DEF asked
  <2>. QED BY <1>1, <1>2, <2>1, FiniteImage
<1>4. ASSUME NEW x \in Reads(p)
      PROVE  /\ x.requester \in Nat /\ x.owner \in Nat /\ x.copy \in Nat
             /\ x.sectors \in SUBSET Nat /\ IsFiniteSet(x.sectors)
             /\ x.offset \in Int
             /\ x.interval \in (Int \X Int) \cup {None}
             /\ x.offset = 0 /\ x.tensor \in {0, 1}
             /\ x.copy = CopyOf(p, x.tensor, x.owner)
  <2>1. PICK t \in {"A", "B"}, rank \in Working(p) : x = Ask(p, t, rank)
    BY DEF Reads
  <2>2. t \in Tensors /\ rank \in Cluster /\ rank \in Nat
    BY WorkingRanks, ClusterIs DEF Tensors
  <2>3. Name(p, t, At(p, rank)) \in {0, 1}
    BY DEF Name
  <2>4. /\ x.requester = rank /\ x.owner \in Cluster /\ x.copy \in Nat
        /\ x.sectors \in SUBSET Nat /\ IsFiniteSet(x.sectors) /\ x.offset = 0
        /\ x.tensor = Name(p, t, At(p, rank))
        /\ x.copy = CopyOf(p, x.tensor, x.owner)
        /\ x.interval[1] \in Nat
        /\ x.interval = <<x.interval[1], x.interval[1] + Storage(p, t)>>
    BY <2>1, <2>2, AskIs
  <2>5. x.interval \in Int \X Int
    <3>1. Storage(p, t) \in Nat
      BY <2>2, StorageIs
    <3>2. x.interval[1] \in Int /\ x.interval[1] + Storage(p, t) \in Int
      BY <2>4, <3>1
    <3>. QED BY <2>4, <3>2
  <2>. QED BY <2>2, <2>3, <2>4, <2>5, ClusterIs
<1>. QED BY <1>3, <1>4 DEF Requests
------------------------------------------------------------------------------
(* The read stage.                                                         *)

Place(x) == <<x.owner, x.line[1], x.tensor, x.line[2]>>

(* A line is looked up once, and one of those who ask for it misses.       *)
ReadRuns ==
  /\ DOMAIN call = CallFields
  /\ call.items = Reads(stage.plan) /\ call.own = {}
  /\ call.left \subseteq Asked(Reads(stage.plan))
  /\ IsFiniteSet(DOMAIN call.answer)
  /\ \A x \in DOMAIN call.answer : Place(x) \in Asked(Reads(stage.plan)) \ call.left
  /\ \A x, y \in Misses : Place(x) = Place(y) => x = y

StageInv ==
  /\ stage # None =>
       /\ stage.plan \in Plans /\ DOMAIN stage = {"plan", "at", "before"}
       /\ stage.at \in {"read", "write", "pressure"}
       /\ stage.at = "read" => ReadRuns
       /\ stage.at = "write" => call = NoCall /\ stage.before = Session
  /\ outcome.result = "ValueError" => stage = None /\ outcome.before = Session

LEMMA SourcesDiffer ==
  DdrMiss # RequesterHit /\ DdrMiss # OwnerHit /\ DdrMiss # MshrMerge
BY DEF DdrMiss, RequesterHit, OwnerHit, MshrMerge, Replay!DdrMiss,
       Replay!RequesterHit, Replay!OwnerHit, Replay!MshrMerge

LEMMA ReadLine ==
  ASSUME stage # None, stage.plan \in Plans, ReadRuns, BulkLine, UNCHANGED stage
  PROVE  ReadRuns'
<1>1. PICK p \in call.left :
        LET owner  == p[1]
            line   == <<p[2], p[4]>>
            asking == {x.requester : x \in {y \in call.items :
                         /\ <<y.owner, y.copy, y.tensor>> = <<p[1], p[2], p[3]>>
                         /\ p[4] \in y.sectors}}
            copy   == {r \in asking : call.policy = BothFill /\ r # owner
                                        /\ Seen(r, line)}
            cold   == IF Seen(owner, line) THEN {} ELSE asking \ copy
            Key(r) == [requester |-> r, owner |-> owner, tensor |-> p[3],
                       line |-> line, interval |-> None]
            source == [x \in {Key(r) : r \in asking} |->
                         IF x.requester \in copy THEN RequesterHit
                         ELSE IF x.requester \notin cold
                         THEN IF x.requester = owner THEN RequesterHit ELSE OwnerHit
                         ELSE IF x.requester = Min(cold) THEN DdrMiss
                         ELSE MshrMerge]
        IN  call' = [call EXCEPT
              !.left = @ \ {p},
              !.answer = Answered(@, source),
              !.queues = [r \in Cluster |->
                 IF call.policy = BothFill /\ r \in asking \ (copy \cup {owner})
                 THEN Enqueued(r, @[r], line) ELSE @[r]]]
  BY DEF BulkLine
<1> DEFINE owner  == p[1]
           line   == <<p[2], p[4]>>
           asking == {x.requester : x \in {y \in call.items :
                         /\ <<y.owner, y.copy, y.tensor>> = <<p[1], p[2], p[3]>>
                         /\ p[4] \in y.sectors}}
           copy   == {r \in asking : call.policy = BothFill /\ r # owner
                                        /\ Seen(r, line)}
           cold   == IF Seen(owner, line) THEN {} ELSE asking \ copy
           Key(r) == [requester |-> r, owner |-> owner, tensor |-> p[3],
                       line |-> line, interval |-> None]
           keys   == {Key(r) : r \in asking}
           source == [x \in keys |->
                         IF x.requester \in copy THEN RequesterHit
                         ELSE IF x.requester \notin cold
                         THEN IF x.requester = owner THEN RequesterHit ELSE OwnerHit
                         ELSE IF x.requester = Min(cold) THEN DdrMiss
                         ELSE MshrMerge]
           queues == [r \in Cluster |->
                 IF call.policy = BothFill /\ r \in asking \ (copy \cup {owner})
                 THEN Enqueued(r, call.queues[r], line) ELSE call.queues[r]]
<1>2. call' = [call EXCEPT !.left = call.left \ {p}, !.answer = Answered(call.answer, source),
                           !.queues = queues]
  BY <1>1
<1>3. DOMAIN call = CallFields /\ stage' = stage
  BY DEF ReadRuns
<1>4. IsFiniteSet(keys)
  <2>1. Requests(Reads(stage.plan))
    BY ReadsAsk
  <2>2. IsFiniteSet(call.items)
    BY <2>1 DEF Requests, ReadRuns
  <2> DEFINE some == {y \in call.items :
                        /\ <<y.owner, y.copy, y.tensor>> = <<p[1], p[2], p[3]>>
                        /\ p[4] \in y.sectors}
             requester == [y \in some |-> y.requester]
             key == [r \in asking |-> Key(r)]
  <2>3. IsFiniteSet(some)
    BY <2>2, FS_Subset
  <2>4. DOMAIN requester = some /\ asking = {requester[y] : y \in some}
    OBVIOUS
  <2> HIDE DEF some, requester
  <2>5. IsFiniteSet(asking)
    BY <2>3, <2>4, FiniteImage
  <2>6. DOMAIN key = asking /\ keys = {key[r] : r \in asking}
    OBVIOUS
  <2> HIDE DEF asking, keys, key
  <2>. QED BY <2>5, <2>6, FiniteImage
<1>5. \A x \in keys : x.owner = p[1] /\ x.tensor = p[3] /\ x.line = <<p[2], p[4]>>
                        /\ x = Key(x.requester)
  OBVIOUS
<1>6. \A x \in keys : source[x] = DdrMiss => x.requester = Min(cold)
  <2> HIDE DEF keys, asking, copy, cold, owner
  <2>. QED BY SourcesDiffer
<1>7. DOMAIN source = keys
  OBVIOUS
<1> HIDE DEF source, queues, keys, asking, copy, cold
<1>8. /\ DOMAIN call' = CallFields /\ call'.items = call.items /\ call'.own = call.own
      /\ call'.left = call.left \ {p} /\ call'.answer = Answered(call.answer, source)
  BY <1>2, <1>3 DEF CallFields
<1>9. /\ DOMAIN call'.answer = keys \cup DOMAIN call.answer
      /\ \A x \in keys : call'.answer[x] = source[x]
      /\ \A x \in DOMAIN call.answer \ keys : call'.answer[x] = call.answer[x]
  BY <1>7, <1>8 DEF Answered
<1>10. p = <<p[1], p[2], p[3], p[4]>> /\ p \in Asked(Reads(stage.plan))
  <2>1. p \in Asked(Reads(stage.plan))
    BY DEF ReadRuns
  <2>. QED BY <2>1 DEF Asked
<1>11. \A x \in keys : Place(x) = p
  BY <1>5, <1>10 DEF Place
<1>12. \A x \in DOMAIN call'.answer : Place(x) \in Asked(Reads(stage.plan)) \ call'.left
  BY <1>8, <1>9, <1>10, <1>11 DEF ReadRuns
<1>13. IsFiniteSet(DOMAIN call'.answer)
  <2>1. IsFiniteSet(DOMAIN call.answer)
    BY DEF ReadRuns
  <2>2. IsFiniteSet(keys \cup DOMAIN call.answer)
    BY <1>4, <2>1, FS_Union
  <2>. QED BY <1>9, <2>2
<1>14. ASSUME NEW x \in Misses', NEW y \in Misses', Place(x) = Place(y)
       PROVE  x = y
  <2>1. /\ x \in DOMAIN call'.answer /\ call'.answer[x] = DdrMiss
        /\ y \in DOMAIN call'.answer /\ call'.answer[y] = DdrMiss
    BY <1>14 DEF Misses, DdrMiss, Replay!DdrMiss
  <2>2. \A z \in DOMAIN call.answer : Place(z) # p
    BY DEF ReadRuns
  <2>3. CASE x \in keys
    <3>1. y \in keys
      BY <1>9, <1>11, <1>14, <2>1, <2>2, <2>3
    <3>2. x.requester = Min(cold) /\ y.requester = Min(cold)
      BY <1>6, <1>9, <2>1, <2>3, <3>1
    <3>. QED BY <1>5, <2>3, <3>1, <3>2
  <2>4. CASE x \notin keys
    <3>1. y \notin keys
      BY <1>9, <1>11, <1>14, <2>1, <2>2, <2>4
    <3>2. x \in Misses /\ y \in Misses
      BY <1>9, <2>1, <2>4, <3>1 DEF Misses
    <3>. QED BY <1>14, <3>2 DEF ReadRuns
  <2>. QED BY <2>3, <2>4
<1>15. /\ call'.items = Reads(stage'.plan) /\ call'.own = {}
       /\ call'.left \subseteq Asked(Reads(stage'.plan))
  BY <1>3, <1>8 DEF ReadRuns
<1>16. \A x, y \in Misses' : Place(x) = Place(y) => x = y
  BY <1>14
<1>. QED BY <1>3, <1>8, <1>12, <1>13, <1>15, <1>16 DEF ReadRuns

(* Every line that missed is transferred, and once: an owner's banks tell  *)
(* requests apart by tensor, and one owner has one copy of a tensor.       *)
LEMMA TransferredOnce ==
  ASSUME stage # None, stage.plan \in Plans, ReadRuns
  PROVE  Transferred(stage.plan, MissChunks) = Cardinality(Misses)
<1> DEFINE p == stage.plan
           Same(x) == {y.line[2] : y \in {z \in Misses :
              <<z.owner, z.tensor, z.line[1]>> = <<x.owner, x.tensor, x.line[1]>>}}
           chunkOf == [x \in Misses |-> [owner |-> x.owner, tensor |-> x.tensor,
                                         copy |-> x.line[1], sectors |-> Same(x)]]
           chunks == MissChunks
           Id(c) == RequestId(p, chunks, c)
<1>1. Misses \subseteq DOMAIN call.answer /\ IsFiniteSet(Misses)
  <2>1. Misses \subseteq DOMAIN call.answer
    BY DEF Misses
  <2>. QED BY <2>1, FS_Subset DEF ReadRuns
<1>2. ASSUME NEW x \in Misses
      PROVE  /\ x.tensor \in {0, 1} /\ x.line[2] \in Nat
             /\ x.line[1] = CopyOf(p, x.tensor, x.owner)
  <2>1. Place(x) \in Asked(Reads(p))
    BY <1>1 DEF ReadRuns
  <2>2. PICK w \in Reads(p) : Place(x) \in {<<w.owner, w.copy, w.tensor, s>> : s \in w.sectors}
    BY <2>1 DEF Asked
  <2>3. PICK s \in w.sectors : Place(x) = <<w.owner, w.copy, w.tensor, s>>
    BY <2>2
  <2>4. x.owner = w.owner /\ x.line[1] = w.copy /\ x.tensor = w.tensor /\ x.line[2] = s
    BY <2>3 DEF Place
  <2>5. w.tensor \in {0, 1} /\ w.copy = CopyOf(p, w.tensor, w.owner) /\ s \in Nat
    BY ReadsAsk DEF Requests
  <2>. QED BY <2>4, <2>5
<1>3. chunks = {chunkOf[x] : x \in Misses} /\ DOMAIN chunkOf = Misses
  BY DEF MissChunks
<1>4. \A x \in Misses : /\ chunkOf[x].owner = x.owner /\ chunkOf[x].tensor = x.tensor
                        /\ chunkOf[x].copy = x.line[1] /\ chunkOf[x].sectors = Same(x)
  OBVIOUS
<1>5. \A x, y \in Misses : x.owner = y.owner /\ x.tensor = y.tensor =>
                             chunkOf[x] = chunkOf[y]
  <2> SUFFICES ASSUME NEW x \in Misses, NEW y \in Misses,
                      x.owner = y.owner, x.tensor = y.tensor
               PROVE  chunkOf[x] = chunkOf[y]
    OBVIOUS
  <2>1. x.line[1] = y.line[1]
    BY <1>2
  <2>2. Same(x) = Same(y)
    BY <2>1
  <2> HIDE DEF Same
  <2>. QED BY <2>1, <2>2
<1> HIDE DEF chunkOf, chunks, p
<1>6. IsFiniteSet(chunks)
  BY <1>1, <1>3, FiniteImage
<1>7. \A c \in chunks : c.tensor \in {0, 1} /\ c.copy = CopyOf(p, c.tensor, c.owner)
  BY <1>2, <1>3, <1>4
<1>8. \A c, d \in chunks : c.owner = d.owner /\ c.tensor = d.tensor => c = d
  BY <1>3, <1>4, <1>5
<1>9. ASSUME NEW c \in chunks PROVE Id(c) = Offset(chunks, c)
  <2>1. {d \in chunks : /\ <<d.owner, d.tensor>> = <<c.owner, c.tensor>>
                        /\ d.copy < c.copy} = {}
    <3>1. \A d \in chunks : d.owner = c.owner /\ d.tensor = c.tensor => d = c
      BY <1>8
    <3>2. c.copy \in Int
      <4>1. PICK x \in Misses : c = chunkOf[x]
        BY <1>3
      <4>2. Place(x) \in Asked(Reads(p))
        BY <1>1 DEF ReadRuns, p
      <4>3. PICK w \in Reads(p) : Place(x) \in {<<w.owner, w.copy, w.tensor, s>> : s \in w.sectors}
        BY <4>2 DEF Asked
      <4>4. PICK s \in w.sectors : Place(x) = <<w.owner, w.copy, w.tensor, s>>
        BY <4>3
      <4>5. c.copy = w.copy
        BY <1>4, <4>1, <4>4 DEF Place
      <4>6. w.copy \in Nat
        BY ReadsAsk DEF Requests, p
      <4>. QED BY <4>5, <4>6
    <3>. QED BY <3>1, <3>2
  <2>2. Offset(chunks, c) \in Nat
    <3>1. IsFiniteSet({d \in chunks : d.owner = c.owner /\ d.tensor < c.tensor})
      BY <1>6, FS_Subset
    <3>. QED BY <3>1, FS_CardinalityType DEF Offset
  <2>3. Cardinality({}) = 0
    BY FS_EmptySet
  <2>. QED BY <2>1, <2>2, <2>3 DEF RequestId
<1>10. ASSUME NEW c \in chunks, NEW d \in chunks, c.owner = d.owner, Id(c) = Id(d)
       PROVE  c = d
  <2>1. ASSUME NEW e \in chunks, e.tensor = 0 PROVE Offset(chunks, e) = 0
    <3>1. {f \in chunks : f.owner = e.owner /\ f.tensor < e.tensor} = {}
      BY <1>7, <2>1
    <3>. QED BY <3>1, FS_EmptySet DEF Offset
  <2>2. ASSUME NEW e \in chunks, NEW f \in chunks, e.tensor = 0, f.tensor = 1,
               e.owner = f.owner
        PROVE  Offset(chunks, f) # 0
    <3> DEFINE before == {g \in chunks : g.owner = f.owner /\ g.tensor < f.tensor}
    <3>1. e \in before /\ IsFiniteSet(before)
      <4>1. e \in before
        BY <2>2
      <4>2. IsFiniteSet(before)
        BY <1>6, FS_Subset
      <4>. QED BY <4>1, <4>2
    <3>2. Offset(chunks, f) = Cardinality(before)
      BY DEF Offset
    <3> HIDE DEF before
    <3>. QED BY <3>1, <3>2, FS_EmptySet
  <2>3. Offset(chunks, c) = Offset(chunks, d)
    BY <1>9, <1>10
  <2>4. c.tensor = d.tensor
    BY <1>7, <1>10, <2>1, <2>2, <2>3
  <2>. QED BY <1>8, <1>10, <2>4
<1> DEFINE transfer == [x \in Misses |-> <<x.owner, Id(chunkOf[x]),
                                           Decode(SwizzleOf(p, x.tensor), x.line[2])>>]
<1>11. ASSUME NEW x \in Misses, NEW y \in Misses, transfer[x] = transfer[y]
       PROVE  x = y
  <2>1. /\ x.owner = y.owner /\ Id(chunkOf[x]) = Id(chunkOf[y])
        /\ Decode(SwizzleOf(p, x.tensor), x.line[2]) = Decode(SwizzleOf(p, y.tensor), y.line[2])
    BY <1>11
  <2>2. chunkOf[x] = chunkOf[y]
    BY <1>3, <1>4, <1>10, <2>1
  <2>3. x.tensor = y.tensor
    BY <1>4, <2>2
  <2>4. x.line[1] = y.line[1]
    BY <1>2, <2>1, <2>3
  <2>5. \A a, b \in Nat : \A w : Decode(w, a) = Decode(w, b) => a = b
    BY DEF Decode
  <2>6. x.line[2] = y.line[2]
    BY <1>2, <2>1, <2>3, <2>5
  <2>7. Place(x) = Place(y)
    BY <2>1, <2>3, <2>4, <2>6 DEF Place
  <2>. QED BY <2>7 DEF ReadRuns
<1>12. Transferred(p, chunks) = Cardinality({transfer[x] : x \in Misses})
  <2> DEFINE Sent(c) == {<<c.owner, Id(c), Decode(SwizzleOf(p, c.tensor), s)>> : s \in c.sectors}
            sent == UNION {Sent(c) : c \in chunks}
  <2>1. Transferred(p, chunks) = Cardinality(sent)
    BY DEF Transferred
  <2>2. ASSUME NEW z \in sent PROVE z \in {transfer[x] : x \in Misses}
    <3>1. PICK c \in chunks : z \in Sent(c)
      OBVIOUS
    <3>2. PICK s \in c.sectors : z = <<c.owner, Id(c), Decode(SwizzleOf(p, c.tensor), s)>>
      BY <3>1
    <3>3. PICK x \in Misses : c = chunkOf[x] /\ s \in Same(x)
      BY <1>3, <1>4
    <3>4. PICK y \in Misses : /\ s = y.line[2] /\ y.owner = x.owner
                              /\ y.tensor = x.tensor
      BY <3>3
    <3>5. chunkOf[y] = c /\ c.owner = y.owner /\ c.tensor = y.tensor
      BY <1>4, <1>5, <3>3, <3>4
    <3>6. z = transfer[y]
      BY <3>2, <3>4, <3>5
    <3>. QED BY <3>6
  <2>3. ASSUME NEW x \in Misses PROVE transfer[x] \in sent
    <3>1. chunkOf[x] \in chunks /\ x.line[2] \in chunkOf[x].sectors
      BY <1>3, <1>4
    <3>2. /\ chunkOf[x].owner = x.owner /\ chunkOf[x].tensor = x.tensor
      BY <1>4
    <3>3. transfer[x] \in Sent(chunkOf[x])
      BY <3>1, <3>2
    <3>. QED BY <3>1, <3>3
  <2> HIDE DEF sent, transfer
  <2>4. sent = {transfer[x] : x \in Misses}
    BY <2>2, <2>3
  <2>. QED BY <2>1, <2>4
<1>13. DOMAIN transfer = Misses
  OBVIOUS
<1> HIDE DEF transfer
<1>14. Cardinality({transfer[x] : x \in Misses}) = Cardinality(Misses)
  BY <1>1, <1>11, <1>13, SameSize
<1>. QED BY <1>12, <1>14 DEF p, chunks

LEMMA ReadBegins ==
  ASSUME StageInv, NEW p \in Plans, StartRead(p)
  PROVE  ReadRuns'
<1> DEFINE left == Asked(Reads(p))
<1>1. /\ ReplayBulk(Reads(p), p.policy) /\ stage'.plan = p
  BY DEF StartRead
<1>2. call' = [Running("bulk", p.policy, <<>>, {}, {}) EXCEPT
                 !.items = Reads(p), !.left = left]
  BY <1>1 DEF ReplayBulk, Asked
<1> HIDE DEF left
<1>3. /\ DOMAIN call' = CallFields /\ call'.items = Reads(p) /\ call'.own = {}
      /\ call'.left = left /\ call'.answer = <<>>
  BY <1>2 DEF Running, CallFields
<1>4. DOMAIN call'.answer = {}
  BY <1>3
<1>5. Misses' = {}
  BY <1>4 DEF Misses
<1>6. IsFiniteSet({})
  BY FS_EmptySet
<1>. QED BY <1>1, <1>3, <1>4, <1>5, <1>6 DEF ReadRuns, left

LEMMA StageStep ==
  ASSUME StageInv, [Next]_vars
  PROVE  StageInv'
<1>1. CASE \E p \in Plans : StartRead(p)
  <2>1. PICK p \in Plans : StartRead(p)
    BY <1>1
  <2>2. ReadRuns'
    BY <2>1, ReadBegins
  <2>3. /\ stage'.plan = p /\ DOMAIN stage' = {"plan", "at", "before"}
        /\ stage'.at = "read" /\ outcome'.result = "none"
    BY <2>1 DEF StartRead, Nowhere
  <2>. QED BY <2>2, <2>3 DEF StageInv
<1>2. CASE \E p \in Plans : RefuseRead(p)
  <2>1. PICK p \in Plans : RefuseRead(p)
    BY <1>2
  <2>2. /\ stage = None /\ stage' = None /\ UNCHANGED sessionVars
        /\ outcome'.before = Session
    BY <2>1 DEF RefuseRead, Raise, Ended
  <2>3. Session' = Session
    BY <2>2 DEF Session, sessionVars, tables
  <2>. QED BY <2>2, <2>3 DEF StageInv
<1>3. CASE Serve
  <2>1. /\ stage # None /\ call # NoCall /\ stage' = stage /\ outcome' = outcome
        /\ BulkLine \/ BulkFlush \/ FillOwn
    BY <1>3 DEF Serve, gemmVars, BulkLine, BulkFlush, FillOwn
  <2>2. ASSUME stage.at = "read" PROVE ReadRuns'
    <3>1. ReadRuns /\ stage.plan \in Plans
      BY <2>1, <2>2 DEF StageInv
    <3>2. CASE BulkLine
      BY <2>1, <3>1, <3>2, ReadLine
    <3>3. CASE BulkFlush
      <4>1. PICK c \in Cluster : call' = [call EXCEPT !.queues[c] = Tail(@)]
        BY <3>3 DEF BulkFlush
      <4>2. DOMAIN call = CallFields
        BY <3>1 DEF ReadRuns
      <4>3. /\ DOMAIN call' = DOMAIN call /\ call'.items = call.items /\ call'.own = call.own
            /\ call'.left = call.left /\ call'.answer = call.answer
        BY <4>1, <4>2 DEF CallFields
      <4>4. Misses' = Misses
        BY <4>3 DEF Misses, DdrMiss, Replay!DdrMiss
      <4>. QED BY <2>1, <3>1, <4>3, <4>4 DEF ReadRuns
    <3>4. CASE FillOwn
      BY <3>1, <3>4 DEF FillOwn, ReadRuns, First
    <3>. QED BY <2>1, <3>2, <3>3, <3>4
  <2>. QED BY <2>1, <2>2 DEF StageInv
<1>4. CASE FinishRead
  <2>1. /\ stage # None /\ stage.at = "read" /\ Return /\ stage.plan \in Plans /\ ReadRuns
        /\ DOMAIN stage = {"plan", "at", "before"}
    BY <1>4 DEF FinishRead, StageInv
  <2>2. Transferred(stage.plan, MissChunks) = Cardinality(Misses)
    BY <2>1, TransferredOnce
  <2>3. /\ stage' = [stage EXCEPT !.at = "write", !.before = <<caches, tables>>]
        /\ outcome' = outcome
    BY <1>4, <2>2 DEF FinishRead
  <2>4. /\ stage'.plan = stage.plan /\ DOMAIN stage' = {"plan", "at", "before"}
        /\ stage'.at = "write" /\ stage'.before = Session
    BY <2>1, <2>3 DEF Session
  <2>5. call' = NoCall /\ Session' = Session
    BY <2>1 DEF Return, Session, tables
  <2>. QED BY <2>1, <2>3, <2>4, <2>5 DEF StageInv
<1>5. CASE StartWrite
  <2>1. /\ stage # None /\ stage' = [stage EXCEPT !.at = "pressure"] /\ outcome' = outcome
        /\ stage.plan \in Plans /\ DOMAIN stage = {"plan", "at", "before"}
    BY <1>5 DEF StartWrite, StageInv
  <2>2. /\ stage'.plan = stage.plan /\ DOMAIN stage' = {"plan", "at", "before"}
        /\ stage'.at = "pressure"
    BY <2>1
  <2>. QED BY <2>1, <2>2 DEF StageInv
<1>6. CASE RefuseWrite
  <2>1. /\ stage # None /\ stage.at = "write" /\ stage' = None /\ UNCHANGED sessionVars
        /\ outcome'.before = stage.before
    BY <1>6 DEF RefuseWrite, Raise, Ended
  <2>2. stage.before = Session
    BY <2>1 DEF StageInv
  <2>3. Session' = Session
    BY <2>1 DEF Session, sessionVars, tables
  <2>. QED BY <2>1, <2>2, <2>3 DEF StageInv
<1>7. CASE FinishWrite
  <2>1. stage' = None /\ outcome'.result = "GEMM"
    BY <1>7 DEF FinishWrite, Ended
  <2>. QED BY <2>1 DEF StageInv
<1>8. CASE NewSession
  <2>1. stage' = None /\ outcome'.result = "none"
    BY <1>8 DEF NewSession, Nowhere
  <2>. QED BY <2>1 DEF StageInv
<1>9. CASE UNCHANGED vars
  <2>1. /\ stage' = stage /\ outcome' = outcome /\ call' = call /\ Session' = Session
    BY <1>9 DEF vars, gemmVars, sessionVars, Session, tables
  <2>2. Misses' = Misses
    BY <2>1 DEF Misses, DdrMiss, Replay!DdrMiss
  <2>. QED BY <2>1, <2>2 DEF StageInv, ReadRuns
<1>. QED BY <1>1, <1>2, <1>3, <1>4, <1>5, <1>6, <1>7, <1>8, <1>9 DEF Next

(* Where a GEMM stands, and what its read stage has done.                  *)
THEOREM StageInvariant == Spec => []StageInv
<1>1. Init => StageInv
  BY DEF Init, StageInv, Nowhere
<1>. QED BY <1>1, StageStep, PTL DEF Spec

(* A stage that raises leaves the session as it found it: the comparison   *)
(* after a read has filled the caches can not fail.                        *)
THEOREM RefusalsLeaveSession == Spec => []RefusedStagesLeaveSession
<1>1. StageInv => RefusedStagesLeaveSession
  BY DEF StageInv, RefusedStagesLeaveSession
<1>. QED BY <1>1, StageInvariant, PTL
------------------------------------------------------------------------------
(* Refusals.                                                               *)

(* The owners ask for what they write: tensor 2, or 3 and on for the       *)
(* partial sums.                                                           *)
LEMMA PressureIs ==
  ASSUME NEW p \in Plans, NEW x \in Pressure(p)
  PROVE  \E rank \in Working(p) :
           LET w == Ask(p, "C", rank)
           IN  /\ rank \in Cluster
               /\ x.requester = w.owner /\ x.owner = w.owner /\ x.copy = w.copy
               /\ x.sectors = w.sectors /\ x.offset = w.offset /\ x.tensor = w.tensor
               /\ x.mapping = w.mapping /\ x.interval = w.interval /\ x.epoch = w.epoch
<1>1. PICK rank \in Working(p) :
        x = [Ask(p, "C", rank) EXCEPT !.requester = Ask(p, "C", rank).owner]
  BY DEF Pressure
<1> DEFINE w == Ask(p, "C", rank)
<1>2. DOMAIN w = {"requester", "owner", "copy", "sectors", "offset", "tensor",
                  "mapping", "interval", "epoch"}
  BY DEF Ask
<1>3. x = [w EXCEPT !.requester = w.owner]
  BY <1>1
<1> HIDE DEF w
<1>4. /\ x.requester = w.owner /\ x.owner = w.owner /\ x.copy = w.copy
      /\ x.sectors = w.sectors /\ x.offset = w.offset /\ x.tensor = w.tensor
      /\ x.mapping = w.mapping /\ x.interval = w.interval /\ x.epoch = w.epoch
  BY <1>2, <1>3
<1>5. rank \in Cluster
  BY WorkingRanks
<1>. QED BY <1>4, <1>5 DEF w

LEMMA PressureAsks ==
  ASSUME NEW p \in Plans
  PROVE  Requests(Pressure(p))
<1> DEFINE asked == [rank \in Working(p) |->
                       [Ask(p, "C", rank) EXCEPT !.requester = Ask(p, "C", rank).owner]]
<1>1. Pressure(p) = {asked[rank] : rank \in Working(p)} /\ DOMAIN asked = Working(p)
  BY DEF Pressure
<1>2. IsFiniteSet(Working(p))
  BY WorkingRanks
<1> HIDE DEF asked
<1>3. IsFiniteSet(Pressure(p))
  BY <1>1, <1>2, FiniteImage
<1>4. ASSUME NEW x \in Pressure(p)
      PROVE  /\ x.requester \in Nat /\ x.owner \in Nat /\ x.copy \in Nat
             /\ x.sectors \in SUBSET Nat /\ IsFiniteSet(x.sectors)
             /\ x.offset \in Int
             /\ x.interval \in (Int \X Int) \cup {None}
  <2>1. PICK rank \in Working(p) :
           LET w == Ask(p, "C", rank)
           IN  /\ rank \in Cluster
               /\ x.requester = w.owner /\ x.owner = w.owner /\ x.copy = w.copy
               /\ x.sectors = w.sectors /\ x.offset = w.offset /\ x.tensor = w.tensor
               /\ x.mapping = w.mapping /\ x.interval = w.interval /\ x.epoch = w.epoch
    BY PressureIs
  <2>2. "C" \in Tensors
    BY DEF Tensors
  <2>3. /\ x.owner \in Cluster /\ x.requester = x.owner /\ x.copy \in Nat
        /\ x.sectors \in SUBSET Nat /\ IsFiniteSet(x.sectors) /\ x.offset = 0
        /\ x.interval[1] \in Nat
        /\ x.interval = <<x.interval[1], x.interval[1] + Storage(p, "C")>>
    BY <2>1, <2>2, AskIs
  <2>4. x.interval \in Int \X Int
    <3>1. Storage(p, "C") \in Nat
      BY <2>2, StorageIs
    <3>2. PICK from \in Int, to \in Int : from = x.interval[1] /\ to = from + Storage(p, "C")
      BY <2>3, <3>1
    <3>3. x.interval = <<from, to>>
      BY <2>3, <3>2
    <3>. QED BY <3>3
  <2>. QED BY <2>3, <2>4, ClusterIs
<1>. QED BY <1>3, <1>4 DEF Requests

(* A plan that a session refuses is refused by what the session becomes.   *)
LEMMA PlansStayOut ==
  ASSUME TablesAgree, NEW new, Requests(new), Admissible(new), CommitTables(new),
         copied \subseteq copied', NEW p \in Plans
  PROVE  /\ ReadAdmitted(p)' => ReadAdmitted(p)
         /\ WriteAdmitted(p)' => WriteAdmitted(p)
<1> DEFINE reads == Reads(p)
           writes == Pressure(p)
<1>1. Requests(reads) /\ Requests(writes)
  BY ReadsAsk, PressureAsks
<1>2. /\ Admissible(reads)' => Admissible(reads)
      /\ Admissible(writes)' => Admissible(writes)
      /\ MappingsAgree(writes)' => MappingsAgree(writes)
      /\ Writable(writes)' => Writable(writes)
  BY <1>1, RefusalLasts
<1>3. ReadAdmitted(p)' => ReadAdmitted(p)
  BY <1>2 DEF ReadAdmitted
<1>4. WriteAdmitted(p)' => WriteAdmitted(p)
  BY <1>2 DEF WriteAdmitted
<1>. QED BY <1>3, <1>4

(* Why a plan was refused, and that what refuses it is still there.        *)
RefusedInv ==
  /\ TablesAgree
  /\ \A p \in refused : p \in Plans /\ ~(ReadAdmitted(p) /\ WriteAdmitted(p))
  /\ \A p \in refused : stage # None /\ stage.plan = p =>
       stage.at # "pressure" /\ ~WriteAdmitted(p)
  /\ outcome.result = "GEMM" => outcome.plan \notin refused

LEMMA AdmittedAlike ==
  ASSUME UNCHANGED tables, NEW p
  PROVE  (ReadAdmitted(p)' <=> ReadAdmitted(p)) /\ (WriteAdmitted(p)' <=> WriteAdmitted(p))
<1>1. homes' = homes /\ mappings' = mappings /\ intervals' = intervals /\ copied' = copied
  BY DEF tables
<1>2. Admissible(Reads(p))' <=> Admissible(Reads(p))
  BY <1>1, SMTT(60) DEF Admissible, InUnit, HomesAgree, Home, MappingsAgree, WellPlaced, OwnersAgree,
              Placed, Span, Candidate, Overlap
<1>3. Admissible(Pressure(p))' <=> Admissible(Pressure(p))
  BY <1>1, SMTT(60) DEF Admissible, InUnit, HomesAgree, Home, MappingsAgree, WellPlaced, OwnersAgree,
              Placed, Span, Candidate, Overlap
<1>4. /\ MappingsAgree(Pressure(p))' <=> MappingsAgree(Pressure(p))
      /\ Writable(Pressure(p))' <=> Writable(Pressure(p))
  BY <1>1 DEF MappingsAgree, Writable
<1>. QED BY <1>2, <1>3, <1>4 DEF ReadAdmitted, WriteAdmitted

LEMMA RefusedStep ==
  ASSUME StageInv, RefusedInv, [Next]_vars
  PROVE  RefusedInv'
<1>1. CASE \E p \in Plans : StartRead(p)
  <2>1. PICK p \in Plans : StartRead(p)
    BY <1>1
  <2>2. /\ stage'.plan = p /\ stage'.at = "read" /\ outcome'.result = "none"
        /\ refused' = refused /\ ReadAdmitted(p) /\ ReplayBulk(Reads(p), p.policy)
    BY <2>1 DEF StartRead, Nowhere
  <2>3. /\ Requests(Reads(p)) /\ Admissible(Reads(p)) /\ CommitTables(Reads(p))
        /\ copied \subseteq copied'
    BY <2>2, ReadsAsk DEF ReplayBulk
  <2>4. TablesAgree'
    BY <2>3, TablesGrow DEF RefusedInv
  <2>5. \A q \in Plans : /\ ReadAdmitted(q)' => ReadAdmitted(q)
                         /\ WriteAdmitted(q)' => WriteAdmitted(q)
    BY <2>3, PlansStayOut DEF RefusedInv
  <2>6. \A q \in refused' : q \in Plans /\ ~(ReadAdmitted(q)' /\ WriteAdmitted(q)')
    BY <2>2, <2>5 DEF RefusedInv
  <2>7. p \in refused => ~WriteAdmitted(p)'
    BY <2>2, <2>5 DEF RefusedInv
  <2>8. \A q \in refused' : stage' # None /\ stage'.plan = q =>
          stage'.at # "pressure" /\ ~WriteAdmitted(q)'
    BY <2>2, <2>7
  <2>. QED BY <2>2, <2>4, <2>6, <2>8 DEF RefusedInv
<1>2. CASE StartWrite
  <2> DEFINE p == stage.plan
  <2>1. /\ stage # None /\ stage.at = "write" /\ WriteAdmitted(p) /\ p \in Plans
        /\ ApplyOutputPressure(Pressure(p))
        /\ stage' = [stage EXCEPT !.at = "pressure"] /\ outcome' = outcome
        /\ refused' = refused /\ DOMAIN stage = {"plan", "at", "before"}
    BY <1>2 DEF StartWrite, StageInv
  <2> HIDE DEF p
  <2>2. /\ Requests(Pressure(p)) /\ Admissible(Pressure(p)) /\ CommitTables(Pressure(p))
        /\ copied' = copied
    BY <2>1, PressureAsks DEF ApplyOutputPressure
  <2>3. TablesAgree'
    BY <2>2, TablesGrow DEF RefusedInv
  <2>4. \A q \in Plans : /\ ReadAdmitted(q)' => ReadAdmitted(q)
                         /\ WriteAdmitted(q)' => WriteAdmitted(q)
    BY <2>2, PlansStayOut DEF RefusedInv
  <2>5. \A q \in refused' : q \in Plans /\ ~(ReadAdmitted(q)' /\ WriteAdmitted(q)')
    BY <2>1, <2>4 DEF RefusedInv
  <2>6. p \notin refused /\ stage'.plan = p
    BY <2>1 DEF RefusedInv, p
  <2>. QED BY <2>1, <2>3, <2>5, <2>6 DEF RefusedInv
<1>3. ASSUME UNCHANGED tables
      PROVE  /\ TablesAgree'
             /\ \A q : /\ ReadAdmitted(q)' <=> ReadAdmitted(q)
                       /\ WriteAdmitted(q)' <=> WriteAdmitted(q)
  BY <1>3, AllowedStays, AdmittedAlike DEF RefusedInv
<1>4. CASE \E p \in Plans : RefuseRead(p)
  <2>1. PICK p \in Plans : RefuseRead(p)
    BY <1>4
  <2>2. /\ stage' = None /\ ~ReadAdmitted(p) /\ UNCHANGED tables
        /\ refused' = refused \cup {p} /\ outcome'.result = "ValueError"
    BY <2>1 DEF RefuseRead, Raise, Ended, sessionVars
  <2>. QED BY <1>3, <2>2 DEF RefusedInv
<1>5. CASE RefuseWrite
  <2>1. /\ stage # None /\ stage.at = "write" /\ ~WriteAdmitted(stage.plan)
        /\ stage' = None /\ stage.plan \in Plans /\ UNCHANGED tables
        /\ refused' = refused \cup {stage.plan} /\ outcome'.result = "ValueError"
    BY <1>5 DEF RefuseWrite, Raise, Ended, sessionVars, StageInv
  <2>. QED BY <1>3, <2>1 DEF RefusedInv
<1>6. CASE Serve
  <2>1. /\ UNCHANGED tables /\ stage' = stage /\ outcome' = outcome /\ refused' = refused
    BY <1>6 DEF Serve, gemmVars, BulkLine, BulkFlush, FillOwn
  <2>. QED BY <1>3, <2>1 DEF RefusedInv
<1>7. CASE FinishRead
  <2>1. /\ stage # None /\ stage.at = "read" /\ Return /\ stage.plan \in Plans /\ ReadRuns
        /\ DOMAIN stage = {"plan", "at", "before"}
    BY <1>7 DEF FinishRead, StageInv
  <2>2. Transferred(stage.plan, MissChunks) = Cardinality(Misses)
    BY <2>1, TransferredOnce
  <2>3. /\ stage' = [stage EXCEPT !.at = "write", !.before = <<caches, tables>>]
        /\ outcome' = outcome /\ refused' = refused /\ UNCHANGED tables
    BY <1>7, <2>2 DEF FinishRead, Return
  <2>4. stage'.plan = stage.plan /\ stage'.at = "write"
    BY <2>1, <2>3
  <2>. QED BY <1>3, <2>1, <2>3, <2>4 DEF RefusedInv
<1>8. CASE FinishWrite
  <2>1. /\ stage # None /\ stage.at = "pressure" /\ UNCHANGED tables /\ stage' = None
        /\ outcome'.result = "GEMM" /\ outcome'.plan = stage.plan /\ refused' = refused
    BY <1>8 DEF FinishWrite, Ended, Return
  <2>. QED BY <1>3, <2>1 DEF RefusedInv
<1>9. CASE NewSession
  <2>1. /\ stage' = None /\ outcome'.result = "none" /\ refused' = {}
        /\ homes' = [k \in {} |-> None] /\ intervals' = [k \in {} |-> None]
    BY <1>9 DEF NewSession, Nowhere, Reset
  <2>2. TablesAgree'
    BY <2>1 DEF TablesAgree, Overlap
  <2>. QED BY <2>1, <2>2 DEF RefusedInv
<1>10. CASE UNCHANGED vars
  <2>1. /\ UNCHANGED tables /\ stage' = stage /\ outcome' = outcome /\ refused' = refused
    BY <1>10 DEF vars, sessionVars, gemmVars
  <2>. QED BY <1>3, <2>1 DEF RefusedInv
<1>. QED BY <1>1, <1>2, <1>4, <1>5, <1>6, <1>7, <1>8, <1>9, <1>10 DEF Next

(* A plan that was refused is not run before the session is reset, however *)
(* often it is tried and whatever is run in between.                       *)
THEOREM RefusalsAreFinal == Spec => []RefusedForGood
<1>1. Init => RefusedInv
  BY DEF Init, SessionInit, RefusedInv, TablesAgree, Overlap, Nowhere
<1>2. StageInv /\ RefusedInv /\ [Next]_vars => RefusedInv'
  BY RefusedStep
<1>3. RefusedInv => RefusedForGood
  BY DEF RefusedInv, RefusedForGood
<1>. QED BY <1>1, <1>2, <1>3, StageInvariant, PTL DEF Spec
------------------------------------------------------------------------------
(* The requests of one plan are in nobody's way but another plan's.        *)

LEMMA AtRank ==
  ASSUME NEW p \in Plans, NEW i \in 0 .. p.grid.m - 1, NEW j \in 0 .. p.grid.n - 1,
         NEW l \in 0 .. p.grid.k - 1
  PROVE  At(p, Rank(p, i, j, l)) = [m |-> i, n |-> j, k |-> l]
<1>1. /\ p.grid.m \in Nat \ {0} /\ p.grid.n \in Nat \ {0} /\ p.grid.k \in Nat \ {0}
  BY PlanFacts
<1> DEFINE gn == p.grid.n
           gk == p.grid.k
           rank == Rank(p, i, j, l)
<1>2. i \in Nat /\ j \in Nat /\ j < gn /\ l \in Nat /\ l < gk
      /\ gn \in Nat \ {0} /\ gk \in Nat \ {0}
  BY <1>1
<1>3. rank = (i * gn + j) * gk + l
  BY DEF Rank
<1>4. At(p, rank) = [m |-> rank \div (gn * gk), n |-> (rank \div gk) % gn, k |-> rank % gk]
  BY DEF At
<1> HIDE DEF gn, gk, rank
<1>5. PICK row \in Nat : row = i * gn + j
  BY <1>2
<1>6. PICK size \in Nat \ {0} : size = gn * gk
  BY <1>2
<1>7. PICK col \in Nat : col = j * gk + l /\ col < size
  <2>1. j * gk + l \in Nat /\ j * gk + l < gn * gk
    BY <1>2, InTable
  <2>. QED BY <1>6, <2>1
<1>8. rank = row * gk + l /\ rank \in Nat
  BY <1>2, <1>3, <1>5
<1>9. rank = i * size + col
  <2>1. (i * gn + j) * gk = i * (gn * gk) + j * gk
    BY <1>2
  <2>. QED BY <1>2, <1>3, <1>6, <1>7, <2>1
<1>10. rank \div gk = row
  BY <1>2, <1>8, QuotientIs
<1>11. row \div gn = i
  BY <1>2, <1>5, QuotientIs
<1>12. rank \div size = i
  BY <1>2, <1>6, <1>7, <1>8, <1>9, QuotientIs
<1>13. \A x \in Nat, b \in Nat \ {0} : x = b * (x \div b) + (x % b)
  OBVIOUS
<1>14. rank % gk = l
  <2>0. rank = gk * (rank \div gk) + (rank % gk)
    BY <1>2, <1>8, <1>13
  <2>1. rank = gk * row + (rank % gk) /\ gk * row = row * gk
    BY <1>2, <1>10, <2>0
  <2>2. rank % gk \in Nat /\ row * gk \in Nat
    BY <1>2, <1>8
  <2>. QED BY <1>2, <1>8, <2>1, <2>2
<1>15. row % gn = j
  <2>1. row = gn * i + (row % gn) /\ gn * i = i * gn
    BY <1>2, <1>11, <1>13
  <2>2. row % gn \in Nat /\ i * gn \in Nat
    BY <1>2
  <2>. QED BY <1>2, <1>5, <2>1, <2>2
<1>. QED BY <1>4, <1>6, <1>10, <1>12, <1>14, <1>15 DEF rank

(* The owner of a shard is one of the ranks that have it.                  *)
LEMMA OwnersHaveShards ==
  ASSUME NEW p \in Plans, NEW t \in Tensors, NEW rank \in Cluster,
         p.placement[t] = Sharded
  PROVE  LET owner == HomeOf(p, t, At(p, rank), rank)
         IN  /\ At(p, owner)[RowsOf(t)] = At(p, rank)[RowsOf(t)]
             /\ At(p, owner)[ColsOf(t)] = At(p, rank)[ColsOf(t)]
<1> DEFINE at == At(p, rank)
<1>1. /\ at.m \in 0 .. p.grid.m - 1 /\ at.n \in 0 .. p.grid.n - 1
      /\ at.k \in 0 .. p.grid.k - 1
  BY RankAt
<1>2. 0 \in 0 .. p.grid.m - 1 /\ 0 \in 0 .. p.grid.n - 1 /\ 0 \in 0 .. p.grid.k - 1
  BY PlanFacts
<1>3. /\ At(p, Rank(p, at.m, 0, at.k)) = [m |-> at.m, n |-> 0, k |-> at.k]
      /\ At(p, Rank(p, 0, at.n, at.k)) = [m |-> 0, n |-> at.n, k |-> at.k]
      /\ At(p, Rank(p, at.m, at.n, 0)) = [m |-> at.m, n |-> at.n, k |-> 0]
  BY <1>1, <1>2, AtRank
<1>4. HomeOf(p, t, at, rank) = Owner(p, t, at, rank)
  <2>1. Replicated # Sharded
    <3>1. Replicated[1] = "replicated" /\ Sharded[1] = "sharded"
      BY DEF Replicated, Sharded
    <3>. QED BY <3>1
  <2> HIDE DEF at
  <2>. QED BY <2>1 DEF HomeOf
<1>5. at = At(p, rank)
  OBVIOUS
<1> HIDE DEF at
<1>6. CASE t = "A"
  BY <1>3, <1>4, <1>5, <1>6 DEF Owner, RowsOf, ColsOf
<1>7. CASE t = "B"
  BY <1>3, <1>4, <1>5, <1>7 DEF Owner, RowsOf, ColsOf
<1>8. CASE t = "C"
  BY <1>3, <1>4, <1>5, <1>8 DEF Owner, RowsOf, ColsOf
<1>. QED BY <1>5, <1>6, <1>7, <1>8 DEF Tensors

(* Two blocks of one tensor at one owner are in one region and layout.     *)
LEMMA SameLayout ==
  ASSUME NEW p \in Plans, NEW t \in Tensors, NEW u \in Tensors,
         NEW r \in Cluster, NEW s \in Cluster,
         Ask(p, t, r).tensor = Ask(p, u, s).tensor, Ask(p, t, r).owner = Ask(p, u, s).owner
  PROVE  /\ t = u /\ Slot(p, t, At(p, r)) = Slot(p, u, At(p, s))
         /\ Ask(p, t, r).mapping = Ask(p, u, s).mapping
         /\ Ask(p, t, r).interval = Ask(p, u, s).interval
<1> DEFINE a == At(p, r)
           b == At(p, s)
<1>1. /\ Name(p, t, a) = Name(p, u, b)
      /\ HomeOf(p, t, a, r) = HomeOf(p, u, b, s)
  BY AskIs
<1>2. a.k \in Nat /\ b.k \in Nat
  <2>1. At(p, r).k \in 0 .. p.grid.k - 1 /\ At(p, s).k \in 0 .. p.grid.k - 1
    BY RankAt
  <2>. QED BY <2>1
<1>3. t = u /\ Slot(p, t, a) = Slot(p, u, b)
  <2> HIDE DEF a, b
  <2>. QED BY <1>1, <1>2 DEF Name, Slot, Tensors
<1>4. Packed(p, t) => a[RowsOf(t)] = b[RowsOf(t)] /\ a[ColsOf(t)] = b[ColsOf(t)]
  BY <1>1, <1>3, OwnersHaveShards DEF Packed
<1> DEFINE slot == Slot(p, t, a)
<1>5. /\ Ask(p, t, r).mapping = Layout(p, t, a, slot)
      /\ Ask(p, t, r).interval = Region(p, t, slot)
      /\ Ask(p, u, s).mapping = Layout(p, t, b, slot)
      /\ Ask(p, u, s).interval = Region(p, t, slot)
  BY <1>3, AskIs
<1> HIDE DEF a, b, slot
<1>6. Layout(p, t, a, slot) = Layout(p, t, b, slot)
  BY <1>4 DEF Layout
<1>. QED BY <1>3, <1>5, <1>6 DEF a, b

(* What a plan asks the session for, at either stage.                      *)
Wanted(p) == Reads(p) \cup Pressure(p)

(* The tensors of a plan are in regions of their own.                      *)
LEMMA RegionsApart ==
  ASSUME NEW p \in Plans, NEW t \in Tensors, NEW u \in Tensors,
         NEW i \in Nat, NEW j \in Nat, t # u \/ (t = "C" /\ i # j)
  PROVE  LET x == Region(p, t, i)
             y == Region(p, u, j)
         IN  x[2] <= y[1] \/ y[2] <= x[1]
<1>1. PICK a \in Nat, b \in Nat, c \in Nat, base \in Nat :
        /\ a = Storage(p, "A") /\ b = Storage(p, "B") /\ c = Storage(p, "C")
        /\ base = p.base
  <2>1. "A" \in Tensors /\ "B" \in Tensors /\ "C" \in Tensors
    BY DEF Tensors
  <2>. QED BY <2>1, StorageIs, PlanFacts
<1>2. \A k \in Nat :
        /\ Region(p, "A", k) = <<base + 0 + 0, base + 0 + 0 + a>>
        /\ Region(p, "B", k) = <<base + a + 0, base + a + 0 + b>>
        /\ Region(p, "C", k) = <<base + a + (b + k * c), base + a + (b + k * c) + c>>
  BY <1>1 DEF Region
<1>3. \A k \in Nat : k * c \in Nat
  BY <1>1
<1>4. \A k, l \in Nat : k < l => k * c + c <= l * c
  <2> SUFFICES ASSUME NEW k \in Nat, NEW l \in Nat, k < l PROVE k * c + c <= l * c
    OBVIOUS
  <2>1. (k + 1) * c <= l * c
    BY TimesMonotone
  <2>2. (k + 1) * c = k * c + c
    OBVIOUS
  <2>. QED BY <2>1, <2>2
<1>5. PICK ic \in Nat, jc \in Nat : ic = i * c /\ jc = j * c
  BY <1>3
<1>6. i # j => ic + c <= jc \/ jc + c <= ic
  BY <1>4, <1>5
<1>7. /\ Region(p, "C", i) = <<base + a + (b + ic), base + a + (b + ic) + c>>
      /\ Region(p, "C", j) = <<base + a + (b + jc), base + a + (b + jc) + c>>
  BY <1>2, <1>5
<1>8. /\ Region(p, "A", i) = <<base, base + a>> /\ Region(p, "A", j) = <<base, base + a>>
      /\ Region(p, "B", i) = <<base + a, base + a + b>>
      /\ Region(p, "B", j) = <<base + a, base + a + b>>
  BY <1>2
<1> HIDE <1>2, <1>4
<1>9. CASE t = "A"
  BY <1>7, <1>8, <1>9 DEF Tensors
<1>10. CASE t = "B"
  BY <1>7, <1>8, <1>10 DEF Tensors
<1>11. CASE t = "C" /\ u = "C"
  BY <1>6, <1>7, <1>11
<1>12. CASE t = "C" /\ u # "C"
  BY <1>7, <1>8, <1>12 DEF Tensors
<1>. QED BY <1>9, <1>10, <1>11, <1>12 DEF Tensors

LEMMA WantedAre ==
  ASSUME NEW p \in Plans, NEW x \in Wanted(p)
  PROVE  /\ x.requester \in Cluster
         /\ x \in Pressure(p) => x.tensor \notin {0, 1}
         /\ \E t \in Tensors, rank \in Cluster :
              LET w == Ask(p, t, rank)
              IN  /\ x.owner = w.owner /\ x.copy = w.copy /\ x.sectors = w.sectors
                  /\ x.offset = w.offset /\ x.tensor = w.tensor /\ x.mapping = w.mapping
                  /\ x.interval = w.interval /\ x.epoch = w.epoch
<1>1. "A" \in Tensors /\ "B" \in Tensors /\ "C" \in Tensors
  BY DEF Tensors
<1>2. ASSUME x \in Reads(p), x \notin Pressure(p)
      PROVE  \E t \in Tensors, rank \in Cluster : x = Ask(p, t, rank) /\ x.requester \in Cluster
  <2>1. PICK t \in {"A", "B"}, rank \in Working(p) : x = Ask(p, t, rank)
    BY <1>2 DEF Reads
  <2>2. t \in Tensors /\ rank \in Cluster
    BY <1>1, WorkingRanks
  <2>3. x.requester = rank
    BY <2>1, <2>2, AskIs
  <2>. QED BY <2>1, <2>2, <2>3
<1>3. ASSUME x \in Pressure(p)
      PROVE  /\ x.requester \in Cluster /\ x.tensor \notin {0, 1}
             /\ \E rank \in Cluster :
                  LET w == Ask(p, "C", rank)
                  IN  /\ x.owner = w.owner /\ x.copy = w.copy /\ x.sectors = w.sectors
                      /\ x.offset = w.offset /\ x.tensor = w.tensor /\ x.mapping = w.mapping
                      /\ x.interval = w.interval /\ x.epoch = w.epoch
  <2>1. PICK rank \in Working(p) :
           LET w == Ask(p, "C", rank)
           IN  /\ rank \in Cluster
               /\ x.requester = w.owner /\ x.owner = w.owner /\ x.copy = w.copy
               /\ x.sectors = w.sectors /\ x.offset = w.offset /\ x.tensor = w.tensor
               /\ x.mapping = w.mapping /\ x.interval = w.interval /\ x.epoch = w.epoch
    BY <1>3, PressureIs
  <2>2. x.requester \in Cluster /\ x.tensor = Name(p, "C", At(p, rank))
    BY <1>1, <2>1, AskIs
  <2>3. At(p, rank).k \in 0 .. p.grid.k - 1 /\ p.grid.k \in Nat
    BY <2>1, RankAt, PlanFacts
  <2>4. Name(p, "C", At(p, rank)) \notin {0, 1}
    BY <2>3 DEF Name
  <2>. QED BY <2>1, <2>2, <2>4
<1>4. CASE x \in Pressure(p)
  BY <1>1, <1>3, <1>4
<1>5. CASE x \notin Pressure(p)
  BY <1>2, <1>5 DEF Wanted
<1>. QED BY <1>4, <1>5

(* A copy is known by its tensor and its owner.                            *)
LEMMA CopiesDiffer ==
  ASSUME NEW p \in Plans, NEW a \in Nat, NEW b \in Nat, NEW c \in Cluster, NEW d \in Cluster,
         CopyOf(p, a, c) = CopyOf(p, b, d)
  PROVE  a = b /\ c = d
<1>1. PICK size \in Nat : size = Cardinality(Cluster) /\ Cluster = 0 .. size - 1
  BY ClusterIs
<1>2. size \in Nat \ {0} /\ c \in Nat /\ c < size /\ d \in Nat /\ d < size
  <2>1. c \in 0 .. size - 1 /\ d \in 0 .. size - 1
    BY <1>1
  <2> HIDE <1>1
  <2>. QED BY <2>1
<1>3. PICK first \in Nat : first = p.id * (4 + size)
  BY PlanFacts
<1>4. PICK i \in Nat, j \in Nat : i = first + a /\ j = first + b
  OBVIOUS
<1>5. /\ CopyOf(p, a, c) = i * size + c
      /\ CopyOf(p, b, d) = j * size + d
  BY <1>1, <1>3, <1>4 DEF CopyOf
<1>6. PICK copy \in Nat : copy = i * size + c /\ copy = j * size + d
  <2>1. i * size + c \in Nat
    BY <1>2
  <2>. QED BY <1>5, <2>1
<1> HIDE <1>5
<1>7. copy \div size = i
  BY <1>2, <1>6, QuotientIs
<1>8. copy \div size = j
  BY <1>2, <1>6, QuotientIs
<1>9. a = b
  BY <1>4, <1>7, <1>8
<1>10. PICK before \in Nat : before = i * size
  BY <1>2
<1>11. c = d
  BY <1>2, <1>6, <1>7, <1>8, <1>10
<1>. QED BY <1>9, <1>11

(* Two requests of a plan are for one copy if they are for one tensor at   *)
(* one owner; they then agree on all that a session records of it.  Two    *)
(* copies at one owner are in disjoint intervals.                          *)
LEMMA WantedAgree ==
  ASSUME NEW p \in Plans
  PROVE  /\ \A x \in Wanted(p) :
              /\ x.requester \in Cluster /\ x.owner \in Cluster
              /\ x.copy \in Nat /\ x.offset = 0 /\ x.epoch = 0
              /\ x.copy = CopyOf(p, x.tensor, x.owner)
              /\ x.tensor \in Nat /\ x.mapping # Unhashable
              /\ x.interval \in Nat \X Nat /\ x.interval[1] < x.interval[2]
              /\ \A s \in x.sectors : s \in Nat /\ x.interval[1] <= s /\ s < x.interval[2]
         /\ \A x, y \in Wanted(p) :
              /\ x.copy = y.copy <=> x.owner = y.owner /\ x.tensor = y.tensor
              /\ x.copy = y.copy => x.mapping = y.mapping /\ x.interval = y.interval
              /\ x.owner = y.owner /\ x.copy # y.copy =>
                   x.interval[2] <= y.interval[1] \/ y.interval[2] <= x.interval[1]
         /\ \A x \in Reads(p), y \in Pressure(p) : x.copy # y.copy
<1>1. ASSUME NEW x \in Wanted(p)
      PROVE  /\ x.requester \in Cluster /\ x.owner \in Cluster
             /\ x.copy \in Nat /\ x.offset = 0 /\ x.epoch = 0
             /\ x.copy = CopyOf(p, x.tensor, x.owner)
             /\ x.tensor \in Nat /\ x.mapping # Unhashable
             /\ x.interval \in Nat \X Nat /\ x.interval[1] < x.interval[2]
             /\ \A s \in x.sectors : s \in Nat /\ x.interval[1] <= s /\ s < x.interval[2]
  <2>1. PICK t \in Tensors, rank \in Cluster :
          LET w == Ask(p, t, rank)
          IN  /\ x.owner = w.owner /\ x.copy = w.copy /\ x.sectors = w.sectors
              /\ x.offset = w.offset /\ x.tensor = w.tensor /\ x.mapping = w.mapping
              /\ x.interval = w.interval /\ x.epoch = w.epoch
    BY WantedAre
  <2>2. /\ x.owner \in Cluster /\ x.copy \in Nat /\ x.offset = 0 /\ x.epoch = 0
        /\ x.copy = CopyOf(p, x.tensor, x.owner) /\ x.tensor \in Nat
        /\ x.sectors \in SUBSET Nat /\ x.interval[1] \in Nat
        /\ x.interval = <<x.interval[1], x.interval[1] + Storage(p, t)>>
        /\ \A s \in x.sectors : x.interval[1] <= s /\ s < x.interval[1] + Storage(p, t)
    BY <2>1, AskIs
  <2>3. x.mapping # Unhashable
    BY <2>1, SignaturesHash
  <2>4. Storage(p, t) \in Nat \ {0}
    BY StorageIs
  <2>5. PICK from \in Nat, to \in Nat : from = x.interval[1] /\ to = from + Storage(p, t)
    BY <2>2, <2>4
  <2>6. x.interval = <<from, to>> /\ from < to
    BY <2>2, <2>4, <2>5
  <2>7. \A s \in x.sectors : s \in Nat /\ from <= s /\ s < to
    BY <2>2, <2>5
  <2>. QED BY <2>2, <2>3, <2>6, <2>7, WantedAre
<1>2. ASSUME NEW x \in Wanted(p), NEW y \in Wanted(p)
      PROVE  /\ x.copy = y.copy <=> x.owner = y.owner /\ x.tensor = y.tensor
             /\ x.copy = y.copy => x.mapping = y.mapping /\ x.interval = y.interval
             /\ x.owner = y.owner /\ x.copy # y.copy =>
                  x.interval[2] <= y.interval[1] \/ y.interval[2] <= x.interval[1]
  <2>1. x.copy = y.copy <=> x.owner = y.owner /\ x.tensor = y.tensor
    BY <1>1, CopiesDiffer
  <2>2. PICK t \in Tensors, r \in Cluster :
          LET w == Ask(p, t, r)
          IN  /\ x.owner = w.owner /\ x.copy = w.copy /\ x.sectors = w.sectors
              /\ x.offset = w.offset /\ x.tensor = w.tensor /\ x.mapping = w.mapping
              /\ x.interval = w.interval /\ x.epoch = w.epoch
    BY WantedAre
  <2>3. PICK u \in Tensors, s \in Cluster :
          LET w == Ask(p, u, s)
          IN  /\ y.owner = w.owner /\ y.copy = w.copy /\ y.sectors = w.sectors
              /\ y.offset = w.offset /\ y.tensor = w.tensor /\ y.mapping = w.mapping
              /\ y.interval = w.interval /\ y.epoch = w.epoch
    BY WantedAre
  <2>4. x.copy = y.copy => x.mapping = y.mapping /\ x.interval = y.interval
    BY <2>1, <2>2, <2>3, SameLayout
  <2>5. ASSUME x.owner = y.owner, x.copy # y.copy
        PROVE  x.interval[2] <= y.interval[1] \/ y.interval[2] <= x.interval[1]
    <3> DEFINE i == Slot(p, t, At(p, r))
               j == Slot(p, u, At(p, s))
    <3>1. x.tensor # y.tensor
      BY <2>1, <2>5
    <3>2. /\ Name(p, t, At(p, r)) # Name(p, u, At(p, s))
          /\ x.interval = Region(p, t, i) /\ y.interval = Region(p, u, j)
      BY <2>2, <2>3, <3>1, AskIs
    <3>3. At(p, r).k \in Nat /\ At(p, s).k \in Nat
      <4>1. At(p, r).k \in 0 .. p.grid.k - 1 /\ At(p, s).k \in 0 .. p.grid.k - 1
        BY RankAt
      <4>. QED BY <4>1
    <3>4. /\ t # u \/ (t = "C" /\ i # j)
          /\ i \in Nat /\ j \in Nat
      BY <3>2, <3>3 DEF Name, Slot, Tensors
    <3> HIDE DEF i, j
    <3>. QED BY <3>2, <3>4, RegionsApart
  <2>. QED BY <2>1, <2>4, <2>5
<1>3. ASSUME NEW x \in Reads(p), NEW y \in Pressure(p) PROVE x.copy # y.copy
  <2>1. x \in Wanted(p) /\ y \in Wanted(p)
    BY DEF Wanted
  <2>2. x.tensor \in {0, 1} /\ y.tensor \notin {0, 1}
    BY <2>1, ReadsAsk, WantedAre
  <2>. QED BY <1>2, <2>1, <2>2
<1>. QED BY <1>1, <1>2, <1>3

(* The tables of a session that has seen this plan only.                   *)
TablesOf(p) ==
  /\ \A k \in DOMAIN homes : \E x \in Wanted(p) : x.copy = k /\ homes[k] = Home(x)
  /\ \A k \in DOMAIN mappings : \E x \in Wanted(p) : x.copy = k /\ mappings[k] = x.mapping
  /\ \A k \in DOMAIN intervals :
       \E x \in Wanted(p) :
         x.copy = k /\ intervals[k] = <<x.owner, x.interval[1], x.interval[2]>>
  /\ \A k \in copied : \E x \in Reads(p) : x.copy = k

LEMMA PlanAdmitted ==
  ASSUME NEW p \in Plans, TablesOf(p), NEW items \in SUBSET Wanted(p), Requests(items)
  PROVE  /\ Admissible(items)
         /\ \A k \in DOMAIN Candidate(items) :
              \E x \in Wanted(p) :
                x.copy = k /\ Candidate(items)[k] = <<x.owner, x.interval[1], x.interval[2]>>
<1> DEFINE table == Candidate(items)
           Alike(x, y) == x.owner = y.owner /\ x.mapping = y.mapping /\ x.interval = y.interval
<1>1. /\ \A x \in Wanted(p) :
           /\ x.requester \in Cluster /\ x.owner \in Cluster /\ x.copy \in Nat /\ x.offset = 0
           /\ x.mapping # Unhashable
           /\ x.interval \in Nat \X Nat /\ x.interval[1] < x.interval[2]
           /\ \A s \in x.sectors : s \in Nat /\ x.interval[1] <= s /\ s < x.interval[2]
      /\ \A x, y \in Wanted(p) :
           /\ x.copy = y.copy => Alike(x, y)
           /\ x.owner = y.owner /\ x.copy # y.copy =>
                x.interval[2] <= y.interval[1] \/ y.interval[2] <= x.interval[1]
  BY WantedAgree
<1>2. \A x \in Wanted(p) : Span(x) = x.interval /\ Span(x) # None
  BY <1>1, SessionAssumption DEF Span
<1>3. Placed(items) = items
  BY <1>2 DEF Placed
<1>4. \A x \in items : WellPlaced(x)
  BY <1>1, <1>2 DEF WellPlaced
<1>5. HomesAgree(items)
  BY <1>1 DEF HomesAgree, Home, TablesOf
<1>6. MappingsAgree(items)
  BY <1>1 DEF MappingsAgree, TablesOf
<1>7. OwnersAgree(items)
  BY <1>1, <1>3 DEF OwnersAgree, TablesOf
<1>8. InUnit(items)
  <2> SUFFICES ASSUME NEW x \in items
               PROVE  Max({x.requester, x.owner}) < Cardinality(Cluster)
    BY DEF InUnit
  <2>1. x.requester \in Cluster /\ x.owner \in Cluster
    BY <1>1
  <2>2. PICK a \in Cluster, b \in Cluster : a = x.requester /\ b = x.owner
    BY <2>1
  <2>3. a \in Int /\ b \in Int /\ a < Cardinality(Cluster) /\ b < Cardinality(Cluster)
    BY ClusterIs
  <2>4. Max({a, b}) \in {a, b}
    <3>1. IsFiniteSet({a} \cup {b}) /\ {a} \cup {b} = {a, b}
      BY FS_Singleton, FS_Union
    <3>. QED BY <2>3, <3>1, FiniteMax
  <2>. QED BY <2>2, <2>3, <2>4
<1>9. \A k \in DOMAIN intervals : intervals[k] \in Nat \X Nat \X Nat
  <2> SUFFICES ASSUME NEW k \in DOMAIN intervals PROVE intervals[k] \in Nat \X Nat \X Nat
    OBVIOUS
  <2>1. PICK x \in Wanted(p) : intervals[k] = <<x.owner, x.interval[1], x.interval[2]>>
    BY DEF TablesOf
  <2>2. x.owner \in Nat /\ x.interval[1] \in Nat /\ x.interval[2] \in Nat
    BY <1>1, ClusterIs
  <2>. QED BY <2>1, <2>2
<1>10. /\ DOMAIN table = DOMAIN intervals \cup {x.copy : x \in Placed(items)}
       /\ \A k \in DOMAIN table : table[k] \in Nat \X Nat \X Nat
       /\ \A k \in DOMAIN intervals :
            /\ table[k][1] = intervals[k][1]
            /\ table[k][2] <= intervals[k][2] /\ intervals[k][3] <= table[k][3]
       /\ \A x \in Placed(items) :
            /\ table[x.copy][1] = x.owner
            /\ table[x.copy][2] <= Span(x)[1] /\ Span(x)[2] <= table[x.copy][3]
       /\ \A k \in DOMAIN table :
            /\ \/ k \in DOMAIN intervals /\ table[k][2] = intervals[k][2]
               \/ \E x \in Placed(items) : x.copy = k /\ table[k][2] = Span(x)[1]
            /\ \/ k \in DOMAIN intervals /\ table[k][3] = intervals[k][3]
               \/ \E x \in Placed(items) : x.copy = k /\ table[k][3] = Span(x)[2]
  <2>1. Grown(intervals, table, items)
    BY <1>4, <1>5, <1>7, <1>9, CandidateIs
  <2> HIDE DEF Alike, table
  <2>. QED BY <2>1 DEF Grown
<1> HIDE DEF table
<1>11. ASSUME NEW k \in DOMAIN table
       PROVE  \E x \in Wanted(p) :
                x.copy = k /\ table[k] = <<x.owner, x.interval[1], x.interval[2]>>
  <2>1. PICK x \in Wanted(p) : x.copy = k
    BY <1>10, <1>3 DEF TablesOf
  <2>2. ASSUME NEW y \in Wanted(p), y.copy = k
        PROVE  y.owner = x.owner /\ y.interval = x.interval
    BY <1>1, <2>1, <2>2
  <2>3. k \in DOMAIN intervals => intervals[k] = <<x.owner, x.interval[1], x.interval[2]>>
    <3> SUFFICES ASSUME k \in DOMAIN intervals
                 PROVE  intervals[k] = <<x.owner, x.interval[1], x.interval[2]>>
      OBVIOUS
    <3>1. PICK y \in Wanted(p) :
            y.copy = k /\ intervals[k] = <<y.owner, y.interval[1], y.interval[2]>>
      BY DEF TablesOf
    <3>. QED BY <2>2, <3>1
  <2>4. \A y \in Placed(items) : y.copy = k => y.owner = x.owner /\ Span(y) = x.interval
    BY <1>2, <1>3, <2>2
  <2>5. table[k][1] = x.owner
    BY <1>10, <2>3, <2>4
  <2>6. table[k][2] = x.interval[1]
    BY <1>10, <2>3, <2>4
  <2>7. table[k][3] = x.interval[2]
    BY <1>10, <2>3, <2>4
  <2>8. table[k] = <<table[k][1], table[k][2], table[k][3]>>
    BY <1>10
  <2>. QED BY <2>1, <2>5, <2>6, <2>7, <2>8
<1>12. ~Overlap(table)
  <2>1. SUFFICES ASSUME NEW j \in DOMAIN table, NEW k \in DOMAIN table,
                        table[j][1] = table[k][1],
                        Before(<<table[j][2], table[j][3], j>>, <<table[k][2], table[k][3], k>>),
                        table[k][2] < table[j][3]
                 PROVE  FALSE
    BY DEF Overlap
  <2>2. PICK x \in Wanted(p) :
          x.copy = j /\ table[j] = <<x.owner, x.interval[1], x.interval[2]>>
    BY <1>11
  <2>3. PICK y \in Wanted(p) :
          y.copy = k /\ table[k] = <<y.owner, y.interval[1], y.interval[2]>>
    BY <1>11
  <2>4. PICK js \in Nat, je \in Nat, ks \in Nat, ke \in Nat :
          /\ js = x.interval[1] /\ je = x.interval[2] /\ js < je
          /\ ks = y.interval[1] /\ ke = y.interval[2] /\ ks < ke
    BY <1>1
  <2>5. /\ Before(<<js, je, j>>, <<ks, ke, k>>) /\ ks < je /\ x.owner = y.owner
        /\ j \in Nat /\ k \in Nat /\ (j = k => js = ks /\ je = ke)
    BY <1>1, <2>1, <2>2, <2>3, <2>4
  <2>6. j # k /\ js <= ks
    BY <2>4, <2>5 DEF Before
  <2>7. je <= ks \/ ke <= js
    BY <1>1, <2>2, <2>3, <2>4, <2>5, <2>6
  <2>. QED BY <2>4, <2>5, <2>6, <2>7
<1>13. \A x \in items : x.mapping # Unhashable
  BY <1>1
<1>14. Admissible(items)
  BY <1>4, <1>5, <1>6, <1>7, <1>8, <1>12, <1>13 DEF Admissible, table
<1>. QED BY <1>11, <1>14 DEF table

(* What a plan commits is what it wants.                                   *)
LEMMA PlanCommits ==
  ASSUME NEW p \in Plans, TablesOf(p), NEW items \in SUBSET Wanted(p), Requests(items),
         CommitTables(items), \A k \in copied' : \E x \in Reads(p) : x.copy = k
  PROVE  TablesOf(p)'
<1>1. /\ Admissible(items)
      /\ \A k \in DOMAIN Candidate(items) :
           \E x \in Wanted(p) :
             x.copy = k /\ Candidate(items)[k] = <<x.owner, x.interval[1], x.interval[2]>>
  BY PlanAdmitted
<1>2. HomesAgree(items) /\ MappingsAgree(items)
  BY <1>1 DEF Admissible
<1>3. /\ DOMAIN homes' = DOMAIN homes \cup {x.copy : x \in items}
      /\ \A k \in DOMAIN homes : homes'[k] = homes[k]
      /\ \A x \in items : homes'[x.copy] = Home(x)
  BY <1>2, HomesCommitted
<1>4. /\ DOMAIN mappings' = DOMAIN mappings \cup {x.copy : x \in items}
      /\ \A k \in DOMAIN mappings : mappings'[k] = mappings[k]
      /\ \A x \in items : mappings'[x.copy] = x.mapping
  BY <1>2, MappingsCommitted
<1>5. intervals' = Candidate(items)
  BY DEF CommitTables
<1> DEFINE wanted == Wanted(p)
<1>6. items \subseteq wanted /\ wanted' = wanted /\ Reads(p)' = Reads(p)
  OBVIOUS
<1>7. \A k \in DOMAIN homes' : \E x \in wanted : x.copy = k /\ homes'[k] = Home(x)
  BY <1>3, <1>6 DEF TablesOf
<1>8. \A k \in DOMAIN mappings' : \E x \in wanted : x.copy = k /\ mappings'[k] = x.mapping
  BY <1>4, <1>6 DEF TablesOf
<1>9. \A k \in DOMAIN intervals' :
        \E x \in wanted :
          x.copy = k /\ intervals'[k] = <<x.owner, x.interval[1], x.interval[2]>>
  BY <1>1, <1>5
<1>10. \A x : Home(x)' = Home(x)
  BY DEF Home
<1> HIDE DEF wanted
<1>. QED BY <1>6, <1>7, <1>8, <1>9, <1>10 DEF TablesOf, wanted

(* The banks transfer every line that a plan writes, and once: an owner's  *)
(* partial sums are requests of their own.                                 *)
LEMMA WrittenOnce ==
  ASSUME NEW p \in Plans
  PROVE  Transferred(p, OutputChunks(p)) = WrittenLines(p)
<1> DEFINE writes == Pressure(p)
           Both(w, byCopy) == UNION {x.sectors : x \in {v \in writes :
                                /\ <<v.owner, v.tensor>> = <<w.owner, w.tensor>>
                                /\ byCopy => v.copy = w.copy}}
           All(w) == Both(w, FALSE)
           plain == [w \in writes |-> [owner |-> w.owner, tensor |-> w.tensor, copy |-> 0,
                                       sectors |-> All(w)]]
           byCopy == [w \in writes |-> [owner |-> w.owner, tensor |-> w.tensor,
                                        copy |-> w.copy, sectors |-> All(w)]]
           chunks == OutputChunks(p)
           counted == Written(p, TRUE)
           Id(c) == RequestId(p, chunks, c)
<1>1. /\ IsFiniteSet(writes)
      /\ \A w \in writes : w.tensor \in Nat /\ w.sectors \in SUBSET Nat /\ IsFiniteSet(w.sectors)
      /\ \A v, w \in writes : v.copy = w.copy <=> v.owner = w.owner /\ v.tensor = w.tensor
  <2>1. Requests(writes) /\ \A w \in writes : w \in Wanted(p)
    BY PressureAsks DEF Wanted
  <2>. QED BY <2>1, WantedAgree DEF Requests
<1>2. \A w \in writes : Both(w, TRUE) = All(w)
  BY <1>1
<1>3. chunks = {plain[w] : w \in writes} /\ counted = {byCopy[w] : w \in writes}
  <2>1. chunks = {plain[w] : w \in writes}
    BY DEF OutputChunks, Written
  <2>2. counted = {[owner |-> w.owner, tensor |-> w.tensor, copy |-> w.copy,
                    sectors |-> Both(w, TRUE)] : w \in writes}
    BY DEF Written
  <2>3. \A w \in writes : byCopy[w] = [owner |-> w.owner, tensor |-> w.tensor, copy |-> w.copy,
                                       sectors |-> Both(w, TRUE)]
    BY <1>2
  <2> HIDE DEF counted, byCopy, Both
  <2>4. counted = {byCopy[w] : w \in writes}
    BY <2>2, <2>3
  <2>. QED BY <2>1, <2>4
<1>4. \A w \in writes :
        /\ plain[w].owner = w.owner /\ plain[w].tensor = w.tensor /\ plain[w].copy = 0
        /\ plain[w].sectors = All(w)
        /\ byCopy[w].owner = w.owner /\ byCopy[w].tensor = w.tensor /\ byCopy[w].copy = w.copy
        /\ byCopy[w].sectors = All(w)
  OBVIOUS
<1>5. DOMAIN plain = writes /\ DOMAIN byCopy = writes
  OBVIOUS
<1>6. \A v, w \in writes :
        v.owner = w.owner /\ v.tensor = w.tensor => plain[v] = plain[w] /\ byCopy[v] = byCopy[w]
  <2> SUFFICES ASSUME NEW v \in writes, NEW w \in writes, v.owner = w.owner, v.tensor = w.tensor
               PROVE  plain[v] = plain[w] /\ byCopy[v] = byCopy[w]
    OBVIOUS
  <2>1. All(v) = All(w) /\ v.copy = w.copy
    BY <1>1
  <2> HIDE DEF All, writes
  <2>. QED BY <2>1
<1>7. ASSUME NEW w \in writes PROVE All(w) \in SUBSET Nat /\ IsFiniteSet(All(w))
  <2> DEFINE mine == {v \in writes : <<v.owner, v.tensor>> = <<w.owner, w.tensor>>
                                       /\ (FALSE => v.copy = w.copy)}
             sectors == [v \in mine |-> v.sectors]
  <2>1. All(w) = UNION {sectors[v] : v \in mine} /\ DOMAIN sectors = mine
    OBVIOUS
  <2>2. IsFiniteSet(mine) /\ mine \subseteq writes
    BY <1>1, FS_Subset
  <2>3. \A v \in mine : IsFiniteSet(sectors[v]) /\ sectors[v] \in SUBSET Nat
    BY <1>1, <2>2
  <2> HIDE DEF mine, sectors, All, writes, Both
  <2>4. IsFiniteSet(UNION {sectors[v] : v \in mine})
    <3>1. IsFiniteSet({sectors[v] : v \in mine})
      BY <2>1, <2>2, FiniteImage
    <3>2. \A lines \in {sectors[v] : v \in mine} : IsFiniteSet(lines)
      BY <2>3
    <3>. QED BY <3>1, <3>2, FS_UNION
  <2>. QED BY <2>1, <2>3, <2>4
<1> HIDE DEF plain, byCopy, chunks, counted, All
<1>8. IsFiniteSet(chunks) /\ IsFiniteSet(counted)
  <2> HIDE DEF writes
  <2>. QED BY <1>1, <1>3, <1>5, FiniteImage
<1>9. \A c \in chunks : c.tensor \in Nat /\ c.copy = 0
  BY <1>1, <1>3, <1>4
<1>10. ASSUME NEW c \in chunks PROVE Id(c) = Offset(chunks, c) /\ Offset(chunks, c) \in Nat
  <2>1. {d \in chunks : /\ <<d.owner, d.tensor>> = <<c.owner, c.tensor>>
                        /\ d.copy < c.copy} = {}
    BY <1>9
  <2>2. Offset(chunks, c) \in Nat
    <3>1. IsFiniteSet({d \in chunks : d.owner = c.owner /\ d.tensor < c.tensor})
      BY <1>8, FS_Subset
    <3>. QED BY <3>1, FS_CardinalityType DEF Offset
  <2>3. Cardinality({}) = 0
    BY FS_EmptySet
  <2>. QED BY <2>1, <2>2, <2>3 DEF RequestId
<1>11. ASSUME NEW c \in chunks, NEW d \in chunks, c.owner = d.owner, c.tensor < d.tensor
       PROVE  Offset(chunks, c) < Offset(chunks, d)
  <2> DEFINE Less(e) == {g \in chunks : g.owner = e.owner /\ g.tensor < e.tensor}
  <2>1. Less(c) \in SUBSET Less(d) /\ c \in Less(d) /\ c \notin Less(c)
    BY <1>9, <1>11
  <2>2. IsFiniteSet(Less(d))
    BY <1>8, FS_Subset
  <2>3. Offset(chunks, c) = Cardinality(Less(c)) /\ Offset(chunks, d) = Cardinality(Less(d))
    BY DEF Offset
  <2> HIDE DEF Less
  <2>4. /\ Cardinality(Less(c)) <= Cardinality(Less(d))
        /\ Cardinality(Less(c)) # Cardinality(Less(d))
    BY <2>1, <2>2, FS_Subset
  <2>. QED BY <1>10, <2>3, <2>4
<1>12. ASSUME NEW v \in writes, NEW w \in writes, v.owner = w.owner,
              Id(plain[v]) = Id(plain[w])
       PROVE  v.tensor = w.tensor
  <2>1. plain[v] \in chunks /\ plain[w] \in chunks
    BY <1>3
  <2>2. Offset(chunks, plain[v]) = Offset(chunks, plain[w])
        /\ Offset(chunks, plain[v]) \in Nat
    BY <1>10, <1>12, <2>1
  <2>3. v.tensor \in Nat /\ w.tensor \in Nat
    BY <1>1
  <2>4. ~(v.tensor < w.tensor) /\ ~(w.tensor < v.tensor)
    BY <1>4, <1>11, <1>12, <2>1, <2>2
  <2>. QED BY <2>3, <2>4
<1> DEFINE Sent(c, id) == {<<c.owner, id, Decode(SwizzleOf(p, c.tensor), s)>> : s \in c.sectors}
           same == [c \in counted |-> plain[CHOOSE w \in writes : byCopy[w] = c]]
           sent == [c \in counted |-> Sent(c, Id(same[c]))]
<1>13. ASSUME NEW w \in writes PROVE same[byCopy[w]] = plain[w] /\ byCopy[w] \in counted
  <2> DEFINE v == CHOOSE v \in writes : byCopy[v] = byCopy[w]
  <2>1. v \in writes /\ byCopy[v] = byCopy[w]
    OBVIOUS
  <2>2. byCopy[w] \in counted
    BY <1>3
  <2>3. same[byCopy[w]] = plain[v]
    BY <2>2
  <2> HIDE DEF v, same
  <2>. QED BY <1>4, <1>6, <2>1, <2>2, <2>3
<1>14. ASSUME NEW w \in writes
       PROVE  sent[byCopy[w]] = {<<w.owner, Id(plain[w]), Decode(SwizzleOf(p, w.tensor), s)>> :
                                   s \in All(w)}
  <2>1. sent[byCopy[w]] = Sent(byCopy[w], Id(plain[w]))
    <3> HIDE DEF same, Sent
    <3>. QED BY <1>13
  <2> DEFINE c == byCopy[w]
             id == Id(plain[w])
             lines == All(w)
  <2>2. /\ c.owner = w.owner /\ c.tensor = w.tensor /\ c.sectors = lines
        /\ sent[c] = Sent(c, id)
    BY <1>4, <2>1
  <2> HIDE DEF c, id, lines, Id
  <2>3. ASSUME NEW e
        PROVE  e \in Sent(c, id)
                 <=> e \in {<<w.owner, id, Decode(SwizzleOf(p, w.tensor), s)>> : s \in lines}
    BY <2>2
  <2> HIDE DEF Sent
  <2>4. sent[c] = {<<w.owner, id, Decode(SwizzleOf(p, w.tensor), s)>> : s \in lines}
    BY <2>2, <2>3
  <2>. QED BY <2>4 DEF c, id, lines
<1>15. DOMAIN sent = counted
  OBVIOUS
<1> HIDE DEF same, sent
<1>16. ASSUME NEW c \in counted
       PROVE  IsFiniteSet(sent[c]) /\ Cardinality(sent[c]) = Cardinality(c.sectors)
  <2>1. PICK w \in writes : c = byCopy[w]
    BY <1>3
  <2> DEFINE g == [s \in All(w) |-> <<w.owner, Id(plain[w]), Decode(SwizzleOf(p, w.tensor), s)>>]
  <2>2. sent[c] = {g[s] : s \in All(w)} /\ DOMAIN g = All(w)
    BY <1>14, <2>1
  <2>3. \A a, b \in Nat : \A z : Decode(z, a) = Decode(z, b) => a = b
    BY DEF Decode
  <2>4. \A s, u \in All(w) : g[s] = g[u] => s = u
    BY <1>7, <2>3
  <2>5. c.sectors = All(w) /\ IsFiniteSet(All(w))
    BY <1>4, <1>7, <2>1
  <2> HIDE DEF g
  <2>. QED BY <2>2, <2>4, <2>5, FiniteImage, SameSize
<1>17. ASSUME NEW c \in counted, NEW d \in counted, c # d
       PROVE  sent[c] \cap sent[d] = {}
  <2>1. PICK v \in writes, w \in writes : c = byCopy[v] /\ d = byCopy[w]
    BY <1>3
  <2> SUFFICES ASSUME NEW e \in sent[c], e \in sent[d] PROVE FALSE
    OBVIOUS
  <2>2. e[1] = v.owner /\ e[2] = Id(plain[v])
    BY <1>14, <2>1
  <2>3. e[1] = w.owner /\ e[2] = Id(plain[w])
    BY <1>14, <2>1
  <2>4. v.tensor = w.tensor
    BY <1>12, <2>2, <2>3
  <2>. QED BY <1>6, <1>17, <2>1, <2>2, <2>3, <2>4
<1>18. Transferred(p, chunks) = Cardinality(UNION {sent[c] : c \in counted})
  <2>1. Transferred(p, chunks) = Cardinality(UNION {Sent(c, Id(c)) : c \in chunks})
    BY DEF Transferred
  <2>2. ASSUME NEW w \in writes PROVE Sent(plain[w], Id(plain[w])) = sent[byCopy[w]]
    BY <1>4, <1>14
  <2> HIDE DEF Sent
  <2>3. UNION {Sent(c, Id(c)) : c \in chunks} = UNION {sent[c] : c \in counted}
    <3>1. ASSUME NEW e
          PROVE  (\E c \in chunks : e \in Sent(c, Id(c))) <=> (\E c \in counted : e \in sent[c])
      BY <1>3, <2>2
    <3>. QED BY <3>1
  <2>. QED BY <2>1, <2>3
<1> DEFINE lines == [c \in counted |-> Cardinality(c.sectors)]
<1>19. lines = [c \in counted |-> Cardinality(sent[c])]
  BY <1>16
<1>20. WrittenLines(p) = SumFunctionOnSet(lines, counted)
  <2>1. WrittenLines(p) = SumFunction(lines) /\ DOMAIN lines = counted
    BY DEF WrittenLines, counted
  <2> HIDE DEF lines
  <2>. QED BY <2>1 DEF SumFunction
<1> HIDE DEF lines
<1>21. Cardinality(UNION {sent[c] : c \in counted})
         = SumFunctionOnSet([c \in counted |-> Cardinality(sent[c])], counted)
  BY <1>8, <1>15, <1>16, <1>17, UnionSize
<1>. QED BY <1>18, <1>19, <1>20, <1>21 DEF chunks

LEMMA PlanWelcome ==
  ASSUME NEW p \in Plans, TablesOf(p), p.fits
  PROVE  ReadAdmitted(p) /\ WriteAdmitted(p)
<1>1. /\ Reads(p) \in SUBSET Wanted(p) /\ Pressure(p) \in SUBSET Wanted(p)
      /\ Requests(Reads(p)) /\ Requests(Pressure(p))
  BY ReadsAsk, PressureAsks DEF Wanted
<1>2. Admissible(Reads(p)) /\ Admissible(Pressure(p))
  BY <1>1, PlanAdmitted
<1>3. MappingsAgree(Pressure(p))
  BY <1>2 DEF Admissible
<1>4. Writable(Pressure(p))
  BY WantedAgree DEF Writable, TablesOf
<1>. QED BY <1>2, <1>3, <1>4, WrittenOnce DEF ReadAdmitted, WriteAdmitted

(* While a plan is alone in a session, the tables are its own.             *)
AloneInv ==
  /\ \A p \in Plans : tried \subseteq {p} => TablesOf(p)
  /\ stage # None => stage.plan \in tried
  /\ outcome.result = "ValueError" /\ outcome.plan.fits =>
       tried \ {outcome.plan} # {}

LEMMA TablesOfStays ==
  ASSUME UNCHANGED tables, NEW p
  PROVE  TablesOf(p)' <=> TablesOf(p)
<1>1. homes' = homes /\ mappings' = mappings /\ intervals' = intervals /\ copied' = copied
  BY DEF tables
<1>. QED BY <1>1 DEF TablesOf, Home

LEMMA AloneStep ==
  ASSUME StageInv, AloneInv, [Next]_vars
  PROVE  AloneInv'
<1>1. CASE \E p \in Plans : StartRead(p)
  <2>1. PICK p \in Plans : StartRead(p)
    BY <1>1
  <2>2. /\ stage'.plan = p /\ outcome'.result = "none" /\ tried' = tried \cup {p}
        /\ ReplayBulk(Reads(p), p.policy)
    BY <2>1 DEF StartRead, Nowhere
  <2>3. ASSUME NEW q \in Plans, tried' \subseteq {q} PROVE TablesOf(q)'
    <3>1. q = p /\ TablesOf(p)
      BY <2>2, <2>3 DEF AloneInv
    <3>2. /\ Reads(p) \in SUBSET Wanted(p) /\ Requests(Reads(p)) /\ CommitTables(Reads(p))
          /\ copied' = copied \cup {x.copy : x \in
               {y \in Reads(p) : p.policy = BothFill /\ y.requester # y.owner}}
      BY <2>2, ReadsAsk DEF Wanted, ReplayBulk
    <3>3. \A k \in copied' : \E x \in Reads(p) : x.copy = k
      BY <3>1, <3>2 DEF TablesOf
    <3>4. TablesOf(p)'
      BY <3>1, <3>2, <3>3, PlanCommits
    <3>. QED BY <3>1, <3>4
  <2>. QED BY <2>2, <2>3 DEF AloneInv
<1>2. CASE StartWrite
  <2> DEFINE p == stage.plan
  <2>1. /\ stage # None /\ p \in Plans /\ p \in tried /\ tried' = tried
        /\ ApplyOutputPressure(Pressure(p))
        /\ stage' = [stage EXCEPT !.at = "pressure"] /\ outcome' = outcome
        /\ DOMAIN stage = {"plan", "at", "before"}
    BY <1>2 DEF StartWrite, StageInv, AloneInv
  <2>2. stage'.plan = p
    BY <2>1
  <2> HIDE DEF p
  <2>3. ASSUME NEW q \in Plans, tried' \subseteq {q} PROVE TablesOf(q)'
    <3>1. q = p /\ TablesOf(p)
      BY <2>1, <2>3 DEF AloneInv
    <3>2. /\ Pressure(q) \in SUBSET Wanted(q) /\ Requests(Pressure(q))
          /\ CommitTables(Pressure(q)) /\ copied' = copied /\ TablesOf(q)
      BY <2>1, <3>1, PressureAsks DEF Wanted, ApplyOutputPressure
    <3>3. \A k \in copied' : \E x \in Reads(q) : x.copy = k
      BY <3>2 DEF TablesOf
    <3>. QED BY <3>2, <3>3, PlanCommits
  <2>. QED BY <2>1, <2>2, <2>3 DEF AloneInv
<1>3. ASSUME UNCHANGED tables, tried \subseteq tried'
      PROVE  \A p \in Plans : tried' \subseteq {p} => TablesOf(p)'
  <2> SUFFICES ASSUME NEW p \in Plans, tried' \subseteq {p} PROVE TablesOf(p)'
    OBVIOUS
  <2>1. TablesOf(p)
    BY <1>3 DEF AloneInv
  <2>. QED BY <1>3, <2>1, TablesOfStays
<1>4. CASE \E p \in Plans : RefuseRead(p)
  <2>1. PICK p \in Plans : RefuseRead(p)
    BY <1>4
  <2>2. /\ stage' = None /\ ~ReadAdmitted(p) /\ UNCHANGED tables
        /\ tried' = tried \cup {p} /\ outcome'.plan = p
    BY <2>1 DEF RefuseRead, Raise, Ended, sessionVars
  <2>3. p.fits => tried' \ {p} # {}
    <3> SUFFICES ASSUME p.fits, tried' \ {p} = {} PROVE FALSE
      OBVIOUS
    <3>1. TablesOf(p)
      BY <2>2 DEF AloneInv
    <3>. QED BY <2>2, <3>1, PlanWelcome
  <2>. QED BY <1>3, <2>2, <2>3 DEF AloneInv
<1>5. CASE RefuseWrite
  <2> DEFINE p == stage.plan
  <2>1. /\ stage # None /\ ~WriteAdmitted(p) /\ stage' = None /\ p \in Plans
        /\ p \in tried /\ UNCHANGED tables /\ tried' = tried \cup {p} /\ outcome'.plan = p
    BY <1>5 DEF RefuseWrite, Raise, Ended, sessionVars, StageInv, AloneInv
  <2> HIDE DEF p
  <2>2. p.fits => tried' \ {p} # {}
    <3> SUFFICES ASSUME p.fits, tried' \ {p} = {} PROVE FALSE
      OBVIOUS
    <3>1. TablesOf(p)
      BY <2>1 DEF AloneInv
    <3>. QED BY <2>1, <3>1, PlanWelcome
  <2>. QED BY <1>3, <2>1, <2>2 DEF AloneInv
<1>6. CASE Serve
  <2>1. /\ UNCHANGED tables /\ stage' = stage /\ outcome' = outcome /\ tried' = tried
    BY <1>6 DEF Serve, gemmVars, BulkLine, BulkFlush, FillOwn
  <2>. QED BY <1>3, <2>1 DEF AloneInv
<1>7. CASE FinishRead
  <2>1. /\ stage # None /\ stage.at = "read" /\ Return /\ stage.plan \in Plans /\ ReadRuns
        /\ DOMAIN stage = {"plan", "at", "before"}
    BY <1>7 DEF FinishRead, StageInv
  <2>2. Transferred(stage.plan, MissChunks) = Cardinality(Misses)
    BY <2>1, TransferredOnce
  <2>3. /\ stage' = [stage EXCEPT !.at = "write", !.before = <<caches, tables>>]
        /\ outcome' = outcome /\ tried' = tried /\ UNCHANGED tables
    BY <1>7, <2>2 DEF FinishRead, Return
  <2>4. stage'.plan = stage.plan
    BY <2>1, <2>3
  <2>. QED BY <1>3, <2>1, <2>3, <2>4 DEF AloneInv
<1>8. CASE FinishWrite
  <2>1. /\ stage' = None /\ UNCHANGED tables /\ tried' = tried /\ outcome'.result = "GEMM"
    BY <1>8 DEF FinishWrite, Ended, Return
  <2>. QED BY <1>3, <2>1 DEF AloneInv
<1>9. CASE NewSession
  <2>1. /\ stage' = None /\ outcome'.result = "none"
        /\ homes' = [k \in {} |-> None] /\ mappings' = [k \in {} |-> None]
        /\ intervals' = [k \in {} |-> None] /\ copied' = {}
    BY <1>9 DEF NewSession, Nowhere, Reset
  <2>2. \A p : TablesOf(p)'
    BY <2>1 DEF TablesOf
  <2>. QED BY <2>1, <2>2 DEF AloneInv
<1>10. CASE UNCHANGED vars
  <2>1. /\ UNCHANGED tables /\ stage' = stage /\ outcome' = outcome /\ tried' = tried
    BY <1>10 DEF vars, sessionVars, gemmVars
  <2>. QED BY <1>3, <2>1 DEF AloneInv
<1>. QED BY <1>1, <1>2, <1>4, <1>5, <1>6, <1>7, <1>8, <1>9, <1>10 DEF Next

(* A plan that fits the session is never refused for what it reads and     *)
(* writes itself, however its operands are placed, packed, split and       *)
(* padded, and however often it is run.                                    *)
THEOREM PlansFitAlone == Spec => []RefusedForOthersOnly
<1>1. Init => AloneInv
  BY DEF Init, SessionInit, AloneInv, TablesOf, Nowhere
<1>2. StageInv /\ AloneInv /\ [Next]_vars => AloneInv'
  BY AloneStep
<1>3. AloneInv => RefusedForOthersOnly
  BY DEF AloneInv, RefusedForOthersOnly
<1>. QED BY <1>1, <1>2, <1>3, StageInvariant, PTL DEF Spec
------------------------------------------------------------------------------
(* The session under a GEMM.                                               *)

LEMMA PressureAtZero ==
  ASSUME NEW p \in Plans
  PROVE  \A x \in Pressure(p) : x.offset = 0
<1> SUFFICES ASSUME NEW x \in Pressure(p) PROVE x.offset = 0
  OBVIOUS
<1>1. PICK rank \in Cluster : x.offset = Ask(p, "C", rank).offset
  BY PressureIs
<1>. QED BY <1>1, AskIs DEF Tensors

LEMMA GemmStep ==
  ASSUME StageInv, SessionInv, [Next]_vars
  PROVE  SessionInv'
<1>1. CASE \E p \in Plans : StartRead(p)
  <2>1. PICK p \in Plans : ReplayBulk(Reads(p), p.policy)
    BY <1>1 DEF StartRead
  <2>2. Requests(Reads(p)) /\ \A x \in Reads(p) : x.offset = 0
    BY ReadsAsk
  <2>. QED BY <2>1, <2>2, BulkStep
<1>2. CASE StartWrite
  <2>1. stage.plan \in Plans /\ ApplyOutputPressure(Pressure(stage.plan))
    BY <1>2 DEF StartWrite, StageInv
  <2>2. /\ Requests(Pressure(stage.plan))
        /\ \A x \in Pressure(stage.plan) : x.offset = 0
    BY <2>1, PressureAsks, PressureAtZero
  <2>. QED BY <2>1, <2>2, WriteStep
<1>3. CASE Serve
  BY <1>3, LineStep, FillStep DEF Serve
<1>4. CASE FinishRead \/ FinishWrite
  BY <1>4, ReturnStep DEF FinishRead, FinishWrite
<1>5. CASE RefuseWrite \/ (\E p \in Plans : RefuseRead(p)) \/ UNCHANGED vars
  <2>1. UNCHANGED <<caches, tables, call>>
    BY <1>5 DEF RefuseRead, RefuseWrite, vars, sessionVars
  <2>. QED BY <2>1, IdleStep
<1>6. CASE NewSession
  BY <1>6, ResetStep DEF NewSession
<1>. QED BY <1>1, <1>2, <1>3, <1>4, <1>5, <1>6 DEF Next

(* A session that GEMMs share keeps its tables and caches as one whose     *)
(* calls come from anywhere, whatever stages raise in between.             *)
THEOREM GemmsKeepSession == Spec => []SessionInv
<1>1. Init => SessionInv
  BY EmptySession DEF Init, SessionInit
<1>. QED BY <1>1, GemmStep, StageInvariant, PTL DEF Spec

(* So the blocks of distinct operands, of one plan or of several, never    *)
(* meet in a DRAM sector of a cached line, and no write of an output finds *)
(* a copy of it away from its owner.                                       *)
THEOREM GemmsShareNoSector == Spec => [](NoSectorAliasing /\ WritesFindNoCopies)
<1>1. SessionInv => NoSectorAliasing /\ WritesFindNoCopies
  BY SectorsApart, WritesAlone
<1>. QED BY <1>1, GemmsKeepSession, PTL
================================================================================
