-------------------------------- MODULE Cannon --------------------------------
(***************************************************************************)
(* model_cannon_gemm of bank_oracle/multi_cluster/cannon.py: the schedule  *)
(* of products and of block transfers on a Q x Q grid of clusters.  The    *)
(* code charges each transfer to the network by the size of the block it   *)
(* names; here the named blocks move, so that a schedule computing with a  *)
(* block it was never sent shows.  Batches, element sizes and time are     *)
(* left out.                                                               *)
(***************************************************************************)
EXTENDS Integers, FiniteSets, FiniteSetsExt, Functions

CONSTANTS
  Q,        \* the side of the grid
  Extent    \* the values of m, n and k

ASSUME CannonAssumption == Q \in Nat \ {0} /\ Extent \subseteq Nat \ {0}

VARIABLES
  plan,     \* CannonPlan: m, n, k, pad, runtime (initial_skew), restore
  phase,    \* "load", "skew", "rounds" or "stored"
  round,    \* round_index
  aAt,      \* cluster -> the blocks <<row, k>> of A it holds
  bAt,      \* cluster -> the blocks <<k, column>> of B it holds
  products, \* cluster -> the k indices it multiplied, one entry per round
  useful,   \* useful_flops, in multiply-adds
  modeled   \* modeled_flops, likewise

cannonVars == <<plan, phase, round, aAt, bAt, products, useful, modeled>>

Index   == 0 .. Q - 1
Cluster == Index \X Index    \* <<row, column>>, the rank of a cluster

Plan == [m : Extent, n : Extent, k : Extent,
         pad : BOOLEAN, runtime : BOOLEAN, restore : BOOLEAN]

(* split_extent: the size of a shard and the part of it that is data.      *)
CeilDiv(value, divisor) == (value + divisor - 1) \div divisor

(* Wrong form of Width: the remainder goes to one shard too many.          *)
WidthOffByOne(extent, index, pad) ==
  IF pad THEN CeilDiv(extent, Q)
  ELSE extent \div Q + (IF index <= extent % Q THEN 1 ELSE 0)

Width(extent, index, pad) ==
  IF pad THEN CeilDiv(extent, Q)
  ELSE extent \div Q + (IF index < extent % Q THEN 1 ELSE 0)

(* Wrong form of Start: the shards before one are all taken as narrow.     *)
StartNarrow(extent, index, pad) ==
  IF pad THEN index * CeilDiv(extent, Q) ELSE index * (extent \div Q)

Start(extent, index, pad) ==
  IF pad THEN index * CeilDiv(extent, Q)
  ELSE index * (extent \div Q) + Min({index, extent % Q})

Stop(extent, index, pad) == Start(extent, index, pad) + Width(extent, index, pad)

LogicalSize(extent, index, pad) ==
  IF pad THEN Max({0, Min({Stop(extent, index, pad), extent})
                        - Start(extent, index, pad)})
  ELSE Width(extent, index, pad)

Rows(i)    == Width(plan.m, i, plan.pad)
Columns(j) == Width(plan.n, j, plan.pad)
Depth(x)   == Width(plan.k, x, plan.pad)

(* A and B blocks that exist: empty shards are not requested.              *)
BlocksA == {b \in Index \X Index : Rows(b[1]) > 0 /\ Depth(b[2]) > 0}
BlocksB == {b \in Index \X Index : Depth(b[1]) > 0 /\ Columns(b[2]) > 0}

(* Where the initial skew takes a block.                                   *)
SkewA(b) == <<b[1], (b[2] - b[1]) % Q>>
SkewB(b) == <<(b[1] - b[2]) % Q, b[2]>>

(* The k index cluster c works on.                                         *)
AtWork(c, r) == (c[1] + c[2] + r) % Q

(* Every flow takes its block from one cluster to another; an empty block  *)
(* makes an empty flow, which the network drops.                           *)
Moved(at, flows) ==
  [c \in Cluster |->
     (at[c] \ {f.block : f \in {g \in flows : g.from = c}})
       \cup {f.block : f \in {g \in flows : g.to = c /\ g.block \in at[g.from]}}]

Hold(blocks, Where(_)) ==
  [c \in Cluster |-> {b \in blocks : Where(b) = c}]
------------------------------------------------------------------------------
CannonInit ==
  /\ plan \in Plan
  /\ phase = "load" /\ round = 0
  /\ aAt = [c \in Cluster |-> {}] /\ bAt = [c \in Cluster |-> {}]
  /\ products = [c \in Cluster |-> {}]
  /\ useful = 0 /\ modeled = 0

(* _input_requests: with pre-skewed storage the requester of a block is    *)
(* the cluster its skew would have taken it to.                            *)
Load ==
  /\ phase = "load"
  /\ phase' = "skew"
  /\ aAt' = Hold(BlocksA, LAMBDA b : IF plan.runtime THEN b ELSE SkewA(b))
  /\ bAt' = Hold(BlocksB, LAMBDA b : IF plan.runtime THEN b ELSE SkewB(b))
  /\ UNCHANGED <<plan, round, products, useful, modeled>>

(* _initial_skew_flows                                                     *)
SkewFlows(Skew(_)) ==
  IF plan.runtime
  THEN {[from |-> b, to |-> Skew(b), block |-> b] : b \in Index \X Index}
  ELSE {}

InitialSkew ==
  /\ phase = "skew"
  /\ phase' = "rounds"
  /\ aAt' = Moved(aAt, SkewFlows(SkewA))
  /\ bAt' = Moved(bAt, SkewFlows(SkewB))
  /\ UNCHANGED <<plan, round, products, useful, modeled>>

(* Wrong form of ShiftA: blocks of A leave in the other direction.         *)
ShiftAForward(c) == <<c[1], (c[2] + 1) % Q>>

ShiftA(c) == <<c[1], (c[2] - 1) % Q>>
ShiftB(c) == <<(c[1] - 1) % Q, c[2]>>

(* _round_shift_flows                                                      *)
ShiftFlowsA(r) ==
  {[from |-> c, to |-> ShiftA(c), block |-> <<c[1], AtWork(c, r)>>] : c \in Cluster}
ShiftFlowsB(r) ==
  {[from |-> c, to |-> ShiftB(c), block |-> <<AtWork(c, r), c[2]>>] : c \in Cluster}

Useful(c, r) == LogicalSize(plan.m, c[1], plan.pad)
                  * LogicalSize(plan.n, c[2], plan.pad)
                  * LogicalSize(plan.k, AtWork(c, r), plan.pad)

Modeled(c, r) == Rows(c[1]) * Columns(c[2]) * Depth(AtWork(c, r))

(* Wrong form of HasShift: the skew is never restored.                     *)
HasShiftUnlessLast(r) == r < Q - 1

HasShift(r) == r < Q - 1 \/ plan.restore

(* One turn of the round loop: every cluster multiplies, then blocks move. *)
Round ==
  /\ phase = "rounds" /\ round < Q
  /\ products' = [c \in Cluster |->
                    products[c] \cup {<<round, AtWork(c, round)>>}]
  /\ useful' = useful + SumFunction([c \in Cluster |-> Useful(c, round)])
  /\ modeled' = modeled + SumFunction([c \in Cluster |-> Modeled(c, round)])
  /\ IF HasShift(round)
     THEN /\ aAt' = Moved(aAt, ShiftFlowsA(round))
          /\ bAt' = Moved(bAt, ShiftFlowsB(round))
     ELSE UNCHANGED <<aAt, bAt>>
  /\ round' = round + 1
  /\ UNCHANGED <<plan, phase>>

(* _output_requests: every cluster writes its own block of C.              *)
Store ==
  /\ phase = "rounds" /\ round = Q
  /\ phase' = "stored"
  /\ UNCHANGED <<plan, round, aAt, bAt, products, useful, modeled>>

CannonNext == Load \/ InitialSkew \/ Round \/ Store

CannonSpec == CannonInit /\ [][CannonNext]_cannonVars
------------------------------------------------------------------------------
(* Whenever a round starts, each cluster holds the blocks of A and B that  *)
(* the round multiplies there, and no other: the schedule of products, the *)
(* skew and the shifts, three separate formulas of the code, agree for     *)
(* ragged and padded shards and for both storage arrangements.             *)
OperandsAtHand ==
  phase = "rounds" /\ round < Q =>
    \A c \in Cluster :
      /\ aAt[c] = {<<c[1], AtWork(c, round)>>} \cap BlocksA
      /\ bAt[c] = {<<AtWork(c, round), c[2]>>} \cap BlocksB

(* Every block of C is complete when it is stored: its cluster multiplied  *)
(* each pair of blocks once, and the multiply-adds add up to m * n * k;    *)
(* with padding more are modelled than are useful, else as many.           *)
ProductExact ==
  phase = "stored" =>
    /\ \A c \in Cluster : {p[2] : p \in products[c]} = Index
    /\ useful = plan.m * plan.n * plan.k
    /\ useful <= modeled /\ (plan.pad \/ useful = modeled)

(* The shards of an extent tile it: no index is left out, no index is in   *)
(* two shards, and only padding lies beyond the end.                       *)
ShardsTile ==
  \A extent \in {plan.m, plan.n, plan.k} :
    /\ \A x \in 0 .. extent - 1 :
         Cardinality({i \in Index : Start(extent, i, plan.pad) <= x
                                      /\ x < Stop(extent, i, plan.pad)}) = 1
    /\ ~plan.pad => Stop(extent, Q - 1, plan.pad) = extent

(* restore_initial_skew: after the last shift every block is back where    *)
(* the skew had put it, so that the plan can be run again.                 *)
SkewRestored ==
  phase = "stored" /\ plan.restore =>
    aAt = Hold(BlocksA, SkewA) /\ bAt = Hold(BlocksB, SkewB)
=============================================================================
