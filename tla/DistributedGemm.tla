--------------------------- MODULE DistributedGemm ---------------------------
(***************************************************************************)
(* model_distributed_gemm of bank_oracle/multi_cluster/model.py and the    *)
(* two stages of memory.py it runs over one L2 session: a read stage that  *)
(* fills the session and has the owners' banks serve what missed, and a    *)
(* write stage that has the banks serve the output and then ages the       *)
(* owners' caches.  Either may raise.  A session outlives its GEMMs, so    *)
(* that what one plan allocated is in the way of the next.                 *)
(*                                                                         *)
(* Matrices are of single elements, PerLine of them to a line in the order *)
(* of rows; one batch.                                                     *)
(***************************************************************************)
EXTENDS DistributedL2, SequencesExt

CONSTANTS
  Plans,           \* the plans a caller may run, see IsPlan
  PerLine          \* elements of A or B in a DRAM line

Swizzles   == {"none", "xor"}
Sharded    == <<"sharded", 0>>
Replicated == <<"replicated", 0>>
Canonical(c) == <<"canonical", c>>
Placements == {Sharded, Replicated} \cup {Canonical(c) : c \in Cluster}
Tensors    == {"A", "B", "C"}
Axes       == {"m", "n", "k"}

(* problem and grid: the extents and how many ranks share them; cPerLine:  *)
(* elements of C in a line, by the width of its type; id and base:         *)
(* allocation_id and allocation_base_sector; fits: the stages' checks of   *)
(* the unit against the session, the swizzles and the grid pass.           *)
IsPlan(p) ==
  /\ {p.problem, p.grid} \subseteq [Axes -> Nat \ {0}]
  /\ p.grid.m * p.grid.n * p.grid.k = Cardinality(Cluster)
  /\ p.placement \in [Tensors -> Placements]
  /\ p.swizzle \in [Tensors -> Swizzles]
  /\ {p.pad, p.packed, p.fits} \subseteq BOOLEAN
  /\ p.scope \in {"request", "wave"} /\ p.policy \in Policies
  /\ {p.id, p.base} \subseteq Nat /\ p.cPerLine \in Nat \ {0}

ASSUME GemmAssumption ==
  /\ PerLine \in Nat \ {0}
  /\ \A p \in Plans : IsPlan(p)

VARIABLES
  stage,           \* the plan being run, where it is and the session then
  outcome,         \* how the last plan ended, and where
  tried, refused   \* the plans since the last reset, those refused

gemmVars == <<stage, outcome, tried, refused>>
vars == <<sessionVars, gemmVars>>
------------------------------------------------------------------------------
(* The requests of a plan.                                                 *)

CeilDiv(x, y) == (x + y - 1) \div y

(* split_extent: the indices of one shard, and effective_problem.          *)
Shard(p, axis, i) ==
  LET extent == p.problem[axis]
      parts  == p.grid[axis]
      extra  == extent % parts
      start  == i * (extent \div parts) + Min({i, extra})
      width  == CeilDiv(extent, parts)
  IN  IF p.pad THEN i * width .. (i + 1) * width - 1
      ELSE start .. start + extent \div parts + (IF i < extra THEN 1 ELSE 0) - 1

Extent(p, axis) ==
  IF p.pad THEN CeilDiv(p.problem[axis], p.grid[axis]) * p.grid[axis]
  ELSE p.problem[axis]

Rank(p, m, n, k) == (m * p.grid.n + n) * p.grid.k + k

At(p, rank) == [m |-> rank \div (p.grid.n * p.grid.k),
                n |-> (rank \div p.grid.k) % p.grid.n, k |-> rank % p.grid.k]

RowsOf(t) == IF t = "B" THEN "k" ELSE "m"
ColsOf(t) == IF t = "A" THEN "k" ELSE "n"
Width(p, t) == IF t = "C" THEN p.cPerLine ELSE PerLine

Storage(p, t) == CeilDiv(Extent(p, RowsOf(t)) * Extent(p, ColsOf(t)), Width(p, t))

(* The lines of a tensor's region: C follows B, which follows A; the k-th  *)
(* partial C is as many storage sizes further on.                          *)
Region(p, t, k) ==
  LET first == p.base + (IF t = "A" THEN 0 ELSE Storage(p, "A"))
                      + (IF t = "C" THEN Storage(p, "B") + k * Storage(p, "C") ELSE 0)
  IN  <<first, first + Storage(p, t)>>

(* A global block is where the whole matrix has it; a packed one starts    *)
(* its owner's region.                                                     *)
Packed(p, t) == p.packed /\ p.placement[t] = Sharded

Block(p, t, at, slot) ==
  LET rows == Shard(p, RowsOf(t), at[RowsOf(t)])
      cols == Shard(p, ColsOf(t), at[ColsOf(t)])
      Line(r, c) == IF Packed(p, t)
                    THEN (r - Min(rows)) * Cardinality(cols) + c - Min(cols)
                    ELSE r * Extent(p, ColsOf(t)) + c
  IN  {Region(p, t, slot)[1] + Line(r, c) \div Width(p, t) : r \in rows, c \in cols}

(* What tells two layouts of one allocation apart.                         *)
Layout(p, t, at, slot) ==
  <<p.swizzle[t], Width(p, t), Extent(p, RowsOf(t)), Extent(p, ColsOf(t)),
    Region(p, t, slot), p.base>>
    \o (IF Packed(p, t)
        THEN <<p.problem, p.cPerLine, p.grid, p.pad, at[RowsOf(t)], at[ColsOf(t)]>>
        ELSE <<>>)

Split(p) == p.grid.k > 1

(* The rank that owns a sharded block: one rank of those that share it.    *)
Owner(p, t, at, rank) ==
  CASE t = "A" -> Rank(p, at.m, 0, at.k)
    [] t = "B" -> Rank(p, 0, at.n, at.k)
    [] OTHER -> IF Split(p) THEN rank ELSE Rank(p, at.m, at.n, 0)

(* TensorPlacement.owner, which is the replica_id too.                     *)
HomeOf(p, t, at, rank) ==
  CASE p.placement[t] = Replicated -> rank
    [] p.placement[t] = Sharded -> Owner(p, t, at, rank)
    [] OTHER -> p.placement[t][2]

(* Wrong form of Slot: the partial sums of all k at one place.             *)
SlotNone(p, t, at) == 0

Slot(p, t, at) == IF t = "C" /\ Split(p) THEN at.k ELSE 0

(* A, B, C and the partial C of each k are allocations of their own.       *)
Name(p, t, at) ==
  CASE t = "A" -> 0 [] t = "B" -> 1
    [] OTHER -> IF Split(p) THEN 3 + at.k ELSE 2

Ask(p, t, rank) ==
  LET at    == At(p, rank)
      slot  == Slot(p, t, at)
      owner == HomeOf(p, t, at, rank)
      alloc == p.id * (4 + Cardinality(Cluster)) + Name(p, t, at)
  IN  [requester |-> rank, owner |-> owner,
       copy |-> alloc * Cardinality(Cluster) + owner,
       sectors |-> Block(p, t, at, slot), offset |-> 0, tensor |-> Name(p, t, at),
       mapping |-> Layout(p, t, at, slot), interval |-> Region(p, t, slot),
       epoch |-> 0]

(* A signature is a tuple of names and numbers, which hash() takes.        *)
ASSUME SignaturesHash ==
  \A p \in Plans, t \in Tensors, rank \in Cluster :
    Ask(p, t, rank).mapping # Unhashable

(* Ranks whose shard is empty take no part.                                *)
Working(p) ==
  {rank \in Cluster :
     \A x \in Axes : Shard(p, x, At(p, rank)[x]) # {}}

Reads(p) == {Ask(p, t, rank) : t \in {"A", "B"}, rank \in Working(p)}

(* A write goes to its owner's banks and cache: the owner asks.            *)
Pressure(p) ==
  LET Write(rank) == Ask(p, "C", rank)
  IN  {[Write(rank) EXCEPT !.requester = Write(rank).owner] : rank \in Working(p)}
------------------------------------------------------------------------------
(* _service_grouped_sectors and service_request_groups: the lines an       *)
(* owner's banks transfer for chunks [owner, tensor, copy, sectors].       *)

Decode(swizzle, s) ==
  IF swizzle = "none" THEN s ELSE IF s % 2 = 0 THEN s + 1 ELSE s - 1

SwizzleOf(p, tensor) == p.swizzle[IF tensor = 0 THEN "A" ELSE IF tensor = 1 THEN "B" ELSE "C"]

(* Wrong form of Offset: every tensor's requests are numbered from 0.      *)
OffsetNone(chunks, c) == 0

(* The requests of the tensors before this one.                            *)
Offset(chunks, c) ==
  Cardinality({d \in chunks : d.owner = c.owner /\ d.tensor < c.tensor})

RequestId(p, chunks, c) ==
  Offset(chunks, c) +
    (IF p.scope = "wave" THEN 0
     ELSE Cardinality({d \in chunks : /\ <<d.owner, d.tensor>> = <<c.owner, c.tensor>>
                                      /\ d.copy < c.copy}))

(* Requests to one line of one request id are one transfer.                *)
Transferred(p, chunks) ==
  Cardinality(UNION {{<<c.owner, RequestId(p, chunks, c), Decode(SwizzleOf(p, c.tensor), s)>> :
                        s \in c.sectors} : c \in chunks})

(* The misses of the read, by owner, tensor and copy.                      *)
Misses == {x \in DOMAIN call.answer : call.answer[x] = DdrMiss}

MissChunks ==
  {[owner |-> x.owner, tensor |-> x.tensor, copy |-> x.line[1],
    sectors |-> {y.line[2] : y \in {z \in Misses :
       <<z.owner, z.tensor, z.line[1]>> = <<x.owner, x.tensor, x.line[1]>>}}] :
     x \in Misses}

(* An output tensor is one request at its owner, whatever its copies; the   *)
(* lines that are written are counted copy by copy.                        *)
Written(p, byCopy) ==
  {[owner |-> w.owner, tensor |-> w.tensor, copy |-> IF byCopy THEN w.copy ELSE 0,
    sectors |-> UNION {x.sectors : x \in {v \in Pressure(p) :
                  /\ <<v.owner, v.tensor>> = <<w.owner, w.tensor>>
                  /\ byCopy => v.copy = w.copy}}] : w \in Pressure(p)}

OutputChunks(p) == Written(p, FALSE)

WrittenLines(p) ==
  SumFunction([c \in Written(p, TRUE) |-> Cardinality(c.sectors)])
------------------------------------------------------------------------------
Session == <<caches, tables>>

Ended(result, p, where, before) ==
  [result |-> result, plan |-> p, where |-> where, before |-> before]

Nowhere == [result |-> "none"]

Init ==
  /\ SessionInit
  /\ stage = None /\ outcome = Nowhere
  /\ tried = {} /\ refused = {}

ReadAdmitted(p) == p.fits /\ Admissible(Reads(p))

StartRead(p) ==
  /\ stage = None
  /\ ReadAdmitted(p)
  /\ ReplayBulk(Reads(p), p.policy)
  /\ stage' = [plan |-> p, at |-> "read", before |-> Session]
  /\ outcome' = Nowhere /\ tried' = tried \cup {p}
  /\ UNCHANGED refused

Raise(p, where, before) ==
  /\ stage' = None
  /\ outcome' = Ended("ValueError", p, where, before)
  /\ tried' = tried \cup {p} /\ refused' = refused \cup {p}

RefuseRead(p) ==
  /\ stage = None
  /\ ~ReadAdmitted(p)
  /\ Raise(p, "read", Session)
  /\ UNCHANGED sessionVars

Serve ==
  /\ stage # None
  /\ BulkLine \/ BulkFlush \/ FillOwn
  /\ UNCHANGED gemmVars

(* bank_read_bytes # l2_result.ddr_bytes raises, after the session changed.*)
FinishRead ==
  /\ stage # None /\ stage.at = "read"
  /\ Return
  /\ IF Transferred(stage.plan, MissChunks) # Cardinality(Misses)
     THEN Raise(stage.plan, "banks", stage.before)
     ELSE /\ stage' = [stage EXCEPT !.at = "write",
                         !.before = <<caches, tables>>]
          /\ UNCHANGED <<outcome, tried, refused>>

WriteAdmitted(p) ==
  /\ p.fits
  /\ MappingsAgree(Pressure(p))
  /\ Transferred(p, OutputChunks(p)) = WrittenLines(p)
  /\ Writable(Pressure(p)) /\ Admissible(Pressure(p))

StartWrite ==
  /\ stage # None /\ stage.at = "write"
  /\ WriteAdmitted(stage.plan)
  /\ ApplyOutputPressure(Pressure(stage.plan))
  /\ stage' = [stage EXCEPT !.at = "pressure"]
  /\ UNCHANGED <<outcome, tried, refused>>

RefuseWrite ==
  /\ stage # None /\ stage.at = "write"
  /\ ~WriteAdmitted(stage.plan)
  /\ Raise(stage.plan, "write", stage.before)
  /\ UNCHANGED sessionVars

FinishWrite ==
  /\ stage # None /\ stage.at = "pressure"
  /\ Return
  /\ stage' = None
  /\ outcome' = Ended("GEMM", stage.plan, "end", Session)
  /\ UNCHANGED <<tried, refused>>

NewSession ==
  /\ stage = None
  /\ Reset
  /\ stage' = None /\ outcome' = Nowhere
  /\ tried' = {} /\ refused' = {}

Next ==
  \/ \E p \in Plans : StartRead(p) \/ RefuseRead(p)
  \/ Serve \/ FinishRead
  \/ StartWrite \/ RefuseWrite \/ FinishWrite
  \/ NewSession

Spec == Init /\ [][Next]_vars
------------------------------------------------------------------------------
(* A stage that raises leaves the session as it found it, although a read  *)
(* stage fills the caches before it compares the bytes of the banks with   *)
(* its own: "reject ... before a persistent cache can mutate".             *)
RefusedStagesLeaveSession ==
  outcome.result = "ValueError" => Session = outcome.before

(* A plan is refused for what another plan left in the session and never   *)
(* for what it reads and writes itself, however its operands are placed,   *)
(* packed, split and padded, and however often it is run.                  *)
RefusedForOthersOnly ==
  outcome.result = "ValueError" /\ outcome.plan.fits =>
    tried \ {outcome.plan} # {}

(* A plan once refused is not run before the session is reset: the tables  *)
(* only grow, and a caller that retries gets the same answer.              *)
RefusedForGood == outcome.result = "GEMM" => outcome.plan \notin refused
=============================================================================
