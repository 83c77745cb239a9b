# A verification of TileStack

TileStack is a set of analytical performance models for stacked-DRAM
accelerators.  Most of it is arithmetic on real-valued times.  Three parts of
it are stateful and order-sensitive, and these are what this directory models
in TLA+, checks with TLC on small instances and, where marked, proves for every
instance with TLAPS:

* the **bank oracle** (`src/src/deepstack/bank_oracle`): a deterministic FIFO
  L2, a memoised walk of tile requests over it, a session of private L2s shared
  by a unit of clusters, the stages of a distributed GEMM over that session, a
  list scheduler of DRAM row jobs on shared ports, and Cannon's algorithm;
* the **network of Mosaic** (`src/src/deepstack/mosaic`): traffic routed hop by
  hop over three layers, and collectives costed stage by stage on it;
* the **artifact workflow** (`src/ae`): stage processes, their files, a manifest
  and a verifier, any of which may fail or be killed and run again.

Every published number rests on the first two being right step by step, and a
wrong step shows only as a slightly different number; the third says which
numbers count as reproduced.

Paths below are relative to `src/src/deepstack/bank_oracle/` unless they start
with `src/`.  `PROJECT.json` maps every definition to its source lines.

## Inventory

| Component | State it keeps | Operations | Interacts with | What makes it correct |
|---|---|---|---|---|
| FIFO L2 cache, `l2_cache.py` | queue, dictionary of footprints, insertion history, line clock, peak | `fill_line`, `access_line`, `access`, `probe_line`, `clone` | called by the trace and by the session | queue and dictionary agree; capacity holds; residency is decided by age; FIFO order survives hits |
| GEMM L2 trace, `gemm.py` | one cache, `resident_memo`, statistics | `_fifo_sector_request` for A, B and C tiles | the cache; the bank profile reads its hits and partial misses | a memo answer equals a walk; the miss list is exact |
| Distributed L2 session, `multi_cluster/cache.py` | one cache per cluster; homes, bank mappings, address intervals; read-only copies | `replay_epoch`, `replay_bulk_epoch`, `apply_output_pressure`, `reset`, `clone` | called by the memory stages, several operators per session | lookups see the epoch's snapshot; one DDR miss per cold line; refused calls change nothing; no two copies share a sector; writes meet no stale copy |
| Bank service engine, `engine.py` | per call: ports, bank readiness, open jobs | `_schedule_shared_ports`, bounds, histograms, request groups | called by GEMM profiles and memory stages | ports and banks serve one job at a time; no idle port while a job waits; bounds never exceed the schedule; operands never merge |
| Memory stages, `multi_cluster/memory.py` | none of their own | `model_read_stage`, `model_write_stage` | session, engine, network | a refused stage leaves the session alone; banks transfer what missed |
| Distributed GEMM, `multi_cluster/model.py`, `local.py` | none of its own | `model_distributed_gemm` | memory stages over one session | a plan is refused for what others left, never for itself; a refusal is final |
| Cannon, `multi_cluster/cannon.py`, `common.py` | round, placement of blocks | `model_cannon_gemm` | memory stages, network | operands are where the round multiplies them; all products once |
| Artifact workflow, `src/ae/workflow.py`, `cli.py`, `verification.py` | manifest, summary of the last verification | `reproduce`, `run`, `plot`, `verify` | stage processes, file system | a rerun recovers, unless a stage run alone left an image; a verified directory is one coherent run |
| Figure and table stages, `src/ae/fig*.py`, `table4.py`, `plot_all.py` | points, summary and PASS or FAIL marker of each | evaluate, check, write, mark, in an order of each stage's own | started by the workflow or alone; read by the verifier and the figures | a marker speaks for the results beside it |
| Mosaic network, `mosaic/noc/noc_topo.py`, `traffic_matrix.py` | per call: traffic matrix, extended traffic | `route`, `build_extended_traffic_matrix`, `compute_stage_latency_ext` | called by the collectives | every move is over a link there is; routes are no longer than needed |
| Mosaic collectives, `mosaic/collectives` | traffic matrix, totals, best algorithm so far | five all-reduce algorithms, reduce-scatter, partial broadcast | the network | the stages counted make up the collective; bytes charged are bytes moved |
| Layouts and swizzles, `layout.py` | none | `map_bank`, `unmap_bank`, `byte_intervals` | engine, trace | swizzles are reversible; intervals cover a tile once |
| Pipeline model, `pipeline.py` | none | `pipeline_cycles`, stage search | GEMM result | closed formula |
| Job pool, `parallel.py` | pool of workers | `map_jobs` | layout and stage search | same order as the serial search |
| Mosaic DSE, `mosaic/dse_space` | process pool, CSV | evaluate points, append rows | CSV | every point once |
| Mosaic cost and LLM models; TileSight | none | closed formulas | architecture parameters | arithmetic |

### What is hard here

* *Concurrency in logical time.*  The program is single threaded, but an epoch
  models requests that are concurrent.  The bulk path classifies and fills in
  one loop, so it must not see its own fills; merged misses must not become
  hits; the order of fills decides which lines a small FIFO keeps.
* *Stale state.*  A memo answers a request from a sequence number recorded many
  evictions ago; requester copies are never invalidated, so a later write has
  to be refused; the age assertion compares clocks moved by three paths.
* *Atomicity and partial failure.*  A session call validates many requests and
  then commits three tables; a read stage raises after the session changed.
* *Crash and restart.*  A stage or the whole command may die between any two
  files; the next run, or a stage run alone, finds what was left.
* *Sums that hide errors.*  A collective is costed by routing some stages once
  and counting them several times; a stage too few, or a matrix not reset, is
  only a slightly other latency.
* *Boundaries.*  A block exactly as large as the cache, a request larger than
  it, intervals that touch, ragged and empty shards, integer bounds.
* *Order and termination* of the eviction loop and of the list scheduler.

`PROJECT.json` lists each hazard at its line, with the properties that watch it
or the reason why none does.

## Modules

| Module | What it is |
|---|---|
| `ReuseWindow` | the abstract promise of the cache: a clock and, for each key, the clock of its last insertion; a lookup hits exactly when at most a capacity of lines came in since |
| `FifoCache` | `DeterministicFifoCache`: the variables are its fields, `LineHit`/`LineMiss` are `fill_line` and `access_line`, `BlockHit`/`BlockStream`/`BlockMiss` the branches of `access`, `EvictOldest` one turn of its `while` loop, `InsertBlock` the rest; `result` is what a call returns or raises |
| `RequestMemo`, `MCRequestMemo` | `_fifo_sector_request` over a `FifoCache`: `MemoHit` is the early return, `BeginWalk`, `WalkHit`, `WalkMiss`, `EndWalk` the loop; any request may come next, which covers every CTA and wave order of `_build_gemm_l2_trace` |
| `RequestMemoProofs` | theorems about `FifoCache` and `RequestMemo` |
| `LineFifo` | a cache reduced to its queue, for callers that only fill and probe lines; `RequestMemoProofs` proves (`QueueIsFilled`) that the line calls of `FifoCache` move the queue as `Fill` says |
| `EpochReplay` | the abstract promise of a session: one step per call, classification against the caches before it, one DDR miss per cold line, fills afterwards in line order, refused calls without effect |
| `DistributedL2`, `MCDistributedL2` | `DistributedL2Session`: a call is admitted by all of its checks or refused, commits its tables, and then fills line by line (`FillOwn`, `FillCopy`, `BulkLine`, `BulkFlush`) until `Return` |
| `DistributedL2Proofs` | theorems about it |
| `PortSchedule` | `_schedule_shared_ports` with `service_histogram`'s bounds: `FullyConnected` is the shortcut, `Place` one turn of `while remaining`, `NextColumn` the loop over columns |
| `PortScheduleProofs` | theorems about it |
| `FiniteProofs` | lemmas on finite sets that the proofs of several components cite: least and greatest elements, induction, sums |
| `DistributedGemm`, `MCDistributedGemm` | `model_distributed_gemm` with `model_read_stage` and `model_write_stage`: `StartRead`, `Serve` (steps of the session's calls), `FinishRead`, `StartWrite`, `FinishWrite`, and `RefuseRead`, `RefuseWrite` where a stage raises; plans follow each other on one session until `NewSession` |
| `DistributedGemmProofs` | theorems about it |
| `Cannon` | `model_cannon_gemm`: `Load`, `InitialSkew`, `Round` (multiply, then shift), `Store`; blocks move as the flows name them |
| `CannonProofs` | theorems about it |
| `NocRoutes` | `Hierarchy.route`, one snapshot per step: `Depart` from the source's device, `Walk` from switch to switch, `Cross` to the next tile, `Arrive`; each move is charged as `build_extended_traffic_matrix` does; the links (`SwitchLinks`, `CentreLinks`, `MiddleLinks`, `OuterLinks`) are listed as the separate function that builds the bandwidth matrix does it |
| `Collectives`, `MCCollectives` | the wrappers: `Fill` a stage's traffic matrix, `Route` it over `NocRoutes`, `StageRouted` with its reset, `Count` as often as the code counts it, `Compare` with the best algorithm so far |
| `CollectivesProofs` | theorems about `NocRoutes` and `Collectives` |
| `Workflow`, `MCWorkflow` | `run_workflow` and the stages: each stage is a *script*, the order in which its source computes, checks, writes and marks (`Extra`: the image of fig08 and the upper PASS of fig22); `StageDies`, `Killed` at any step; `StageReturns` writes the manifest; `VerifyPasses`, `VerifyFails` are the verifier |
| `WorkflowProofs` | theorems about it |

Composition: `RequestMemo` extends `FifoCache` and drives its actions;
`DistributedGemm` extends `DistributedL2` and drives its calls; `Collectives`
extends `NocRoutes` and drives its routes;
`FifoCache` instantiates `ReuseWindow` (`ImplementsWindow`), `DistributedL2`
instantiates `EpochReplay` (`ImplementsEpochReplay`).  The refinement mapping of
the cache takes `insertedLines` for the abstract clock; the mapping of the
session hides the caches of a call in progress behind the snapshot it started
from (`Settled`), since no caller can look at them before it returns.

Names follow the source.  Where a module holds a definition called the *wrong
form* of the next one, that is a plausible programming error kept for mutation
runs: with it in place of the right one, the property it is paired with in
`PROJECT.json` fails.

### Abstractions

*Session, cache, scheduler, Cannon*

* Keys, allocations and tensors are numbers or model values.  A *copy* in
  `DistributedL2` stands for the pair (allocation, replica).
* Statistics, byte counts and times are derived from classifications and are
  left out, except the cycles of `PortSchedule`, which are its subject.
* Arguments that a constructor refuses before any state exists (negative
  numbers, empty tensor names, mixed line sizes) are not inputs.  An empty call
  returns early and leaves the session as it was.  `clone` copies values and
  needs no action.
* In `PortSchedule` jobs are numbered in the order of their tie-breakers (row,
  request, index) and cycles are integers, as the validated specification makes
  them.  The connectivity cap is left out: `service_histogram` takes the
  maximum with it, so that no bound involving it can exceed the result.
* `Cannon` leaves out batches, element sizes and sectors; every formula of the
  code multiplies by them.

*Distributed GEMM*

* Matrices have one batch and single elements, `PerLine` of them to a line, and
  allocations start on lines.  The wider partial results of a split product are
  a smaller number of C elements per line (`cPerLine`).
* `fits` stands for the checks a stage makes of the unit against the session,
  of the swizzles and of the grid, before anything happens; a plan has it or
  not.
* A swizzle is a permutation of the sectors of an operand's own region.  The
  network estimate, the on-chip phase and all times are results, not state.

*Network and collectives*

* The innermost layer is a switch; both grids have sides of 1, 2 or 4; chains
  and rings are grids of one row.  Networks of switches only, networks without
  a switch, and the older `compute_stage_latency` are left out.
* The hash that selects a port has odd multipliers, and a side has
  one port or two; only the parities of its arguments are kept.
* Messages are multiples of the group size, so that no division rounds.
  Reported `total_traffic` and energy are not modelled, nor are all-gather and
  the all-to-all of experts.
* The data the ranks hold (`held`), whether a chunk was added twice (`twice`)
  and what a message must carry (`Cargo`) are not in the code, which only
  counts bytes; they are what the cost is the cost of.
* Things met on the way and left outside: `_route_hops` chooses the exit for the
  hop after next modulo the ports of the inner grid
  (`noc_topo.py`, about line 753), which differs from the exit later taken when
  the outer side has fewer ports than the inner one; a grid with one row and a
  ring gives a node two edges to itself; `dump_perf_log=False` unpacks four
  values into three (1785); a group of one device returns no traffic total.

*Workflow*

* What a stage computes is *good* or *bad*, and a file says one of these or is
  *torn*.  A torn CSV is one the row counts of the verifier reject.
* A stage that evaluates two versions of a model keeps a directory for each; the
  model follows one of them, with its PASS, and the PASS fig22 writes above both
  (`root`).  fig22 clears the markers of a version's directory before it writes
  there (`fig22.py` 993), the upper one it never clears (1120): it may stand
  beside results of a later run that failed, was killed or computed one version
  alone, until a run writes it again.  `PassSpeaksForResults` is therefore about
  the PASS of a version's directory, and `RootPassIsOfTheRun` says what is left:
  in a tree the verifier accepts, the upper PASS is of the run of the PASS below
  it, unless fig22 was run alone since.
* The workflow runs fig08 with `--no-plot` (`workflow.py` 46 and 72).  Run alone,
  `python -m ae.fig08` draws `modeling_accuracy.png` into the result tree
  (`fig08.py` 630); no run removes it, and the verifier refuses every file it
  does not expect (`verification.py` 1546-1556).  From then on a run whose
  stages all return 0 is rejected until the image is removed by hand:
  `RerunRecovers` says that this is the only thing a rerun does not recover
  from.  No document of the repository speaks of it, so it is no finding.
* Of the options of a stage run alone the model has `--no-plot`, `--no-verify`
  of fig08 (`Unchecked`; fig17 has it too, where it comes to the same files as a
  failed check) and a single model version; diagnostic ones
  (`--skip-corrected-regression`, `--skip-expected-regression`, other input
  files or directories) are left out.
* The log of a stage exists once its row does.  `verification_summary.json` is the
  variable `report`.
* The verifier compares image sizes with the figure manifest; sizes of other
  images may coincide, so `VerifyPasses` may accept where `MustPass` does not
  hold, and `VerifyFails` reject.
* A killed workflow leaves no orphan behind, two commands never run in one tree
  at once, and `verify` is not killed between the files it writes.
* fig08, fig17 and fig21 leave their points when a later check of theirs fails.
  Run alone into a finished tree they can thus leave results that failed where
  good ones were, and the verifier, which reads their shape, accepts them.
  `PassSpeaksForResults` therefore speaks of the stages that clear their markers
  or check their points first.

## Runs

| Run | Instance | What it shows |
|---|---|---|
| `fifo_cache` | 3 keys, capacity 3, blocks of 1 to 4 lines, line clock up to 8 | line and block calls in every order; a block as large as the cache and one larger; three keys overfill three lines, and eight insertions give every key several lives.  Structure, residency by age, hit distances, FIFO order, refinement of `ReuseWindow`, and termination of the eviction loop |
| `request_memo` | 4 sectors, 3 lines, requests that overlap, that do not, and one larger than the cache, clock up to 12 | trusted entries are right, complete and survive other walks; the miss list is exact |
| `distributed_l2` | 2 clusters with 2 and 1 lines; detailed, bulk and write calls of up to two requests; both fill policies; requests misplaced behind or over another copy, or outside the unit | the whole contract of the session, its tables over calls of all kinds, and writes after copies |
| `bulk_fill_order` | 3 clusters, 1 line each, bulk reads from two owners | **finding 1** |
| `bulk_two_names` | 2 clusters, one allocation under two tensor names | **finding 2** |
| `port_schedule` | 3 layers, 2 ports, 2 columns, every assignment of 4 jobs of 1 or 2 sectors | exclusivity, work conservation, order of starts, safety of the bounds, agreement with the critical path |
| `port_direct` | 2 layers, 2 ports, 2 columns, 4 jobs of 1 to 3 sectors | the shortcut and the bounds |
| `cannon` | 3 x 3 grid, extents 1, 2, 4 and 5, padded or not, runtime or pre-skewed, restored or not | operands meet, products are complete, shards tile, the skew is restored |
| `distributed_gemm` | 4 clusters of 2 lines; six plans: sharded, replicated and canonical operands, packed and global blocks, padded, split in K, one that fails the first checks; any number of them in any order | a stage that raises leaves the session as it was; a plan is refused only for what another left; a refusal lasts until the session is reset |
| `network` | a ring and a chain of four tiles, a 2 x 2 torus of tiles, one tile with a 4 x 4 torus of two ports, a 4 x 4 mesh of tiles; eight collectives of 16 to 64 devices in groups of 2 to 8 | every chain of every stage, move by move: links exist, routes are direct, endpoints carry what the matrix says; the stages counted, run on data, are the collective, at no less than its least cost |
| `row_links` | two tiles one above the other | **finding 3** |
| `workflow` | fig08, each other stage or two, figures; 3 commands in one tree; every failure, death and kill | what the manifest, the markers and a verified tree stand for, and that a rerun that returns 0 is accepted exactly when no stage run alone left an image |

*Why these bounds.*  `MaxInserted` caps the monotone line clock, in the guards of
the actions that insert.  It lets the cache turn over more than twice in
`fifo_cache` and four times in `request_memo`; in the proofs it is arbitrary.
`MaxRuns` caps the commands started in one result tree: three are a complete
run, one that is cut off, and one more, alone or not, on what these left; it is
arbitrary in the proofs too.  `MaxFootprint` allows one block larger than the
cache.  Two clusters suffice for owner and requester; a third is only needed
for one requester to read from two owners, and `bulk_fill_order` has it.  Three
layers on two ports are the least on which ports contend while a bank
recharges; recharge is longer than one sector, so that a port must sometimes
wait.  A 3 x 3 grid is the least on which the two shift directions differ.
Groups of 4 are the least on which tree, halving and ring differ in their
stages, and 8 gives the trees a level more; the networks have every kind of
link, with one port and with two.  In `network`, traffic between tiles goes along
rows of tiles only, because of finding 3.

*Deadlock* is checked where the system must go on: in the scheduler (some job
can be placed), in `distributed_gemm` (a session can be reset) and in `workflow`
(some command can be started or ends).  The other systems may stop: clocks are
bounded, a session need not be called again, Cannon and a list of collectives
end.

*Fairness.*  Only `fifo_cache` assumes any: weak fairness of `EvictOldest` and
`InsertBlock`, the turns of a `while` loop in one thread, which nothing in the
code suspends.  Callers need not call again, and a user may kill a workflow and
never return, so no other liveness is claimed.

## Findings

1. **Bulk fill order** (`multi_cluster/cache.py` 664 and 777-782).  The
   docstring of `replay_bulk_epoch` promises the semantics of the detailed path.
   With `requester_and_home` the requester queues fill in group order (owner
   first), while `replay_epoch` sorts the requester fills by physical line.  A
   requester that reads from two owners in one epoch may keep other lines.
2. **One line under two names** (`multi_cluster/cache.py` 632-637).  The bulk
   path groups by tensor name too.  One allocation read under two names is
   classified twice against the snapshot and costs two DDR misses, against "a
   cold physical line generates exactly one owner-DDR miss".
3. **Links between rows of tiles** (`src/src/deepstack/mosaic/noc/noc_topo.py`
   575-581 and 1017-1018).  `hop_dir` calls the hop from row r to row r + 1
   "up", `_neighbors_2d` calls the same edge "down".  Routes leave a tile by
   its up ports, the bandwidth matrix has the link at its down ports, and the
   maximum over links (1842) skips cells without bandwidth.  Traffic along a
   column of tiles therefore takes no link time, against the docstrings at 1776
   and 1090.

The main session run therefore keeps one tensor name per allocation and two
clusters; there both paths implement `EpochReplay`.  `network` keeps traffic
between tiles within rows.

## Proofs

TLAPS checks every theorem for all values of the constants, under the named
assumptions of the modules, which TLC evaluates in the runs.  The prover
offers no induction with an operator as parameter; where one is needed the
proofs take a least counterexample instead, which exists because the order on
naturals is well founded.  `FiniteProofs` packs that argument once, for the set
of subsets for which a claim holds (`FiniteInduction`), and with it gives least
and greatest elements (`NatMin`, `FiniteMax`) and sums.  The sums of the models
are `SumFunctionOnSet` of the community modules, a recursive function under a
`CHOOSE`; `MeasureExists` builds a function that satisfies its equation on
every subset of a finite set, `SumIsMeasure` identifies the two, and the lemmas
that follow (adding and removing an element, disjoint unions, monotonicity,
linear combinations, a table of products) are what the proofs use.

**The cache** (`RequestMemoProofs`, first part; `FifoAssumption`: the capacity is positive and
`None` is no key).  `FifoCacheInvariant` proves `FifoInv`, the inductive
invariant.  Capacity and residency are not inductive alone: that evicting the
queue's head frees the lines its dictionary entry says, and the oldest lines,
needs `QueueTilesClock` (the resident blocks tile the newest stretch of the line
clock, in queue order and without a gap), and that a key that left stays out
needs `AgesSplit` (what left is too old, what stayed is young enough, also for
the block whose eviction loop is running).  With `Tiles` a sum of footprints is
one subtraction, which spares an induction over the queue.  `ResidencyByAge`,
`CapacityNeverExceeded` and `NoAgeAssertion` follow from it; `FifoOrder` and
`FifoImplementsWindow` take it at each step.

**The memo** (`RequestMemoProofs`; `RequestAssumption`: a request is a non-empty
list of distinct sectors, as `np.unique` returns it and the first check of
`_fifo_sector_request` demands).  `RequestMemoInvariant` proves `MemoInv`, which
adds to `FifoInv` that no sector of a trusted request is older than its entry
(`MemoBounds`) and that the least sequence of a walk in progress is the age of
one sector it passed and of none older (`WalkBounds`).  `MemoNeverLies` and
`MemoNeverForgets` follow.  Its part `WalkExact` says
what a walk in progress has put on its list: a sector passed so far is on it
exactly when its newest insertion is of this walk, which the eviction of the
sector later in the same walk does not change, and the list is in the order
asked; `AnswersAreExact` is that fact at the end of a walk.  `LinesOnly` (every
block of this cache is one line) is what `QueueIsFilled` needs: a line access
moves the queue of blocks as `LineFifo` moves a queue of lines.

**The scheduler** (`PortScheduleProofs`; `PortAssumption`: positive timing, at
least one port, at most one port per layer, finitely many jobs).
`PortScheduleInvariant` proves `PortInv`.  Its first part, `Ledger`, is inductive
alone.  In it `NoConflict` needs `BanksCovered` and `PortsCovered`, which say
that the two ready tables cover every job placed so far, and `PastColumns`,
because the port table is forgotten between columns while the bank table is
not.  That starts never go back within a column (`DecisionsInOrder`) needs
`PortsBehindMustWait`: a port behind an earlier start exists only while every
bank with jobs left is busy until that start.

The other parts say where the clocks stand.  `PortsPassBusyBanks`: a port let a
cycle pass without data only while no bank with jobs left was ready, and
`BanksTraced`: a bank is busy because of one of its jobs; together they make the
schedule work conserving (`NoPortIdles`), since a job that could have been
issued earlier finds every port past that cycle, carrying data.
`BanksNeverWait`: where no column uses more banks than it has ports, a bank has
done nothing but work; otherwise every port would carry, at the cycle the bank
was ready, a job of another bank of the column, one bank too many
(`NothingToWaitFor`, the pigeonhole).  With `FinishKnown` that is
`SharingCostsNothing`.  `LoadsFit`: the work placed on a bank or a port is no
more than its clock shows.  `ReportedBoundsAreSafe` turns it into jobs shared
out to machines none of which exceeds the finish (`Fits`): then neither does
the longest job, nor the average rounded up (`ParallelFits`), nor the average in
quanta rounded down (`QuantumFits`), nor their maximum rounded up to the common
divisor of the jobs (`FixedJobFits`), and the sectors of a bank are within the
capacity of that many cycles (`RowsFit`, `PackingFits`).

**The session** (`DistributedL2Proofs`; `SessionAssumption`: calls are finite sets
of requests with finite sets of sectors, capacities are positive).
`SessionInvariant` proves `SessionInv`, of three parts.  `TablesAgree`: every
allocation with an interval has one home, that of the interval, and no two
intervals of a home overlap.  `CachesAllowed`: each cached line is *allowed*
where it is, its sector within the interval on record for it, its cluster the
home or a requester of a copy on record.  `CallAllowed` says the same of what
the call under way is yet to fill, and that an admitted write is of what
nobody copied.  None of the three is inductive alone: a fill happens many
steps after the check that allowed it.  `SectorsNeverAlias` follows because an
allowed line's interval fixes its allocation, `CopiesAreRecorded` and
`WritesMeetNoCopies` from the other two parts.  A call makes each interval the
hull of what it was and what is asked (`HullsGrow`, `IntervalsGrow`); least and
greatest elements exist because calls are finite.  Since tables only grow, a
call refused for a home, a mapping, an overlap or a copy is refused ever after
(`RefusalLasts`).

`SessionImplementsReplay` is the refinement: under a condition on the bulk sets,
`SessionSpec` implies `ImplementsEpochReplay`, so that every call the session
returns from did in many steps what one step of `EpochReplay` does.
`BulkAsDetailed` is the condition: in one bulk set a copy has one tensor name
(`OneName`) and, where `requester_and_home` is in use, the remote copies a
requester reads come in the order of their owners (`InOwnerOrder`).  Neither can
be dropped: they are what the two bulk findings below are about.  Every set of
`distributed_l2` satisfies both; `bulk_two_names` has sets that violate only the
first, `bulk_fill_order` sets that violate only the second.  The detailed path
and the writes need no condition.

The invariant is `ReplayInv`: filling what is still to come into the caches as
they are gives what filling everything into the snapshot would have given.
`ListRuns` says it of the calls whose fills are two sorted lists: the first
element of a set is the first of its sorted list (`OrderedFirst`, from
`SortedUnique`: a set of lines has one sorted list), so that a fill moves its
line from one side of the equation to the other (`FillNext`).  `BulkRuns` says it
of a bulk call, with the queues between the two lists, and that the answers so
far are those of the positions visited (`AnswersAt`).  There the order of the
positions must be the order of the lines, for the lines of one owner and for the
copies of one requester (`VisitOrder`, where the two conditions are used).  A
full queue drops its oldest line; the fills come out the same because queued
lines are distinct and new to the cache, so that of more lines than it holds the
last ones stay whatever was there (`FreshFills`, `Drop`).  That needs `Steady`:
what the queues hold was visited and copied, and the caches hold only what they
held at the start and what their owners took in.  When a call returns nothing is
left to come, and `AnswersRight` reads the classification of the abstract epoch
and its one miss per line off the answers.  `FillAll` is a fold of the community
modules, a recursive function under a `CHOOSE`; `FillRuns` gives it by its first
and by its last line.

**The GEMM** (`DistributedGemmProofs`; `GemmAssumption`: extents and grids are
positive and a grid has as many ranks as there are clusters; `SignaturesHash`: a
layout signature, a tuple of names and numbers, is hashable).  `StageInvariant`
proves `StageInv`.  Its part `ReadRuns` follows the read through the bulk loop:
what has been answered is no longer left, so that a line of an owner and tensor
misses once.  At the end the misses are grouped into chunks, one per owner and
tensor, because an owner has one copy of a tensor (`ReadsAsk`); chunks of one
owner get different request ids (`SourcesDiffer`), so nothing merges that was
counted apart, and the transfers are as many as the misses
(`TransferredOnce`).  That is `RefusalsLeaveSession`: the only stage that could
raise after a fill does not.  `RefusalsAreFinal` needs `RefusedInv`, which keeps
why each plan was refused, and `RefusalLasts`.  `PlansFitAlone` needs `AloneInv`:
while only one plan was tried, homes, mappings and intervals are those of its own
requests (`TablesOf`).  Those agree with each other (`WantedAgree`): a copy names
its tensor and owner (`CopiesDiffer`), the owner of a packed block has one shard
(`OwnersHaveShards`) and one layout (`SameLayout`), regions of different tensors
are apart (`RegionsApart`), and every block lies in its region
(`BlockInRegion`).  That the banks write each line of an output once is
`WrittenOnce`.  `GemmsKeepSession` carries `SessionInv` over to sessions that
GEMMs drive, and `GemmsShareNoSector` reads it off.

**Cannon** (`CannonProofs`; Q is positive).  `CannonInvariant` proves `CannonInv`,
which names the place of every block after any number of rounds as a function
of the round (`HeldA`, `HeldB`).  Each shift moves it one round on and the
restoring shift back to the skewed placement, by lemmas on division and on adding and subtracting modulo
Q that follow from the uniqueness of the remainder.  `OperandsMeet` and
`SkewComesBack` read the two properties off it.  `CannonSumsInvariant` adds what
has been multiplied so far: the k indices of the rounds that are over, which are
distinct (`RoundsDiffer`) and in the end all (`EveryIndexHasARound`), and the
counters, sums over the clusters of block area times the depths of those
indices.  The data of the shards of an extent add up to the extent
(`LogicalSum`, from `SplitFollows` and `SplitEnds`: shard i + 1 starts where
shard i stops), so that over all clusters and rounds the sum is m * n * k, which
is `ProductsAreExact`.  `ShardsAreTiles` uses the same two lemmas: an index is in
the last shard that starts at or before it, and in no other.

**The workflow** (`WorkflowProofs`; `WorkflowAssumption`: a plan is a list of
distinct stages that ends with the figures).  The lemma `ScriptsAreSound` looks
once at each script and states what the rest uses of it: markers come after
both results or after a clear, what is cleared stays clear, a check precedes
the points of a stage that checks first.  `WorkflowInvariant` proves
`WorkflowInv`.  Its part `Settled` is what is true of the tree whatever is under
way, and holds when a process dies at any step (`SettledStep`); it is not
inductive without `SoFar`, what the stage under way has already done, nor
without `Collected`, which says that the manifest is the running workflow's as
soon as it has a row: that is why only the first stage can be newer than the
manifest.  `Fresh`, for the stages already returned, gives `RerunsRecover`: all that
`MustPass` asks of a tree but the missing image, which no step of a workflow
touches, so that the two are equivalent when the run returns.
`LedgerIsNeverAhead` and `MarkersAreHonest` are parts of `Settled`, and so is
`Rooted`: where a row of the manifest says that fig22 passed and its points are
of the manifest's run, the upper PASS is of that run too, which gives
`RootPassIsNotStale`.  With
`Drawn` (a complete manifest comes with figures of its own points)
`VerifiedTreeIsOneRun` follows.

**The network and the collectives** (`CollectivesProofs`; `NetAssumption`: grids
have sides of 1, 2 or 4; `CallAssumption`: groups are of 2, 4 or 8 devices, bytes
a multiple of the group.  Both are bounds of the model, not of the code; layers,
ports, timing, the other dimensions and the bytes are arbitrary).  A product of
dimensions, the fold that fills a matrix and the recursive levels of a tree are
recursive functions under a `CHOOSE`; as with sums, a function that satisfies the
equations is built first and then identified with them (`Times`, `ProductSplit`,
`FilledIs`, `TreeExists`).

Five invariants stand on each other.  `StageInv`: the matrix being routed is one
stage of the algorithm at hand, the costs are those of the stages before it.  It
gives `ChargesMatch` by counting chunks, for bytes that are a multiple of the
group: the code truncates a share, so that of a few bytes left over nothing is
charged.  `RouteInv`: a route is a suffix of the
path its pair was given, its hops are hops of the grid; with `PortsAgree` its
switches are distinct, which is `RoutesDirect`.  `Ledger`: the traffic charged so
far is, at both ends of every device, the bytes of the pairs booked there so far;
no link between switches shares a cell with a device (`CellsApart`), hence
`EndpointsPaid`.  With `LinksAgree`, `LinksHeld` follows a chain (`OnLinks`) from link to
link.  `Paying`: the total is no less than what the stages counted must move,
because the link time of a stage is a maximum over cells, those of the devices
among them (`LinkPays`, `Pays`); `NothingFree` compares that with the least any
algorithm could do, for the same messages: a share below one byte would be
free.

`Holding` is the last: what a device holds is a closed form (`Has`) of the
algorithm, the number of stages counted, the rank and the chunk.  It is inductive
because each stage hands on what that form says (`StageHands`).  An exchange joins
ranks that differ in one more of their low bits; in a halving only those chunks
are kept that agree in them (`PartnerBits`).  A ring adds the next rank round it
(`RingPlaces`).  In a tree a rank has what is below it, up to the level reached
(`TreeUpStep`, `TreeDownStep`); the left tree is the mirror image of the right
one.  Where a stage adds, no contribution is with two of the
senders (`NotTwice`).  `CollectiveDelivers` reads the form off after the last
stage (`HasOwned`).

The two conditions are needed.  Without `PortsAgree` (a row of tiles of 4 x 1
switches, say) the exit a chain foresees is not the one it takes, and it doubles
back; without `LinksAgree` the traffic of finding 3 moves where no link is.  TLC
evaluates both on the networks and calls of `network`, and the calls of
`row_links` violate the second.

**Only model-checked.**  `BlockMissReturns`, which is liveness.  Every other
property of the passing runs is a theorem.

## Hazards no property covers

* `multi_cluster/cache.py:356`, a refusal half way: every check of a call comes
  before its first commit (446, 641, 899), so the model admits and commits in
  one step and a refusal changes nothing by construction.
* `gemm.py:1159`, the signature that keys the trace cache: which layout fields
  change a sector stream is decided by address arithmetic that is not modelled;
  with an abstract stream a property would restate the signature.
* `src/ae/verification.py:1110`, figures that are stale after a stage was run
  alone: nothing in the code detects them, and `VerifiedIsOneRun` names that
  case as its exception.
* `src/src/deepstack/mosaic/noc/noc_topo.py:753`, the exit a chain foresees where
  port counts differ: `RoutesAreDirect` holds on networks that satisfy
  `PortsAgree`, as all of the runs do; on others the code doubles back.
* `src/src/deepstack/mosaic/dse_space/dse_framework_multi_process_v3.py:620`,
  dropped design points: nothing in the repository says what a table may be
  taken for.

## Not modelled

* Closed formulas over real-valued times, without state: `pipeline.py`, the
  on-chip phase in `local.py`, the cost and LLM models of Mosaic, TileSight.
  There is nothing for a model checker to order or to interleave.
* Address arithmetic of layouts and swizzles, over strings of bits; the models
  take a swizzle as a permutation.
* The job pool, whose order is that of the standard library's `map`, and the
  design-space exploration, for the reason above.
* Networks of switches only or without a switch, all-gather, the all-to-all of
  experts, energy.
* Copies of the network module in `src/src/tilesight` and
  `src/ae/fig13_paper_model`, which repeat the modelled one with variations.
* Rendering and plotting, compiled tables, recorded data, vendored model code,
  `validate_*.py` diagnostics.
* Two commands in one result tree at once: the code has no lock and promises
  nothing.
