------------------------------ MODULE FifoCache ------------------------------
(***************************************************************************)
(* DeterministicFifoCache of bank_oracle/l2_cache.py: one private L2, a    *)
(* FIFO of keys with a dictionary of footprints beside it.  Two families   *)
(* of callers share one object: the line path (fill_line, access_line) and *)
(* the block path (access), whose eviction loop is a step of its own per   *)
(* victim here.                                                            *)
(***************************************************************************)
EXTENDS Integers, Sequences

CONSTANTS
  Key,            \* hashable cache keys
  Capacity,       \* L2CacheSpec.capacity_lines
  MaxFootprint,   \* largest footprint a caller passes to access
  MaxInserted,    \* bound on the line clock, for model checking
  None            \* Python's None

ASSUME FifoAssumption ==
  /\ Capacity \in Nat \ {0}
  /\ MaxFootprint \in Nat
  /\ None \notin Key
  /\ None \notin {"ValueError", "AssertionError"}

VARIABLES
  queue,              \* _queue: resident keys, oldest first
  resident,           \* _resident: key -> [lines, start], a partial function
  lastInsertion,      \* _last_insertion: the block path's insertion history
  residentLines,      \* _resident_lines
  insertedLines,      \* _inserted_lines, the monotonic line clock
  peakResidentLines,  \* _peak_resident_lines
  lastLineSequence,   \* _last_line_sequence
  pending,            \* the block whose eviction loop is running, or None
  result,             \* what the last call returned or raised; a block miss
                      \* settles it before its eviction loop, as the code does
  born                \* history: clock at the last insertion by any path

cacheVars == <<queue, resident, lastInsertion, residentLines, insertedLines,
               peakResidentLines, lastLineSequence>>
vars == <<cacheVars, pending, result, born>>

Window == INSTANCE ReuseWindow WITH clock <- insertedLines
Never  == Window!Never

Footprint == 1 .. MaxFootprint
Tags      == DOMAIN resident

(* oldest_resident_sequence *)
OldestResidentSequence ==
  IF Len(queue) = 0 THEN insertedLines ELSE resident[queue[1]].start

(* The value _resident[key] = value leaves in the dictionary.              *)
Stored(dict, key, value) ==
  [k \in DOMAIN dict \cup {key} |-> IF k = key THEN value ELSE dict[k]]

DroppedNothing(dict, key) == dict
Dropped(dict, key) == [k \in DOMAIN dict \ {key} |-> dict[k]]

Larger(a, b) == IF a < b THEN b ELSE a

(* Guards of the code by name.  Each is preceded by the wrong form that    *)
(* the mutation runs put in its place.                                     *)
FullOffByOne == residentLines > Capacity
Full         == residentLines >= Capacity       \* fill_line evicts

FitsOffByOne(lines) == residentLines + lines < Capacity
Fits(lines)         == residentLines + lines <= Capacity

OversizedAtCapacity(lines) == lines >= Capacity
Oversized(lines)           == lines > Capacity

Returned(hit, cold, distance) ==
  [raised |-> None, hit |-> hit, cold |-> cold, distance |-> distance]

Raised(error) == [raised |-> error, hit |-> FALSE, cold |-> FALSE,
                  distance |-> None]
------------------------------------------------------------------------------
Init ==
  /\ queue = <<>>
  /\ resident = [k \in {} |-> None]
  /\ lastInsertion = [k \in {} |-> None]
  /\ residentLines = 0
  /\ insertedLines = 0
  /\ peakResidentLines = 0
  /\ lastLineSequence = -1
  /\ pending = None
  /\ result = None
  /\ born = [k \in Key |-> Never]

(* Wrong form of LineHit: the hit moves the key to the young end (LRU).    *)
LineHitRefreshes(key) ==
  /\ pending = None
  /\ key \in Tags
  /\ queue' = Append(SelectSeq(queue, LAMBDA k : k # key), key)
  /\ lastLineSequence' = resident[key].start
  /\ result' = Returned(TRUE, FALSE, None)
  /\ UNCHANGED <<resident, lastInsertion, residentLines, insertedLines,
                 peakResidentLines, pending, born>>

(* fill_line and access_line on a resident key: FIFO order is not          *)
(* refreshed, only the line's sequence is reported.                        *)
LineHit(key) ==
  /\ pending = None
  /\ key \in Tags
  /\ lastLineSequence' = resident[key].start
  /\ result' = Returned(TRUE, FALSE, None)
  /\ UNCHANGED <<queue, resident, lastInsertion, residentLines, insertedLines,
                 peakResidentLines, pending, born>>

(* fill_line and access_line on an absent key: one victim at most.         *)
LineMiss(key) ==
  LET victim == Head(queue)
      kept   == IF Full THEN Tail(queue) ELSE queue
      dict   == IF Full THEN Dropped(resident, victim) ELSE resident
      lines  == residentLines - (IF Full THEN resident[victim].lines ELSE 0)
  IN
  /\ pending = None
  /\ key \notin Tags
  /\ insertedLines < MaxInserted
  /\ queue' = Append(kept, key)
  /\ resident' = Stored(dict, key, [lines |-> 1, start |-> insertedLines])
  /\ lastLineSequence' = insertedLines
  /\ residentLines' = lines + 1
  /\ insertedLines' = insertedLines + 1
  /\ peakResidentLines' = Larger(peakResidentLines, lines + 1)
  /\ born' = [born EXCEPT ![key] = insertedLines]
  /\ result' = Returned(FALSE, FALSE, None)
  /\ UNCHANGED <<lastInsertion, pending>>

(* access(key, lines) on a resident block, its ValueError and its          *)
(* AssertionError included.                                                *)
BlockHit(key, lines) ==
  LET distance == insertedLines - resident[key].start IN
  /\ pending = None
  /\ key \in Tags
  /\ result' = IF resident[key].lines # lines THEN Raised("ValueError")
               ELSE IF distance > Capacity THEN Raised("AssertionError")
               ELSE Returned(TRUE, FALSE, distance)
  /\ UNCHANGED <<cacheVars, pending, born>>

(* What access reports for a miss, from the block path's own history.      *)
MissResult(key) ==
  IF key \in DOMAIN lastInsertion
  THEN Returned(FALSE, FALSE, insertedLines - lastInsertion[key])
  ELSE Returned(FALSE, TRUE, None)

(* A block larger than the cache streams through: all prior state is       *)
(* evicted and the block is not retained.                                  *)
BlockStream(key, lines) ==
  /\ pending = None
  /\ key \notin Tags
  /\ Oversized(lines)
  /\ insertedLines + lines <= MaxInserted
  /\ queue' = <<>>
  /\ resident' = [k \in {} |-> None]
  /\ residentLines' = 0
  /\ lastInsertion' = Stored(lastInsertion, key, insertedLines)
  /\ insertedLines' = insertedLines + lines
  /\ born' = [born EXCEPT ![key] = insertedLines]
  /\ result' = MissResult(key)
  /\ UNCHANGED <<peakResidentLines, lastLineSequence, pending>>

(* A block that fits: the call enters its eviction loop.                   *)
BlockMiss(key, lines) ==
  /\ pending = None
  /\ key \notin Tags
  /\ ~Oversized(lines)
  /\ insertedLines + lines <= MaxInserted
  /\ pending' = [key |-> key, lines |-> lines]
  /\ result' = MissResult(key)
  /\ UNCHANGED <<cacheVars, born>>

(* One turn of "while self._resident_lines + lines > capacity_lines".      *)
EvictOldest ==
  /\ pending # None
  /\ ~Fits(pending.lines)
  /\ Len(queue) > 0    \* popleft raises on an empty deque
  /\ queue' = Tail(queue)
  /\ resident' = Dropped(resident, Head(queue))
  /\ residentLines' = residentLines - resident[Head(queue)].lines
  /\ UNCHANGED <<lastInsertion, insertedLines, peakResidentLines,
                 lastLineSequence, pending, result, born>>

(* The rest of access, once the block fits.                                *)
InsertBlock ==
  /\ pending # None
  /\ Fits(pending.lines)
  /\ queue' = Append(queue, pending.key)
  /\ resident' = Stored(resident, pending.key,
                        [lines |-> pending.lines, start |-> insertedLines])
  /\ lastInsertion' = Stored(lastInsertion, pending.key, insertedLines)
  /\ residentLines' = residentLines + pending.lines
  /\ insertedLines' = insertedLines + pending.lines
  /\ peakResidentLines' =
       Larger(peakResidentLines, residentLines + pending.lines)
  /\ born' = [born EXCEPT ![pending.key] = insertedLines]
  /\ pending' = None
  /\ UNCHANGED <<lastLineSequence, result>>

Next ==
  \/ \E key \in Key : LineHit(key) \/ LineMiss(key)
  \/ \E key \in Key, lines \in Footprint :
       BlockHit(key, lines) \/ BlockStream(key, lines) \/ BlockMiss(key, lines)
  \/ EvictOldest
  \/ InsertBlock

Spec == Init /\ [][Next]_vars

(* The eviction loop is a while loop in one thread: it never pauses.       *)
FairSpec == Spec /\ WF_vars(EvictOldest) /\ WF_vars(InsertBlock)
------------------------------------------------------------------------------
Block == [lines : Nat \ {0}, start : Nat]

Result == [raised : {None, "ValueError", "AssertionError"},
           hit : BOOLEAN, cold : BOOLEAN, distance : Nat \cup {None}]

TypeOK ==
  /\ queue \in Seq(Key)
  /\ Tags \subseteq Key /\ resident \in [Tags -> Block]
  /\ DOMAIN lastInsertion \subseteq Key
  /\ lastInsertion \in [DOMAIN lastInsertion -> Nat]
  /\ residentLines \in Nat
  /\ insertedLines \in Nat
  /\ peakResidentLines \in Nat
  /\ lastLineSequence \in Nat \cup {-1}
  /\ pending \in [key : Key, lines : 1 .. Capacity] \cup {None}
  /\ result \in Result \cup {None}
  /\ born \in [Key -> Nat \cup {Never}]

End(block) == block.start + block.lines

(* A queue q and its dictionary agree: they name the same keys, each once, *)
(* and the resident blocks tile the newest stretch of the line clock, in   *)
(* queue order and without a gap.  This is what lets one subtraction stand *)
(* for a sum of footprints.                                                *)
Tiles(q, dict, lines, clock) ==
  /\ \A i \in 1 .. Len(q) : q[i] \in DOMAIN dict
  /\ \A k \in DOMAIN dict : \E i \in 1 .. Len(q) : q[i] = k
  /\ \A i, j \in 1 .. Len(q) : i < j => End(dict[q[i]]) <= dict[q[j]].start
  /\ \A i \in 1 .. Len(q) :
       End(dict[q[i]]) = IF i = Len(q) THEN clock ELSE dict[q[i+1]].start
  /\ lines = IF Len(q) = 0 THEN 0 ELSE clock - dict[q[1]].start

QueueTilesClock == Tiles(queue, resident, residentLines, insertedLines)

(* A key that left is too old for the block being inserted, if any, and a  *)
(* key that stayed is young enough.                                        *)
Pressure == IF pending = None THEN 0 ELSE pending.lines

AgesSplit ==
  /\ \A k \in Tags : born[k] = resident[k].start
  /\ \A k \in Key \ Tags :
       born[k] # Never => insertedLines + Pressure - born[k] > Capacity
  /\ \A k \in Key : born[k] < insertedLines
  /\ \A k \in DOMAIN lastInsertion : lastInsertion[k] <= born[k]
  /\ pending # None =>
       pending.key \notin Tags /\ ~Window!InWindow(pending.key)

(* Footprint accounting: _resident_lines is the distance from the oldest   *)
(* resident sequence to the clock, and neither it nor its recorded peak    *)
(* exceeds the capacity, even inside the eviction loop, although fill_line *)
(* evicts one victim at most and blocks may be several lines long.         *)
CapacityRespected ==
  /\ residentLines = insertedLines - OldestResidentSequence
  /\ residentLines <= peakResidentLines
  /\ peakResidentLines <= Capacity

(* The docstring's rule: between calls a key is resident if and only if at *)
(* most a capacity of lines was inserted since its last insertion.  Line   *)
(* and block calls may be mixed on one cache.                              *)
AgeDecidesResidency ==
  pending = None => \A k \in Key : k \in Tags <=> Window!InWindow(k)

(* "resident FIFO block exceeded capacity age", the AssertionError of      *)
(* access, cannot be raised, and a reported hit distance is within it.     *)
HitDistanceWithinCapacity ==
  result # None =>
    /\ result.raised # "AssertionError"
    /\ result.hit /\ result.distance # None =>
         result.distance \in 1 .. Capacity

(* The inductive strengthening of these properties: the resident blocks    *)
(* tile the newest stretch of the line clock, and their footprints add up. *)
FifoInv == TypeOK /\ QueueTilesClock /\ AgesSplit /\ CapacityRespected

(* No key leaves the cache while an older one stays: FIFO order survives   *)
(* hits on old keys, mixed footprints and the streaming of large blocks.   *)
OldestLeavesFirst ==
  [][\A gone \in Tags \ Tags', kept \in Tags \cap Tags' :
       born[gone] < born[kept]]_vars

(* The operational cache implements the reuse-window rule: every call and  *)
(* every turn of its eviction loop is one step of the rule or a stutter.   *)
ImplementsWindow == Window!WindowSpec

(* access returns: its eviction loop cannot run forever or on an empty     *)
(* queue.                                                                  *)
BlockMissReturns == pending # None ~> pending = None
=============================================================================
