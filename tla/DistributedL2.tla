---------------------------- MODULE DistributedL2 ----------------------------
(***************************************************************************)
(* DistributedL2Session of bank_oracle/multi_cluster/cache.py: the private *)
(* L2 of every cluster of a unit and the tables that say where a physical  *)
(* copy of a tensor lives.  A call validates all of its requests, commits  *)
(* the tables, and then fills the caches line by line: each fill is a step *)
(* here.  Lines are <<copy, index>>; a copy stands for the pair            *)
(* (allocation_id, replica_id) and is a number, because fills are sorted.  *)
(***************************************************************************)
EXTENDS Integers, FiniteSets, FiniteSetsExt, LineFifo

CONSTANTS
  Cluster,         \* cluster numbers, 0 .. cluster_count - 1
  Capacity,        \* Cluster -> capacity_lines of its L2CacheSpec
  OutputPressure,  \* Cluster -> output_pressure of its L2CacheSpec
  Epochs,          \* the event sets a caller may pass to replay_epoch
  BulkEpochs,      \* the request sets it may pass to replay_bulk_epoch
  Writes,          \* the request sets it may pass to apply_output_pressure
  Policies,        \* the remote_fill_policy values it uses
  Unhashable,      \* a mapping_signature that hash() refuses
  None

VARIABLES
  caches,          \* _caches, each as its queue
  homes,           \* _homes: copy -> <<owner, sector offset>>
  mappings,        \* _bank_mappings: copy -> signature
  intervals,       \* _address_intervals: copy -> <<owner, start, stop>>
  copied,          \* _requester_copy_allocations
  call,            \* the call whose fills are running, or NoCall
  report           \* what the last finished call returned or raised

tables == <<homes, mappings, intervals, copied>>
sessionVars == <<caches, tables, call, report>>

NoCall == [kind |-> "none"]

(* The caches a caller could observe: a call in progress has none to show  *)
(* but those it started from.                                              *)
Settled == IF call = NoCall THEN caches ELSE call.snapshot

Replay == INSTANCE EpochReplay WITH caches <- Settled

RequesterHit == Replay!RequesterHit
OwnerHit     == Replay!OwnerHit
DdrMiss      == Replay!DdrMiss
MshrMerge    == Replay!MshrMerge
HomeOnly     == Replay!HomeOnly
BothFill     == Replay!BothFill

(* A LineRequestEvent is a request for one sector; a BulkLineRequest names *)
(* owner sectors and line indices alike, so that its offset is 0.          *)
Request == [requester : Nat, owner : Nat, copy : Nat, sectors : SUBSET Nat,
            offset : Int, tensor : Nat, mapping : STRING \cup {Unhashable},
            interval : (Int \X Int) \cup {None}, epoch : Nat]

ASSUME SessionAssumption ==
  /\ IsFiniteSet(Cluster) /\ Cluster = 0 .. Cardinality(Cluster) - 1
  /\ Capacity \in [Cluster -> Nat \ {0}]
  /\ OutputPressure \in [Cluster -> BOOLEAN]
  /\ None \notin Int \X Int
  /\ \A items \in Epochs \cup BulkEpochs \cup Writes :
       /\ items \subseteq Request /\ IsFiniteSet(items)
       /\ \A x \in items : IsFiniteSet(x.sectors)
  /\ \A items \in Epochs : \A x \in items : Cardinality(x.sectors) = 1
  /\ \A items \in BulkEpochs \cup Writes : \A x \in items : x.offset = 0
  /\ Policies \subseteq {HomeOnly, BothFill}
------------------------------------------------------------------------------
(* Validation.  Every raise of the three calls is a ValueError and comes   *)
(* before the first assignment to the session.                             *)

Home(x) == <<x.owner, x.offset>>

(* The interval a request reserves: given, inferred, or none.              *)
Span(x) ==
  IF x.interval # None THEN x.interval
  ELSE IF x.sectors = {} THEN None
  ELSE <<Min(x.sectors), Max(x.sectors) + 1>>

WellPlaced(x) ==
  Span(x) # None =>
    /\ 0 <= Span(x)[1] /\ Span(x)[1] < Span(x)[2]
    /\ \A s \in x.sectors : Span(x)[1] <= s /\ s < Span(x)[2]

HomesAgree(items) ==
  /\ \A x, y \in items : x.copy = y.copy => Home(x) = Home(y)
  /\ \A x \in items : x.copy \in DOMAIN homes => homes[x.copy] = Home(x)

MappingsAgree(items) ==
  /\ \A x, y \in items : x.copy = y.copy => x.mapping = y.mapping
  /\ \A x \in items : x.copy \in DOMAIN mappings => mappings[x.copy] = x.mapping

Placed(items) == {x \in items : Span(x) # None}

(* _commit_address_intervals: the candidate table, every interval the hull *)
(* of what the session and the call reserve for its copy.                  *)
Candidate(items) ==
  LET reserved == {x.copy : x \in Placed(items)}
      Spans(k) == {Span(x) : x \in {y \in Placed(items) : y.copy = k}}
                    \cup (IF k \in DOMAIN intervals
                          THEN {<<intervals[k][2], intervals[k][3]>>} ELSE {})
      OwnerOf(k) == IF k \in DOMAIN intervals THEN intervals[k][1]
                    ELSE (CHOOSE x \in Placed(items) : x.copy = k).owner
  IN  [k \in DOMAIN intervals \cup reserved |->
         IF k \notin reserved THEN intervals[k]
         ELSE <<OwnerOf(k), Min({p[1] : p \in Spans(k)}),
                Max({p[2] : p \in Spans(k)})>>]

OwnersAgree(items) ==
  \A x \in Placed(items) :
    x.copy \in DOMAIN intervals => intervals[x.copy][1] = x.owner

(* Wrong form of Overlap: a sweep that only sees equal starts.             *)
OverlapAtStart(table) ==
  \E j, k \in DOMAIN table :
    j # k /\ table[j][1] = table[k][1] /\ table[j][2] = table[k][2]

(* The sweep over each owner's sorted intervals: one starts before the     *)
(* largest stop of those sorted before it.                                 *)
Overlap(table) ==
  \E j, k \in DOMAIN table :
    /\ table[j][1] = table[k][1]
    /\ Before(<<table[j][2], table[j][3], j>>, <<table[k][2], table[k][3], k>>)
    /\ table[k][2] < table[j][3]

InUnit(items) ==
  \A x \in items : Max({x.requester, x.owner}) < Cardinality(Cluster)

Admissible(items) ==
  /\ InUnit(items)
  /\ \A x \in items : x.mapping # Unhashable
  /\ HomesAgree(items)
  /\ MappingsAgree(items)
  /\ \A x \in items : WellPlaced(x)
  /\ OwnersAgree(items)
  /\ ~Overlap(Candidate(items))

OneEpoch(items) == \A x, y \in items : x.epoch = y.epoch

(* Wrong form of Writable: an owner may write what others have copied.     *)
WritableByOwner(items) ==
  \A x \in items : x.requester # x.owner => x.copy \notin copied

(* "requester_and_home copies are read-only"                               *)
Writable(items) == \A x \in items : x.copy \notin copied

Updated(table, items, Value(_)) ==
  [k \in DOMAIN table \cup {x.copy : x \in items} |->
     IF \E x \in items : x.copy = k
     THEN Value(CHOOSE x \in items : x.copy = k) ELSE table[k]]

(* Wrong form of CommitTables: the mappings of this call in place of all.  *)
CommitLatest(items) ==
  /\ homes' = Updated(homes, items, Home)
  /\ mappings' = [k \in {x.copy : x \in items} |->
                    (CHOOSE x \in items : x.copy = k).mapping]
  /\ intervals' = Candidate(items)

CommitTables(items) ==
  /\ homes' = Updated(homes, items, Home)
  /\ mappings' = Updated(mappings, items, LAMBDA x : x.mapping)
  /\ intervals' = Candidate(items)
------------------------------------------------------------------------------
SessionInit ==
  /\ caches = [c \in Cluster |-> <<>>]
  /\ homes = [k \in {} |-> None]
  /\ mappings = [k \in {} |-> None]
  /\ intervals = [k \in {} |-> None]
  /\ copied = {}
  /\ call = NoCall
  /\ report = [call |-> "reset"]    \* a new session is a reset one

(* own and copies: the fills still to do, owner fills first; left, queues: *)
(* the lines a bulk loop still has to visit, and its requester fills.      *)
Running(kind, policy, answer, own, copies) ==
  [kind |-> kind, policy |-> policy, snapshot |-> caches, answer |-> answer,
   own |-> own, copies |-> copies, left |-> {}, items |-> {},
   queues |-> [c \in Cluster |-> <<>>]]

Lookup(x, s) ==
  [requester |-> x.requester, owner |-> x.owner, tensor |-> x.tensor,
   line |-> <<x.copy, s - x.offset>>, interval |-> x.interval]

Holds(c, line) == line \in Resident(caches[c])

CopyHit(x, policy) ==
  policy = BothFill /\ x.requester # x.owner /\ Holds(x.requester, x.line)

Hits(x, policy) == CopyHit(x, policy) \/ Holds(x.owner, x.line)

HitSource(x, policy) ==
  IF CopyHit(x, policy) \/ x.requester = x.owner
  THEN RequesterHit ELSE OwnerHit

(* One leader per cold line, least in requester and tensor; lookups that   *)
(* differ in nothing but their interval tie.                               *)
Leads(leaders, cold) ==
  /\ \A x \in cold : \E y \in leaders : y.line = x.line
  /\ \A x, y \in leaders : x.line = y.line => x = y
  /\ \A x \in cold, y \in leaders :
       x.line = y.line =>
         ~Before(<<x.requester, x.tensor>>, <<y.requester, y.tensor>>)

(* The lookups whose answer is also filled into the requester's cache.     *)
CopyMakers(served, policy) ==
  {x \in DOMAIN served : /\ policy = BothFill
                         /\ x.requester # x.owner
                         /\ served[x] # RequesterHit}

(* Wrong form of Recorded: a merged request is not recorded.               *)
RecordedForMisses(served, policy) ==
  {x.line[1] : x \in {y \in CopyMakers(served, policy) : served[y] # MshrMerge}}

(* The copies this epoch makes read-only.                                  *)
Recorded(served, policy) == {x.line[1] : x \in CopyMakers(served, policy)}

(* replay_epoch: all lookups are classified before the first fill.         *)
ReplayEpoch(items, policy) ==
  LET lookups == {Lookup(x, CHOOSE s \in x.sectors : TRUE) : x \in items}
      cold    == {x \in lookups : ~Hits(x, policy)}
  IN
  /\ call = NoCall
  /\ OneEpoch(items) /\ Admissible(items)
  /\ CommitTables(items)
  /\ \E leaders \in SUBSET cold :
       LET served == [x \in lookups |->
                        IF x \notin cold THEN HitSource(x, policy)
                        ELSE IF x \in leaders THEN DdrMiss ELSE MshrMerge]
       IN  /\ Leads(leaders, cold)
           /\ copied' = copied \cup Recorded(served, policy)
           /\ call' = Running("epoch", policy, served,
                              {<<x.owner>> \o x.line : x \in leaders},
                              {<<x.requester>> \o x.line :
                                 x \in CopyMakers(served, policy)})
  /\ UNCHANGED <<caches, report>>

(* apply_output_pressure: written lines enter their owner's cache only.    *)
ApplyOutputPressure(items) ==
  LET written == UNION {{<<x.owner, x.copy, s>> : s \in x.sectors} : x \in
                          {y \in items : OutputPressure[y.owner]}}
  IN
  /\ call = NoCall
  /\ Writable(items) /\ Admissible(items)
  /\ CommitTables(items)
  /\ call' = Running("write", HomeOnly, written, written, {})
  /\ UNCHANGED <<caches, copied, report>>

FillLine(w) ==
  caches' = [caches EXCEPT ![w[1]] = Fill(Capacity[w[1]], @, <<w[2], w[3]>>)]

(* Owner fills in (cluster, line) order, then requester fills likewise.    *)
FillOwn ==
  /\ call # NoCall
  /\ \E w \in call.own :
       /\ First(w, call.own)
       /\ FillLine(w)
       /\ call' = [call EXCEPT !.own = @ \ {w}]
  /\ UNCHANGED <<tables, report>>

FillCopy ==
  /\ call # NoCall
  /\ call.own = {}
  /\ \E w \in call.copies :
       /\ First(w, call.copies)
       /\ FillLine(w)
       /\ call' = [call EXCEPT !.copies = @ \ {w}]
  /\ UNCHANGED <<tables, report>>

(* replay_bulk_epoch up to its loop: positions are sorted by owner, copy,  *)
(* tensor and sector.                                                      *)
ReplayBulk(items, policy) ==
  /\ call = NoCall
  /\ OneEpoch(items) /\ Admissible(items)
  /\ CommitTables(items)
  /\ copied' = copied \cup {x.copy : x \in
       {y \in items : policy = BothFill /\ y.requester # y.owner}}
  /\ call' = [Running("bulk", policy, <<>>, {}, {}) EXCEPT
                !.items = items,
                !.left = UNION {{<<x.owner, x.copy, x.tensor, s>> :
                                   s \in x.sectors} : x \in items}]
  /\ UNCHANGED <<caches, report>>

(* Wrong form of Seen: the loop probes the caches it is filling.           *)
SeenLive(c, line) == line \in Resident(caches[c])

(* physical_line in snapshots[c]                                           *)
Seen(c, line) == line \in Resident(call.snapshot[c])

(* deque(maxlen=capacity_lines).append                                     *)
Enqueued(c, queue, line) ==
  Append(IF Len(queue) >= Capacity[c] THEN Tail(queue) ELSE queue, line)

(* The answers so far and those of one more line.                          *)
Answered(answer, more) ==
  [x \in DOMAIN answer \cup DOMAIN more |->
     IF x \in DOMAIN more THEN more[x] ELSE answer[x]]

(* One line of the loop, all of its requesters, its owner fill included.   *)
BulkLine ==
  /\ call # NoCall
  /\ \E p \in call.left :
       LET owner  == p[1]
           line   == <<p[2], p[4]>>
           asking == {x.requester : x \in {y \in call.items :
                        /\ <<y.owner, y.copy, y.tensor>> = <<p[1], p[2], p[3]>>
                        /\ p[4] \in y.sectors}}
           copy   == {r \in asking : call.policy = BothFill /\ r # owner
                                       /\ Seen(r, line)}
           cold   == IF Seen(owner, line) THEN {} ELSE asking \ copy
           Key(r) == [requester |-> r, owner |-> owner, tensor |-> p[3],
                      line |-> line, interval |-> None]
           source == [x \in {Key(r) : r \in asking} |->
                        IF x.requester \in copy THEN RequesterHit
                        ELSE IF x.requester \notin cold
                        THEN IF x.requester = owner THEN RequesterHit ELSE OwnerHit
                        ELSE IF x.requester = Min(cold) THEN DdrMiss
                        ELSE MshrMerge]
       IN
       /\ First(p, call.left)
       /\ call' = [call EXCEPT
            !.left = @ \ {p},
            !.answer = Answered(@, source),
            !.queues = [r \in Cluster |->
               IF call.policy = BothFill /\ r \in asking \ (copy \cup {owner})
               THEN Enqueued(r, @[r], line) ELSE @[r]]]
       /\ IF cold = {} THEN UNCHANGED caches
          ELSE FillLine(<<owner, p[2], p[4]>>)
  /\ UNCHANGED <<tables, report>>

(* Requester copies complete after all owner fills, cluster by cluster.    *)
BulkFlush ==
  /\ call # NoCall
  /\ call.left = {}
  /\ \E c \in Cluster :
       /\ call.queues[c] # <<>>
       /\ \A d \in Cluster : d < c => call.queues[d] = <<>>
       /\ FillLine(<<c>> \o Head(call.queues[c]))
       /\ call' = [call EXCEPT !.queues[c] = Tail(@)]
  /\ UNCHANGED <<tables, report>>

Finished ==
  /\ call # NoCall
  /\ call.own = {} /\ call.copies = {} /\ call.left = {}
  /\ \A c \in Cluster : call.queues[c] = <<>>

Return ==
  /\ Finished
  /\ call' = NoCall
  /\ report' = IF call.kind = "write"
               THEN [call |-> "write",
                     lines |-> {<<w[1], <<w[2], w[3]>>>> : w \in call.answer}]
               ELSE [call |-> "epoch", policy |-> call.policy,
                     served |-> call.answer]
  /\ UNCHANGED <<caches, tables>>

Refuse ==
  /\ call = NoCall
  /\ \/ \E items \in Epochs \cup BulkEpochs :
          ~(OneEpoch(items) /\ Admissible(items))
     \/ \E items \in Writes : ~(Writable(items) /\ Admissible(items))
  /\ report' = [call |-> "ValueError"]
  /\ UNCHANGED <<caches, tables, call>>

Reset ==
  /\ call = NoCall
  /\ caches' = [c \in Cluster |-> <<>>]
  /\ homes' = [k \in {} |-> None]
  /\ mappings' = [k \in {} |-> None]
  /\ intervals' = [k \in {} |-> None]
  /\ copied' = {}
  /\ report' = [call |-> "reset"]
  /\ UNCHANGED call

SessionNext ==
  \/ \E items \in Epochs, policy \in Policies : ReplayEpoch(items, policy)
  \/ \E items \in BulkEpochs, policy \in Policies : ReplayBulk(items, policy)
  \/ \E items \in Writes : ApplyOutputPressure(items)
  \/ FillOwn \/ FillCopy \/ BulkLine \/ BulkFlush
  \/ Return \/ Refuse \/ Reset

SessionSpec == SessionInit /\ [][SessionNext]_sessionVars
------------------------------------------------------------------------------
Lines == UNION {Resident(caches[c]) : c \in Cluster}

SectorOf(line) == line[2] + homes[line[1]][2]

(* Distinct copies never share a DRAM sector of one owner: two cached      *)
(* lines of one owner and sector are one line.  The tables that ensure it  *)
(* grow over many calls, and a refused call must leave them alone.         *)
NoSectorAliasing ==
  \A l, m \in Lines :
    homes[l[1]][1] = homes[m[1]][1] /\ SectorOf(l) = SectorOf(m) => l = m

(* While an allocation is written no other cluster than its owner holds a  *)
(* line of it, whatever epochs filled and evicted copies before: nothing   *)
(* invalidates requester copies, so one would be stale from then on.       *)
WritesFindNoCopies ==
  call # NoCall /\ call.kind = "write" =>
    \A c \in Cluster, w \in call.answer :
      \A line \in Resident(caches[c]) : line[1] = w[2] => c = w[1]

(* A resident line away from home belongs to a recorded requester copy.    *)
CopiesRecorded ==
  \A c \in Cluster : \A line \in Resident(caches[c]) :
    homes[line[1]][1] = c \/ line[1] \in copied

(* The session keeps the promise of its docstring, for both replay paths:  *)
(* classification against the snapshot, one DDR miss per cold line, fills  *)
(* afterwards and in line order, refused calls without effect.             *)
ImplementsEpochReplay == Replay!EpochSpec

(* "A cold physical line generates exactly one owner-DDR miss."            *)
OneMissPerColdLine ==
  report.call = "epoch" =>
    Replay!OneMissPerLine(report.served)

(* The bulk path "preserves the same epoch-snapshot hit/miss/MSHR          *)
(* semantics": it leaves the caches as the detailed path would.            *)
BulkLeavesDetailedCaches ==
  call # NoCall /\ call.kind = "bulk" /\ Finished =>
    caches = Replay!Filled(call.snapshot, call.answer, call.policy)
=============================================================================
