----------------------------- MODULE EpochReplay -----------------------------
(***************************************************************************)
(* What DistributedL2Session (bank_oracle/multi_cluster/cache.py) promises *)
(* its callers, in the words of the class docstring: all lookups of one    *)
(* epoch probe the caches as they were when it began; a cold line costs    *)
(* one DDR miss and merges the other requests for it; fills are committed  *)
(* only after every probe is classified.  Every call is one step here.     *)
(***************************************************************************)
EXTENDS LineFifo, FiniteSets

CONSTANTS
  Cluster,        \* cluster numbers
  Capacity,       \* Cluster -> capacity_lines
  None

VARIABLES
  caches,         \* Cluster -> its FIFO of lines
  report          \* what the last finished call reported

epochVars == <<caches, report>>

RequesterHit == "requester_l2_hit"
OwnerHit     == "owner_l2_hit"
DdrMiss      == "owner_ddr_miss"
MshrMerge    == "owner_mshr_merge"

HomeOnly == "home_only"
BothFill == "requester_and_home"

Cached(c, line) == line \in Resident(caches[c])

Remote(x) == x.requester # x.owner

(* The cache that serves lookup x under a policy, before any fill.         *)
RequesterServes(x, policy) ==
  Cached(x.requester, x.line) /\ (Remote(x) => policy = BothFill)

OwnerServes(x, policy) ==
  Remote(x) /\ Cached(x.owner, x.line) /\ ~RequesterServes(x, policy)

(* The lines a cluster takes in as their owner, and as a remote requester. *)
OwnLines(c, served) ==
  {x.line : x \in {y \in DOMAIN served :
                     y.owner = c /\ served[y] \in {DdrMiss, MshrMerge}}}

CopyLines(c, served, policy) ==
  {x.line : x \in {y \in DOMAIN served :
                     /\ policy = BothFill
                     /\ Remote(y) /\ y.requester = c
                     /\ served[y] # RequesterHit}}

Filled(before, served, policy) ==
  [c \in Cluster |->
     FillAll(Capacity[c], before[c],
             InOrder(OwnLines(c, served))
               \o InOrder(CopyLines(c, served, policy)))]
------------------------------------------------------------------------------
EpochInit == caches = [c \in Cluster |-> <<>>] /\ report = [call |-> "reset"]

Classified(served, policy) ==
  \A x \in DOMAIN served :
    /\ served[x] = RequesterHit <=> RequesterServes(x, policy)
    /\ served[x] = OwnerHit <=> OwnerServes(x, policy)

OneMissPerLine(served) ==
  \A x \in DOMAIN served :
    served[x] \in {DdrMiss, MshrMerge} =>
      Cardinality({y \in DOMAIN served :
                     y.line = x.line /\ served[y] = DdrMiss}) = 1

Epoch ==
  /\ report'.call = "epoch"
  /\ Classified(report'.served, report'.policy)
  /\ OneMissPerLine(report'.served)
  /\ caches' = Filled(caches, report'.served, report'.policy)

(* Written lines age the caches of their owners and nothing else.          *)
Pressure ==
  /\ report'.call = "write"
  /\ caches' = [c \in Cluster |->
                  FillAll(Capacity[c], caches[c],
                          InOrder({w[2] : w \in {v \in report'.lines : v[1] = c}}))]

Reset ==
  /\ report'.call = "reset"
  /\ caches' = [c \in Cluster |-> <<>>]

Reject == report'.call = "ValueError" /\ UNCHANGED caches

EpochNext == Epoch \/ Pressure \/ Reset \/ Reject

EpochSpec == EpochInit /\ [][EpochNext]_epochVars
=============================================================================
