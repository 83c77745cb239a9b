--------------------------- MODULE MCDistributedL2 ---------------------------
(***************************************************************************)
(* Instances of the distributed session.  The main one has two clusters:   *)
(* copy 1 lives on cluster 0 with two lines, copy 2 on cluster 1 with one; *)
(* other callers misplace copy 2 on cluster 0, behind copy 1 or over it,   *)
(* or ask a cluster outside the unit.                                      *)
(***************************************************************************)
EXTENDS DistributedL2

Ask(requester, owner, copy, sectors, offset) ==
  [requester |-> requester, owner |-> owner, copy |-> copy,
   sectors |-> sectors, offset |-> offset, tensor |-> copy,
   mapping |-> "m", interval |-> None, epoch |-> 0]

UpTo(n, set) == {items \in SUBSET set : Cardinality(items) \in 1 .. n}

TwoClusters == 0 .. 1
TwoCapacities == [c \in TwoClusters |-> IF c = 0 THEN 2 ELSE 1]
AllPressure == [c \in TwoClusters |-> TRUE]

Events == {Ask(r, 0, 1, {s}, 0) : r \in TwoClusters, s \in 0 .. 1}
            \cup {Ask(r, 1, 2, {1}, 1) : r \in TwoClusters}

MCEpochs == UpTo(2, Events) \cup {{Ask(0, 0, 2, {1}, 1)}, {Ask(0, 0, 2, {2}, 1)}}

MCBulkEpochs ==
  UpTo(2, {Ask(r, 0, 1, {0, 1}, 0) : r \in TwoClusters}
            \cup {Ask(r, 1, 2, {0}, 0) : r \in TwoClusters}
            \cup {Ask(1, 0, 1, {1}, 0)})
    \cup {{Ask(0, 2, 3, {0}, 0)}}

MCWrites == {{Ask(0, 0, 1, {0}, 0)}, {Ask(0, 1, 2, {0}, 0)},
             {Ask(0, 0, 2, {2}, 0)}}

BothPolicies == {HomeOnly, BothFill}
------------------------------------------------------------------------------
(* Three clusters: the last one reads from both others in one epoch, from  *)
(* the second one a copy that sorts first.                                 *)
ThreeClusters == 0 .. 2
OneLineEach == [c \in ThreeClusters |-> 1]
NoPressure == [c \in ThreeClusters |-> FALSE]

CrossedReads == UpTo(2, {Ask(r, o, 2 - o, {s}, 0) :
                           r \in ThreeClusters, o \in 0 .. 1, s \in 0 .. 1})

OnlyBothFill == {BothFill}
------------------------------------------------------------------------------
(* One allocation read under two tensor names in one epoch.                *)
TwoNames == UpTo(2, {[Ask(r, 0, 1, {s}, 0) EXCEPT !.tensor = t] :
                       r \in TwoClusters, s \in 0 .. 1, t \in 1 .. 2})

OnlyHomeOnly == {HomeOnly}

Nothing == {}
=============================================================================
