-------------------------- MODULE MCDistributedGemm --------------------------
EXTENDS DistributedGemm

MCCluster  == 0 .. 3
MCCapacity == [c \in MCCluster |-> 2]
MCPressure == [c \in MCCluster |-> TRUE]

BothPolicies == {HomeOnly, BothFill}
Nothing == {}

Ext(m, n, k) == [m |-> m, n |-> n, k |-> k]
At3(a, b, c) == [A |-> a, B |-> b, C |-> c]

(* Two rows and columns of ranks over a product of odd extents.            *)
Whole == [problem |-> Ext(3, 2, 2), grid |-> Ext(2, 2, 1),
          placement |-> At3(Sharded, Sharded, Sharded),
          swizzle |-> At3("none", "xor", "none"), pad |-> FALSE, packed |-> TRUE,
          fits |-> TRUE, scope |-> "wave", policy |-> HomeOnly,
          id |-> 0, base |-> 0, cPerLine |-> 2]

MCPlans ==
  {Whole,
   [Whole EXCEPT !.packed = FALSE],
   [Whole EXCEPT !.packed = FALSE, !.cPerLine = 1],
   [Whole EXCEPT !.grid = Ext(1, 2, 2), !.scope = "request",
                 !.placement = At3(Canonical(0), Replicated, Canonical(0))],
   [Whole EXCEPT !.grid = Ext(4, 1, 1), !.id = 1, !.base = 12, !.pad = TRUE, !.packed = FALSE,
                 !.placement = At3(Replicated, Canonical(1), Canonical(1)), !.policy = BothFill],
   [Whole EXCEPT !.fits = FALSE]}
=============================================================================
