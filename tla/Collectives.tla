----------------------------- MODULE Collectives -----------------------------
(***************************************************************************)
(* mosaic/collectives: an all-reduce, reduce-scatter or partial broadcast  *)
(* is costed stage by stage.  A stage fills the traffic matrix for every   *)
(* group of one parallel dimension, has the network route it, and is reset;*)
(* some stages are routed once and counted several times.  all_reduce_     *)
(* wrapper tries five algorithms and keeps the cheapest.                   *)
(*                                                                         *)
(* held is not in the code: it is the data that the messages of the stages *)
(* counted would carry, and tells whether they make up the collective they *)
(* are the cost of.                                                        *)
(***************************************************************************)
EXTENDS NocRoutes, SequencesExt

CONSTANTS
  Calls            \* [net, dims, which, op, degree, bytes]

Product(dims) == FoldSeq(LAMBDA x, y : x * y, 1, dims)

ASSUME CallAssumption ==
  \A c \in Calls :
    /\ c.net \in Nets /\ c.dims \in Seq(Nat \ {0})
    /\ c.which \in DOMAIN c.dims /\ c.dims[c.which] \in {2, 4, 8}
    /\ Product(c.dims) = Cardinality(Devices(c.net))
    /\ c.op \in {"all_reduce", "reduce_scatter", "partial_broadcast"}
    /\ c.degree \in {1, 2, 4, 8} /\ c.degree <= c.dims[c.which]
    /\ c.bytes \in Nat /\ c.bytes % c.dims[c.which] = 0

VARIABLES
  call,            \* the wrapper's arguments
  algos,           \* the algorithms it has yet to cost, the current one first
  sent,            \* a stage has filled tm and is being routed
  tm,              \* the traffic matrix: pair of devices -> bytes
  costs,           \* what each routed stage cost
  counted,         \* how many stages have been counted
  total,           \* their hop and link time
  best,            \* the wrapper's choice so far: [op, time]
  held, twice      \* device -> chunk -> contributions; one was added twice

collectiveVars == <<call, algos, sent, tm, costs, counted, total, best, held,
                    twice>>
vars == <<nocVars, collectiveVars>>
------------------------------------------------------------------------------
(* _compute_parallelism_groups: dimensions vary from the inner to the outer*)
(* one; a group is the devices that differ in one of them alone.           *)
Group  == call.dims[call.which]
Stride == Product(SubSeq(call.dims, 1, call.which - 1))
Blocks == Product(SubSeq(call.dims, call.which + 1, Len(call.dims)))
Ranks  == 0 .. Group - 1

Groups == {[k \in Ranks |-> block * Group * Stride + off + k * Stride] :
             off \in 0 .. Stride - 1, block \in 0 .. Blocks - 1}

Rank(d) == (d \div Stride) % Group

(* The group size is a power of two, or the code asserts.                  *)
Rounds == CHOOSE n \in 0 .. Group : 2^n = Group

(* i ^ (1 << s)                                                            *)
Partner(i, s) == IF (i \div 2^s) % 2 = 0 THEN i + 2^s ELSE i - 2^s

Exchange(s, bytes) == {<<bytes, i, Partner(i, s)>> : i \in Ranks}

(* One of the two trees: every second rank is a leaf, a parent lies half   *)
(* way between two children, the last node hangs on the root.              *)
TreeNodes(first) ==
  LET nodes[l \in Nat] ==
        IF l = 0 THEN [j \in 1 .. Group \div 2 |-> first + 2 * (j - 1)]
        ELSE [j \in 1 .. Len(nodes[l - 1]) \div 2 |->
                (nodes[l - 1][2 * j - 1] + nodes[l - 1][2 * j]) \div 2]
  IN  nodes

TreeLevel(first, root, l) ==
  LET level == TreeNodes(first)[l]
      above == TreeNodes(first)[l + 1]
  IN  IF Len(level) = 1 THEN {<<level[1], root>>}
      ELSE {<<level[j], above[(j + 1) \div 2]>> : j \in DOMAIN level}

RightTree(l) == TreeLevel(0, Group - 1, l)
LeftTree(l)  == TreeLevel(1, 0, l)

TreeUp(l) == {<<call.bytes \div 2, e[1], e[2]>> : e \in RightTree(l) \cup LeftTree(l)}
TreeDown(l) == {<<t[1], t[3], t[2]>> : t \in TreeUp(l)}

Halving == [s \in 1 .. Rounds |-> Exchange(s - 1, call.bytes \div 2^s)]

(* The stages an algorithm routes, each a set of <<bytes, rank, rank>>.    *)
Stages(algo) ==
  CASE algo = "recursive_doubling" ->
         [s \in 1 .. Rounds |-> Exchange(s - 1, call.bytes)]
    [] algo = "ring" ->
         <<{<<call.bytes \div Group, i, (i + 1) % Group>> : i \in Ranks}>>
    [] algo = "double_tree" ->
         [l \in 1 .. Rounds |-> TreeUp(l - 1)]
           \o [l \in 1 .. Rounds |-> TreeDown(Rounds - l)]
    [] algo = "all_to_all" ->
         <<{<<call.bytes, p[1], p[2]>> : p \in {q \in Ranks \X Ranks : q[1] # q[2]}}>>
    [] OTHER -> Halving

Up(n)   == [k \in 1 .. n |-> k]
Down(n) == Reverse(Up(n))

(* Wrong form of Counts: one pass of the ring.                             *)
CountsOnePass(algo) ==
  IF algo = "ring" THEN [k \in 1 .. Group - 1 |-> 1] ELSE Up(Len(Stages(algo)))

(* How often each routed stage is counted, in the order of a real run: the *)
(* ring repeats its one stage, the second half of Rabenseifner's algorithm *)
(* is the first one backwards, and a partial broadcast a part of that.     *)
Counts(algo) ==
  CASE algo = "ring" -> [k \in 1 .. 2 * (Group - 1) |-> 1]
    [] algo = "rabenseifner" -> Up(Rounds) \o Down(Rounds)
    [] algo = "partial_broadcast" ->
         Up(Rounds) \o SubSeq(Down(Rounds), 1, CHOOSE n \in 0 .. Rounds : 2^n = call.degree)
    [] OTHER -> Up(Len(Stages(algo)))
------------------------------------------------------------------------------
(* What a message of the r-th counted stage carries: chunks 0 .. Group - 1 *)
(* of the vector, and whether they are added to those of the receiver or   *)
(* replace them.                                                           *)
Cargo(algo, r, i, j) ==
  LET s == 2^Counts(algo)[r]
  IN  CASE algo = "ring" -> {(IF r < Group THEN i - r + 1 ELSE i + 1 - (r - Group)) % Group}
        [] algo \in {"recursive_doubling", "all_to_all"} -> Ranks
        [] algo = "double_tree" ->
             LET edge == IF r <= Rounds THEN <<i, j>> ELSE <<j, i>>
                 l    == IF r <= Rounds THEN r - 1 ELSE 2 * Rounds - r
             IN  {c \in Ranks : c < Group \div 2 <=> edge \in RightTree(l)}
        [] OTHER -> {c \in Ranks : c % s = (IF r <= Rounds THEN j ELSE i) % s}

Adds(algo, r) == CASE algo = "ring" -> r < Group
                   [] algo = "all_to_all" -> TRUE
                   [] OTHER -> r <= Rounds

(* The chunks a rank must end with.                                        *)
Owned(algo, i) ==
  CASE algo = "reduce_scatter" -> {i}
    [] algo = "partial_broadcast" ->
         {c \in Ranks : c % (Group \div call.degree) = i % (Group \div call.degree)}
    [] OTHER -> Ranks

Own == [d \in Devices(net) |-> [c \in Ranks |-> {d}]]

Into(r, d, c) ==
  {p[1] : p \in {q \in DOMAIN costs[Counts(algos[1])[r]].tm :
                   q[2] = d /\ c \in Cargo(algos[1], r, Rank(q[1]), Rank(d))}}

Delivered(r) ==
  [d \in Devices(net) |-> [c \in Ranks |->
     IF Into(r, d, c) = {} THEN held[d][c]
     ELSE (UNION {held[s][c] : s \in Into(r, d, c)})
            \cup (IF Adds(algos[1], r) THEN held[d][c] ELSE {})]]

Overlap(r) ==
  Adds(algos[1], r) /\
    \E d \in Devices(net), c \in Ranks :
      \E s, t \in Into(r, d, c) \cup {d} : s # t /\ held[s][c] \cap held[t][c] # {}
------------------------------------------------------------------------------
Empty == [p \in {} |-> 0]

Init ==
  /\ call \in Calls
  /\ algos = IF call.op = "all_reduce"
             THEN <<"recursive_doubling", "ring", "rabenseifner", "double_tree",
                    "all_to_all">>
             ELSE <<call.op>>
  /\ net = call.net
  /\ todo = {} /\ route = None /\ traffic = Empty /\ slowest = 0
  /\ sent = FALSE /\ tm = Empty /\ costs = <<>> /\ counted = 0 /\ total = 0
  /\ best = [op |-> "none", time |-> 0]
  /\ held = Own /\ twice = FALSE

(* add_intra_group_traffic_pair_bulk: one stage, for every group at once.  *)
Filled(triples) ==
  LET Added == UNION {{[src |-> g[t[2]], dst |-> g[t[3]], bytes |-> t[1]] :
                         g \in Groups} : t \in triples}
  IN  FoldSet(LAMBDA x, m : Plus(m, <<x.src, x.dst>>, x.bytes), tm, Added)

Fill ==
  /\ algos # <<>> /\ ~sent /\ Len(costs) < Len(Stages(algos[1]))
  /\ sent' = TRUE
  /\ tm' = Filled(Stages(algos[1])[Len(costs) + 1])
  /\ todo' = {[src |-> p[1], dst |-> p[2], bytes |-> tm'[p]] : p \in DOMAIN tm'}
  /\ traffic' = Empty /\ slowest' = 0
  /\ UNCHANGED <<net, route, call, algos, costs, counted, total, best, held, twice>>

(* Hierarchy.route and build_extended_traffic_matrix.                      *)
Route == sent /\ NocNext /\ UNCHANGED collectiveVars

(* Wrong form of Reset: the next stage adds to this one's traffic.         *)
ResetNever == tm

Reset == Empty

StageRouted ==
  /\ sent /\ Routed
  /\ costs' = Append(costs, [tm |-> tm, hop |-> slowest, link |-> LinkTime])
  /\ sent' = FALSE /\ tm' = Reset
  /\ UNCHANGED <<nocVars, call, algos, counted, total, best, held, twice>>

AllRouted == algos # <<>> /\ Len(costs) = Len(Stages(algos[1]))
AllCounted == AllRouted /\ counted = Len(Counts(algos[1]))

(* Wrong form of Count: only the hop time is multiplied.                   *)
CountLinksOnce ==
  /\ AllRouted /\ ~sent /\ ~AllCounted
  /\ LET cost == costs[Counts(algos[1])[counted + 1]]
     IN  total' = total + cost.hop + (IF counted < Len(costs) THEN cost.link ELSE 0)
  /\ counted' = counted + 1
  /\ held' = Delivered(counted + 1)
  /\ twice' = (twice \/ Overlap(counted + 1))
  /\ UNCHANGED <<nocVars, call, algos, sent, tm, costs, best>>

Count ==
  /\ AllRouted /\ ~sent /\ ~AllCounted
  /\ LET cost == costs[Counts(algos[1])[counted + 1]]
     IN  total' = total + cost.hop + cost.link
  /\ counted' = counted + 1
  /\ held' = Delivered(counted + 1)
  /\ twice' = (twice \/ Overlap(counted + 1))
  /\ UNCHANGED <<nocVars, call, algos, sent, tm, costs, best>>

(* The first of the cheapest is kept.                                      *)
Compare ==
  /\ AllCounted
  /\ best' = IF best.op = "none" \/ total < best.time
             THEN [op |-> algos[1], time |-> total] ELSE best
  /\ algos' = Tail(algos)
  /\ tm' = Empty /\ costs' = <<>> /\ counted' = 0 /\ total' = 0
  /\ held' = Own /\ twice' = FALSE
  /\ UNCHANGED <<nocVars, call, sent>>

Next == Fill \/ Route \/ StageRouted \/ Count \/ Compare

Spec == Init /\ [][Next]_vars
------------------------------------------------------------------------------
(* What MovesOverLinks rests on: no pair of a group is in two rows of      *)
(* tiles, or the names of such a hop agree.                                *)
LinksAgree(c) ==
  \/ RowsAgree(c.net)
  \/ (c.net.outer.cols * Size(c.net.middle) * c.net.ports)
       % Product(SubSeq(c.dims, 1, c.which)) = 0

(* The stages counted, run one after the other, are the collective: every  *)
(* rank ends with the contributions of all of its group, none of them      *)
(* added twice, to the chunks it is to own, and with none of other groups. *)
CollectiveCompletes ==
  AllCounted =>
    /\ ~twice
    /\ \A g \in Groups, i \in Ranks :
         \A c \in Owned(algos[1], i) : held[g[i]][c] = {g[k] : k \in Ranks}

(* A message is charged exactly the chunks it has to carry, each time its  *)
(* stage is counted.                                                       *)
BytesMatchCargo ==
  AllRouted =>
    \A r \in DOMAIN Counts(algos[1]) :
      LET routed == costs[Counts(algos[1])[r]].tm IN
      \A p \in DOMAIN routed :
        routed[p] = Cardinality(Cargo(algos[1], r, Rank(p[1]), Rank(p[2])))
                      * (call.bytes \div Group)

(* Once a stage is routed, a device's own link carries what it sends and   *)
(* what it receives, and no byte is charged on the way in or out of its    *)
(* switch that the matrix does not hold.                                   *)
EndpointsCharged ==
  sent /\ Routed =>
    LET Carried(a, b) == Bytes(traffic, <<a, b>>)
        SumOver(S) == SumFunctionOnSet(tm, S)
    IN  \A d \in Devices(net) :
          LET hub == Centre(net, Place(d)[1], Place(d)[2]) IN
          /\ Carried(Place(d), hub) = SumOver({p \in DOMAIN tm : p[1] = d})
          /\ Carried(hub, Place(d)) = SumOver({p \in DOMAIN tm : p[2] = d})

(* No algorithm is costed below what every rank must at least receive over *)
(* its own link, which no all-reduce, reduce-scatter or gather can avoid.  *)
NoFreeReduce ==
  AllCounted =>
    total >= (Group - 1 + Cardinality(Owned(algos[1], 0)) - 1)
               * (call.bytes \div Group) * ByteTime["switch"]
=============================================================================
