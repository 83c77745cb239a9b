------------------------------ MODULE NocRoutes ------------------------------
(***************************************************************************)
(* mosaic/noc/noc_topo.py: how a traffic matrix is charged to the links of *)
(* a network of tiles (L3), each a grid of switches (L2), each with its    *)
(* devices (L1).  Hierarchy.route walks every pair from snapshot to        *)
(* snapshot; build_extended_traffic_matrix charges each move; a separate   *)
(* function lists the links there are.  One step here is one snapshot.     *)
(***************************************************************************)
EXTENDS Integers, Sequences, FiniteSets, FiniteSetsExt

CONSTANTS
  Nets,            \* the networks: [outer, middle: grids, ports: devices]
  ByteTime,        \* layer -> time one byte takes on one of its links
  Latency          \* layer -> latency of one of its hops

(* A grid is [rows, cols, rowRing, colRing]: the kinds mesh, torus, mchain_*)
(* nring and mring_nchain; a chain or ring is a grid of one row.           *)
IsGrid(g) ==
  /\ g.rows \in {1, 2, 4} /\ g.cols \in {1, 2, 4}
  /\ {g.rowRing, g.colRing} \subseteq BOOLEAN

Layers == {"outer", "middle", "switch", "centre"}

ASSUME NetAssumption ==
  /\ \A n \in Nets : IsGrid(n.outer) /\ IsGrid(n.middle) /\ n.ports \in Nat \ {0}
  /\ ByteTime \in [Layers -> Nat \ {0}] /\ Latency \in [Layers -> Nat]
------------------------------------------------------------------------------
(* Topology: a grid, its routes and its ports.                             *)

Size(g)     == g.rows * g.cols
Id(g, r, c) == r * g.cols + c
Row(g, k)   == k \div g.cols
Col(g, k)   == k % g.cols

(* Wrong form of Line: a ring is always walked upwards.                    *)
LineUp(n, ring, a, b) ==
  IF ring THEN [k \in 1 .. (b - a) % n |-> (a + k) % n]
  ELSE IF a <= b THEN [k \in 1 .. b - a |-> a + k] ELSE [k \in 1 .. a - b |-> a - k]

(* The coordinates after a on the way to b; on a ring the shorter way.     *)
Line(n, ring, a, b) ==
  LET up   == IF ring THEN (b - a) % n ELSE IF a <= b THEN b - a ELSE n
      down == IF ring THEN (a - b) % n ELSE IF a <= b THEN n ELSE a - b
  IN  IF up <= down THEN [k \in 1 .. up |-> (a + k) % n]
      ELSE [k \in 1 .. down |-> (a - k) % n]

(* route_intra: rows first, then columns.                                  *)
Steps(g, s, d) ==
  LET rows == Line(g.rows, g.rowRing, Row(g, s), Row(g, d))
      cols == Line(g.cols, g.colRing, Col(g, s), Col(g, d))
  IN  [k \in DOMAIN rows |-> Id(g, rows[k], Col(g, s))]
        \o [k \in DOMAIN cols |-> Id(g, Row(g, d), cols[k])]

(* distance, an independent definition of the length of such a route.      *)
Apart(n, ring, a, b) ==
  IF ring THEN Min({(b - a) % n, (a - b) % n}) ELSE Max({b - a, a - b})

Distance(g, s, d) ==
  Apart(g.rows, g.rowRing, Row(g, s), Row(g, d))
    + Apart(g.cols, g.colRing, Col(g, s), Col(g, d))

(* Ports enter on the far half of a side and leave on the near half.       *)
In(n)  == IF n = 1 THEN <<0>> ELSE [k \in 1 .. n \div 2 |-> n \div 2 + k - 1]
Out(n) == IF n = 1 THEN <<0>> ELSE [k \in 1 .. n \div 2 |-> k - 1]

AlongColumn(g, rows, c) == [k \in DOMAIN rows |-> Id(g, rows[k], c)]
AlongRow(g, r, cols)    == [k \in DOMAIN cols |-> Id(g, r, cols[k])]

PortsOf(g) ==
  [left_in   |-> AlongColumn(g, In(g.rows), 0),
   left_out  |-> AlongColumn(g, Out(g.rows), 0),
   right_in  |-> AlongColumn(g, Out(g.rows), g.cols - 1),
   right_out |-> AlongColumn(g, In(g.rows), g.cols - 1),
   up_in     |-> AlongRow(g, g.rows - 1, In(g.cols)),
   up_out    |-> AlongRow(g, g.rows - 1, Out(g.cols)),
   down_in   |-> AlongRow(g, 0, Out(g.cols)),
   down_out  |-> AlongRow(g, 0, In(g.cols))]

(* port_sides and _side_map: where a hop leaves a tile and enters the next *)
Sides == [down |-> <<"down_out", "up_in">>, up |-> <<"up_out", "down_in">>,
          right |-> <<"right_out", "left_in">>, left |-> <<"left_out", "right_in">>]

(* hop_dir: the name the route gives to a hop.                             *)
HopDir(g, u, v) ==
  IF Row(g, u) # Row(g, v)
  THEN IF g.rowRing
       THEN IF Row(g, v) = (Row(g, u) - 1) % g.rows THEN "down" ELSE "up"
       ELSE IF Row(g, v) > Row(g, u) THEN "up" ELSE "down"
  ELSE IF g.colRing
       THEN IF Col(g, v) = (Col(g, u) - 1) % g.cols THEN "left" ELSE "right"
       ELSE IF Col(g, v) > Col(g, u) THEN "right" ELSE "left"

(* _neighbors_2d: the names the link table gives.                          *)
Neighbours(g) ==
  LET nodes == 0 .. Size(g) - 1
      Beside(u, dr, dc) ==
        Id(g, (Row(g, u) + dr) % g.rows, (Col(g, u) + dc) % g.cols)
      Rows(u, dr) == g.rowRing \/ Row(g, u) + dr \in 0 .. g.rows - 1
      Cols(u, dc) == g.colRing \/ Col(g, u) + dc \in 0 .. g.cols - 1
  IN  {<<u, Beside(u, 1, 0), "down">>  : u \in {x \in nodes : Rows(x, 1)}}
        \cup {<<u, Beside(u, -1, 0), "up">>    : u \in {x \in nodes : Rows(x, -1)}}
        \cup {<<u, Beside(u, 0, 1), "right">>  : u \in {x \in nodes : Cols(x, 1)}}
        \cup {<<u, Beside(u, 0, -1), "left">>  : u \in {x \in nodes : Cols(x, -1)}}
------------------------------------------------------------------------------
(* build_extended_bandwidth_matrix: the cells with bandwidth, layer by     *)
(* layer.  A place is <<tile, switch, port>>; port n.ports is the centre   *)
(* of the switch, the code's anchor.                                       *)
Devices(n) == 0 .. Size(n.outer) * Size(n.middle) * n.ports - 1
Tiles(n)   == 0 .. Size(n.outer) - 1
Switches(n) == 0 .. Size(n.middle) - 1
Centre(n, o, m) == <<o, m, n.ports>>

SwitchLinks(n) ==
  UNION {{<<<<o, m, p>>, Centre(n, o, m)>>, <<Centre(n, o, m), <<o, m, p>>>>} :
           o \in Tiles(n), m \in Switches(n), p \in 0 .. n.ports - 1}

CentreLinks(n) ==
  {<<Centre(n, o, m), Centre(n, o, m)>> : o \in Tiles(n), m \in Switches(n)}

MiddleLinks(n) ==
  {<<Centre(n, o, e[1]), Centre(n, o, e[2])>> :
     o \in Tiles(n), e \in Neighbours(n.middle)}

OuterLinks(n) ==
  UNION {LET out == PortsOf(n.middle)[Sides[e[3]][1]]
             in  == PortsOf(n.middle)[Sides[e[3]][2]]
         IN  {<<Centre(n, e[1], out[k]), Centre(n, e[2], in[k])>> :
                k \in DOMAIN out \cap DOMAIN in} : e \in Neighbours(n.outer)}

(* Where two layers give one cell a bandwidth, the larger one holds.       *)
CellTimes(n) ==
  LET Cells == [outer |-> OuterLinks(n), middle |-> MiddleLinks(n),
                switch |-> SwitchLinks(n), centre |-> CentreLinks(n)]
  IN  [cell \in UNION {Cells[l] : l \in Layers} |->
         Min({ByteTime[l] : l \in {x \in Layers : cell \in Cells[x]}})]

CellTimesOf == [n \in Nets |-> CellTimes(n)]
------------------------------------------------------------------------------
VARIABLES
  net,             \* the network
  todo,            \* the pairs of the traffic matrix not routed yet, with bytes
  route,           \* the chain being walked, or None
  traffic,         \* the extended traffic matrix: cell -> bytes
  slowest          \* the largest hop latency of a chain so far

nocVars == <<net, todo, route, traffic, slowest>>

None == [src |-> -1]

(* map_node: the innermost coordinate varies fastest.                      *)
Place(d) ==
  <<d \div (Size(net.middle) * net.ports),
    (d \div net.ports) % Size(net.middle), d % net.ports>>

(* select_index; with one or two ports only parities matter.               *)
Select(src, dst, hop, num) == (src + dst + hop) % num

(* Wrong form of Exit: the parity of the next hop.                         *)
ExitNext(src, dst, hops, i) ==
  LET dir == HopDir(net.outer, hops[i], hops[i + 1])
      out == PortsOf(net.middle)[Sides[dir][1]]
  IN  out[Select(src, dst, i, Len(out)) + 1]

(* The switch a chain leaves its tile by, and the one it enters the next   *)
(* by, for hop i of the tiles hops; limit is the number the index is taken *)
(* modulo.                                                                 *)
PortCount(dir) ==
  Min({Len(PortsOf(net.outer)[Sides[dir][1]]), Len(PortsOf(net.middle)[Sides[dir][2]]),
       Len(PortsOf(net.middle)[Sides[dir][1]])})

Exit(src, dst, hops, i) ==
  LET dir == HopDir(net.outer, hops[i], hops[i + 1])
  IN  PortsOf(net.middle)[Sides[dir][1]][Select(src, dst, i - 1, PortCount(dir)) + 1]

Entry(src, dst, hops, i) ==
  LET dir == HopDir(net.outer, hops[i], hops[i + 1])
  IN  PortsOf(net.middle)[Sides[dir][2]][Select(src, dst, i - 1, PortCount(dir)) + 1]

(* The exit a chain walks to before the next hop: counted over the ports   *)
(* of the inner grid alone.                                                *)
Foreseen(src, dst, hops, i) ==
  LET dir == HopDir(net.outer, hops[i], hops[i + 1])
      out == PortsOf(net.middle)[Sides[dir][1]]
  IN  out[Select(src, dst, i - 1, Len(out)) + 1]

(* One move: bytes on its cell, on the centre's own cell when the switch   *)
(* layer moves, and the latency of the outermost layer that changes.       *)
Moved(a, b) ==
  IF a[1] # b[1] THEN "outer" ELSE IF a[2] # b[2] THEN "middle" ELSE "switch"

(* The bytes of a cell; a cell that is missing has none.                   *)
Bytes(f, x) == IF x \in DOMAIN f THEN f[x] ELSE 0

(* Wrong form of Plus: a cell keeps the last bytes alone.                  *)
PlusLast(f, k, v) == [x \in DOMAIN f \cup {k} |-> IF x = k THEN v ELSE f[x]]

Plus(f, k, v) ==
  [x \in DOMAIN f \cup {k} |-> IF x = k THEN Bytes(f, k) + v ELSE f[x]]

Charged(a, b, bytes) ==
  LET once == Plus(traffic, <<a, b>>, bytes)
      hub  == Centre(net, b[1], b[2])
  IN  IF Moved(a, b) = "switch" THEN Plus(once, <<hub, hub>>, bytes) ELSE once

Move(b) ==
  /\ traffic' = Charged(route.at, b, route.bytes)
  /\ UNCHANGED <<net, todo>>

Later(b) == route.time + Latency[Moved(route.at, b)]

(* Chains are walked in the order of the matrix.  The first move is from   *)
(* the device to the centre of its switch.                                 *)
Depart ==
  /\ route = None /\ todo # {}
  /\ \E p \in todo :
       LET s    == Place(p.src)
           d    == Place(p.dst)
           hops == <<s[1]>> \o Steps(net.outer, s[1], d[1])
       IN
       /\ \A q \in todo : p.src < q.src \/ (p.src = q.src /\ p.dst <= q.dst)
       /\ todo' = todo \ {p}
       /\ traffic' = Charged(s, Centre(net, s[1], s[2]), p.bytes)
       /\ route' = [src |-> p.src, dst |-> p.dst, bytes |-> p.bytes,
                    at |-> Centre(net, s[1], s[2]), hops |-> hops, hop |-> 1,
                    leg |-> Steps(net.middle, s[2],
                              IF Len(hops) = 1 THEN d[2]
                              ELSE Exit(p.src, p.dst, hops, 1)),
                    past |-> {}, walked |-> 0, time |-> Latency["switch"]]
  /\ UNCHANGED <<net, slowest>>

(* A hop between the switches of a tile.                                   *)
Walk ==
  /\ route # None /\ route.leg # <<>>
  /\ LET b == Centre(net, route.at[1], Head(route.leg)) IN
       /\ Move(b)
       /\ route' = [route EXCEPT !.at = b, !.leg = Tail(@), !.walked = @ + 1,
                      !.past = @ \cup {route.at}, !.time = Later(b)]
  /\ UNCHANGED slowest

(* A hop between tiles, and the leg that follows it.                       *)
Cross ==
  /\ route # None /\ route.leg = <<>> /\ route.hop < Len(route.hops)
  /\ LET i  == route.hop
         in == Entry(route.src, route.dst, route.hops, i)
         b  == Centre(net, route.hops[i + 1], in)
         then == IF i + 1 = Len(route.hops)
                 THEN Steps(net.middle, in, Place(route.dst)[2])
                 ELSE LET seen == Foreseen(route.src, route.dst, route.hops, i + 1)
                      IN  Steps(net.middle, in, seen)
                            \o Steps(net.middle, seen,
                                     Exit(route.src, route.dst, route.hops, i + 1))
     IN
     /\ Move(b)
     /\ route' = [route EXCEPT !.at = b, !.leg = then, !.hop = @ + 1,
                    !.past = @ \cup {route.at}, !.time = Later(b)]
  /\ UNCHANGED slowest

Arrive ==
  /\ route # None /\ route.leg = <<>> /\ route.hop = Len(route.hops)
  /\ LET b == <<route.at[1], route.at[2], route.dst % net.ports>> IN
       /\ Move(b)
       /\ slowest' = Max({slowest, Later(b)})
  /\ route' = None

NocNext == Depart \/ Walk \/ Cross \/ Arrive

Routed == todo = {} /\ route = None

(* ext_max: cells without bandwidth take no part.                          *)
LinkTime ==
  LET cells == DOMAIN traffic \cap DOMAIN CellTimesOf[net]
  IN  IF cells = {} THEN 0
      ELSE Max({traffic[cell] * CellTimesOf[net][cell] : cell \in cells})
------------------------------------------------------------------------------
(* What the two invariants below rest on.  The exit a chain foresees is the*)
(* one it takes when no side of the grid of switches has more ports than   *)
(* the side of the grid of tiles the exit's count is capped by.            *)
PortsAgree(n) ==
  /\ n.outer.cols > 1 => Len(In(n.middle.rows)) <= Len(In(n.outer.rows))
  /\ n.outer.rows > 1 => Len(In(n.middle.cols)) <= Len(In(n.outer.cols))

(* Route and link table call a hop to another row of tiles by opposite     *)
(* names: they mean one cell when there is no other row, when either way   *)
(* round leads there, or when a tile is one switch.                        *)
RowsAgree(n) ==
  n.outer.rows = 1 \/ (n.outer.rows = 2 /\ n.outer.rowRing) \/ Size(n.middle) = 1

(* Every move of every chain is over a link the bandwidth matrix has: a    *)
(* cell without bandwidth takes no part in ext_max, "the transfer time of  *)
(* the bottleneck link", however many bytes it carries.                    *)
MovesOverLinks == DOMAIN traffic \subseteq DOMAIN CellTimesOf[net]

(* A chain crosses as many tile borders as the tiles are apart, walks as   *)
(* many switches as they are apart inside one tile, is where its crossings *)
(* put it, and passes no switch twice whatever ports they select.          *)
RoutesAreDirect ==
  route # None =>
    LET s == Place(route.src)
        d == Place(route.dst)
    IN  /\ Len(route.hops) - 1 = Distance(net.outer, s[1], d[1])
        /\ route.at[1] = route.hops[route.hop]
        /\ s[1] = d[1] => route.walked + Len(route.leg) = Distance(net.middle, s[2], d[2])
        /\ route.at \notin route.past
=============================================================================
