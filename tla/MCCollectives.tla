---------------------------- MODULE MCCollectives ----------------------------
EXTENDS Collectives

Grid(rows, cols, rowRing, colRing) ==
  [rows |-> rows, cols |-> cols, rowRing |-> rowRing, colRing |-> colRing]
Mesh(rows, cols)  == Grid(rows, cols, FALSE, FALSE)
Torus(rows, cols) == Grid(rows, cols, TRUE, TRUE)
Net(outer, middle, ports) == [outer |-> outer, middle |-> middle, ports |-> ports]

(* A ring and a chain of tiles, a small torus of them, one tile alone, and *)
(* rows of four tiles of two ports to a side.                              *)
Row4   == Net(Torus(1, 4), Mesh(2, 2), 1)
Chain4 == Net(Mesh(1, 4), Torus(2, 2), 1)
Square == Net(Torus(2, 2), Mesh(2, 2), 1)
Tile   == Net(Mesh(1, 1), Torus(4, 4), 2)
Wide   == Net(Mesh(4, 4), Mesh(4, 1), 1)

MCByteTime == [outer |-> 8, middle |-> 6, switch |-> 4, centre |-> 1]
MCLatency  == [outer |-> 3, middle |-> 2, switch |-> 1, centre |-> 0]

Call(net_, dims, which, op, degree, bytes) ==
  [net |-> net_, dims |-> dims, which |-> which, op |-> op, degree |-> degree,
   bytes |-> bytes]

MCNets == {Row4, Chain4, Square, Tile, Wide}

MCCalls ==
  {Call(Square, <<4, 4>>, 1, "all_reduce", 1, 4),
   Call(Row4, <<2, 8>>, 2, "all_reduce", 1, 8),
   Call(Chain4, <<4, 4>>, 2, "all_reduce", 1, 8),
   Call(Tile, <<8, 4>>, 1, "partial_broadcast", 2, 8),
   Call(Tile, <<4, 8>>, 2, "partial_broadcast", 4, 8),
   Call(Square, <<2, 4, 2>>, 2, "reduce_scatter", 1, 4),
   Call(Tile, <<2, 16>>, 1, "all_reduce", 1, 64),
   Call(Wide, <<4, 4, 4>>, 2, "all_reduce", 1, 4)}

(* The conditions under which routes are direct and stay on links: the     *)
(* networks and calls of the run satisfy them.                             *)
MCAgree == (\A n \in MCNets : PortsAgree(n)) /\ (\A c \in MCCalls : LinksAgree(c))
ASSUME MCAgreeAssumption == MCAgree

(* Two tiles, one above the other.                                         *)
Stacked  == Net(Mesh(2, 1), Mesh(2, 2), 1)
RowNets  == {Stacked}
RowCalls == {Call(Stacked, <<4, 2>>, 2, "all_reduce", 1, 2)}
=============================================================================
