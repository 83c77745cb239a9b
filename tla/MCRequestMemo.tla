---------------------------- MODULE MCRequestMemo ----------------------------
(***************************************************************************)
(* Four sectors compete for three lines.  Two requests share a sector, two *)
(* are disjoint, and one is larger than the cache.                         *)
(***************************************************************************)
EXTENDS RequestMemo

MCKey == 1 .. 4

MCRequest == {"a", "b", "c", "wide"}

MCSectors == [a |-> <<1, 2>>, b |-> <<2, 3>>, c |-> <<4>>,
              wide |-> <<1, 2, 3, 4>>]
=============================================================================
