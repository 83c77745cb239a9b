---------------------------- MODULE ReuseWindow ----------------------------
(***************************************************************************)
(* What l2_cache.py promises of its cache, with no queue in it: the        *)
(* deterministic reuse-distance rule "a resident line whose FIFO age is    *)
(* within capacity is a deterministic hit" (module docstring).  The whole  *)
(* state is a clock that counts inserted lines and, for each key, the      *)
(* clock at its last insertion.  A lookup is a hit exactly when at most a  *)
(* capacity of lines was inserted since that clock, the key's own included.*)
(***************************************************************************)
EXTENDS Integers

CONSTANTS
  Key,        \* what the cache is asked for: line numbers or tile blocks
  Capacity    \* L2CacheSpec.capacity_lines

VARIABLES
  clock,      \* lines inserted so far
  born        \* born[k]: the clock when k was last inserted, or Never

Never == -1

windowVars == <<clock, born>>

InWindow(k) == born[k] # Never /\ clock - born[k] <= Capacity

WindowInit ==
  /\ clock = 0
  /\ born = [k \in Key |-> Never]

(* A miss brings in k, one line or more; a hit changes nothing, so it is a *)
(* stuttering step here.                                                   *)
WindowMiss(k) ==
  /\ ~InWindow(k)
  /\ born' = [born EXCEPT ![k] = clock]
  /\ clock' \in Nat
  /\ clock' > clock

WindowNext == \E k \in Key : WindowMiss(k)

WindowSpec == WindowInit /\ [][WindowNext]_windowVars
=============================================================================
