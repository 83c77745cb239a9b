------------------------------- MODULE LineFifo -------------------------------
(***************************************************************************)
(* A private L2 as the distributed session sees it: only fill_line and     *)
(* probe_line of DeterministicFifoCache reach it, every footprint is one   *)
(* line, and what is left of its state is the queue of resident keys.      *)
(* Theorem QueueIsFilled of RequestMemoProofs: the line calls of FifoCache *)
(* move its queue as Fill says.                                            *)
(***************************************************************************)
EXTENDS Naturals, Sequences, FiniteSets, SequencesExt, Functions

Resident(queue) == Range(queue)

(* fill_line: a resident line is not refreshed, a full cache loses its     *)
(* oldest line.                                                            *)
Fill(capacity, queue, line) ==
  IF line \in Resident(queue) THEN queue
  ELSE Append(IF Len(queue) >= capacity THEN Tail(queue) ELSE queue, line)

FillAll(capacity, queue, lines) ==
  FoldLeft(LAMBDA filled, line : Fill(capacity, filled, line), queue, lines)

(* The order of Python tuples of numbers.                                  *)
Before(x, y) ==
  \E i \in 1 .. Len(x) : x[i] < y[i] /\ \A j \in 1 .. i - 1 : x[j] = y[j]

First(x, set) == x \in set /\ \A y \in set : x = y \/ Before(x, y)

(* sorted()                                                                *)
InOrder(set) ==
  CHOOSE s \in TupleOf(set, Cardinality(set)) :
    \A i, j \in DOMAIN s : i < j => Before(s[i], s[j])
=============================================================================
