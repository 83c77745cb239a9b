----------------------------- MODULE PortSchedule -----------------------------
(***************************************************************************)
(* _schedule_shared_ports of bank_oracle/engine.py and the lower bounds    *)
(* service_histogram reports beside it.  A bank column has one physical    *)
(* bank per layer and fewer data ports than banks; row jobs are placed one *)
(* by one, on the earliest port, longest ready job first.  Columns are     *)
(* scheduled one after the other and each starts at cycle 0.               *)
(***************************************************************************)
EXTENDS Integers, Sequences, FiniteSets, FiniteSetsExt, Functions

CONSTANTS
  Layers,          \* total_layers
  Connected,       \* connected_layers, the ports of one column
  Width,           \* banks_per_layer, the number of columns
  SectorCycles, RechargeCycles, SectorsPerRow,
  Job              \* row jobs, numbered by row, then request, then index

ASSUME PortAssumption ==
  /\ Layers \in Nat \ {0} /\ Connected \in 1 .. Layers
  /\ Width \in Nat \ {0}
  /\ SectorCycles \in Nat \ {0} /\ RechargeCycles \in Nat
  /\ SectorsPerRow \in Nat \ {0}
  /\ Job \subseteq Nat /\ IsFiniteSet(Job)

VARIABLES
  bank,            \* Job -> physical bank, the histogram
  sectors,         \* Job -> sectors its mask selects
  column,          \* the column being scheduled
  ports,           \* port -> cycle at which it is free
  bankReady,       \* bank -> cycle at which it may issue its next row
  placed,          \* job -> [port, start], a partial function
  finish           \* overall_finish

scheduleVars == <<bank, sectors, column, ports, bankReady, placed, finish>>

Bank   == 0 .. Layers * Width - 1
Port   == 0 .. Connected - 1
Column == 0 .. Width - 1

Data(j)      == SectorCycles * sectors[j]
Burst        == [j \in Job |-> Data(j)]
Turn         == [j \in Job |-> Data(j) + RechargeCycles]
ColumnOf(b)  == b % Width
Waiting(b)   == {j \in Job \ DOMAIN placed : bank[j] = b}
Remaining(b) == SumFunctionOnSet(Burst, Waiting(b))

Unserved == {b \in Bank : ColumnOf(b) = column /\ Waiting(b) # {}}

(* The order of Python tuples of numbers.                                  *)
Before(x, y) ==
  \E i \in 1 .. Len(x) : x[i] < y[i] /\ \A j \in 1 .. i - 1 : x[j] = y[j]

(* A bank serves its own jobs longest first.                               *)
JobKey(j)  == <<-Data(j), j>>
Longest(b) ==
  {j \in Waiting(b) : \A i \in Waiting(b) : i = j \/ Before(JobKey(j), JobKey(i))}
NextJob(b) == CHOOSE j \in Longest(b) : TRUE

(* The port that is free first, and its index.                             *)
PortKey(p) == <<ports[p], p>>
FreePort   == {p \in Port : \A q \in Port : p = q \/ Before(PortKey(p), PortKey(q))}
------------------------------------------------------------------------------
Free == [p \in Port |-> 0]

ScheduleInit ==
  /\ bank \in [Job -> Bank]
  /\ sectors \in [Job -> 1 .. SectorsPerRow]
  /\ column = 0
  /\ ports = Free
  /\ bankReady = [b \in Bank |-> 0]
  /\ placed = [j \in {} |-> 0]
  /\ finish = 0

(* The vectorized critical path of a fully connected stack.                *)
Load(b)      == SumFunctionOnSet(Turn, {j \in Job : bank[j] = b})
CriticalPath == Max({Load(b) : b \in Bank})

FullyConnected ==
  /\ Connected = Layers
  /\ column = 0
  /\ column' = Width
  /\ finish' = CriticalPath
  /\ UNCHANGED <<bank, sectors, ports, bankReady, placed>>

(* Wrong form of StartsAt: the port waits until every bank is ready.       *)
StartsAtLast(p, t) ==
  IF \E b \in Unserved : bankReady[b] <= ports[p] THEN t = ports[p]
  ELSE \A b \in Unserved : t >= bankReady[b]

(* The port waits for the first bank to be ready when none is.             *)
StartsAt(p, t) ==
  IF \E b \in Unserved : bankReady[b] <= ports[p] THEN t = ports[p]
  ELSE \A b \in Unserved : t <= bankReady[b]

(* Wrong form of Available: every bank with jobs left is a candidate.      *)
AvailableAll(t) == Unserved

Available(t) == {b \in Unserved : bankReady[b] <= t}

(* Of those, the bank with the longest next job, then with the most left.  *)
CandidateKey(b) == <<-Data(NextJob(b)), -Remaining(b), b>>
Chosen(t) ==
  {b \in Available(t) :
     \A c \in Available(t) : b = c \/ Before(CandidateKey(b), CandidateKey(c))}

(* Wrong form of ReadyAgain: the recharge is forgotten.                    *)
ReadyWithoutRecharge(done) == done

ReadyAgain(done) == done + RechargeCycles

Later(a, b) == IF a < b THEN b ELSE a

(* The body of "while remaining": port p takes job j of bank b at t.       *)
PlaceOn(p, t, b, j) ==
  LET done == t + Data(j) IN
  /\ placed' = [i \in DOMAIN placed \cup {j} |->
                 IF i = j THEN [port |-> p, start |-> t] ELSE placed[i]]
  /\ ports' = [ports EXCEPT ![p] = done]
  /\ bankReady' = [bankReady EXCEPT ![b] = ReadyAgain(done)]
  /\ finish' = Later(finish, ReadyAgain(done))
  /\ UNCHANGED <<bank, sectors, column>>

Place ==
  /\ Connected < Layers
  /\ \E p \in FreePort, c \in Unserved :
       \E t \in {ports[p], bankReady[c]} :
         /\ StartsAt(p, t)
         /\ \E b \in Chosen(t) : \E j \in Longest(b) : PlaceOn(p, t, b, j)

NextColumn ==
  /\ Connected < Layers
  /\ column < Width
  /\ Unserved = {}
  /\ column' = column + 1
  /\ ports' = Free
  /\ UNCHANGED <<bank, sectors, bankReady, placed, finish>>

Done == column = Width /\ UNCHANGED scheduleVars

ScheduleNext == FullyConnected \/ Place \/ NextColumn \/ Done

ScheduleSpec == ScheduleInit /\ [][ScheduleNext]_scheduleVars
------------------------------------------------------------------------------
(* The bounds of service_histogram.                                        *)
CeilDiv(a, b) == (a + b - 1) \div b

FullRow == SectorsPerRow * SectorCycles + RechargeCycles

(* _capacity_per_bank                                                      *)
CapacityPerBank(cycles) ==
  LET rest == cycles % FullRow IN
  (cycles \div FullRow) * SectorsPerRow
    + (IF rest >= RechargeCycles + SectorCycles
       THEN Min({SectorsPerRow, (rest - RechargeCycles) \div SectorCycles})
       ELSE 0)

(* _physical_bank_sector_lower_bound_cycles: the binary search returns the *)
(* first cycle count whose capacity holds all sectors.                     *)
PackingBound(count) ==
  Min({c \in 0 .. FullRow * (CeilDiv(count, Layers * Width) + 1) :
         CapacityPerBank(c) * Layers * Width >= count})

(* Wrong form of QuantumBound: bursts are rounded up to quanta.            *)
QuantumBoundUp(cycles, machines, quantum) ==
  quantum * CeilDiv(SumFunction([j \in Job |-> CeilDiv(cycles[j], quantum)]),
                    machines)

QuantumBound(cycles, machines, quantum) ==
  quantum * CeilDiv(SumFunction([j \in Job |-> cycles[j] \div quantum]),
                    machines)

DividesAll(cycles, d) == \A j \in Job : cycles[j] % d = 0

(* fixed_job_parallel_lower_bound_cycles                                   *)
FixedJobBound(cycles, machines) ==
  LET longest == Max(Range(cycles))
      bound   == Max({longest, CeilDiv(SumFunction(cycles), machines)}
                       \cup {QuantumBound(cycles, machines, q) : q \in 1 .. longest})
      gcd     == Max({d \in 1 .. longest : DividesAll(cycles, d)})
  IN  CeilDiv(bound, gcd) * gcd

SectorCount == SumFunction(sectors)

LowerBounds ==
  {PackingBound(SectorCount),
   SectorCycles * CeilDiv(SectorCount, Connected * Width),
   FixedJobBound(Turn, Layers * Width),
   FixedJobBound(Burst, Connected * Width) + RechargeCycles}
------------------------------------------------------------------------------
Ended(j) == placed[j].start + Data(j)

LedgerTypeOK ==
  /\ bank \in [Job -> Bank] /\ sectors \in [Job -> 1 .. SectorsPerRow]
  /\ column \in 0 .. Width
  /\ ports \in [Port -> Nat] /\ bankReady \in [Bank -> Nat]
  /\ DOMAIN placed \subseteq Job
  /\ placed \in [DOMAIN placed -> [port : Port, start : Nat]]

(* A port carries one job's data at a time, and a bank issues a row only   *)
(* after its previous transfer and recharge.                               *)
NoConflict ==
  \A i, j \in DOMAIN placed :
    i # j /\ placed[i].start <= placed[j].start =>
      /\ bank[i] = bank[j] => Ended(i) + RechargeCycles <= placed[j].start
      /\ ColumnOf(bank[i]) = ColumnOf(bank[j]) /\ placed[i].port = placed[j].port
           => Ended(i) <= placed[j].start

(* Why it holds: past columns are over, a bank's ready cycle covers its     *)
(* jobs, and a port's cycle the jobs of its column.                        *)
PastColumns ==
  \A j \in DOMAIN placed : ColumnOf(bank[j]) <= column

BanksCovered ==
  \A j \in DOMAIN placed : Ended(j) + RechargeCycles <= bankReady[bank[j]]

PortsCovered ==
  \A j \in DOMAIN placed :
    ColumnOf(bank[j]) = column => Ended(j) <= ports[placed[j].port]

(* A port behind the start of a job of its column was passed over only     *)
(* because every bank with jobs left was busy until then.                  *)
PortsBehindMustWait ==
  \A j \in DOMAIN placed, p \in Port :
    ColumnOf(bank[j]) = column /\ ports[p] < placed[j].start =>
      \A b \in Unserved : placed[j].start <= bankReady[b]

Ledger ==
  /\ LedgerTypeOK /\ PastColumns /\ BanksCovered /\ PortsCovered
  /\ PortsBehindMustWait /\ NoConflict

(* Port p of column c carries data at cycle t.                             *)
Carries(c, p, t) ==
  \E k \in DOMAIN placed :
    /\ ColumnOf(bank[k]) = c /\ placed[k].port = p
    /\ placed[k].start <= t /\ t < Ended(k)

(* Where the clocks stand: a port did not carry data at a cycle it passed   *)
(* only if no bank with jobs left was ready at that cycle, and a bank is   *)
(* busy because of one of its jobs.                                        *)
PortsPassBusyBanks ==
  \A p \in Port : \A t \in 0 .. ports[p] - 1 :
    Carries(column, p, t) \/ \A b \in Unserved : t < bankReady[b]

BanksTraced ==
  \A b \in Bank :
    \/ bankReady[b] = 0
    \/ \E i \in DOMAIN placed :
         bank[i] = b /\ bankReady[b] = Ended(i) + RechargeCycles

OnBank(b)    == {j \in DOMAIN placed : bank[j] = b}
OnPort(c, p) == {j \in DOMAIN placed :
                   ColumnOf(bank[j]) = c /\ placed[j].port = p}

Worked(b)     == SumFunctionOnSet(Turn, OnBank(b))
Carried(c, p) == SumFunctionOnSet(Burst, OnPort(c, p))

(* What a bank or a port has done takes no longer than it was busy, and    *)
(* when every bank in use could have a port of its own, a bank has done    *)
(* nothing but work.                                                       *)
LoadsFit ==
  /\ \A b \in Bank : Worked(b) <= bankReady[b]
  /\ \A p \in Port : Carried(column, p) <= ports[p]
  /\ \A c \in Column, p \in Port :
       OnPort(c, p) # {} => Carried(c, p) + RechargeCycles <= finish

PortsSuffice ==
  \A c \in Column :
    Cardinality({b \in Range(bank) : ColumnOf(b) = c}) <= Connected

BanksNeverWait ==
  PortsSuffice => \A b \in Bank : bankReady[b] = Worked(b)

(* Columns behind are served, and the finish is that of the last bank; the *)
(* shortcut places nothing.                                                *)
FinishKnown ==
  /\ Connected < Layers =>
       /\ \A b \in Bank : ColumnOf(b) < column => Waiting(b) = {}
       /\ finish \in Nat
       /\ \A b \in Bank : bankReady[b] <= finish
       /\ \E b \in Bank : bankReady[b] = finish
  /\ Connected = Layers =>
       DOMAIN placed = {} /\ (column = Width => finish = CriticalPath)

PortInv ==
  /\ Ledger /\ PortsPassBusyBanks /\ BanksTraced /\ LoadsFit
  /\ BanksNeverWait /\ FinishKnown

(* Within a column jobs are placed in the order in which they start, even  *)
(* when a port was moved ahead to the next ready bank: no later decision   *)
(* was available to an earlier one.                                        *)
StartsInOrder ==
  [][\A j \in DOMAIN placed' \ DOMAIN placed, i \in DOMAIN placed :
       ColumnOf(bank[i]) = ColumnOf(bank[j]) =>
         placed[i].start <= placed'[j].start]_scheduleVars

(* The bank of a placed job could have issued it at cycle t.               *)
Issuable(j, t) ==
  \A i \in DOMAIN placed :
    bank[i] = bank[j] /\ placed[i].start < placed[j].start
      => Ended(i) + RechargeCycles <= t

(* The schedule is work conserving: while a job waits for a port, every    *)
(* port of its column is carrying data.                                    *)
NoIdlePort ==
  \A j \in DOMAIN placed, p \in Port : \A t \in 0 .. placed[j].start - 1 :
    Issuable(j, t) => Carries(ColumnOf(bank[j]), p, t)

(* Every reported bound is a relaxation of the scheduling problem: no      *)
(* schedule the function finds beats one.                                  *)
BoundsAreSafe ==
  column = Width /\ Job # {} => \A bound \in LowerBounds : bound <= finish

(* When no column uses more banks than it has ports, sharing costs nothing *)
(* and the schedule is the critical path the shortcut computes.            *)
CriticalPathWhenPortsSuffice ==
  column = Width /\ PortsSuffice => finish = CriticalPath
=============================================================================
