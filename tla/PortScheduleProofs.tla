-------------------------- MODULE PortScheduleProofs --------------------------
(***************************************************************************)
(* Theorems about _schedule_shared_ports, for any number of layers, ports, *)
(* columns and jobs and any timing: ports and banks are never used twice   *)
(* at once, a column's jobs are placed in the order they start, no port    *)
(* idles while a ready job waits, the schedule is the critical path when   *)
(* ports suffice, and every reported lower bound is one.                   *)
(***************************************************************************)
EXTENDS PortSchedule, FiniteProofs

(* The data of a job take at least one cycle.                              *)
LEMMA DataPositive ==
  ASSUME LedgerTypeOK, NEW j \in Job
  PROVE  Data(j) \in Nat /\ Data(j) >= 1
<1>1. SectorCycles \in Nat /\ SectorCycles >= 1
  BY PortAssumption
<1>2. sectors[j] \in Nat /\ sectors[j] >= 1
  BY PortAssumption DEF LedgerTypeOK
<1>3. \A m, n \in Nat : m >= 1 /\ n >= 1 => m * n \in Nat /\ m * n >= 1
  OBVIOUS
<1> QED BY <1>1, <1>2, <1>3 DEF Data

LEMMA ColumnInRange ==
  ASSUME NEW b \in Bank
  PROVE  ColumnOf(b) \in Nat /\ ColumnOf(b) < Width
<1>1. Width \in Nat /\ Width >= 1 /\ b \in Int
  <2>1. Layers * Width - 1 \in Int
    BY PortAssumption
  <2> QED BY <2>1, PortAssumption DEF Bank
<1>2. b % Width \in 0 .. Width - 1
  BY <1>1
<1> QED BY <1>1, <1>2 DEF ColumnOf

(* No port is free before the one the heap returns.                        *)
LEMMA EarliestPort ==
  ASSUME LedgerTypeOK, NEW p \in FreePort, NEW q \in Port
  PROVE  ports[p] <= ports[q]
<1>1. p \in Port /\ (p = q \/ Before(PortKey(p), PortKey(q)))
  BY DEF FreePort
<1>2. ports[p] \in Nat /\ ports[q] \in Nat
  BY <1>1 DEF LedgerTypeOK
<1>3. CASE p = q
  BY <1>1, <1>2, <1>3
<1>4. CASE Before(PortKey(p), PortKey(q))
  <2>1. PICK i \in 1 .. Len(PortKey(p)) :
          /\ PortKey(p)[i] < PortKey(q)[i]
          /\ \A k \in 1 .. i - 1 : PortKey(p)[k] = PortKey(q)[k]
    BY <1>4 DEF Before
  <2>2. /\ Len(PortKey(p)) = 2
        /\ PortKey(p)[1] = ports[p] /\ PortKey(q)[1] = ports[q]
    BY DEF PortKey
  <2>3. i = 1 \/ 1 \in 1 .. i - 1
    BY <2>2
  <2> QED BY <1>1, <1>2, <2>1, <2>2, <2>3
<1> QED BY <1>1, <1>3, <1>4

(* What the guards of Place say of the job, its bank, its port and its     *)
(* start: the bank is of the column and ready, the port is free, and a     *)
(* port that waited waited for the first bank.                             *)
LEMMA PlaceGuards ==
  ASSUME LedgerTypeOK, Place
  PROVE  \E p \in Port, t \in Nat, b \in Unserved, j \in Job \ DOMAIN placed :
           /\ bank[j] = b /\ ColumnOf(b) = column
           /\ bankReady[b] <= t /\ ports[p] <= t
           /\ \A q \in Port : ports[p] <= ports[q]
           /\ ports[p] < t => \A c \in Unserved : t <= bankReady[c]
           /\ PlaceOn(p, t, b, j)
<1>1. PICK p \in FreePort, c \in Unserved : \E t \in {ports[p], bankReady[c]} :
         /\ StartsAt(p, t)
         /\ \E b \in Chosen(t) : \E j \in Longest(b) : PlaceOn(p, t, b, j)
  BY DEF Place
<1>2. PICK t \in {ports[p], bankReady[c]} :
         /\ StartsAt(p, t)
         /\ \E b \in Chosen(t) : \E j \in Longest(b) : PlaceOn(p, t, b, j)
  BY <1>1
<1>3. PICK b \in Chosen(t) : \E j \in Longest(b) : PlaceOn(p, t, b, j)
  BY <1>2
<1>9. PICK j \in Longest(b) : PlaceOn(p, t, b, j)
  BY <1>3
<1>4. p \in Port /\ ports[p] \in Nat /\ bankReady[c] \in Nat /\ t \in Nat
  BY DEF LedgerTypeOK, Unserved, FreePort
<1>5. b \in Unserved /\ ColumnOf(b) = column /\ bankReady[b] <= t
  BY DEF Chosen, Available, Unserved
<1>6. j \in Job \ DOMAIN placed /\ bank[j] = b
  BY DEF Longest, Waiting
<1>7. \A q \in Port : ports[p] <= ports[q]
  BY EarliestPort
<1>8. ports[p] <= t /\ (ports[p] < t => \A d \in Unserved : t <= bankReady[d])
  <2>1. CASE \E d \in Unserved : bankReady[d] <= ports[p]
    <3>1. t = ports[p]
      BY <1>2, <2>1 DEF StartsAt
    <3> QED BY <1>4, <3>1
  <2>2. CASE ~ \E d \in Unserved : bankReady[d] <= ports[p]
    <3>1. ~ (bankReady[c] <= ports[p])
      BY <2>2
    <3>2. \A d \in Unserved : t <= bankReady[d]
      BY <1>2, <2>2 DEF StartsAt
    <3> QED BY <1>4, <3>1, <3>2
  <2> QED BY <2>1, <2>2
<1> QED BY <1>9, <1>4, <1>5, <1>6, <1>7, <1>8
------------------------------------------------------------------------------
(* The ledger after a job j of bank b is placed on port p at t.            *)
After(p, t, b, j) ==
  /\ DOMAIN placed' = DOMAIN placed \cup {j}
  /\ placed'[j].port = p /\ placed'[j].start = t
  /\ \A i \in DOMAIN placed :
       i # j /\ placed'[i] = placed[i] /\ Ended(i)' = Ended(i)
  /\ Ended(j)' = t + Data(j)
  /\ ports'[p] = t + Data(j)
  /\ \A q \in Port : q # p => ports'[q] = ports[q]
  /\ bankReady'[b] = t + Data(j) + RechargeCycles
  /\ \A c \in Bank : c # b => bankReady'[c] = bankReady[c]
  /\ UNCHANGED <<bank, sectors, column>>

LEMMA PlaceOnEffect ==
  ASSUME LedgerTypeOK, NEW p \in Port, NEW t \in Nat, NEW b \in Bank,
         NEW j \in Job \ DOMAIN placed, bank[j] = b, PlaceOn(p, t, b, j)
  PROVE  LedgerTypeOK' /\ After(p, t, b, j)
<1>1. /\ placed' = [i \in DOMAIN placed \cup {j} |->
                     IF i = j THEN [port |-> p, start |-> t] ELSE placed[i]]
      /\ ports' = [ports EXCEPT ![p] = t + Data(j)]
      /\ bankReady' = [bankReady EXCEPT ![b] = t + Data(j) + RechargeCycles]
      /\ UNCHANGED <<bank, sectors, column>>
  BY DEF PlaceOn, ReadyAgain
<1>2. Data(j) \in Nat /\ RechargeCycles \in Nat
  BY DataPositive, PortAssumption
<1>3. t + Data(j) \in Nat /\ t + Data(j) + RechargeCycles \in Nat
  BY <1>2
<1>4. /\ ports \in [Port -> Nat] /\ bankReady \in [Bank -> Nat]
      /\ DOMAIN placed \subseteq Job
      /\ placed \in [DOMAIN placed -> [port : Port, start : Nat]]
  BY DEF LedgerTypeOK
<1>5. DOMAIN placed' = DOMAIN placed \cup {j}
  BY <1>1
<1>6. /\ placed'[j] = [port |-> p, start |-> t]
      /\ \A i \in DOMAIN placed : i # j /\ placed'[i] = placed[i]
  BY <1>1
<1>7. ports' \in [Port -> Nat] /\ bankReady' \in [Bank -> Nat]
  BY <1>1, <1>3, <1>4
<1>8. placed' \in [DOMAIN placed' -> [port : Port, start : Nat]]
  <2>1. ASSUME NEW i \in DOMAIN placed'
        PROVE  placed'[i] \in [port : Port, start : Nat]
    BY <1>4, <1>5, <1>6
  <2> QED BY <1>1, <1>5, <2>1
<1>9. LedgerTypeOK'
  BY <1>1, <1>4, <1>5, <1>7, <1>8 DEF LedgerTypeOK
<1>10. \A i : Data(i)' = Data(i)
  BY <1>1 DEF Data
<1>11. /\ \A i \in DOMAIN placed : Ended(i)' = Ended(i)
       /\ Ended(j)' = t + Data(j)
  BY <1>6, <1>10 DEF Ended
<1>12. /\ ports'[p] = t + Data(j)
       /\ \A q \in Port : q # p => ports'[q] = ports[q]
  BY <1>1, <1>4
<1>13. /\ bankReady'[b] = t + Data(j) + RechargeCycles
       /\ \A c \in Bank : c # b => bankReady'[c] = bankReady[c]
  BY <1>1, <1>4
<1> QED BY <1>1, <1>5, <1>6, <1>9, <1>11, <1>12, <1>13 DEF After

(* Types of the numbers the invariants compare.                            *)
LEMMA PlacedNumbers ==
  ASSUME LedgerTypeOK, NEW j \in DOMAIN placed
  PROVE  /\ j \in Job /\ bank[j] \in Bank
         /\ placed[j].port \in Port /\ placed[j].start \in Nat
         /\ Ended(j) \in Nat /\ placed[j].start < Ended(j)
         /\ bankReady[bank[j]] \in Nat /\ ports[placed[j].port] \in Nat
         /\ ColumnOf(bank[j]) \in Nat
<1>1. j \in Job /\ placed[j] \in [port : Port, start : Nat]
  BY DEF LedgerTypeOK
<1>2. bank[j] \in Bank /\ ports \in [Port -> Nat] /\ bankReady \in [Bank -> Nat]
  BY <1>1 DEF LedgerTypeOK
<1>3. Data(j) \in Nat /\ Data(j) >= 1
  BY <1>1, DataPositive
<1>4. placed[j].port \in Port /\ placed[j].start \in Nat
  BY <1>1
<1>5. Ended(j) \in Nat /\ placed[j].start < Ended(j)
  BY <1>3, <1>4 DEF Ended
<1> QED BY <1>1, <1>2, <1>4, <1>5, ColumnInRange

LEMMA PlaceKeepsPast ==
  ASSUME Ledger, NEW p \in Port, NEW t \in Nat, NEW b \in Bank,
         NEW j \in Job \ DOMAIN placed, bank[j] = b, PlaceOn(p, t, b, j),
         ColumnOf(b) = column
  PROVE  PastColumns'
<1>1. LedgerTypeOK /\ column \in Nat
  BY PortAssumption DEF Ledger, LedgerTypeOK
<1>0. After(p, t, b, j)
  BY <1>1, PlaceOnEffect
<1>2. /\ DOMAIN placed' = DOMAIN placed \cup {j}
      /\ UNCHANGED <<bank, sectors, column>>
  BY <1>0 DEF After
<1>3. SUFFICES ASSUME NEW i \in DOMAIN placed'
               PROVE  ColumnOf(bank[i]) <= column
  BY <1>2 DEF PastColumns, ColumnOf
<1>4. CASE i = j
  BY <1>1, <1>4
<1>5. CASE i \in DOMAIN placed
  BY <1>5 DEF Ledger, PastColumns
<1> QED BY <1>2, <1>4, <1>5

(* A bank or a port that takes a job was free before, so what covered its  *)
(* earlier jobs still does.                                                *)
LEMMA PlaceKeepsCover ==
  ASSUME Ledger, NEW p \in Port, NEW t \in Nat, NEW b \in Bank,
         NEW j \in Job \ DOMAIN placed, bank[j] = b, PlaceOn(p, t, b, j),
         bankReady[b] <= t, ports[p] <= t
  PROVE  BanksCovered' /\ PortsCovered'
<1>1. LedgerTypeOK /\ BanksCovered /\ PortsCovered
  BY DEF Ledger
<1>2. Data(j) \in Nat /\ RechargeCycles \in Nat /\ ports[p] \in Nat /\ bankReady[b] \in Nat
  BY <1>1, DataPositive, PortAssumption DEF LedgerTypeOK
<1>0. After(p, t, b, j)
  BY <1>1, PlaceOnEffect
<1>3. /\ DOMAIN placed' = DOMAIN placed \cup {j}
      /\ placed'[j].port = p /\ placed'[j].start = t
      /\ \A i \in DOMAIN placed :
           i # j /\ placed'[i] = placed[i] /\ Ended(i)' = Ended(i)
      /\ Ended(j)' = t + Data(j)
      /\ ports'[p] = t + Data(j)
      /\ \A q \in Port : q # p => ports'[q] = ports[q]
      /\ bankReady'[b] = t + Data(j) + RechargeCycles
      /\ \A c \in Bank : c # b => bankReady'[c] = bankReady[c]
      /\ UNCHANGED <<bank, sectors, column>>
  BY <1>0 DEF After
<1>4. SUFFICES ASSUME NEW i \in DOMAIN placed'
               PROVE  /\ Ended(i)' + RechargeCycles <= bankReady'[bank[i]]
                      /\ ColumnOf(bank[i]) = column =>
                           Ended(i)' <= ports'[placed'[i].port]
  <2>1. \A i : ColumnOf(bank'[i]) = column' <=> ColumnOf(bank[i]) = column
    BY <1>3 DEF ColumnOf
  <2> QED BY <1>3, <1>4, <2>1 DEF BanksCovered, PortsCovered, ColumnOf
<1>5. CASE i = j
  BY <1>2, <1>3, <1>5
<1>6. CASE i \in DOMAIN placed
  <2>1. /\ Ended(i) + RechargeCycles <= bankReady[bank[i]]
        /\ ColumnOf(bank[i]) = column => Ended(i) <= ports[placed[i].port]
    BY <1>1, <1>6 DEF BanksCovered, PortsCovered
  <2>2. /\ bank[i] \in Bank /\ placed[i].port \in Port /\ Ended(i) \in Nat
        /\ bankReady[bank[i]] \in Nat /\ ports[placed[i].port] \in Nat
    BY <1>1, <1>6, PlacedNumbers
  <2>3. bankReady[bank[i]] <= bankReady'[bank[i]]
    BY <1>2, <1>3, <2>2
  <2>4. ports[placed[i].port] <= ports'[placed[i].port]
    BY <1>2, <1>3, <2>2
  <2>5. Ended(i)' = Ended(i) /\ placed'[i] = placed[i]
    BY <1>3, <1>6
  <2>6. bankReady'[bank[i]] \in Nat /\ ports'[placed[i].port] \in Nat
    BY <1>2, <1>3, <2>2
  <2> QED BY <1>2, <2>1, <2>2, <2>3, <2>4, <2>5, <2>6
<1> QED BY <1>3, <1>5, <1>6

(* A new job never starts before one of its column placed earlier: either  *)
(* the earliest port is past that start, or no bank was ready before it.   *)
LEMMA PlaceInOrder ==
  ASSUME Ledger, NEW p \in Port, NEW t \in Nat, NEW b \in Unserved,
         bankReady[b] <= t, ports[p] <= t,
         NEW i \in DOMAIN placed, ColumnOf(bank[i]) = column
  PROVE  placed[i].start <= t
<1>1. LedgerTypeOK /\ PortsBehindMustWait
  BY DEF Ledger
<1>2. placed[i].start \in Nat /\ ports[p] \in Nat
  BY <1>1, PlacedNumbers DEF LedgerTypeOK
<1>3. bankReady[b] \in Nat
  BY <1>1 DEF LedgerTypeOK, Unserved
<1>4. CASE ports[p] < placed[i].start
  <2>1. placed[i].start <= bankReady[b]
    BY <1>1, <1>4 DEF PortsBehindMustWait
  <2> QED BY <1>2, <1>3, <2>1
<1>5. CASE ~ (ports[p] < placed[i].start)
  BY <1>2, <1>5
<1> QED BY <1>4, <1>5

LEMMA PlaceKeepsWaiting ==
  ASSUME Ledger, NEW p \in Port, NEW t \in Nat, NEW b \in Unserved,
         NEW j \in Job \ DOMAIN placed, bank[j] = b, PlaceOn(p, t, b, j),
         bankReady[b] <= t, ports[p] <= t,
         \A q \in Port : ports[p] <= ports[q],
         ports[p] < t => \A c \in Unserved : t <= bankReady[c]
  PROVE  PortsBehindMustWait'
<1>1. LedgerTypeOK /\ PortsBehindMustWait /\ b \in Bank
  BY DEF Ledger, Unserved
<1>2. Data(j) \in Nat /\ RechargeCycles \in Nat /\ ports[p] \in Nat /\ bankReady[b] \in Nat
  BY <1>1, DataPositive, PortAssumption DEF LedgerTypeOK
<1>0. After(p, t, b, j)
  BY <1>1, PlaceOnEffect
<1>3. /\ DOMAIN placed' = DOMAIN placed \cup {j}
      /\ placed'[j].port = p /\ placed'[j].start = t
      /\ \A i \in DOMAIN placed :
           i # j /\ placed'[i] = placed[i] /\ Ended(i)' = Ended(i)
      /\ ports'[p] = t + Data(j)
      /\ \A q \in Port : q # p => ports'[q] = ports[q]
      /\ bankReady'[b] = t + Data(j) + RechargeCycles
      /\ \A c \in Bank : c # b => bankReady'[c] = bankReady[c]
      /\ UNCHANGED <<bank, sectors, column>>
  BY <1>0 DEF After
<1>4. Unserved' \subseteq Unserved
  BY <1>3 DEF Unserved, Waiting, ColumnOf
<1>5. SUFFICES ASSUME NEW i \in DOMAIN placed', NEW q \in Port,
                      ColumnOf(bank[i]) = column, ports'[q] < placed'[i].start,
                      NEW c \in Unserved
               PROVE  placed'[i].start <= bankReady'[c]
  BY <1>3, <1>4 DEF PortsBehindMustWait, ColumnOf
<1>6. c \in Bank /\ bankReady[c] \in Nat /\ ports[q] \in Nat
  BY <1>1 DEF Unserved, LedgerTypeOK
<1>7. bankReady[c] <= bankReady'[c] /\ bankReady'[c] \in Nat
  BY <1>2, <1>3, <1>6
<1>8. placed'[i].start \in Nat /\ placed'[i].start <= t
  <2>1. CASE i = j
    BY <1>3, <2>1
  <2>2. CASE i \in DOMAIN placed
    BY <1>1, <1>3, <1>5, <2>2, PlaceInOrder, PlacedNumbers
  <2> QED BY <1>3, <2>1, <2>2
<1>9. q # p
  BY <1>2, <1>3, <1>5, <1>8
<1>10. ports[q] < placed'[i].start
  BY <1>3, <1>5, <1>9
<1>11. placed'[i].start <= bankReady[c]
  <2>1. CASE i = j
    <3>1. ports[p] < t
      BY <1>2, <1>3, <1>6, <1>10, <2>1
    <3> QED BY <1>3, <2>1, <3>1
  <2>2. CASE i \in DOMAIN placed
    BY <1>1, <1>3, <1>5, <1>10, <2>2 DEF PortsBehindMustWait
  <2> QED BY <1>3, <2>1, <2>2
<1> QED BY <1>6, <1>7, <1>8, <1>11

LEMMA PlaceKeepsNoConflict ==
  ASSUME Ledger, NEW p \in Port, NEW t \in Nat, NEW b \in Bank,
         NEW j \in Job \ DOMAIN placed, bank[j] = b, PlaceOn(p, t, b, j),
         ColumnOf(b) = column, bankReady[b] <= t, ports[p] <= t
  PROVE  NoConflict'
<1>1. LedgerTypeOK /\ BanksCovered /\ PortsCovered /\ NoConflict
  BY DEF Ledger
<1>2. RechargeCycles \in Nat /\ ports[p] \in Nat /\ bankReady[b] \in Nat
  BY <1>1, PortAssumption DEF LedgerTypeOK
<1>0. After(p, t, b, j)
  BY <1>1, PlaceOnEffect
<1>3. /\ DOMAIN placed' = DOMAIN placed \cup {j}
      /\ placed'[j].port = p /\ placed'[j].start = t
      /\ \A i \in DOMAIN placed :
           i # j /\ placed'[i] = placed[i] /\ Ended(i)' = Ended(i)
      /\ UNCHANGED <<bank, sectors, column>>
  BY <1>0 DEF After
<1>4. ASSUME NEW i \in DOMAIN placed
      PROVE  /\ bank[i] = b => Ended(i) + RechargeCycles <= t
             /\ ColumnOf(bank[i]) = column /\ placed[i].port = p => Ended(i) <= t
  <2>1. /\ bank[i] = b => Ended(i) + RechargeCycles <= bankReady[b]
        /\ ColumnOf(bank[i]) = column /\ placed[i].port = p => Ended(i) <= ports[p]
    BY <1>1 DEF BanksCovered, PortsCovered
  <2>2. Ended(i) \in Nat
    BY <1>1, PlacedNumbers
  <2> QED BY <1>2, <2>1, <2>2
<1>5. SUFFICES ASSUME NEW i \in DOMAIN placed', NEW k \in DOMAIN placed', i # k,
                      placed'[i].start <= placed'[k].start
               PROVE  /\ bank[i] = bank[k] =>
                           Ended(i)' + RechargeCycles <= placed'[k].start
                      /\ ColumnOf(bank[i]) = ColumnOf(bank[k])
                           /\ placed'[i].port = placed'[k].port =>
                           Ended(i)' <= placed'[k].start
  <2>1. \A i : ColumnOf(bank'[i]) = ColumnOf(bank[i])
    BY <1>3 DEF ColumnOf
  <2> QED BY <1>3, <1>5, <2>1 DEF NoConflict
<1>6. CASE i \in DOMAIN placed /\ k \in DOMAIN placed
  BY <1>1, <1>3, <1>5, <1>6 DEF NoConflict
<1>7. CASE i \in DOMAIN placed /\ k = j
  <2>1. placed'[k].start = t /\ placed'[k].port = p /\ bank[k] = b
    BY <1>3, <1>7
  <2>2. Ended(i)' = Ended(i) /\ placed'[i] = placed[i]
    BY <1>3, <1>7
  <2> QED BY <1>4, <1>7, <2>1, <2>2
<1>8. CASE i = j /\ k \in DOMAIN placed
  <2>1. placed'[i].start = t /\ placed'[i].port = p /\ bank[i] = b
    BY <1>3, <1>8
  <2>2. placed[k].start \in Nat /\ placed[k].start < Ended(k) /\ Ended(k) \in Nat
    BY <1>1, <1>8, PlacedNumbers
  <2>3. t <= placed[k].start
    BY <1>3, <1>5, <1>8, <2>1
  <2>4. ~ (Ended(k) <= t) /\ ~ (Ended(k) + RechargeCycles <= t)
    BY <1>2, <2>2, <2>3
  <2>5. bank[k] # b /\ ~ (ColumnOf(bank[k]) = column /\ placed[k].port = p)
    BY <1>4, <1>8, <2>4
  <2>6. placed'[k].port = placed[k].port
    BY <1>3, <1>8
  <2> QED BY <2>1, <2>5, <2>6
<1> QED BY <1>3, <1>5, <1>6, <1>7, <1>8
------------------------------------------------------------------------------
LEMMA LedgerInit == ScheduleInit => Ledger
<1> SUFFICES ASSUME ScheduleInit PROVE Ledger
  OBVIOUS
<1>1. DOMAIN placed = {}
  BY DEF ScheduleInit
<1>2. LedgerTypeOK
  BY <1>1, PortAssumption DEF ScheduleInit, LedgerTypeOK, Free
<1> QED BY <1>1, <1>2 DEF Ledger, PastColumns, BanksCovered, PortsCovered,
                          PortsBehindMustWait, NoConflict

(* Changing the column forgets the ports: no job placed so far is of it.   *)
LEMMA ColumnChange ==
  ASSUME Ledger, column' \in 0 .. Width, column < column',
         ports' \in [Port -> Nat], UNCHANGED <<bank, sectors, bankReady, placed>>
  PROVE  Ledger'
<1>1. column \in Nat /\ column' \in Nat
  BY PortAssumption DEF Ledger, LedgerTypeOK
<1>2. LedgerTypeOK'
  BY DEF Ledger, LedgerTypeOK
<1>3. ASSUME NEW j \in DOMAIN placed
      PROVE  ColumnOf(bank[j]) \in Nat /\ ColumnOf(bank[j]) < column'
  <2>1. ColumnOf(bank[j]) <= column
    BY DEF Ledger, PastColumns
  <2>2. ColumnOf(bank[j]) \in Nat
    BY PlacedNumbers DEF Ledger
  <2> QED BY <1>1, <2>1, <2>2
<1>4. /\ \A j : ColumnOf(bank[j])' = ColumnOf(bank[j])
      /\ \A j : Ended(j)' = Ended(j)
  BY DEF ColumnOf, Ended, Data
<1>5. \A j \in DOMAIN placed : ColumnOf(bank[j]) <= column' /\ ColumnOf(bank[j]) # column'
  BY <1>1, <1>3
<1>6. PastColumns' /\ PortsCovered' /\ PortsBehindMustWait'
  BY <1>4, <1>5 DEF PastColumns, PortsCovered, PortsBehindMustWait
<1>7. BanksCovered' /\ NoConflict'
  BY <1>4 DEF Ledger, BanksCovered, NoConflict
<1> QED BY <1>2, <1>6, <1>7 DEF Ledger

(* A step either leaves the ledger alone or places one job.                *)
LEMMA LedgerStep == Ledger /\ [ScheduleNext]_scheduleVars => Ledger'
<1> SUFFICES ASSUME Ledger, [ScheduleNext]_scheduleVars PROVE Ledger'
  OBVIOUS
<1>1. LedgerTypeOK /\ column \in Nat
  BY PortAssumption DEF Ledger, LedgerTypeOK
<1>2. CASE FullyConnected
  <2>1. /\ column = 0 /\ column' = Width
        /\ UNCHANGED <<bank, sectors, ports, bankReady, placed>>
    BY <1>2 DEF FullyConnected
  <2>2. column' \in 0 .. Width /\ column < column' /\ ports' \in [Port -> Nat]
    BY <1>1, <2>1, PortAssumption DEF LedgerTypeOK
  <2> QED BY <2>1, <2>2, ColumnChange
<1>3. CASE Place
  <2>1. PICK p \in Port, t \in Nat, b \in Unserved, j \in Job \ DOMAIN placed :
           /\ bank[j] = b /\ ColumnOf(b) = column
           /\ bankReady[b] <= t /\ ports[p] <= t
           /\ \A q \in Port : ports[p] <= ports[q]
           /\ ports[p] < t => \A c \in Unserved : t <= bankReady[c]
           /\ PlaceOn(p, t, b, j)
    BY <1>1, <1>3, PlaceGuards
  <2>2. b \in Bank
    BY DEF Unserved
  <2>3. LedgerTypeOK'
    BY <1>1, <2>1, <2>2, PlaceOnEffect
  <2>4. PastColumns' /\ BanksCovered' /\ PortsCovered'
    BY <2>1, <2>2, PlaceKeepsPast, PlaceKeepsCover
  <2>5. PortsBehindMustWait' /\ NoConflict'
    BY <2>1, <2>2, PlaceKeepsWaiting, PlaceKeepsNoConflict
  <2> QED BY <2>3, <2>4, <2>5 DEF Ledger
<1>4. CASE NextColumn
  <2>1. /\ column < Width /\ column' = column + 1 /\ ports' = Free
        /\ UNCHANGED <<bank, sectors, bankReady, placed>>
    BY <1>4 DEF NextColumn
  <2>2. column' \in 0 .. Width /\ column < column'
    BY <1>1, <2>1, PortAssumption
  <2>3. ports' \in [Port -> Nat]
    BY <2>1 DEF Free
  <2> QED BY <2>1, <2>2, <2>3, ColumnChange
<1>5. CASE UNCHANGED scheduleVars
  BY <1>5 DEF scheduleVars, Ledger, LedgerTypeOK, PastColumns, BanksCovered,
              PortsCovered, PortsBehindMustWait, NoConflict, Ended, Data,
              ColumnOf, Unserved, Waiting
<1> QED BY <1>2, <1>3, <1>4, <1>5 DEF ScheduleNext, Done

------------------------------------------------------------------------------
(* All that a step of the list scheduler is known to do.                   *)
Placing(p, t, b, j) ==
  /\ b \in Unserved /\ bank[j] = b /\ ColumnOf(b) = column
  /\ bankReady[b] <= t /\ ports[p] <= t
  /\ \A q \in Port : ports[p] <= ports[q]
  /\ ports[p] < t => \A c \in Unserved : t <= bankReady[c]
  /\ PlaceOn(p, t, b, j)

LEMMA PlaceIsPlacing ==
  ASSUME Ledger, Place
  PROVE  \E p \in Port, t \in Nat, b \in Bank, j \in Job \ DOMAIN placed :
           Placing(p, t, b, j)
<1>1. PICK p \in Port, t \in Nat, b \in Unserved, j \in Job \ DOMAIN placed :
           /\ bank[j] = b /\ ColumnOf(b) = column
           /\ bankReady[b] <= t /\ ports[p] <= t
           /\ \A q \in Port : ports[p] <= ports[q]
           /\ ports[p] < t => \A c \in Unserved : t <= bankReady[c]
           /\ PlaceOn(p, t, b, j)
  BY PlaceGuards DEF Ledger
<1>2. b \in Bank
  BY DEF Unserved
<1>. QED BY <1>1, <1>2 DEF Placing

Effect(p, t, b, j) ==
  /\ After(p, t, b, j)
  /\ UNCHANGED <<Burst, Turn>>
  /\ Unserved' \subseteq Unserved
  /\ Data(j) \in Nat /\ Data(j) >= 1 /\ RechargeCycles \in Nat
  /\ finish' = Later(finish, t + Data(j) + RechargeCycles)
  /\ \A q \in Port : ports[q] \in Nat /\ ports'[q] \in Nat /\ ports[q] <= ports'[q]
  /\ \A c \in Bank : /\ bankReady[c] \in Nat /\ bankReady'[c] \in Nat
                     /\ bankReady[c] <= bankReady'[c]
  /\ \A c : ColumnOf(c)' = ColumnOf(c)
  /\ \A i : ColumnOf(bank[i])' = ColumnOf(bank[i])

LEMMA PlacingEffect ==
  ASSUME Ledger, NEW p \in Port, NEW t \in Nat, NEW b \in Bank,
         NEW j \in Job \ DOMAIN placed, Placing(p, t, b, j)
  PROVE  Effect(p, t, b, j)
<1>1. LedgerTypeOK
  BY DEF Ledger
<1>2. LedgerTypeOK' /\ After(p, t, b, j)
  <2>1. bank[j] = b /\ PlaceOn(p, t, b, j)
    BY DEF Placing
  <2>. QED BY <1>1, <2>1, PlaceOnEffect
<1>3. Data(j) \in Nat /\ Data(j) >= 1 /\ RechargeCycles \in Nat
  BY <1>1, DataPositive, PortAssumption
<1>4. Unserved' \subseteq Unserved
  BY <1>2 DEF After, Unserved, Waiting, ColumnOf
<1>5. finish' = Later(finish, t + Data(j) + RechargeCycles)
  BY DEF Placing, PlaceOn, ReadyAgain
<1>6. \A q \in Port : ports[q] \in Nat /\ ports'[q] \in Nat
  BY <1>1, <1>2 DEF LedgerTypeOK
<1>7. \A c \in Bank : bankReady[c] \in Nat /\ bankReady'[c] \in Nat
  BY <1>1, <1>2 DEF LedgerTypeOK
<1>8. bankReady[b] <= t /\ ports[p] <= t
  BY DEF Placing
<1>9. UNCHANGED <<Burst, Turn>>
  BY <1>2 DEF After, Burst, Turn, Data
<1>10. \A q \in Port : ports[q] <= ports'[q]
  BY <1>2, <1>3, <1>6, <1>8 DEF After
<1>11. \A c \in Bank : bankReady[c] <= bankReady'[c]
  BY <1>2, <1>3, <1>7, <1>8 DEF After
<1>12. /\ \A c : ColumnOf(c)' = ColumnOf(c)
       /\ \A i : ColumnOf(bank[i])' = ColumnOf(bank[i])
  BY <1>2 DEF After, ColumnOf
<1>. QED BY <1>2, <1>3, <1>4, <1>5, <1>6, <1>7, <1>9, <1>10, <1>11, <1>12 DEF Effect

LEMMA CarriesOn ==
  ASSUME Ledger, NEW p \in Port, NEW t \in Nat, NEW b \in Bank,
         NEW j \in Job \ DOMAIN placed, Placing(p, t, b, j), NEW c, NEW q, NEW u
  PROVE  /\ Carries(c, q, u) => Carries(c, q, u)'
         /\ c = column /\ q = p /\ u \in Nat /\ t <= u /\ u < t + Data(j)
              => Carries(c, q, u)'
<1>0. Effect(p, t, b, j)
  BY PlacingEffect
<1>1. /\ DOMAIN placed' = DOMAIN placed \cup {j}
      /\ placed'[j].port = p /\ placed'[j].start = t
      /\ \A i \in DOMAIN placed : placed'[i] = placed[i] /\ Ended(i)' = Ended(i)
      /\ Ended(j)' = t + Data(j) /\ UNCHANGED bank
      /\ ColumnOf(bank[j]) = column
  BY <1>0 DEF Effect, After, Placing
<1>2. \A i : ColumnOf(bank[i])' = ColumnOf(bank[i])
  BY <1>0 DEF Effect
<1>. QED BY <1>1, <1>2 DEF Carries

LEMMA PlacePassesBusy ==
  ASSUME Ledger, PortsPassBusyBanks, NEW p \in Port, NEW t \in Nat, NEW b \in Bank,
         NEW j \in Job \ DOMAIN placed, Placing(p, t, b, j)
  PROVE  PortsPassBusyBanks'
<1>0. Effect(p, t, b, j)
  BY PlacingEffect
<1>1. SUFFICES ASSUME NEW q \in Port, NEW u \in 0 .. ports'[q] - 1,
                      ~ Carries(column, q, u)', NEW c \in Unserved
               PROVE  u < bankReady'[c]
  <2>1. Unserved' \subseteq Unserved /\ column' = column
    BY <1>0 DEF Effect, After
  <2>. QED BY <1>1, <2>1 DEF PortsPassBusyBanks
<1>2. /\ ports[p] \in Nat /\ ports[q] \in Nat /\ ports[p] <= t
      /\ ports[p] < t => t <= bankReady[c]
      /\ bankReady[c] \in Nat /\ bankReady[c] <= bankReady'[c] /\ bankReady'[c] \in Nat
      /\ ports'[p] = t + Data(j) /\ Data(j) \in Nat /\ (q # p => ports'[q] = ports[q])
  BY <1>0 DEF Effect, After, Placing, Unserved
<1>3. u \in Nat /\ u < ports'[q]
  BY <1>2
<1>4. ~ Carries(column, q, u) /\ ~ (q = p /\ t <= u /\ u < t + Data(j))
  <2>1. PICK d : d = column
    OBVIOUS
  <2>2. ~ Carries(d, q, u)'
    BY <1>0, <1>1, <2>1 DEF Effect, After, Carries
  <2>3. ~ Carries(d, q, u) /\ ~ (d = column /\ q = p /\ t <= u /\ u < t + Data(j))
    BY <1>3, <2>2, CarriesOn
  <2>. QED BY <2>1, <2>3
<1>5. CASE u < ports[q]
  <2>1. u < bankReady[c]
    BY <1>1, <1>2, <1>3, <1>4, <1>5 DEF PortsPassBusyBanks
  <2>. QED BY <1>2, <1>3, <2>1
<1>6. CASE ~ (u < ports[q])
  <2>1. q = p /\ u < t
    BY <1>2, <1>3, <1>4, <1>6
  <2>. QED BY <1>2, <1>3, <1>6, <2>1
<1>. QED BY <1>5, <1>6

LEMMA PlaceTraces ==
  ASSUME Ledger, BanksTraced, NEW p \in Port, NEW t \in Nat, NEW b \in Bank,
         NEW j \in Job \ DOMAIN placed, Placing(p, t, b, j)
  PROVE  BanksTraced'
<1>1. Effect(p, t, b, j) /\ bank[j] = b
  BY PlacingEffect DEF Placing
<1>. QED BY <1>1 DEF Effect, After, BanksTraced

(* A job waits only while every port is taken: a port behind its start was *)
(* passed over because its bank was busy, and a port past it carries data, *)
(* or passed a cycle at which its bank was busy.                           *)
LEMMA PlaceConserves ==
  ASSUME Ledger, PortsPassBusyBanks, BanksTraced, NoIdlePort,
         NEW p \in Port, NEW t \in Nat, NEW b \in Bank,
         NEW j \in Job \ DOMAIN placed, Placing(p, t, b, j)
  PROVE  NoIdlePort'
<1>0. Effect(p, t, b, j)
  BY PlacingEffect
<1>1. /\ DOMAIN placed' = DOMAIN placed \cup {j}
      /\ placed'[j].start = t /\ bank' = bank
      /\ \A i \in DOMAIN placed :
           i # j /\ placed'[i] = placed[i] /\ Ended(i)' = Ended(i)
      /\ bank[j] = b /\ ColumnOf(b) = column /\ b \in Unserved
      /\ \A i : ColumnOf(bank[i])' = ColumnOf(bank[i])
  BY <1>0 DEF Effect, After, Placing
<1>2. SUFFICES ASSUME NEW i \in DOMAIN placed', NEW q \in Port,
                      NEW u \in 0 .. placed'[i].start - 1, Issuable(i, u)'
               PROVE  Carries(ColumnOf(bank[i]), q, u)'
  BY <1>1 DEF NoIdlePort, Carries
<1> DEFINE c == ColumnOf(bank[i])
<1>5. PICK d : d = c
  OBVIOUS
<1>6. Carries(d, q, u)' => Carries(c, q, u)'
  BY <1>1, <1>5 DEF Carries
<1>3. CASE i \in DOMAIN placed
  <2>1. placed'[i] = placed[i] /\ Issuable(i, u)
    BY <1>1, <1>2, <1>3 DEF Issuable
  <2>2. Carries(ColumnOf(bank[i]), q, u)
    BY <1>2, <1>3, <2>1 DEF NoIdlePort
  <2>3. Carries(d, q, u)
    BY <1>5, <2>2
  <2>. QED BY <1>6, <2>3, CarriesOn
<1>4. CASE i = j
  <2>1. u \in Nat /\ u < t
    BY <1>1, <1>2, <1>4
  <2>2. /\ bankReady[b] \in Nat /\ bankReady[b] <= t /\ RechargeCycles \in Nat
        /\ ports[p] \in Nat /\ ports[q] \in Nat /\ ports[p] <= ports[q]
        /\ ports[p] < t => t <= bankReady[b]
    BY <1>0, <1>1 DEF Effect, Placing
  <2>3. bankReady[b] <= u
    <3>1. CASE bankReady[b] = 0
      BY <2>1, <3>1
    <3>2. CASE bankReady[b] # 0
      <4>1. PICK k \in DOMAIN placed :
              bank[k] = b /\ bankReady[b] = Ended(k) + RechargeCycles
        BY <3>2 DEF BanksTraced
      <4>2. placed[k].start < Ended(k) /\ placed[k].start \in Nat /\ Ended(k) \in Nat
        BY PlacedNumbers DEF Ledger
      <4>3. placed[k].start < t
        BY <2>2, <4>1, <4>2
      <4>4. Ended(k) + RechargeCycles <= u
        BY <1>1, <1>2, <1>4, <4>1, <4>3 DEF Issuable
      <4>. QED BY <4>1, <4>4
    <3>. QED BY <3>1, <3>2
  <2>4. u < ports[q]
    BY <2>1, <2>2, <2>3
  <2>5. Carries(column, q, u)
    <3>1. u \in 0 .. ports[q] - 1 /\ ~ (u < bankReady[b])
      BY <2>1, <2>2, <2>3, <2>4
    <3>. QED BY <1>1, <3>1 DEF PortsPassBusyBanks
  <2>6. Carries(d, q, u)
    BY <1>1, <1>4, <1>5, <2>5
  <2>. QED BY <1>6, <2>6, CarriesOn
<1>. QED BY <1>1, <1>3, <1>4

------------------------------------------------------------------------------
(* The sums over placed jobs: their terms are natural numbers.             *)
LEMMA WorkTypes ==
  ASSUME LedgerTypeOK
  PROVE  /\ \A S \in SUBSET Job : IsFiniteSet(S)
         /\ \A j \in Job : Turn[j] \in Nat /\ Burst[j] \in Nat
         /\ \A j \in Job : Turn[j] = Data(j) + RechargeCycles /\ Burst[j] = Data(j)
         /\ \A b : OnBank(b) \subseteq Job /\ IsFiniteSet(OnBank(b)) /\ Worked(b) \in Int
         /\ \A c, p : /\ OnPort(c, p) \subseteq Job /\ IsFiniteSet(OnPort(c, p))
                      /\ Carried(c, p) \in Int
<1>1. \A S \in SUBSET Job : IsFiniteSet(S)
  BY FS_Subset, PortAssumption
<1>2. \A j \in Job : /\ Turn[j] = Data(j) + RechargeCycles /\ Burst[j] = Data(j)
                     /\ Turn[j] \in Nat /\ Burst[j] \in Nat
  BY DataPositive, PortAssumption DEF Turn, Burst
<1>3. /\ \A b : OnBank(b) \subseteq Job
      /\ \A c, p : OnPort(c, p) \subseteq Job
  BY DEF LedgerTypeOK, OnBank, OnPort
<1>4. ASSUME NEW b PROVE Worked(b) \in Int /\ IsFiniteSet(OnBank(b))
  <2>1. IsFiniteSet(OnBank(b)) /\ \A j \in OnBank(b) : Turn[j] \in Int
    BY <1>1, <1>2, <1>3
  <2>. QED BY <2>1, SumMeasure DEF Worked
<1>5. ASSUME NEW c, NEW p PROVE Carried(c, p) \in Int /\ IsFiniteSet(OnPort(c, p))
  <2>1. IsFiniteSet(OnPort(c, p)) /\ \A j \in OnPort(c, p) : Burst[j] \in Int
    BY <1>1, <1>2, <1>3
  <2>. QED BY <2>1, SumMeasure DEF Carried
<1>. QED BY <1>1, <1>2, <1>3, <1>4, <1>5

(* A placed job adds its turn to its bank and its data to its port.        *)
LEMMA WorkGrows ==
  ASSUME Ledger, NEW p \in Port, NEW t \in Nat, NEW b \in Bank,
         NEW j \in Job \ DOMAIN placed, Placing(p, t, b, j)
  PROVE  /\ Worked(b)' = Worked(b) + Data(j) + RechargeCycles
         /\ \A c \in Bank : c # b => Worked(c)' = Worked(c)
         /\ Carried(column, p)' = Carried(column, p) + Data(j)
         /\ \A c, q : c # column \/ q # p =>
              OnPort(c, q)' = OnPort(c, q) /\ Carried(c, q)' = Carried(c, q)
<1>0. Effect(p, t, b, j) /\ LedgerTypeOK /\ bank[j] = b /\ ColumnOf(b) = column
  BY PlacingEffect DEF Ledger, Placing
<1>1. /\ DOMAIN placed' = DOMAIN placed \cup {j} /\ bank' = bank /\ column' = column
      /\ placed'[j].port = p /\ Turn' = Turn /\ Burst' = Burst
      /\ \A i \in DOMAIN placed : i # j /\ placed'[i] = placed[i]
      /\ \A i : ColumnOf(bank[i])' = ColumnOf(bank[i])
  BY <1>0 DEF Effect, After
<1>2. /\ OnBank(b)' = OnBank(b) \cup {j} /\ j \notin OnBank(b)
      /\ \A c : c # b => OnBank(c)' = OnBank(c)
  BY <1>0, <1>1 DEF OnBank
<1>3. /\ OnPort(column, p)' = OnPort(column, p) \cup {j} /\ j \notin OnPort(column, p)
      /\ \A c, q : c # column \/ q # p => OnPort(c, q)' = OnPort(c, q)
  BY <1>0, <1>1 DEF OnPort
<1>4. Worked(b)' = Worked(b) + Data(j) + RechargeCycles
  <2>1. /\ IsFiniteSet(OnBank(b)) /\ \A i \in OnBank(b) \cup {j} : Turn[i] \in Int
        /\ Turn[j] = Data(j) + RechargeCycles
    BY <1>0, WorkTypes
  <2>2. SumFunctionOnSet(Turn, OnBank(b) \cup {j})
          = SumFunctionOnSet(Turn, OnBank(b)) + Turn[j]
    BY <1>2, <2>1, SumAdd
  <2>3. Worked(b)' = SumFunctionOnSet(Turn, OnBank(b) \cup {j})
    BY <1>1, <1>2 DEF Worked
  <2>4. Worked(b) \in Int /\ Data(j) \in Int /\ RechargeCycles \in Int
    BY <1>0, WorkTypes, PortAssumption DEF Effect
  <2>. QED BY <2>1, <2>2, <2>3, <2>4 DEF Worked
<1>5. Carried(column, p)' = Carried(column, p) + Data(j)
  <2>1. /\ IsFiniteSet(OnPort(column, p))
        /\ \A i \in OnPort(column, p) \cup {j} : Burst[i] \in Int
        /\ Burst[j] = Data(j)
    BY <1>0, WorkTypes
  <2>2. SumFunctionOnSet(Burst, OnPort(column, p) \cup {j})
          = SumFunctionOnSet(Burst, OnPort(column, p)) + Burst[j]
    BY <1>3, <2>1, SumAdd
  <2>3. Carried(column, p)' = SumFunctionOnSet(Burst, OnPort(column, p) \cup {j})
    BY <1>1, <1>3 DEF Carried
  <2>. QED BY <2>1, <2>2, <2>3 DEF Carried
<1>6. \A c \in Bank : c # b => Worked(c)' = Worked(c)
  BY <1>1, <1>2 DEF Worked
<1>7. \A c, q : c # column \/ q # p => Carried(c, q)' = Carried(c, q)
  BY <1>1, <1>3 DEF Carried
<1>. QED BY <1>3, <1>4, <1>5, <1>6, <1>7

LEMMA PlaceFits ==
  ASSUME Ledger, LoadsFit, finish \in Nat, NEW p \in Port, NEW t \in Nat, NEW b \in Bank,
         NEW j \in Job \ DOMAIN placed, Placing(p, t, b, j)
  PROVE  LoadsFit'
<1>0. Effect(p, t, b, j) /\ LedgerTypeOK
  BY PlacingEffect DEF Ledger
<1>1. /\ bankReady'[b] = t + Data(j) + RechargeCycles /\ bankReady[b] <= t
      /\ ports'[p] = t + Data(j) /\ ports[p] <= t
      /\ ports[p] \in Nat /\ bankReady[b] \in Nat
      /\ \A c \in Bank : c # b => bankReady'[c] = bankReady[c]
      /\ \A q \in Port : q # p => ports'[q] = ports[q]
      /\ Data(j) \in Nat /\ RechargeCycles \in Nat /\ column' = column
      /\ finish' = Later(finish, t + Data(j) + RechargeCycles)
  BY <1>0 DEF Effect, After, Placing
<1>2. /\ finish' \in Nat /\ finish <= finish' /\ t + Data(j) + RechargeCycles <= finish'
  BY <1>1 DEF Later
<1>3. /\ \A c : Worked(c) \in Int
      /\ \A c, q : Carried(c, q) \in Int
  BY <1>0, WorkTypes
<1>4. /\ Worked(b)' = Worked(b) + Data(j) + RechargeCycles
      /\ \A c \in Bank : c # b => Worked(c)' = Worked(c)
      /\ Carried(column, p)' = Carried(column, p) + Data(j)
      /\ \A c, q : c # column \/ q # p =>
           OnPort(c, q)' = OnPort(c, q) /\ Carried(c, q)' = Carried(c, q)
  BY WorkGrows
<1>5. /\ \A c \in Bank : Worked(c) <= bankReady[c]
      /\ \A q \in Port : Carried(column, q) <= ports[q]
      /\ \A c \in Column, q \in Port :
           OnPort(c, q) # {} => Carried(c, q) + RechargeCycles <= finish
  BY DEF LoadsFit
<1>6. ASSUME NEW c \in Bank PROVE Worked(c)' <= bankReady'[c]
  <2>1. CASE c = b
    BY <1>1, <1>3, <1>4, <1>5, <2>1
  <2>2. CASE c # b
    BY <1>1, <1>4, <1>5, <2>2
  <2>. QED BY <2>1, <2>2
<1>7. /\ Carried(column, p)' <= ports'[p]
      /\ Carried(column, p)' + RechargeCycles <= finish'
  <2>1. Carried(column, p) <= ports[p] /\ Carried(column, p) \in Int
    BY <1>3, <1>5
  <2>. QED BY <1>1, <1>2, <1>4, <2>1
<1>8. ASSUME NEW q \in Port PROVE Carried(column, q)' <= ports'[q]
  <2>1. CASE q = p
    BY <1>7, <2>1
  <2>2. CASE q # p
    BY <1>1, <1>4, <1>5, <2>2
  <2>. QED BY <2>1, <2>2
<1>9. ASSUME NEW c \in Column, NEW q \in Port, OnPort(c, q)' # {}
      PROVE  Carried(c, q)' + RechargeCycles <= finish'
  <2>1. CASE c = column /\ q = p
    <3>1. Carried(c, q)' = Carried(column, p)'
      BY <1>1, <2>1 DEF Carried, OnPort
    <3>. QED BY <1>7, <3>1
  <2>2. CASE c # column \/ q # p
    <3>1. OnPort(c, q)' = OnPort(c, q) /\ Carried(c, q)' = Carried(c, q)
      BY <1>4, <2>2
    <3>2. Carried(c, q) + RechargeCycles <= finish
      BY <1>5, <1>9, <3>1
    <3>3. Carried(c, q) \in Int
      BY <1>3
    <3>. QED BY <1>1, <1>2, <3>1, <3>2, <3>3
  <2>. QED BY <2>1, <2>2
<1>. QED BY <1>1, <1>6, <1>8, <1>9 DEF LoadsFit

(* When a column uses no more banks than it has ports, a job starts as     *)
(* soon as its bank is ready: otherwise every port would carry, at that    *)
(* cycle, a job of another bank of the column.                             *)
LEMMA NothingToWaitFor ==
  ASSUME Ledger, PortsPassBusyBanks, PortsSuffice,
         NEW p \in Port, NEW t \in Nat, NEW b \in Bank,
         NEW j \in Job \ DOMAIN placed, Placing(p, t, b, j)
  PROVE  t = bankReady[b]
<1>1. /\ LedgerTypeOK /\ NoConflict /\ BanksCovered
      /\ b \in Unserved /\ bank[j] = b /\ ColumnOf(b) = column
      /\ bankReady[b] <= t /\ ports[p] <= t
      /\ \A q \in Port : ports[p] <= ports[q]
      /\ ports[p] < t => t <= bankReady[b]
  BY DEF Ledger, Placing
<1>2. /\ RechargeCycles \in Nat /\ bankReady[b] \in Nat
      /\ \A q \in Port : ports[q] \in Nat
  BY <1>1, PortAssumption DEF LedgerTypeOK
<1> SUFFICES ASSUME bankReady[b] # t PROVE FALSE
  OBVIOUS
<1> DEFINE r == bankReady[b]
<1>3. r < t /\ \A q \in Port : r \in 0 .. ports[q] - 1
  BY <1>1, <1>2
<1>4. \A q \in Port : Carries(column, q, r)
  BY <1>1, <1>2, <1>3 DEF PortsPassBusyBanks
<1> DEFINE Carrier(q) == {k \in DOMAIN placed :
                            /\ ColumnOf(bank[k]) = column /\ placed[k].port = q
                            /\ placed[k].start <= r /\ r < Ended(k)}
           busy == [q \in Port |-> bank[CHOOSE k \in Carrier(q) : TRUE]]
           used == {x \in Range(bank) : ColumnOf(x) = column}
<1>5. \A q \in Port : \E k \in Carrier(q) : busy[q] = bank[k]
  <2>1. \A q \in Port : Carrier(q) # {}
    BY <1>4 DEF Carries
  <2>. QED BY <2>1
<1> HIDE DEF busy
<1>6. ASSUME NEW q1 \in Port, NEW q2 \in Port, q1 # q2 PROVE busy[q1] # busy[q2]
  <2>1. PICK k1 \in Carrier(q1), k2 \in Carrier(q2) :
          busy[q1] = bank[k1] /\ busy[q2] = bank[k2]
    BY <1>5
  <2>2. /\ placed[k1].start \in Nat /\ placed[k2].start \in Nat
        /\ Ended(k1) \in Nat /\ Ended(k2) \in Nat
    BY <1>1, PlacedNumbers
  <2>3. k1 # k2 /\ k1 \in DOMAIN placed /\ k2 \in DOMAIN placed
    BY <1>6
  <2>4. placed[k1].start <= r /\ r < Ended(k1) /\ placed[k2].start <= r /\ r < Ended(k2)
    OBVIOUS
  <2>5. SUFFICES ASSUME bank[k1] = bank[k2] PROVE FALSE
    BY <2>1
  <2>6. CASE placed[k1].start <= placed[k2].start
    <3>1. Ended(k1) + RechargeCycles <= placed[k2].start
      BY <1>1, <2>3, <2>5, <2>6 DEF NoConflict
    <3>. QED BY <1>2, <2>2, <2>4, <3>1
  <2>7. CASE placed[k2].start <= placed[k1].start
    <3>1. Ended(k2) + RechargeCycles <= placed[k1].start
      BY <1>1, <2>3, <2>5, <2>7 DEF NoConflict
    <3>. QED BY <1>2, <2>2, <2>4, <3>1
  <2>. QED BY <2>2, <2>6, <2>7
<1>7. ASSUME NEW q \in Port PROVE busy[q] \in used \ {b}
  <2>1. PICK k \in Carrier(q) : busy[q] = bank[k]
    BY <1>5
  <2>2. k \in DOMAIN placed /\ r < Ended(k) /\ Ended(k) \in Nat /\ ColumnOf(bank[k]) = column
    BY <1>1, PlacedNumbers
  <2>3. Ended(k) + RechargeCycles <= bankReady[bank[k]]
    BY <1>1, <2>2 DEF BanksCovered
  <2>4. bank[k] # b
    BY <1>2, <2>2, <2>3
  <2>5. bank[k] \in Range(bank)
    BY <1>1, <2>2 DEF Range, LedgerTypeOK
  <2>. QED BY <2>1, <2>2, <2>4, <2>5
<1>8. IsFiniteSet(used) /\ b \in used /\ Cardinality(used) <= Connected
  <2>1. used \subseteq Bank /\ b \in used
    BY <1>1 DEF Range, LedgerTypeOK
  <2>2. IsFiniteSet(Bank)
    BY FS_Interval, PortAssumption DEF Bank
  <2>3. column \in Column
    <3>1. column \in Nat /\ column < Width /\ Width \in Nat
      BY <1>1, ColumnInRange, PortAssumption
    <3>. QED BY <3>1 DEF Column
  <2>. QED BY <2>1, <2>2, <2>3, FS_Subset DEF PortsSuffice
<1> HIDE DEF used
<1>9. IsFiniteSet(used \ {b}) /\ Cardinality(used \ {b}) = Cardinality(used) - 1
  BY <1>8, FS_RemoveElement
<1>10. busy \in Injection(Port, used \ {b})
  <2>1. DOMAIN busy = Port
    BY DEF busy
  <2>2. busy \in [Port -> used \ {b}]
    BY <1>7, <2>1 DEF busy
  <2>. QED BY <1>6, <2>2 DEF Injection, IsInjective
<1>11. Cardinality(Port) <= Cardinality(used \ {b})
  BY <1>9, <1>10, FS_Injection
<1>12. Cardinality(Port) = Connected
  BY FS_Interval, PortAssumption DEF Port
<1>13. Cardinality(used) \in Nat /\ Connected \in Nat
  BY <1>8, FS_CardinalityType, PortAssumption
<1>. QED BY <1>8, <1>9, <1>11, <1>12, <1>13

LEMMA PlaceNeverWaits ==
  ASSUME Ledger, PortsPassBusyBanks, BanksNeverWait,
         NEW p \in Port, NEW t \in Nat, NEW b \in Bank,
         NEW j \in Job \ DOMAIN placed, Placing(p, t, b, j)
  PROVE  BanksNeverWait'
<1>0. Effect(p, t, b, j) /\ LedgerTypeOK
  BY PlacingEffect DEF Ledger
<1>1. /\ bankReady'[b] = t + Data(j) + RechargeCycles /\ bank' = bank
      /\ \A c \in Bank : c # b => bankReady'[c] = bankReady[c]
      /\ Data(j) \in Nat /\ RechargeCycles \in Nat
  BY <1>0 DEF Effect, After
<1>2. PortsSuffice' = PortsSuffice
  BY <1>1 DEF PortsSuffice, ColumnOf
<1>3. SUFFICES ASSUME PortsSuffice, NEW c \in Bank PROVE bankReady'[c] = Worked(c)'
  BY <1>2 DEF BanksNeverWait
<1>4. bankReady[c] = Worked(c)
  BY <1>3 DEF BanksNeverWait
<1>5. /\ Worked(b)' = Worked(b) + Data(j) + RechargeCycles
      /\ c # b => Worked(c)' = Worked(c)
  BY WorkGrows
<1>6. CASE c = b
  <2>1. t = Worked(b)
    BY <1>3, <1>4, <1>6, NothingToWaitFor
  <2>. QED BY <1>1, <1>5, <1>6, <2>1
<1>7. CASE c # b
  BY <1>1, <1>4, <1>5, <1>7
<1>. QED BY <1>6, <1>7

LEMMA PlaceFinishes ==
  ASSUME Ledger, FinishKnown, Connected < Layers,
         NEW p \in Port, NEW t \in Nat, NEW b \in Bank,
         NEW j \in Job \ DOMAIN placed, Placing(p, t, b, j)
  PROVE  FinishKnown'
<1>0. Effect(p, t, b, j) /\ Connected # Layers
  BY PlacingEffect, PortAssumption
<1>1. /\ bankReady'[b] = t + Data(j) + RechargeCycles /\ bankReady[b] <= t
      /\ \A c \in Bank : c # b => bankReady'[c] = bankReady[c]
      /\ \A c \in Bank : bankReady[c] \in Nat
      /\ DOMAIN placed' = DOMAIN placed \cup {j} /\ bank' = bank /\ column' = column
      /\ Data(j) \in Nat /\ Data(j) >= 1 /\ RechargeCycles \in Nat
      /\ finish' = Later(finish, t + Data(j) + RechargeCycles)
      /\ \A c : ColumnOf(c)' = ColumnOf(c)
  BY <1>0 DEF Effect, After, Placing
<1>2. /\ \A c \in Bank : ColumnOf(c) < column => Waiting(c) = {}
      /\ finish \in Nat
      /\ \A c \in Bank : bankReady[c] <= finish
      /\ \E c \in Bank : bankReady[c] = finish
  BY DEF FinishKnown
<1>3. \A c \in Bank : ColumnOf(c)' < column' => Waiting(c)' = {}
  BY <1>1, <1>2 DEF Waiting
<1>4. /\ finish' \in Nat /\ finish <= finish'
      /\ finish' = finish \/ finish' = bankReady'[b]
      /\ bankReady'[b] <= finish' /\ bankReady'[b] \in Nat
      /\ finish' = finish => t < finish
  BY <1>1, <1>2 DEF Later
<1>5. \A c \in Bank : bankReady'[c] <= finish'
  <2>. TAKE c \in Bank
  <2>1. bankReady[c] \in Nat /\ bankReady[c] <= finish
    BY <1>1, <1>2
  <2>. QED BY <1>1, <1>2, <1>4, <2>1
<1>6. \E c \in Bank : bankReady'[c] = finish'
  <2>1. CASE finish' = finish
    <3>1. PICK c \in Bank : bankReady[c] = finish
      BY <1>2
    <3>2. c # b
      BY <1>1, <1>4, <2>1, <3>1
    <3>. QED BY <1>1, <2>1, <3>1, <3>2
  <2>. QED BY <1>4, <2>1
<1>. QED BY <1>0, <1>3, <1>4, <1>5, <1>6 DEF FinishKnown

(* A new column starts with free ports, and no job of it is placed.        *)
LEMMA ColumnKeeps ==
  ASSUME Ledger, BanksTraced, LoadsFit, BanksNeverWait,
         column' \in 0 .. Width, column < column', ports' \in [Port -> Nat],
         ports' = Free \/ Unserved' = {}, finish' = finish \/ DOMAIN placed = {},
         UNCHANGED <<bank, sectors, bankReady, placed>>
  PROVE  PortsPassBusyBanks' /\ BanksTraced' /\ LoadsFit' /\ BanksNeverWait'
<1>1. column \in Nat /\ column' \in Nat
  BY PortAssumption DEF Ledger, LedgerTypeOK
<1>2. /\ \A j : ColumnOf(bank[j])' = ColumnOf(bank[j])
      /\ \A b : ColumnOf(b)' = ColumnOf(b)
      /\ \A j : Ended(j)' = Ended(j)
      /\ Turn' = Turn /\ Burst' = Burst
  BY DEF ColumnOf, Ended, Data, Turn, Burst
<1>3. /\ \A b : OnBank(b)' = OnBank(b) /\ Worked(b)' = Worked(b)
      /\ \A c, p : OnPort(c, p)' = OnPort(c, p) /\ Carried(c, p)' = Carried(c, p)
  BY <1>2 DEF OnBank, OnPort, Worked, Carried
<1>4. PortsPassBusyBanks'
  <2>1. CASE ports' = Free
    BY <2>1 DEF PortsPassBusyBanks, Free
  <2>2. CASE Unserved' = {}
    BY <2>2 DEF PortsPassBusyBanks
  <2>. QED BY <2>1, <2>2
<1>5. BanksTraced'
  BY <1>2 DEF BanksTraced
<1>6. \A p \in Port : Carried(column, p)' = 0
  <2>. TAKE p \in Port
  <2>1. \A j \in DOMAIN placed : ColumnOf(bank[j]) # column'
    <3>1. \A j \in DOMAIN placed : ColumnOf(bank[j]) <= column /\ ColumnOf(bank[j]) \in Nat
      BY PlacedNumbers DEF Ledger, PastColumns
    <3>. QED BY <1>1, <3>1
  <2>2. OnPort(column, p)' = {}
    BY <1>2, <2>1 DEF OnPort
  <2>. QED BY <2>2, SumEmpty DEF Carried
<1>7. ASSUME NEW c \in Column, NEW p \in Port, OnPort(c, p) # {}
      PROVE  Carried(c, p) + RechargeCycles <= finish'
  <2>1. finish' = finish
    BY <1>7 DEF OnPort
  <2>. QED BY <1>7, <2>1 DEF LoadsFit
<1>8. LoadsFit'
  <2>1. \A b \in Bank : Worked(b)' <= bankReady'[b]
    BY <1>3 DEF LoadsFit
  <2>2. \A p \in Port : Carried(column, p)' <= ports'[p]
    BY <1>6
  <2>3. \A c \in Column, p \in Port :
          OnPort(c, p)' # {} => Carried(c, p)' + RechargeCycles <= finish'
    BY <1>3, <1>7
  <2>. QED BY <2>1, <2>2, <2>3 DEF LoadsFit
<1>9. BanksNeverWait'
  <2>1. PortsSuffice' = PortsSuffice
    BY <1>2 DEF PortsSuffice
  <2>. QED BY <1>3, <2>1 DEF BanksNeverWait
<1>. QED BY <1>4, <1>5, <1>8, <1>9
------------------------------------------------------------------------------
LEMMA PortInvInit == ScheduleInit => PortInv
<1> SUFFICES ASSUME ScheduleInit PROVE PortInv
  OBVIOUS
<1>1. Ledger /\ LedgerTypeOK
  BY LedgerInit DEF Ledger
<1>2. /\ column = 0 /\ ports = Free /\ bankReady = [b \in Bank |-> 0]
      /\ DOMAIN placed = {} /\ finish = 0
  BY DEF ScheduleInit
<1>3. PortsPassBusyBanks
  BY <1>2 DEF PortsPassBusyBanks, Free
<1>4. BanksTraced
  BY <1>2 DEF BanksTraced
<1>5. \A c, p : OnPort(c, p) = {} /\ Carried(c, p) = 0
  <2>1. \A c, p : OnPort(c, p) = {}
    BY <1>2 DEF OnPort
  <2>. QED BY <2>1, SumEmpty DEF Carried
<1>6. \A b : Worked(b) = 0
  <2>1. \A b : OnBank(b) = {}
    BY <1>2 DEF OnBank
  <2>. QED BY <2>1, SumEmpty DEF Worked
<1>7. LoadsFit
  BY <1>2, <1>5, <1>6 DEF LoadsFit, Free
<1>8. BanksNeverWait
  BY <1>2, <1>6 DEF BanksNeverWait
<1>9. FinishKnown
  <2>1. \A b \in Bank : ~ (ColumnOf(b) < column)
    BY <1>2, ColumnInRange
  <2>2. 0 \in Bank /\ column # Width
    <3>1. Layers * Width - 1 \in Nat
      <4>1. \A m, n \in Nat \ {0} : m * n - 1 \in Nat
        OBVIOUS
      <4>. QED BY <4>1, PortAssumption
    <3>. QED BY <1>2, <3>1, PortAssumption DEF Bank
  <2>. QED BY <1>2, <2>1, <2>2 DEF FinishKnown
<1>. QED BY <1>1, <1>3, <1>4, <1>7, <1>8, <1>9 DEF PortInv

LEMMA PortInvStep == PortInv /\ [ScheduleNext]_scheduleVars => PortInv'
<1> SUFFICES ASSUME PortInv, [ScheduleNext]_scheduleVars PROVE PortInv'
  OBVIOUS
<1>1. /\ Ledger /\ PortsPassBusyBanks /\ BanksTraced /\ LoadsFit
      /\ BanksNeverWait /\ FinishKnown /\ LedgerTypeOK
  BY DEF PortInv, Ledger
<1>2. Ledger'
  BY <1>1, LedgerStep
<1>3. column \in Nat /\ ports \in [Port -> Nat]
  BY <1>1, PortAssumption DEF LedgerTypeOK
<1>4. CASE FullyConnected
  <2>1. /\ Connected = Layers /\ column = 0 /\ column' = Width /\ finish' = CriticalPath
        /\ UNCHANGED <<bank, sectors, ports, bankReady, placed>>
    BY <1>4 DEF FullyConnected
  <2>2. column' \in 0 .. Width /\ column < column' /\ ports' \in [Port -> Nat]
    BY <1>3, <2>1, PortAssumption
  <2>3. Unserved' = {}
    <3>1. \A b \in Bank : ColumnOf(b) # Width
      BY ColumnInRange, PortAssumption
    <3>. QED BY <2>1, <3>1 DEF Unserved, ColumnOf
  <2>4. DOMAIN placed = {} /\ ~ (Connected < Layers)
    BY <1>1, <2>1, PortAssumption DEF FinishKnown
  <2>5. PortsPassBusyBanks' /\ BanksTraced' /\ LoadsFit' /\ BanksNeverWait'
    BY <1>1, <2>1, <2>2, <2>3, <2>4, ColumnKeeps
  <2>6. FinishKnown'
    <3>1. CriticalPath' = CriticalPath
      BY <2>1 DEF CriticalPath, Load, Turn, Data
    <3>. QED BY <2>1, <2>4, <3>1 DEF FinishKnown
  <2>. QED BY <1>2, <2>5, <2>6 DEF PortInv
<1>5. CASE Place
  <2>1. PICK p \in Port, t \in Nat, b \in Bank, j \in Job \ DOMAIN placed :
          Placing(p, t, b, j)
    BY <1>1, <1>5, PlaceIsPlacing
  <2>2. Connected < Layers /\ finish \in Nat
    BY <1>1, <1>5 DEF Place, FinishKnown
  <2>3. PortsPassBusyBanks' /\ BanksTraced'
    BY <1>1, <2>1, PlacePassesBusy, PlaceTraces
  <2>4. LoadsFit' /\ BanksNeverWait'
    BY <1>1, <2>1, <2>2, PlaceFits, PlaceNeverWaits
  <2>5. FinishKnown'
    BY <1>1, <2>1, <2>2, PlaceFinishes
  <2>. QED BY <1>2, <2>3, <2>4, <2>5 DEF PortInv
<1>6. CASE NextColumn
  <2>1. /\ Connected < Layers /\ column < Width /\ Unserved = {}
        /\ column' = column + 1 /\ ports' = Free
        /\ UNCHANGED <<bank, sectors, bankReady, placed, finish>>
    BY <1>6 DEF NextColumn
  <2>2. column' \in 0 .. Width /\ column < column'
    BY <1>3, <2>1, PortAssumption
  <2>3. ports' \in [Port -> Nat]
    BY <2>1 DEF Free
  <2>4. PortsPassBusyBanks' /\ BanksTraced' /\ LoadsFit' /\ BanksNeverWait'
    BY <1>1, <2>1, <2>2, <2>3, ColumnKeeps
  <2>5. FinishKnown'
    <3>1. Connected # Layers
      BY <2>1, PortAssumption
    <3>2. ASSUME NEW b \in Bank, ColumnOf(b) < column + 1 PROVE Waiting(b) = {}
      <4>1. ColumnOf(b) = column \/ ColumnOf(b) < column
        BY <1>3, <3>2, ColumnInRange
      <4>. QED BY <1>1, <2>1, <4>1 DEF Unserved, FinishKnown
    <3>3. \A b \in Bank : ColumnOf(b)' < column' => Waiting(b)' = {}
      BY <2>1, <3>2 DEF Waiting, ColumnOf
    <3>. QED BY <1>1, <2>1, <3>1, <3>3 DEF FinishKnown
  <2>. QED BY <1>2, <2>4, <2>5 DEF PortInv
<1>7. CASE UNCHANGED scheduleVars
  <2>1. /\ bank' = bank /\ sectors' = sectors /\ column' = column /\ ports' = ports
        /\ bankReady' = bankReady /\ placed' = placed /\ finish' = finish
    BY <1>7 DEF scheduleVars
  <2>2. /\ \A j : ColumnOf(bank[j])' = ColumnOf(bank[j]) /\ Ended(j)' = Ended(j)
        /\ \A b : ColumnOf(b)' = ColumnOf(b) /\ Waiting(b)' = Waiting(b)
        /\ Turn' = Turn /\ Burst' = Burst
    BY <2>1 DEF ColumnOf, Ended, Data, Turn, Burst, Waiting
  <2>3. /\ \A b : OnBank(b)' = OnBank(b) /\ Worked(b)' = Worked(b)
        /\ \A c, p : OnPort(c, p)' = OnPort(c, p) /\ Carried(c, p)' = Carried(c, p)
        /\ \A c, p, t : Carries(c, p, t)' = Carries(c, p, t)
        /\ Unserved' = Unserved /\ CriticalPath' = CriticalPath
        /\ PortsSuffice' = PortsSuffice
    BY <2>1, <2>2 DEF OnBank, OnPort, Worked, Carried, Carries, Unserved,
                      CriticalPath, Load, PortsSuffice
  <2>4. PortsPassBusyBanks' /\ BanksTraced'
    <3>1. \A p, t : Carries(column, p, t)' = Carries(column, p, t)
      BY <2>1, <2>2 DEF Carries
    <3>. QED BY <1>1, <2>1, <2>2, <2>3, <3>1 DEF PortsPassBusyBanks, BanksTraced
  <2>5. LoadsFit' /\ BanksNeverWait'
    <3>1. \A p : Carried(column, p)' = Carried(column, p)
      BY <2>1, <2>2 DEF Carried, OnPort
    <3>. QED BY <1>1, <2>1, <2>3, <3>1 DEF LoadsFit, BanksNeverWait
  <2>6. FinishKnown'
    BY <1>1, <2>1, <2>2, <2>3 DEF FinishKnown
  <2>. QED BY <1>2, <2>4, <2>5, <2>6 DEF PortInv
<1>. QED BY <1>4, <1>5, <1>6, <1>7 DEF ScheduleNext, Done

(* When the last column is over every job is placed.                       *)
LEMMA AllPlaced ==
  ASSUME PortInv, column = Width, Connected < Layers
  PROVE  /\ DOMAIN placed = Job
         /\ \A b \in Bank : OnBank(b) = {j \in Job : bank[j] = b} /\ Worked(b) = Load(b)
<1>1. LedgerTypeOK /\ FinishKnown
  BY DEF PortInv, Ledger
<1>2. \A b \in Bank : Waiting(b) = {}
  BY <1>1, ColumnInRange DEF FinishKnown
<1>3. DOMAIN placed = Job
  BY <1>1, <1>2 DEF Waiting, LedgerTypeOK
<1>4. \A b \in Bank : OnBank(b) = {j \in Job : bank[j] = b}
  BY <1>3 DEF OnBank
<1>. QED BY <1>3, <1>4 DEF Worked, Load

(* The critical path is the longest load, whatever ports there are.        *)
LEMMA LoadTypes ==
  ASSUME LedgerTypeOK
  PROVE  /\ \A b : Load(b) \in Int
         /\ CriticalPath \in Int
         /\ \E b \in Bank : CriticalPath = Load(b)
         /\ \A b \in Bank : Load(b) <= CriticalPath
<1>1. ASSUME NEW b PROVE Load(b) \in Int
  <2>1. {j \in Job : bank[j] = b} \subseteq Job
    OBVIOUS
  <2>2. IsFiniteSet({j \in Job : bank[j] = b})
    BY <2>1, WorkTypes
  <2>3. \A j \in {i \in Job : bank[i] = b} : Turn[j] \in Int
    BY WorkTypes
  <2>. QED BY <2>2, <2>3, SumMeasure DEF Load
<1> DEFINE loads == [b \in Bank |-> Load(b)]
<1>2. {Load(b) : b \in Bank} = {loads[b] : b \in Bank}
  OBVIOUS
<1>3. IsFiniteSet({loads[b] : b \in Bank})
  <2>1. IsFiniteSet(Bank)
    BY FS_Interval, PortAssumption DEF Bank
  <2>. HIDE DEF loads
  <2>2. DOMAIN loads = Bank
    BY DEF loads
  <2>. QED BY <2>1, <2>2, FiniteImage
<1>4. 0 \in Bank
  <2>1. Layers * Width - 1 \in Nat
    <3>1. \A m, n \in Nat \ {0} : m * n - 1 \in Nat
      OBVIOUS
    <3>. QED BY <3>1, PortAssumption
  <2>. QED BY <2>1 DEF Bank
<1> DEFINE S == {Load(b) : b \in Bank}
<1>5. S \in SUBSET Int /\ S # {} /\ IsFiniteSet(S)
  BY <1>1, <1>2, <1>3, <1>4
<1> HIDE DEF S
<1>6. Max(S) \in S /\ \A y \in S : y <= Max(S)
  BY <1>5, FiniteMax
<1>7. CriticalPath = Max(S)
  BY DEF CriticalPath, S
<1>. QED BY <1>1, <1>6, <1>7 DEF S

LEMMA SharingCosts == PortInv => CriticalPathWhenPortsSuffice
<1> SUFFICES ASSUME PortInv, column = Width, PortsSuffice PROVE finish = CriticalPath
  BY DEF CriticalPathWhenPortsSuffice
<1>1. FinishKnown /\ BanksNeverWait /\ LedgerTypeOK
  BY DEF PortInv, Ledger
<1>2. CASE Connected = Layers
  BY <1>1, <1>2 DEF FinishKnown
<1>3. CASE Connected < Layers
  <2>1. \A b \in Bank : bankReady[b] = Load(b)
    BY <1>1, <1>3, AllPlaced DEF BanksNeverWait
  <2>2. /\ finish \in Nat
        /\ \A b \in Bank : Load(b) <= finish
        /\ \E b \in Bank : Load(b) = finish
    BY <1>1, <1>3, <2>1 DEF FinishKnown
  <2>. QED BY <1>1, <2>2, LoadTypes
<1>. QED BY <1>2, <1>3, PortAssumption

LEMMA IdleStep ==
  PortInv /\ NoIdlePort /\ [ScheduleNext]_scheduleVars => NoIdlePort'
<1> SUFFICES ASSUME PortInv, NoIdlePort, [ScheduleNext]_scheduleVars
             PROVE  NoIdlePort'
  OBVIOUS
<1>1. Ledger /\ PortsPassBusyBanks /\ BanksTraced
  BY DEF PortInv
<1>2. CASE Place
  BY <1>1, <1>2, PlaceIsPlacing, PlaceConserves
<1>3. CASE ~ Place
  <2>1. UNCHANGED <<bank, sectors, placed>>
    BY <1>3 DEF ScheduleNext, FullyConnected, NextColumn, Done, scheduleVars
  <2>2. /\ \A j : ColumnOf(bank[j])' = ColumnOf(bank[j]) /\ Ended(j)' = Ended(j)
    BY <2>1 DEF ColumnOf, Ended, Data
  <2>3. \A i, u : Issuable(i, u)' = Issuable(i, u)
    BY <2>1, <2>2 DEF Issuable
  <2>4. \A j, p, u : Carries(ColumnOf(bank[j]), p, u)' = Carries(ColumnOf(bank[j]), p, u)
    BY <2>1, <2>2 DEF Carries
  <2>. QED BY <2>1, <2>3, <2>4 DEF NoIdlePort
<1>. QED BY <1>2, <1>3
------------------------------------------------------------------------------
(* The arithmetic of the bounds.                                           *)
LEMMA DivMod ==
  ASSUME NEW a \in Int, NEW d \in Nat \ {0}
  PROVE  a \div d \in Int /\ a % d \in 0 .. d - 1 /\ a = d * (a \div d) + (a % d)
  OBVIOUS

LEMMA CeilDivBelow ==
  ASSUME NEW a \in Int, NEW d \in Nat \ {0}, NEW k \in Int, a <= d * k
  PROVE  CeilDiv(a, d) \in Int /\ CeilDiv(a, d) <= k
  BY DEF CeilDiv

LEMMA CeilDivAbove ==
  ASSUME NEW a \in Int, NEW d \in Nat \ {0}
  PROVE  CeilDiv(a, d) \in Int /\ a <= d * CeilDiv(a, d)
  BY DEF CeilDiv

(* Jobs shared out to machines: at[j] is the machine of job j, w[j] what   *)
(* it costs there, and no machine has more than the limit.                 *)
OnMachine(at, m) == {j \in Job : at[j] = m}

Fits(w, at, M, limit) ==
  /\ IsFiniteSet(M) /\ w \in [Job -> Nat] /\ at \in [Job -> M] /\ limit \in Int
  /\ \A m \in M : SumFunctionOnSet(w, OnMachine(at, m)) <= limit

LEMMA MachineTypes ==
  ASSUME NEW w \in [Job -> Nat], NEW S \in SUBSET Job
  PROVE  /\ IsFiniteSet(S) /\ \A j \in S : w[j] \in Int
         /\ SumFunctionOnSet(w, S) \in Nat
         /\ \A j \in S : w[j] <= SumFunctionOnSet(w, S)
<1>1. IsFiniteSet(S)
  BY FS_Subset, PortAssumption
<1>2. \A T \in SUBSET S : /\ IsFiniteSet(T) /\ \A j \in T : w[j] \in Int
                          /\ SumFunctionOnSet(w, T) \in Nat
  <2>. TAKE T \in SUBSET S
  <2> DEFINE zero == [j \in Job |-> 0]
  <2>1. IsFiniteSet(T) /\ \A j \in T : w[j] \in Nat
    BY <1>1, FS_Subset
  <2>2. SumFunctionOnSet(w, T) \in Int
    BY <2>1, SumMeasure
  <2>3. SumFunctionOnSet(zero, T) = 0
    <3>1. \A j \in T : zero[j] \in Int /\ zero[j] = 0 * zero[j]
      OBVIOUS
    <3> HIDE DEF zero
    <3>2. SumFunctionOnSet(zero, T) = 0 * SumFunctionOnSet(zero, T)
      BY <2>1, <3>1, SumScale
    <3>3. SumFunctionOnSet(zero, T) \in Int
      BY <2>1, <3>1, SumMeasure
    <3>. QED BY <3>2, <3>3
  <2>4. SumFunctionOnSet(zero, T) <= SumFunctionOnSet(w, T)
    <3>1. \A j \in T : zero[j] \in Int /\ w[j] \in Int /\ zero[j] <= w[j]
      BY <2>1
    <3> HIDE DEF zero
    <3>. QED BY <2>1, <3>1, SumMonotone
  <2>. QED BY <2>1, <2>2, <2>3, <2>4
<1>3. ASSUME NEW j \in S PROVE w[j] <= SumFunctionOnSet(w, S)
  <2>1. SumFunctionOnSet(w, S) = w[j] + SumFunctionOnSet(w, S \ {j})
    BY <1>2, SumMeasure
  <2>2. SumFunctionOnSet(w, S \ {j}) \in Nat
    BY <1>2
  <2>. QED BY <2>1, <2>2
<1>. QED BY <1>2, <1>3

(* So all the work is at most the limit on every machine.                  *)
LEMMA TotalFits ==
  ASSUME NEW w, NEW at, NEW M, NEW limit, Fits(w, at, M, limit)
  PROVE  SumFunctionOnSet(w, Job) <= Cardinality(M) * limit
<1>1. /\ IsFiniteSet(M) /\ w \in [Job -> Nat] /\ at \in [Job -> M] /\ limit \in Int
      /\ \A m \in M : SumFunctionOnSet(w, OnMachine(at, m)) <= limit
  BY DEF Fits
<1> DEFINE On(Q) == {j \in Job : at[j] \in Q}
           Good == {Q \in SUBSET M : SumFunctionOnSet(w, On(Q)) <= Cardinality(Q) * limit}
<1>2. {} \in Good
  <2>1. On({}) = {}
    OBVIOUS
  <2>2. SumFunctionOnSet(w, On({})) = 0
    BY <2>1, SumEmpty
  <2>. QED BY <1>1, <2>2, FS_EmptySet
<1>3. ASSUME NEW Q \in SUBSET M, NEW m \in M, Q \in Good, m \notin Q
      PROVE  Q \cup {m} \in Good
  <2>1. On(Q \cup {m}) = On(Q) \cup OnMachine(at, m)
    BY DEF OnMachine
  <2>2. On(Q) \cap OnMachine(at, m) = {}
    BY <1>3 DEF OnMachine
  <2>3. On(Q) \in SUBSET Job /\ OnMachine(at, m) \in SUBSET Job
    BY DEF OnMachine
  <2>4. SumFunctionOnSet(w, On(Q)) <= Cardinality(Q) * limit
    BY <1>3
  <2> HIDE DEF On
  <2>5. /\ IsFiniteSet(On(Q)) /\ IsFiniteSet(OnMachine(at, m))
        /\ \A j \in On(Q) \cup OnMachine(at, m) : w[j] \in Int
        /\ SumFunctionOnSet(w, On(Q)) \in Int
        /\ SumFunctionOnSet(w, OnMachine(at, m)) \in Int
    BY <1>1, <2>3, MachineTypes
  <2>6. SumFunctionOnSet(w, On(Q \cup {m}))
          = SumFunctionOnSet(w, On(Q)) + SumFunctionOnSet(w, OnMachine(at, m))
    BY <2>1, <2>2, <2>5, SumUnion, ZenonT(60)
  <2>7. SumFunctionOnSet(w, OnMachine(at, m)) <= limit
    BY <1>1
  <2>8. Cardinality(Q) \in Int /\ Cardinality(Q \cup {m}) = Cardinality(Q) + 1
    <3>1. IsFiniteSet(Q)
      BY <1>1, FS_Subset
    <3>. QED BY <1>3, <3>1, FS_CardinalityType, FS_AddElement
  <2>9. \A c, s1, s2, l \in Int : s1 <= c * l /\ s2 <= l => s1 + s2 <= (c + 1) * l
    OBVIOUS
  <2>10. SumFunctionOnSet(w, On(Q \cup {m})) <= Cardinality(Q \cup {m}) * limit
    BY <1>1, <2>4, <2>5, <2>6, <2>7, <2>8, <2>9
  <2>. QED BY <2>10 DEF On
<1> HIDE DEF Good
<1>4. M \in Good
  BY <1>1, <1>2, <1>3, FiniteInduction
<1>5. On(M) = Job
  BY <1>1
<1>. QED BY <1>4, <1>5 DEF Good

LEMMA ParallelFits ==
  ASSUME NEW w, NEW at, NEW M, NEW limit, Fits(w, at, M, limit), Job # {}
  PROVE  /\ Cardinality(M) \in Nat \ {0}
         /\ CeilDiv(SumFunction(w), Cardinality(M)) \in Int
         /\ CeilDiv(SumFunction(w), Cardinality(M)) <= limit
<1>1. IsFiniteSet(M) /\ M # {} /\ w \in [Job -> Nat] /\ limit \in Int
  BY DEF Fits
<1>2. Cardinality(M) \in Nat \ {0}
  BY <1>1, FS_CardinalityType, FS_EmptySet
<1>3. SumFunction(w) = SumFunctionOnSet(w, Job)
  BY <1>1 DEF SumFunction
<1>4. SumFunction(w) \in Int
  BY <1>1, <1>3, MachineTypes
<1>5. SumFunction(w) <= Cardinality(M) * limit
  BY <1>3, TotalFits
<1>. QED BY <1>1, <1>2, <1>4, <1>5, CeilDivBelow

(* In quanta, rounded down, a machine has no more than the limit has.      *)
LEMMA QuantumFits ==
  ASSUME NEW w, NEW at, NEW M, NEW limit, Fits(w, at, M, limit), Job # {},
         NEW q \in Nat \ {0}
  PROVE  /\ QuantumBound(w, Cardinality(M), q) \in Int
         /\ QuantumBound(w, Cardinality(M), q) <= limit
<1>1. /\ IsFiniteSet(M) /\ w \in [Job -> Nat] /\ at \in [Job -> M] /\ limit \in Int
      /\ \A m \in M : SumFunctionOnSet(w, OnMachine(at, m)) <= limit
  BY DEF Fits
<1> DEFINE v == [j \in Job |-> w[j] \div q]
           s == [j \in Job |-> q * v[j]]
<1>2. \A j \in Job : v[j] \in Nat /\ s[j] = q * v[j] /\ s[j] \in Nat /\ s[j] <= w[j]
  <2>1. \A x \in Nat : x \div q \in Nat /\ q * (x \div q) \in Nat /\ q * (x \div q) <= x
    OBVIOUS
  <2>. QED BY <1>1, <2>1
<1>3. v \in [Job -> Nat] /\ s \in [Job -> Nat]
  BY <1>2
<1>4. QuantumBound(w, Cardinality(M), q) = q * CeilDiv(SumFunction(v), Cardinality(M))
  BY DEF QuantumBound
<1> HIDE DEF v, s
<1>5. ASSUME NEW m \in M
      PROVE  SumFunctionOnSet(v, OnMachine(at, m)) <= limit \div q
  <2> DEFINE S == OnMachine(at, m)
  <2>1. S \in SUBSET Job
    BY DEF OnMachine
  <2> HIDE DEF S
  <2>2. IsFiniteSet(S) /\ SumFunctionOnSet(v, S) \in Nat /\ SumFunctionOnSet(w, S) \in Nat
    BY <1>1, <1>3, <2>1, MachineTypes
  <2>3. SumFunctionOnSet(s, S) = q * SumFunctionOnSet(v, S)
    <3>1. \A j \in S : v[j] \in Int /\ s[j] = q * v[j]
      BY <1>2, <2>1
    <3>. QED BY <2>2, <3>1, SumScale
  <2>4. SumFunctionOnSet(s, S) <= SumFunctionOnSet(w, S)
    <3>1. \A j \in S : s[j] \in Int /\ w[j] \in Int /\ s[j] <= w[j]
      BY <1>1, <1>2, <2>1
    <3>. QED BY <2>2, <3>1, SumMonotone
  <2>5. SumFunctionOnSet(w, S) <= limit
    BY <1>1 DEF S
  <2>6. \A a \in Nat : q * a <= limit => a <= limit \div q
    BY <1>1
  <2>7. q * SumFunctionOnSet(v, S) <= limit
    <3>1. q * SumFunctionOnSet(v, S) \in Int
      BY <2>2
    <3>. QED BY <1>1, <2>2, <2>3, <2>4, <2>5, <3>1
  <2>8. SumFunctionOnSet(v, S) <= limit \div q
    BY <2>2, <2>6, <2>7
  <2>. QED BY <2>8 DEF S
<1>6. limit \div q \in Int /\ q * (limit \div q) <= limit
  BY <1>1, DivMod
<1>7. Fits(v, at, M, limit \div q)
  BY <1>1, <1>3, <1>5, <1>6 DEF Fits
<1>8. /\ CeilDiv(SumFunction(v), Cardinality(M)) \in Int
      /\ CeilDiv(SumFunction(v), Cardinality(M)) <= limit \div q
  BY <1>7, ParallelFits
<1>9. \A a, b \in Int : a <= b => q * a \in Int /\ q * a <= q * b
  OBVIOUS
<1>10. q * CeilDiv(SumFunction(v), Cardinality(M)) \in Int
       /\ q * CeilDiv(SumFunction(v), Cardinality(M)) <= q * (limit \div q)
  BY <1>6, <1>8, <1>9
<1>11. q * (limit \div q) \in Int
  BY <1>6
<1>. QED BY <1>1, <1>4, <1>6, <1>10, <1>11

(* A load of multiples of g fits the largest multiple of g.                *)
LEMMA MultipleFits ==
  ASSUME NEW w, NEW at, NEW M, NEW limit, Fits(w, at, M, limit),
         NEW g \in Nat \ {0}, DividesAll(w, g)
  PROVE  Fits(w, at, M, g * (limit \div g))
<1>1. /\ IsFiniteSet(M) /\ w \in [Job -> Nat] /\ at \in [Job -> M] /\ limit \in Int
      /\ \A m \in M : SumFunctionOnSet(w, OnMachine(at, m)) <= limit
  BY DEF Fits
<1> DEFINE v == [j \in Job |-> w[j] \div g]
<1>2. \A j \in Job : v[j] \in Nat /\ w[j] = g * v[j]
  <2>1. \A x \in Nat : x % g = 0 => x \div g \in Nat /\ x = g * (x \div g)
    OBVIOUS
  <2>. QED BY <1>1, <2>1 DEF DividesAll
<1>3. v \in [Job -> Nat]
  BY <1>2
<1> HIDE DEF v
<1>4. ASSUME NEW m \in M
      PROVE  SumFunctionOnSet(w, OnMachine(at, m)) <= g * (limit \div g)
  <2> DEFINE S == OnMachine(at, m)
  <2>1. S \in SUBSET Job
    BY DEF OnMachine
  <2>5. SumFunctionOnSet(w, S) <= limit
    BY <1>1
  <2> HIDE DEF S
  <2>2. IsFiniteSet(S) /\ SumFunctionOnSet(v, S) \in Nat
    BY <1>3, <2>1, MachineTypes
  <2>3. SumFunctionOnSet(w, S) = g * SumFunctionOnSet(v, S)
    <3>1. \A j \in S : v[j] \in Int /\ w[j] = g * v[j]
      BY <1>2, <2>1
    <3>. QED BY <2>2, <3>1, SumScale
  <2>4. \A a \in Nat : g * a <= limit => g * a <= g * (limit \div g)
    <3>1. PICK k \in Int : k = limit \div g
      BY <1>1, DivMod
    <3>2. \A a \in Nat : g * a <= limit => a <= k
      BY <1>1, <3>1
    <3>3. \A a \in Int : a <= k => g * a <= g * k
      OBVIOUS
    <3>4. \A a \in Nat : g * a <= limit => g * a <= g * k
      BY <3>2, <3>3
    <3>. QED BY <3>1, <3>4
  <2>6. SumFunctionOnSet(w, S) <= g * (limit \div g)
    BY <2>2, <2>3, <2>4, <2>5
  <2>. QED BY <2>6 DEF S
<1>5. g * (limit \div g) \in Int
  BY <1>1, DivMod
<1>. QED BY <1>1, <1>4, <1>5 DEF Fits

LongestJob(w)  == Max(Range(w))
LoadBound(w, n) ==
  Max({LongestJob(w), CeilDiv(SumFunction(w), n)}
        \cup {QuantumBound(w, n, q) : q \in 1 .. LongestJob(w)})
JobDivisor(w)  == Max({d \in 1 .. LongestJob(w) : DividesAll(w, d)})

LEMMA LongestFits ==
  ASSUME NEW w, NEW at, NEW M, NEW limit, Fits(w, at, M, limit), Job # {},
         \A j \in Job : w[j] >= 1
  PROVE  /\ LongestJob(w) \in Nat \ {0} /\ LongestJob(w) <= limit
         /\ \A j \in Job : w[j] <= LongestJob(w)
<1>1. /\ w \in [Job -> Nat] /\ at \in [Job -> M] /\ limit \in Int
      /\ \A m \in M : SumFunctionOnSet(w, OnMachine(at, m)) <= limit
  BY DEF Fits
<1>2. Range(w) = {w[j] : j \in Job} /\ DOMAIN w = Job
  BY <1>1 DEF Range
<1>3. IsFiniteSet(Range(w)) /\ Range(w) \in SUBSET Int /\ Range(w) # {}
  <2>1. IsFiniteSet(Job)
    BY PortAssumption
  <2>2. IsFiniteSet({w[j] : j \in Job})
    BY <1>2, <2>1, FiniteImage
  <2>. QED BY <1>1, <1>2, <2>2
<1>4. LongestJob(w) \in Range(w) /\ \A y \in Range(w) : y <= LongestJob(w)
  BY <1>3, FiniteMax DEF LongestJob
<1>5. PICK j \in Job : LongestJob(w) = w[j]
  BY <1>2, <1>4
<1>6. w[j] <= limit
  <2>1. OnMachine(at, at[j]) \in SUBSET Job /\ j \in OnMachine(at, at[j]) /\ at[j] \in M
    BY <1>1 DEF OnMachine
  <2>2. /\ w[j] <= SumFunctionOnSet(w, OnMachine(at, at[j]))
        /\ SumFunctionOnSet(w, OnMachine(at, at[j])) \in Nat
    BY <1>1, <2>1, MachineTypes
  <2>3. SumFunctionOnSet(w, OnMachine(at, at[j])) <= limit
    BY <1>1, <2>1
  <2>. QED BY <1>1, <2>2, <2>3
<1>. QED BY <1>1, <1>2, <1>4, <1>5, <1>6

LEMMA LoadFits ==
  ASSUME NEW w, NEW at, NEW M, NEW limit, Fits(w, at, M, limit), Job # {},
         \A j \in Job : w[j] >= 1
  PROVE  LoadBound(w, Cardinality(M)) \in Int /\ LoadBound(w, Cardinality(M)) <= limit
<1> DEFINE n == Cardinality(M)
           L == LongestJob(w)
           C == CeilDiv(SumFunction(w), n)
           f == [q \in 1 .. L |-> QuantumBound(w, n, q)]
           S == {L, C} \cup {f[q] : q \in 1 .. L}
<1>1. L \in Nat \ {0} /\ L <= limit /\ C \in Int /\ C <= limit
  BY LongestFits, ParallelFits
<1>2. \A q \in 1 .. L : QuantumBound(w, n, q) \in Int /\ QuantumBound(w, n, q) <= limit
  <2>. TAKE q \in 1 .. L
  <2>1. q \in Nat \ {0}
    BY <1>1
  <2>. QED BY <2>1, QuantumFits
<1>3. LoadBound(w, n) = Max(S)
  <2>1. {f[q] : q \in 1 .. L} = {QuantumBound(w, n, q) : q \in 1 .. L}
    OBVIOUS
  <2>. QED BY <2>1 DEF LoadBound
<1>4. DOMAIN f = 1 .. L /\ \A q \in 1 .. L : f[q] \in Int /\ f[q] <= limit
  BY <1>2
<1>5. IsFiniteSet({f[q] : q \in 1 .. L})
  <2>1. IsFiniteSet(1 .. L)
    BY <1>1, FS_Interval
  <2> HIDE DEF f
  <2>. QED BY <1>4, <2>1, FiniteImage
<1> HIDE DEF f, n, L, C
<1>6. IsFiniteSet(S) /\ S \in SUBSET Int /\ S # {} /\ \A x \in S : x <= limit
  <2>1. IsFiniteSet({L, C})
    <3>1. {L, C} = {L} \cup {C}
      OBVIOUS
    <3>2. IsFiniteSet({L}) /\ IsFiniteSet({C})
      BY FS_Singleton
    <3>. QED BY <3>1, <3>2, FS_Union
  <2>2. IsFiniteSet(S)
    BY <1>5, <2>1, FS_Union
  <2>. QED BY <1>1, <1>4, <2>2
<1> HIDE DEF S
<1>7. Max(S) \in S
  BY <1>6, FiniteMax
<1>. QED BY <1>3, <1>6, <1>7 DEF n

(* fixed_job_parallel_lower_bound_cycles is a lower bound of every         *)
(* assignment of the jobs to that many machines, its rounding up to the    *)
(* common divisor of the jobs included.                                    *)
LEMMA FixedJobFits ==
  ASSUME NEW w, NEW at, NEW M, NEW limit, Fits(w, at, M, limit), Job # {},
         \A j \in Job : w[j] >= 1
  PROVE  /\ FixedJobBound(w, Cardinality(M)) \in Int
         /\ FixedJobBound(w, Cardinality(M)) <= limit
<1> DEFINE g == JobDivisor(w)
           D == {d \in 1 .. LongestJob(w) : DividesAll(w, d)}
           B == LoadBound(w, Cardinality(M))
<1>1. w \in [Job -> Nat] /\ limit \in Int /\ LongestJob(w) \in Nat \ {0}
  BY LongestFits DEF Fits
<1>2. g \in D
  <2>1. 1 \in D
    <3>1. \A x \in Nat : x % 1 = 0
      OBVIOUS
    <3>. QED BY <1>1, <3>1 DEF DividesAll
  <2>2. D \in SUBSET (1 .. LongestJob(w)) /\ D \in SUBSET Int /\ D # {}
    BY <1>1, <2>1
  <2>3. IsFiniteSet(D)
    <3>1. IsFiniteSet(1 .. LongestJob(w))
      BY <1>1, FS_Interval
    <3>. QED BY <2>2, <3>1, FS_Subset
  <2> HIDE DEF D
  <2>4. Max(D) \in D
    BY <2>2, <2>3, FiniteMax
  <2>. QED BY <2>4 DEF D, JobDivisor
<1>3. g \in Nat \ {0} /\ DividesAll(w, g)
  BY <1>1, <1>2
<1>4. FixedJobBound(w, Cardinality(M)) = CeilDiv(B, g) * g
  BY DEF FixedJobBound, JobDivisor, LoadBound, LongestJob
<1> HIDE DEF g, D, B
<1>5. PICK k \in Int : k = limit \div g /\ g * k <= limit
  <2>1. limit \div g \in Int /\ limit % g \in 0 .. g - 1
        /\ limit = g * (limit \div g) + (limit % g)
    BY <1>1, <1>3, DivMod
  <2>2. PICK k \in Int : k = limit \div g
    BY <2>1
  <2>3. PICK r \in Nat : limit = g * k + r
    BY <1>3, <2>1, <2>2
  <2>4. g * k \in Int
    BY <1>3
  <2>. QED BY <2>2, <2>3, <2>4
<1>6. Fits(w, at, M, g * k)
  BY <1>3, <1>5, MultipleFits
<1>7. B \in Int /\ B <= g * k
  BY <1>6, LoadFits DEF B
<1>8. CeilDiv(B, g) \in Int /\ CeilDiv(B, g) <= k
  BY <1>3, <1>5, <1>7, CeilDivBelow
<1>9. \A a \in Int : a <= k => a * g \in Int /\ a * g <= g * k
  BY <1>3, <1>5
<1>10. CeilDiv(B, g) * g \in Int /\ CeilDiv(B, g) * g <= g * k
  BY <1>8, <1>9
<1>11. g * k \in Int
  BY <1>3, <1>5
<1>. QED BY <1>1, <1>4, <1>5, <1>10, <1>11

(* A bank that spends s sectors on k rows within a number of cycles has    *)
(* the capacity _capacity_per_bank computes for them: full rows first.     *)
LEMMA RowsFit ==
  ASSUME NEW cycles \in Nat, NEW s \in Nat, NEW k \in Nat, s <= SectorsPerRow * k,
         SectorCycles * s + RechargeCycles * k <= cycles
  PROVE  CapacityPerBank(cycles) \in Int /\ s <= CapacityPerBank(cycles)
<1> DEFINE P == SectorsPerRow
           C == SectorCycles
           R == RechargeCycles
           q == cycles \div FullRow
           rest == cycles % FullRow
           more == IF rest >= R + C THEN Min({P, (rest - R) \div C}) ELSE 0
<1>1. P \in Nat \ {0} /\ C \in Nat \ {0} /\ R \in Nat
  BY PortAssumption
<1>2. FullRow = P * C + R
  BY DEF FullRow
<1>3. CapacityPerBank(cycles) = q * P + more
  BY DEF CapacityPerBank
<1>4. s <= P * k /\ C * s + R * k <= cycles
  OBVIOUS
<1> HIDE DEF P, C, R
<1>5. FullRow \in Nat \ {0}
  <2>1. \A m, n \in Nat \ {0} : m * n \in Nat \ {0}
    OBVIOUS
  <2>2. P * C \in Nat \ {0}
    BY <1>1, <2>1
  <2>. QED BY <1>1, <1>2, <2>2
<1>6. /\ q \in Nat /\ rest \in Nat /\ rest < FullRow
      /\ cycles = FullRow * q + rest
  <2>1. \A d \in Nat \ {0} : /\ cycles \div d \in Nat /\ cycles % d \in Nat
                             /\ cycles % d < d /\ cycles = d * (cycles \div d) + (cycles % d)
    OBVIOUS
  <2>. QED BY <1>5, <2>1
<1> HIDE DEF q, rest
<1>7. /\ more \in Nat
      /\ rest >= R + C => more = P \/ more = (rest - R) \div C
  <2>1. CASE rest >= R + C
    <3>1. (rest - R) \div C \in Nat
      <4>1. \A a \in Nat : a \div C \in Nat
        BY <1>1
      <4>2. rest - R \in Nat
        BY <1>1, <1>6, <2>1
      <4>. QED BY <4>1, <4>2
    <3>2. {P, (rest - R) \div C} \in SUBSET Nat /\ {P, (rest - R) \div C} # {}
      BY <1>1, <3>1
    <3>3. Min({P, (rest - R) \div C}) \in {P, (rest - R) \div C}
      BY <3>2, NatMin
    <3>. QED BY <1>1, <2>1, <3>1, <3>3
  <2>2. CASE ~ (rest >= R + C)
    BY <2>2
  <2>. QED BY <2>1, <2>2
<1> HIDE DEF more
<1>8. q * P \in Nat
  BY <1>1, <1>6
<1>9. CASE s <= q * P
  BY <1>3, <1>7, <1>8, <1>9
<1>10. CASE ~ (s <= q * P)
  <2>1. k >= q + 1
    <3>1. SUFFICES ASSUME k <= q PROVE s <= q * P
      BY <1>6, <1>10
    <3>2. P * k <= q * P /\ P * k \in Nat
      BY <1>1, <1>6, <3>1
    <3>. QED BY <1>4, <1>8, <3>2
  <2>2. PICK d \in Nat : s = q * P + d /\ d >= 1
    <3>1. s - q * P \in Nat /\ s - q * P >= 1 /\ s = q * P + (s - q * P)
      BY <1>8, <1>10
    <3>. QED BY <3>1
  <2>3. C * d <= rest - R
    <3>1. R * k >= R * q + R
      BY <1>1, <1>6, <2>1
    <3>2. C * s = C * (q * P) + C * d
      BY <1>1, <1>6, <1>8, <2>2
    <3>3. FullRow * q = C * (q * P) + R * q
      BY <1>1, <1>2, <1>6
    <3>4. /\ C * s \in Int /\ R * k \in Int /\ R * q \in Int /\ C * (q * P) \in Int
          /\ C * d \in Int
      BY <1>1, <1>6, <1>8, <2>2
    <3>5. \A x, y, z, u, v \in Int : x = y + v /\ x + z <= y + u + rest /\ z >= u + R
             => v <= rest - R
      BY <1>1, <1>6
    <3>6. C * s + R * k <= C * (q * P) + R * q + rest
      BY <1>4, <1>6, <3>3
    <3>. QED BY <3>1, <3>2, <3>4, <3>5, <3>6
  <2>4. rest >= R + C
    <3>1. C <= C * d /\ C * d \in Nat
      BY <1>1, <2>2
    <3>. QED BY <1>1, <1>6, <2>3, <3>1
  <2>5. d <= (rest - R) \div C
    <3>1. \A a \in Int : C * d <= a => d <= a \div C
      BY <1>1
    <3>. QED BY <1>1, <1>6, <2>3, <3>1
  <2>6. d <= P
    <3>1. rest - R < P * C
      <4>1. P * C \in Int
        BY <1>1
      <4>. QED BY <1>1, <1>2, <1>6, <4>1
    <3>2. C * d < P * C
      <4>1. C * d \in Int /\ P * C \in Int
        BY <1>1
      <4>. QED BY <1>1, <1>6, <2>3, <3>1, <4>1
    <3>3. \A a, b \in Nat : C * a < b * C => a <= b
      BY <1>1
    <3>. QED BY <1>1, <3>2, <3>3
  <2>7. d <= more /\ more \in Nat
    BY <1>7, <2>4, <2>5, <2>6
  <2>. QED BY <1>3, <1>8, <2>2, <2>7
<1>. QED BY <1>9, <1>10

(* The packing bound: no distribution of the jobs to banks is faster.      *)
LEMMA PackingFits ==
  ASSUME LedgerTypeOK, finish \in Nat, Fits(Turn, bank, Bank, finish)
  PROVE  PackingBound(SectorCount) <= finish
<1> DEFINE one   == [j \in Job |-> 1]
           count == SectorCount
           M     == Layers * Width
           U     == FullRow * (CeilDiv(count, M) + 1)
           Enough == {c \in 0 .. U : CapacityPerBank(c) * Layers * Width >= count}
<1>1. /\ sectors \in [Job -> Nat] /\ one \in [Job -> Nat] /\ Turn \in [Job -> Nat]
      /\ bank \in [Job -> Bank]
      /\ \A j \in Job : /\ sectors[j] <= SectorsPerRow * one[j]
                        /\ Turn[j] = SectorCycles * sectors[j] + RechargeCycles * one[j]
  <2>1. bank \in [Job -> Bank] /\ sectors \in [Job -> Nat]
        /\ \A j \in Job : sectors[j] \in Nat /\ sectors[j] <= SectorsPerRow
    BY PortAssumption DEF LedgerTypeOK
  <2>2. \A j \in Job : SectorsPerRow * one[j] = SectorsPerRow /\ RechargeCycles * one[j] = RechargeCycles
    BY PortAssumption
  <2>3. \A j \in Job : Turn[j] \in Nat /\ Turn[j] = Data(j) + RechargeCycles
    BY WorkTypes
  <2>4. Turn \in [Job -> Nat]
    BY <2>3 DEF Turn
  <2>. QED BY <2>1, <2>2, <2>3, <2>4 DEF Data
<1> HIDE DEF one
<1>2. M \in Nat \ {0} /\ Cardinality(Bank) = M /\ IsFiniteSet(Bank)
  <2>1. \A m, n \in Nat \ {0} : m * n \in Nat \ {0}
    OBVIOUS
  <2>2. M \in Nat \ {0}
    BY <2>1, PortAssumption
  <2>3. Bank = 0 .. M - 1
    BY DEF Bank
  <2>. QED BY <2>2, <2>3, FS_Interval
<1> HIDE DEF M
<1>3. ASSUME NEW b \in Bank
      PROVE  /\ CapacityPerBank(finish) \in Int
             /\ SumFunctionOnSet(sectors, OnMachine(bank, b)) <= CapacityPerBank(finish)
  <2> DEFINE S == OnMachine(bank, b)
  <2>1. S \in SUBSET Job
    BY DEF OnMachine
  <2>2. SumFunctionOnSet(Turn, S) <= finish
    BY DEF Fits
  <2> HIDE DEF S
  <2>3. /\ IsFiniteSet(S) /\ SumFunctionOnSet(sectors, S) \in Nat
        /\ SumFunctionOnSet(one, S) \in Nat
    BY <1>1, <2>1, MachineTypes
  <2>4. SumFunctionOnSet(sectors, S) <= SectorsPerRow * SumFunctionOnSet(one, S)
    <3> DEFINE rows == [j \in Job |-> SectorsPerRow * one[j]]
    <3>1. \A j \in S : /\ rows[j] \in Int /\ one[j] \in Int /\ sectors[j] \in Int
                       /\ rows[j] = SectorsPerRow * one[j] /\ sectors[j] <= rows[j]
      BY <1>1, <2>1, PortAssumption
    <3> HIDE DEF rows
    <3>2. SumFunctionOnSet(rows, S) = SectorsPerRow * SumFunctionOnSet(one, S)
      BY <2>3, <3>1, SumScale, PortAssumption
    <3>3. SumFunctionOnSet(sectors, S) <= SumFunctionOnSet(rows, S)
      BY <2>3, <3>1, SumMonotone
    <3>. QED BY <3>2, <3>3
  <2>5. SumFunctionOnSet(Turn, S)
          = SectorCycles * SumFunctionOnSet(sectors, S)
              + RechargeCycles * SumFunctionOnSet(one, S)
    <3>1. \A j \in S : /\ sectors[j] \in Int /\ one[j] \in Int
                       /\ Turn[j] = SectorCycles * sectors[j] + RechargeCycles * one[j]
      BY <1>1, <2>1
    <3>2. SectorCycles \in Int /\ RechargeCycles \in Int
      BY PortAssumption
    <3>. QED BY <2>3, <3>1, <3>2, SumLinear
  <2>. QED BY <2>2, <2>3, <2>4, <2>5, RowsFit DEF S
<1>4. Fits(sectors, bank, Bank, CapacityPerBank(finish))
  <2>1. \E b : b \in Bank
    <3>1. 0 \in 0 .. M - 1
      BY <1>2
    <3>. QED BY <3>1 DEF Bank, M
  <2>. QED BY <1>1, <1>2, <1>3, <2>1 DEF Fits
<1>5. CapacityPerBank(finish) \in Int /\ count \in Nat
  <2>1. \E b : b \in Bank
    <3>1. 0 \in 0 .. M - 1
      BY <1>2
    <3>. QED BY <3>1 DEF Bank, M
  <2>2. SectorCount = SumFunctionOnSet(sectors, Job)
    BY <1>1 DEF SectorCount, SumFunction
  <2>. QED BY <1>1, <1>3, <2>1, <2>2, MachineTypes
<1>6. CapacityPerBank(finish) * Layers * Width >= count
  <2>1. SumFunctionOnSet(sectors, Job) <= M * CapacityPerBank(finish)
    BY <1>2, <1>4, TotalFits
  <2>2. SectorCount = SumFunctionOnSet(sectors, Job)
    BY <1>1 DEF SectorCount, SumFunction
  <2>3. \A x \in Int : M * x = x * Layers * Width
    BY PortAssumption DEF M
  <2>. QED BY <1>5, <2>1, <2>2, <2>3
<1>7. U \in Enough
  <2> DEFINE c == CeilDiv(count, M)
  <2>1. c \in Nat /\ count <= M * c
    <3>1. CeilDiv(count, M) \in Nat
      BY <1>2, <1>5 DEF CeilDiv
    <3>. QED BY <1>2, <1>5, <3>1, CeilDivAbove
  <2> HIDE DEF c
  <2>2. FullRow \in Nat \ {0}
    <3>1. \A m, n \in Nat \ {0} : \A r \in Nat : m * n + r \in Nat \ {0}
      OBVIOUS
    <3>. QED BY <3>1, PortAssumption DEF FullRow
  <2>3. U = FullRow * (c + 1) /\ U \in Nat
    <3>1. U = FullRow * (c + 1)
      BY DEF c
    <3>2. FullRow * (c + 1) \in Nat
      BY <2>1, <2>2
    <3>. QED BY <3>1, <3>2
  <2>4. U \div FullRow = c + 1 /\ U % FullRow = 0
    <3>1. \A d \in Nat \ {0} : \A k \in Nat : (d * k) \div d = k /\ (d * k) % d = 0
      OBVIOUS
    <3>. QED BY <2>1, <2>2, <2>3, <3>1, SMTT(60)
  <2>5. CapacityPerBank(U) = (c + 1) * SectorsPerRow
    <3>1. ~ (0 >= RechargeCycles + SectorCycles)
      BY PortAssumption
    <3>2. (c + 1) * SectorsPerRow + 0 = (c + 1) * SectorsPerRow
      BY <2>1, PortAssumption
    <3> HIDE DEF U
    <3>. QED BY <2>4, <3>1, <3>2 DEF CapacityPerBank
  <2>6. CapacityPerBank(U) * Layers * Width >= count
    <3>1. (c + 1) * SectorsPerRow \in Nat /\ c <= (c + 1) * SectorsPerRow
      BY <2>1, PortAssumption
    <3>2. PICK x \in Nat : x = (c + 1) * SectorsPerRow
      BY <3>1
    <3>3. M * c <= M * x /\ M * c \in Nat /\ M * x \in Nat
      BY <1>2, <2>1, <3>1, <3>2
    <3>4. x * Layers * Width = M * x
      BY <3>2, PortAssumption DEF M
    <3>. QED BY <1>5, <2>1, <2>5, <3>2, <3>3, <3>4
  <2>. QED BY <2>3, <2>6
<1>8. U \in Nat /\ Enough \in SUBSET Nat /\ PackingBound(SectorCount) = Min(Enough)
  BY <1>7 DEF PackingBound, M
<1> HIDE DEF U
<1>9. finish <= U => finish \in Enough
  BY <1>6, <1>8
<1>10. Enough # {} /\ \A x \in Enough : x <= U
  BY <1>7, <1>8
<1> HIDE DEF Enough
<1>11. Min(Enough) \in Enough /\ \A x \in Enough : Min(Enough) <= x
  BY <1>8, <1>10, NatMin
<1>12. Min(Enough) \in Nat /\ Min(Enough) <= U /\ (finish <= U => Min(Enough) <= finish)
  BY <1>8, <1>9, <1>10, <1>11
<1>. QED BY <1>8, <1>12

------------------------------------------------------------------------------
(* At the end the banks hold all jobs and none is busy beyond the finish;  *)
(* nor is a port, which carries bursts only and leaves the last recharge.  *)
LEMMA BanksFit ==
  ASSUME PortInv, column = Width
  PROVE  finish \in Nat /\ Fits(Turn, bank, Bank, finish)
<1>1. LedgerTypeOK /\ FinishKnown /\ LoadsFit
  BY DEF PortInv, Ledger
<1>2. /\ Turn \in [Job -> Nat] /\ bank \in [Job -> Bank] /\ IsFiniteSet(Bank)
      /\ \A b \in Bank : OnMachine(bank, b) = {j \in Job : bank[j] = b}
  <2>1. Turn \in [Job -> Nat]
    BY <1>1, WorkTypes DEF Turn
  <2>2. IsFiniteSet(Bank)
    BY FS_Interval, PortAssumption DEF Bank
  <2>3. bank \in [Job -> Bank]
    BY <1>1 DEF LedgerTypeOK
  <2>. QED BY <2>1, <2>2, <2>3 DEF OnMachine
<1>3. \A b \in Bank : Load(b) = SumFunctionOnSet(Turn, OnMachine(bank, b))
  BY <1>2 DEF Load
<1>4. CASE Connected = Layers
  <2>1. finish = CriticalPath
    BY <1>1, <1>4 DEF FinishKnown
  <2>2. PICK b \in Bank : CriticalPath = Load(b)
    BY <1>1, LoadTypes
  <2>3. SumFunctionOnSet(Turn, OnMachine(bank, b)) \in Nat
    <3>1. OnMachine(bank, b) \in SUBSET Job
      BY DEF OnMachine
    <3>. QED BY <1>2, <3>1, MachineTypes
  <2>4. finish \in Nat
    BY <1>3, <2>1, <2>2, <2>3
  <2>5. \A c \in Bank : Load(c) <= finish
    BY <1>1, <2>1, LoadTypes
  <2>. QED BY <1>2, <1>3, <2>4, <2>5 DEF Fits
<1>5. CASE Connected < Layers
  <2>1. /\ finish \in Nat
        /\ \A b \in Bank : Worked(b) = Load(b) /\ Load(b) <= bankReady[b]
        /\ \A b \in Bank : bankReady[b] <= finish /\ bankReady[b] \in Nat
    BY <1>1, <1>5, AllPlaced DEF FinishKnown, LoadsFit, LedgerTypeOK
  <2>2. \A b \in Bank : Load(b) <= finish
    BY <1>1, <2>1, LoadTypes
  <2>. QED BY <1>2, <1>3, <2>1, <2>2 DEF Fits
<1>. QED BY <1>4, <1>5, PortAssumption

LEMMA PortsFit ==
  ASSUME PortInv, column = Width, Job # {}
  PROVE  \E at, M : /\ Cardinality(M) = Connected * Width
                    /\ Fits(Burst, at, M, finish - RechargeCycles)
<1>1. LedgerTypeOK /\ FinishKnown /\ LoadsFit
  BY DEF PortInv, Ledger
<1>2. finish \in Nat /\ Fits(Turn, bank, Bank, finish)
  BY BanksFit
<1>3. /\ Burst \in [Job -> Nat] /\ Turn \in [Job -> Nat] /\ bank \in [Job -> Bank]
      /\ \A j \in Job : Turn[j] = Data(j) + RechargeCycles /\ Burst[j] = Data(j)
      /\ \A j \in Job : ColumnOf(bank[j]) \in Column /\ Data(j) \in Nat
      /\ IsFiniteSet(Column \X Port) /\ RechargeCycles \in Nat
      /\ Cardinality(Column \X Port) = Connected * Width
  <2>1. Turn \in [Job -> Nat] /\ Burst \in [Job -> Nat]
    BY <1>1, WorkTypes DEF Turn, Burst
  <2>2. /\ IsFiniteSet(Column) /\ Cardinality(Column) = Width
        /\ IsFiniteSet(Port) /\ Cardinality(Port) = Connected
    BY FS_Interval, PortAssumption DEF Column, Port
  <2>3. /\ IsFiniteSet(Column \X Port)
        /\ Cardinality(Column \X Port) = Connected * Width
    <3>1. Width * Connected = Connected * Width
      BY PortAssumption
    <3>. QED BY <2>2, <3>1, FS_Product
  <2>4. \A j \in Job : bank[j] \in Bank
    BY <1>1 DEF LedgerTypeOK
  <2>5. \A j \in Job : ColumnOf(bank[j]) \in Column
    <3>1. \A b \in Bank : ColumnOf(b) \in 0 .. Width - 1
      BY ColumnInRange, PortAssumption
    <3>. QED BY <2>4, <3>1 DEF Column
  <2>. QED BY <1>1, <2>1, <2>3, <2>4, <2>5, WorkTypes, DataPositive, PortAssumption
              DEF LedgerTypeOK
<1> DEFINE L == finish - RechargeCycles
<1>4. L \in Int
  BY <1>2, <1>3
(* An empty port has time left: some bank has a turn.                      *)
<1>5. 0 <= L
  <2>1. PICK j \in Job : TRUE
    OBVIOUS
  <2>2. /\ OnMachine(bank, bank[j]) \in SUBSET Job /\ j \in OnMachine(bank, bank[j])
        /\ bank[j] \in Bank
    BY <1>3 DEF OnMachine
  <2>3. /\ Turn[j] <= SumFunctionOnSet(Turn, OnMachine(bank, bank[j]))
        /\ SumFunctionOnSet(Turn, OnMachine(bank, bank[j])) \in Nat
    BY <1>3, <2>2, MachineTypes
  <2>4. SumFunctionOnSet(Turn, OnMachine(bank, bank[j])) <= finish
    BY <1>2, <2>2 DEF Fits
  <2>. QED BY <1>2, <1>3, <2>3, <2>4
<1>6. CASE Connected < Layers
  <2>1. DOMAIN placed = Job
    BY <1>6, AllPlaced
  <2> DEFINE at == [j \in Job |-> <<ColumnOf(bank[j]), placed[j].port>>]
  <2>2. at \in [Job -> Column \X Port]
    BY <1>1, <1>3, <2>1, PlacedNumbers
  <2>3. ASSUME NEW m \in Column \X Port
        PROVE  SumFunctionOnSet(Burst, OnMachine(at, m)) <= L
    <3>1. PICK c \in Column, p \in Port : m = <<c, p>>
      OBVIOUS
    <3>2. OnMachine(at, m) = OnPort(c, p)
      BY <2>1, <3>1 DEF OnMachine, OnPort
    <3>3. CASE OnPort(c, p) = {}
      BY <1>5, <3>2, <3>3, SumEmpty
    <3>4. CASE OnPort(c, p) # {}
      <4>1. Carried(c, p) + RechargeCycles <= finish /\ Carried(c, p) \in Int
        BY <1>1, <3>4, WorkTypes DEF LoadsFit
      <4>. QED BY <1>2, <1>3, <3>2, <4>1 DEF Carried
    <3>. QED BY <3>3, <3>4
  <2> HIDE DEF at, L
  <2>4. Fits(Burst, at, Column \X Port, L)
    BY <1>3, <1>4, <2>2, <2>3 DEF Fits
  <2>. QED BY <1>3, <2>4 DEF L
<1>7. CASE Connected = Layers
  <2>1. ASSUME NEW b \in Bank
        PROVE  SumFunctionOnSet(Burst, OnMachine(bank, b)) <= L
    <3> DEFINE S == OnMachine(bank, b)
    <3>1. S \in SUBSET Job
      BY DEF OnMachine
    <3>2. SumFunctionOnSet(Turn, S) <= finish
      BY <1>2 DEF Fits
    <3> HIDE DEF S
    <3>3. CASE S = {}
      BY <1>5, <3>3, SumEmpty DEF S
    <3>4. CASE S # {}
      <4>1. PICK x \in S : TRUE
        BY <3>4
      <4>2. S \ {x} \in SUBSET Job /\ x \in Job
        BY <3>1
      <4>3. /\ SumFunctionOnSet(Turn, S) = Turn[x] + SumFunctionOnSet(Turn, S \ {x})
            /\ SumFunctionOnSet(Burst, S) = Burst[x] + SumFunctionOnSet(Burst, S \ {x})
        <5>1. /\ IsFiniteSet(S) /\ \A j \in S : Turn[j] \in Int
              /\ \A j \in S : Burst[j] \in Int
          BY <1>3, <3>1, MachineTypes
        <5>. QED BY <5>1, SumMeasure
      <4>4. SumFunctionOnSet(Burst, S \ {x}) <= SumFunctionOnSet(Turn, S \ {x})
        <5>1. IsFiniteSet(S \ {x})
          BY <1>3, <4>2, MachineTypes
        <5>2. \A j \in S \ {x} : /\ Burst[j] \in Int /\ Turn[j] \in Int
                                  /\ Burst[j] <= Turn[j]
          BY <1>3, <4>2
        <5>. QED BY <5>1, <5>2, SumMonotone
      <4>5. /\ SumFunctionOnSet(Burst, S \ {x}) \in Nat
            /\ SumFunctionOnSet(Turn, S \ {x}) \in Nat
        BY <1>3, <4>2, MachineTypes
      <4>6. Turn[x] = Burst[x] + RechargeCycles /\ Burst[x] \in Nat
        BY <1>3, <4>2
      <4>7. SumFunctionOnSet(Burst, S) <= L
        BY <1>2, <1>3, <3>2, <4>3, <4>4, <4>5, <4>6
      <4>. QED BY <4>7 DEF S
    <3>. QED BY <3>3, <3>4
  <2>2. IsFiniteSet(Bank) /\ Cardinality(Bank) = Connected * Width
    <3>1. \A m, n \in Nat \ {0} : m * n \in Nat \ {0}
      OBVIOUS
    <3>2. Layers * Width \in Nat \ {0}
      BY <3>1, PortAssumption
    <3>. QED BY <1>7, <3>2, FS_Interval DEF Bank
  <2> HIDE DEF L
  <2>3. Fits(Burst, bank, Bank, L)
    BY <1>3, <1>4, <2>1, <2>2 DEF Fits
  <2>. QED BY <2>2, <2>3 DEF L
<1>. QED BY <1>6, <1>7, PortAssumption

(* The sector bound is the quantum bound of one sector.                    *)
LEMMA BoundsSafe == PortInv => BoundsAreSafe
<1> SUFFICES ASSUME PortInv, column = Width, Job # {}, NEW bound \in LowerBounds
             PROVE  bound <= finish
  BY DEF BoundsAreSafe
<1>1. LedgerTypeOK /\ finish \in Nat /\ Fits(Turn, bank, Bank, finish)
  BY BanksFit DEF PortInv, Ledger
<1>2. PICK at, M : /\ Cardinality(M) = Connected * Width
                   /\ Fits(Burst, at, M, finish - RechargeCycles)
  BY PortsFit
<1>3. /\ SectorCycles \in Nat \ {0} /\ RechargeCycles \in Nat
      /\ \A j \in Job : /\ Turn[j] \in Nat /\ Turn[j] >= 1
                        /\ Burst[j] \in Nat /\ Burst[j] >= 1
                        /\ Burst[j] = SectorCycles * sectors[j] /\ sectors[j] \in Nat
  <2>1. \A j \in Job : /\ Turn[j] = Data(j) + RechargeCycles /\ Burst[j] = Data(j)
                       /\ Data(j) \in Nat /\ Data(j) >= 1
    BY <1>1, WorkTypes, DataPositive
  <2>2. \A j \in Job : sectors[j] \in Nat
    BY <1>1, PortAssumption DEF LedgerTypeOK
  <2>3. \A j \in Job : Data(j) = SectorCycles * sectors[j]
    BY DEF Data
  <2>. QED BY <2>1, <2>2, <2>3, PortAssumption
<1>4. CASE bound = PackingBound(SectorCount)
  BY <1>1, <1>4, PackingFits
<1>5. CASE bound = SectorCycles * CeilDiv(SectorCount, Connected * Width)
  <2>1. [j \in Job |-> Burst[j] \div SectorCycles] = sectors
    <3>1. \A a \in Nat : (SectorCycles * a) \div SectorCycles = a
      BY <1>3
    <3>2. \A j \in Job : Burst[j] \div SectorCycles = sectors[j]
      BY <1>3, <3>1
    <3>3. sectors = [j \in Job |-> sectors[j]]
      BY <1>1 DEF LedgerTypeOK
    <3>. QED BY <3>2, <3>3
  <2>2. QuantumBound(Burst, Cardinality(M), SectorCycles) = bound
    BY <1>2, <1>5, <2>1 DEF QuantumBound, SectorCount
  <2>3. bound \in Int /\ bound <= finish - RechargeCycles
    BY <1>2, <1>3, <2>2, QuantumFits
  <2>. QED BY <1>1, <1>3, <2>3
<1>6. CASE bound = FixedJobBound(Turn, Layers * Width)
  <2>1. Cardinality(Bank) = Layers * Width
    <3>1. \A m, n \in Nat \ {0} : m * n \in Nat \ {0}
      OBVIOUS
    <3>2. Layers * Width \in Nat \ {0}
      BY <3>1, PortAssumption
    <3>. QED BY <3>2, FS_Interval DEF Bank
  <2>2. FixedJobBound(Turn, Cardinality(Bank)) <= finish
    BY <1>1, <1>3, FixedJobFits
  <2>. QED BY <1>6, <2>1, <2>2
<1>7. CASE bound = FixedJobBound(Burst, Connected * Width) + RechargeCycles
  <2>1. /\ FixedJobBound(Burst, Cardinality(M)) \in Int
        /\ FixedJobBound(Burst, Cardinality(M)) <= finish - RechargeCycles
    BY <1>2, <1>3, FixedJobFits
  <2>. QED BY <1>1, <1>2, <1>3, <1>7, <2>1
<1>. QED BY <1>4, <1>5, <1>6, <1>7 DEF LowerBounds

(* The inductive invariant of the schedule, for every stack and workload:   *)
(* the ledger, and where the clocks of ports and banks stand.              *)
THEOREM PortScheduleInvariant == ScheduleSpec => []PortInv
<1> QED BY PortInvInit, PortInvStep, PTL DEF ScheduleSpec

(* A port carries the data of one job at a time, and a bank issues a row   *)
(* only after its previous transfer and recharge.                          *)
THEOREM PortsAndBanksExclusive == ScheduleSpec => []NoConflict
<1>1. PortInv => NoConflict
  BY DEF PortInv, Ledger
<1> QED BY <1>1, PortScheduleInvariant, PTL

(* The schedule is work conserving: at every cycle at which the bank of a  *)
(* job could have issued it and did not, every port of its column was      *)
(* carrying data.                                                          *)
THEOREM NoPortIdles == ScheduleSpec => []NoIdlePort
<1>1. ScheduleInit => NoIdlePort
  BY DEF ScheduleInit, NoIdlePort
<1> QED BY <1>1, IdleStep, PortScheduleInvariant, PTL DEF ScheduleSpec

(* The shortcut of a fully connected stack is what the schedule itself     *)
(* would find wherever no column uses more banks than it has ports.        *)
THEOREM SharingCostsNothing == ScheduleSpec => []CriticalPathWhenPortsSuffice
<1> QED BY SharingCosts, PortScheduleInvariant, PTL

(* Every lower bound reported beside the schedule is one: the packing of   *)
(* rows into banks, the sectors per port, and the fixed-job bounds over    *)
(* banks and over ports, with their quanta and divisor rounding.           *)
THEOREM ReportedBoundsAreSafe == ScheduleSpec => []BoundsAreSafe
<1> QED BY BoundsSafe, PortScheduleInvariant, PTL

(* No job of a column is placed with a start before an earlier decision's. *)
THEOREM DecisionsInOrder == ScheduleSpec => StartsInOrder
<1> DEFINE Ordered ==
      \A j \in DOMAIN placed' \ DOMAIN placed, i \in DOMAIN placed :
        ColumnOf(bank[i]) = ColumnOf(bank[j]) =>
          placed[i].start <= placed'[j].start
<1>1. ASSUME PortInv, ScheduleNext PROVE Ordered
  <2>1. CASE ~ Place
    <3>1. DOMAIN placed' = DOMAIN placed
      BY <1>1, <2>1 DEF ScheduleNext, FullyConnected, NextColumn, Done, scheduleVars
    <3> QED BY <3>1
  <2>2. CASE Place
    <3>1. LedgerTypeOK
      BY <1>1 DEF PortInv, Ledger
    <3>2. PICK p \in Port, t \in Nat, b \in Unserved, k \in Job \ DOMAIN placed :
             /\ bank[k] = b /\ ColumnOf(b) = column
             /\ bankReady[b] <= t /\ ports[p] <= t
             /\ PlaceOn(p, t, b, k)
      BY <2>2, <3>1, PlaceGuards
    <3>3. b \in Bank
      BY DEF Unserved
    <3>6. After(p, t, b, k)
      BY <3>1, <3>2, <3>3, PlaceOnEffect
    <3>4. DOMAIN placed' = DOMAIN placed \cup {k} /\ placed'[k].start = t
      BY <3>6 DEF After
    <3>5. \A i \in DOMAIN placed :
            ColumnOf(bank[i]) = ColumnOf(bank[k]) => placed[i].start <= t
      BY <1>1, <3>2, PlaceInOrder DEF PortInv
    <3> QED BY <3>4, <3>5
  <2> QED BY <2>1, <2>2
<1>2. PortInv /\ [ScheduleNext]_scheduleVars => [Ordered]_scheduleVars
  BY <1>1
<1> QED BY <1>2, PortScheduleInvariant, PTL DEF ScheduleSpec, StartsInOrder
=============================================================================
