-------------------------- MODULE DistributedL2Proofs --------------------------
(***************************************************************************)
(* Theorems about DistributedL2Session, for any number of clusters, any    *)
(* capacities and any calls: its tables keep distinct copies on distinct   *)
(* DRAM sectors, every line away from its owner is recorded as a copy, a   *)
(* write meets no copy of what it writes, and its calls do what            *)
(* EpochReplay says of them.                                               *)
(***************************************************************************)
EXTENDS DistributedL2, FiniteProofs, SequenceTheorems

Line == Nat \X Int

(* What the proofs use of a call's requests.                               *)
Requests(items) ==
  /\ IsFiniteSet(items)
  /\ \A x \in items :
       /\ x.requester \in Nat /\ x.owner \in Nat /\ x.copy \in Nat
       /\ x.sectors \in SUBSET Nat /\ IsFiniteSet(x.sectors)
       /\ x.offset \in Int
       /\ x.interval \in (Int \X Int) \cup {None}

(* The three tables speak of the same owners, and no two intervals of one  *)
(* owner overlap.                                                          *)
TablesAgree ==
  /\ DOMAIN intervals \subseteq DOMAIN homes \cap Nat
  /\ \A k \in DOMAIN homes : homes[k] \in Nat \X Int
  /\ \A k \in DOMAIN intervals :
       /\ intervals[k] \in Nat \X Nat \X Nat /\ intervals[k][1] = homes[k][1]
       /\ intervals[k][2] < intervals[k][3]
  /\ ~Overlap(intervals)

(* A line that may be in the cache of c: its sector is in the interval of  *)
(* its copy, and it is at home there or a recorded copy.                   *)
Allowed(c, line) ==
  /\ line \in Line
  /\ line[1] \in DOMAIN intervals
  /\ intervals[line[1]][2] <= SectorOf(line) /\ SectorOf(line) < intervals[line[1]][3]
  /\ homes[line[1]][1] = c \/ line[1] \in copied

CachesAllowed ==
  /\ caches \in [Cluster -> Seq(Line)]
  /\ \A c \in Cluster : \A line \in Resident(caches[c]) : Allowed(c, line)

CallFields == {"kind", "policy", "snapshot", "answer", "own", "copies", "left",
               "items", "queues"}

(* So is every line that a running call has yet to fill.                   *)
CallAllowed ==
  call # NoCall =>
    /\ DOMAIN call = CallFields
    /\ call.left # {} => call.kind = "bulk"
    /\ \A w \in call.own \cup call.copies : Allowed(w[1], <<w[2], w[3]>>)
    /\ \A p \in call.left : Allowed(p[1], <<p[2], p[4]>>)
    /\ \A x \in call.items :
         call.policy = BothFill /\ x.requester # x.owner => x.copy \in copied
    /\ call.queues \in [Cluster -> Seq(Line)]
    /\ \A c \in Cluster : \A line \in Resident(call.queues[c]) : Allowed(c, line)
    /\ call.kind = "write" =>
         \A w \in call.answer : homes[w[2]][1] = w[1] /\ w[2] \notin copied

SessionInv == TablesAgree /\ CachesAllowed /\ CallAllowed

(* What a bulk call has to look up, as its loop sorts it.                  *)
Asked(items) ==
  UNION {{<<x.owner, x.copy, x.tensor, s>> : s \in x.sectors} : x \in items}
------------------------------------------------------------------------------
(* The tables.                                                             *)

(* A request that reads or writes anything reserves an interval.           *)
LEMMA SpanHolds ==
  ASSUME NEW items, Requests(items), NEW x \in items, WellPlaced(x)
  PROVE  /\ x.sectors # {} => Span(x) # None
         /\ Span(x) # None =>
              /\ Span(x)[1] \in Nat /\ Span(x)[2] \in Nat
              /\ \A s \in x.sectors : Span(x)[1] <= s /\ s < Span(x)[2]
<1>1. /\ x.sectors \in SUBSET Nat /\ IsFiniteSet(x.sectors)
      /\ x.interval \in (Int \X Int) \cup {None}
  BY DEF Requests
<1>2. ASSUME x.sectors # {}, x.interval = None
      PROVE  Span(x) \in Int \X Int
  <2>1. Min(x.sectors) \in Nat
    BY <1>1, <1>2, NatMin
  <2>2. Max(x.sectors) \in x.sectors
    BY <1>1, <1>2, FiniteMax
  <2>3. Max(x.sectors) + 1 \in Int
    BY <1>1, <2>2
  <2> QED BY <1>2, <2>1, <2>3 DEF Span
<1>3. Span(x) # None => Span(x) \in Int \X Int
  BY <1>1, <1>2 DEF Span
<1>4. x.sectors # {} => Span(x) # None
  BY <1>1, <1>2, SessionAssumption DEF Span
<1>5. ASSUME Span(x) # None
      PROVE  /\ Span(x)[1] \in Nat /\ Span(x)[2] \in Nat
             /\ \A s \in x.sectors : Span(x)[1] <= s /\ s < Span(x)[2]
  BY <1>3, <1>5 DEF WellPlaced
<1> QED BY <1>4, <1>5

(* A copy keeps its home, and the home is what its requests say.           *)
LEMMA HomesCommitted ==
  ASSUME NEW items, HomesAgree(items), CommitTables(items)
  PROVE  /\ DOMAIN homes' = DOMAIN homes \cup {x.copy : x \in items}
         /\ \A k \in DOMAIN homes : homes'[k] = homes[k]
         /\ \A x \in items : homes'[x.copy] = Home(x)
<1>1. homes' = [k \in DOMAIN homes \cup {x.copy : x \in items} |->
                  IF \E x \in items : x.copy = k
                  THEN Home(CHOOSE x \in items : x.copy = k) ELSE homes[k]]
  BY DEF CommitTables, Updated
<1>2. \A x \in items : homes'[x.copy] = Home(x)
  <2> SUFFICES ASSUME NEW x \in items PROVE homes'[x.copy] = Home(x)
    OBVIOUS
  <2> DEFINE y == CHOOSE z \in items : z.copy = x.copy
  <2>1. y \in items /\ y.copy = x.copy
    OBVIOUS
  <2>2. homes'[x.copy] = Home(y)
    BY <1>1
  <2> HIDE DEF y
  <2> QED BY <2>1, <2>2 DEF HomesAgree
<1>3. ASSUME NEW k \in DOMAIN homes PROVE homes'[k] = homes[k]
  <2>1. CASE \E x \in items : x.copy = k
    BY <1>2, <2>1 DEF HomesAgree
  <2>2. CASE ~\E x \in items : x.copy = k
    BY <1>1, <2>2
  <2> QED BY <2>1, <2>2
<1> QED BY <1>1, <1>2, <1>3

(* The table of Candidate over any table of intervals.                     *)
Hulls(old, items) ==
  LET reserved == {x.copy : x \in Placed(items)}
      Spans(k) == {Span(x) : x \in {y \in Placed(items) : y.copy = k}}
                    \cup (IF k \in DOMAIN old
                          THEN {<<old[k][2], old[k][3]>>} ELSE {})
      OwnerOf(k) == IF k \in DOMAIN old THEN old[k][1]
                    ELSE (CHOOSE x \in Placed(items) : x.copy = k).owner
  IN  [k \in DOMAIN old \cup reserved |->
         IF k \notin reserved THEN old[k]
         ELSE <<OwnerOf(k), Min({p[1] : p \in Spans(k)}),
                Max({p[2] : p \in Spans(k)})>>]

(* The interval of a copy is never less than what was reserved before and  *)
(* what the call reserves, and no more than it has to be.                  *)
Grown(old, table, items) ==
  /\ DOMAIN table = DOMAIN old \cup {x.copy : x \in Placed(items)}
  /\ \A k \in DOMAIN table : table[k] \in Nat \X Nat \X Nat
  /\ \A k \in DOMAIN old :
       /\ table[k][1] = old[k][1]
       /\ table[k][2] <= old[k][2] /\ old[k][3] <= table[k][3]
  /\ \A x \in Placed(items) :
       /\ table[x.copy][1] = x.owner
       /\ table[x.copy][2] <= Span(x)[1] /\ Span(x)[2] <= table[x.copy][3]
  /\ \A k \in DOMAIN table :
       /\ \/ k \in DOMAIN old /\ table[k][2] = old[k][2]
          \/ \E x \in Placed(items) : x.copy = k /\ table[k][2] = Span(x)[1]
       /\ \/ k \in DOMAIN old /\ table[k][3] = old[k][3]
          \/ \E x \in Placed(items) : x.copy = k /\ table[k][3] = Span(x)[2]

LEMMA HullsGrow ==
  ASSUME NEW items, Requests(items), \A x \in items : WellPlaced(x),
         \A x, y \in items : x.copy = y.copy => x.owner = y.owner,
         NEW old, \A k \in DOMAIN old : old[k] \in Nat \X Nat \X Nat,
         \A x \in Placed(items) : x.copy \in DOMAIN old => old[x.copy][1] = x.owner
  PROVE  Grown(old, Hulls(old, items), items)
<1> DEFINE table == Hulls(old, items)
           reserved == {x.copy : x \in Placed(items)}
           Spans(k) == {Span(x) : x \in {y \in Placed(items) : y.copy = k}}
                         \cup (IF k \in DOMAIN old
                               THEN {<<old[k][2], old[k][3]>>} ELSE {})
           OwnerOf(k) == IF k \in DOMAIN old THEN old[k][1]
                         ELSE (CHOOSE x \in Placed(items) : x.copy = k).owner
           Starts(k) == {p[1] : p \in Spans(k)}
           Stops(k) == {p[2] : p \in Spans(k)}
<1>1. table = [k \in DOMAIN old \cup reserved |->
                 IF k \notin reserved THEN old[k]
                 ELSE <<OwnerOf(k), Min(Starts(k)), Max(Stops(k))>>]
  BY DEF Hulls
<1>2. \A x \in Placed(items) :
        /\ x \in items /\ Span(x)[1] \in Nat /\ Span(x)[2] \in Nat
        /\ x.owner \in Nat
  BY SpanHolds DEF Placed, Requests
<1>3. \A k \in DOMAIN old :
        old[k] \in Nat \X Nat \X Nat
  OBVIOUS
<1>4. \A k : Starts(k) \subseteq Nat /\ Stops(k) \subseteq Nat
  BY <1>2, <1>3
<1>5. \A k : IsFiniteSet(Stops(k))
  <2> TAKE k
  <2> DEFINE mine == {y \in Placed(items) : y.copy = k}
             named == {Span(x) : x \in mine}
             before == IF k \in DOMAIN old
                    THEN {<<old[k][2], old[k][3]>>} ELSE {}
  <2>1. IsFiniteSet(mine)
    <3>1. IsFiniteSet(items) /\ mine \subseteq items
      BY DEF Requests, Placed
    <3> QED BY <3>1, FS_Subset
  <2>2. IsFiniteSet(named)
    <3> DEFINE f == [x \in mine |-> Span(x)]
    <3>1. named = {f[x] : x \in mine} /\ DOMAIN f = mine
      OBVIOUS
    <3> HIDE DEF mine, f
    <3> QED BY <3>1, <2>1, FiniteImage
  <2>3. IsFiniteSet(before)
    BY FS_Singleton, FS_EmptySet
  <2>4. IsFiniteSet(named \cup before)
    BY <2>2, <2>3, FS_Union
  <2>5. Spans(k) = named \cup before
    OBVIOUS
  <2> DEFINE f == [p \in Spans(k) |-> p[2]]
  <2> HIDE DEF named, before, Spans
  <2>6. Stops(k) = {f[p] : p \in Spans(k)} /\ DOMAIN f = Spans(k)
    OBVIOUS
  <2> HIDE DEF f, Stops
  <2> QED BY <2>4, <2>5, <2>6, FiniteImage
<1>6. ASSUME NEW k \in reserved
      PROVE  /\ Min(Starts(k)) \in Nat /\ Max(Stops(k)) \in Nat
             /\ \A p \in Spans(k) : Min(Starts(k)) <= p[1] /\ p[2] <= Max(Stops(k))
             /\ Min(Starts(k)) \in Starts(k) /\ Max(Stops(k)) \in Stops(k)
  <2>1. Spans(k) # {}
    BY <1>6
  <2>2. Starts(k) # {} /\ Stops(k) # {}
    <3> HIDE DEF Spans
    <3> QED BY <2>1
  <2>3. Starts(k) \in SUBSET Nat /\ Stops(k) \in SUBSET Int /\ IsFiniteSet(Stops(k))
    <3>1. Starts(k) \subseteq Nat /\ Stops(k) \subseteq Nat /\ IsFiniteSet(Stops(k))
      BY <1>4, <1>5
    <3> HIDE DEF Starts, Stops
    <3> QED BY <3>1
  <2>4. Min(Starts(k)) \in Starts(k) /\ \A s \in Starts(k) : Min(Starts(k)) <= s
    <3> HIDE DEF Starts
    <3> QED BY <2>2, <2>3, NatMin
  <2>5. Max(Stops(k)) \in Stops(k) /\ \A s \in Stops(k) : s <= Max(Stops(k))
    <3> HIDE DEF Stops
    <3> QED BY <2>2, <2>3, FiniteMax
  <2>6. \A p \in Spans(k) : p[1] \in Starts(k) /\ p[2] \in Stops(k)
    <3> HIDE DEF Spans
    <3> QED OBVIOUS
  <2>7. Starts(k) \subseteq Nat /\ Stops(k) \subseteq Nat
    BY <1>4
  <2> HIDE DEF Starts, Stops, Spans
  <2> QED BY <2>4, <2>5, <2>6, <2>7
<1>7. ASSUME NEW x \in Placed(items)
      PROVE  OwnerOf(x.copy) = x.owner
  <2>1. CASE x.copy \in DOMAIN old
    BY <2>1
  <2>2. CASE x.copy \notin DOMAIN old
    <3> DEFINE y == CHOOSE z \in Placed(items) : z.copy = x.copy
    <3>1. y \in Placed(items) /\ y.copy = x.copy
      OBVIOUS
    <3>2. OwnerOf(x.copy) = y.owner
      BY <2>2
    <3>3. y \in items /\ x \in items
      BY <3>1, <1>2
    <3> HIDE DEF y, OwnerOf
    <3>4. y.owner = x.owner
      BY <3>1, <3>3
    <3> QED BY <3>2, <3>4
  <2> QED BY <2>1, <2>2
<1>8. DOMAIN table = DOMAIN old \cup {x.copy : x \in Placed(items)}
  BY <1>1
<1>9. ASSUME NEW k \in DOMAIN table PROVE table[k] \in Nat \X Nat \X Nat
  <2>1. CASE k \notin reserved
    BY <1>1, <1>3, <1>8, <2>1
  <2>2. CASE k \in reserved
    <3>1. PICK x \in Placed(items) : x.copy = k
      BY <2>2
    <3>2. OwnerOf(k) \in Nat
      BY <3>1, <1>7, <1>2
    <3>3. table[k] = <<OwnerOf(k), Min(Starts(k)), Max(Stops(k))>>
      BY <1>1, <2>2
    <3> HIDE DEF OwnerOf, Starts, Stops, table, reserved
    <3> QED BY <3>2, <3>3, <1>6, <2>2
  <2> QED BY <2>1, <2>2
<1>10. ASSUME NEW k \in DOMAIN old
       PROVE  /\ table[k][1] = old[k][1]
              /\ table[k][2] <= old[k][2] /\ old[k][3] <= table[k][3]
  <2>1. CASE k \notin reserved
    BY <1>1, <1>3, <2>1
  <2>2. CASE k \in reserved
    <3>1. table[k] = <<OwnerOf(k), Min(Starts(k)), Max(Stops(k))>>
      BY <1>1, <2>2
    <3>2. OwnerOf(k) = old[k][1]
      OBVIOUS
    <3>3. <<old[k][2], old[k][3]>> \in Spans(k)
      OBVIOUS
    <3> HIDE DEF OwnerOf, Starts, Stops, Spans, table, reserved
    <3>4. /\ Min(Starts(k)) <= <<old[k][2], old[k][3]>>[1]
          /\ <<old[k][2], old[k][3]>>[2] <= Max(Stops(k))
      BY <3>3, <1>6, <2>2
    <3> QED BY <3>1, <3>2, <3>4
  <2> QED BY <2>1, <2>2
<1>11. ASSUME NEW x \in Placed(items)
       PROVE  /\ table[x.copy][1] = x.owner
              /\ table[x.copy][2] <= Span(x)[1] /\ Span(x)[2] <= table[x.copy][3]
  <2>1. x.copy \in reserved /\ Span(x) \in Spans(x.copy)
    OBVIOUS
  <2>2. table[x.copy] = <<OwnerOf(x.copy), Min(Starts(x.copy)), Max(Stops(x.copy))>>
    BY <1>1, <2>1
  <2> HIDE DEF OwnerOf, Starts, Stops, Spans, table, reserved
  <2> QED BY <2>1, <2>2, <1>6, <1>7
<1>12. ASSUME NEW k \in DOMAIN table
       PROVE  /\ \/ k \in DOMAIN old /\ table[k][2] = old[k][2]
                 \/ \E x \in Placed(items) : x.copy = k /\ table[k][2] = Span(x)[1]
              /\ \/ k \in DOMAIN old /\ table[k][3] = old[k][3]
                 \/ \E x \in Placed(items) : x.copy = k /\ table[k][3] = Span(x)[2]
  <2>1. CASE k \notin reserved
    BY <1>1, <1>8, <2>1
  <2>2. CASE k \in reserved
    <3>1. table[k] = <<OwnerOf(k), Min(Starts(k)), Max(Stops(k))>>
      BY <1>1, <2>2
    <3>2. /\ \A s \in Starts(k) : \E p \in Spans(k) : s = p[1]
          /\ \A s \in Stops(k) : \E p \in Spans(k) : s = p[2]
      <4> HIDE DEF Spans
      <4> QED OBVIOUS
    <3>3. \A p \in Spans(k) :
            \/ k \in DOMAIN old /\ p[1] = old[k][2] /\ p[2] = old[k][3]
            \/ \E x \in Placed(items) : x.copy = k /\ p = Span(x)
      OBVIOUS
    <3>4. Min(Starts(k)) \in Starts(k) /\ Max(Stops(k)) \in Stops(k)
      BY <1>6, <2>2
    <3> HIDE DEF OwnerOf, Starts, Stops, Spans, table, reserved
    <3>5. table[k][2] = Min(Starts(k)) /\ table[k][3] = Max(Stops(k))
      BY <3>1
    <3>6. PICK p \in Spans(k) : table[k][2] = p[1]
      BY <3>2, <3>4, <3>5
    <3>7. PICK q \in Spans(k) : table[k][3] = q[2]
      BY <3>2, <3>4, <3>5
    <3>8. \/ k \in DOMAIN old /\ table[k][2] = old[k][2]
          \/ \E x \in Placed(items) : x.copy = k /\ table[k][2] = Span(x)[1]
      BY <3>3, <3>6
    <3>9. \/ k \in DOMAIN old /\ table[k][3] = old[k][3]
          \/ \E x \in Placed(items) : x.copy = k /\ table[k][3] = Span(x)[2]
      BY <3>3, <3>7
    <3> QED BY <3>8, <3>9
  <2> QED BY <2>1, <2>2
<1> HIDE DEF table
<1>13. Grown(old, table, items)
  BY <1>8, <1>9, <1>10, <1>11, <1>12 DEF Grown
<1> QED BY <1>13 DEF table

LEMMA CandidateIs ==
  ASSUME NEW items, Requests(items), \A x \in items : WellPlaced(x),
         HomesAgree(items), OwnersAgree(items),
         \A k \in DOMAIN intervals : intervals[k] \in Nat \X Nat \X Nat
  PROVE  Grown(intervals, Candidate(items), items)
<1>1. Candidate(items) = Hulls(intervals, items)
  BY DEF Candidate, Hulls
<1>2. /\ \A x, y \in items : x.copy = y.copy => x.owner = y.owner
      /\ \A x \in Placed(items) :
           x.copy \in DOMAIN intervals => intervals[x.copy][1] = x.owner
  BY DEF OwnersAgree, HomesAgree, Home
<1> QED BY <1>1, <1>2, HullsGrow

LEMMA IntervalsGrow ==
  ASSUME NEW items, Requests(items), TablesAgree, Admissible(items)
  PROVE  LET table == Candidate(items) IN
         /\ DOMAIN table = DOMAIN intervals \cup {x.copy : x \in Placed(items)}
         /\ \A k \in DOMAIN table : table[k] \in Nat \X Nat \X Nat
         /\ \A k \in DOMAIN intervals :
              /\ table[k][1] = intervals[k][1]
              /\ table[k][2] <= intervals[k][2] /\ intervals[k][3] <= table[k][3]
         /\ \A x \in Placed(items) :
              /\ table[x.copy][1] = x.owner
              /\ table[x.copy][2] <= Span(x)[1] /\ Span(x)[2] <= table[x.copy][3]
<1>1. /\ \A x \in items : WellPlaced(x)
      /\ HomesAgree(items) /\ OwnersAgree(items)
  BY DEF Admissible
<1>2. \A k \in DOMAIN intervals : intervals[k] \in Nat \X Nat \X Nat
  BY DEF TablesAgree
<1>3. Grown(intervals, Candidate(items), items)
  BY <1>1, <1>2, CandidateIs
<1> QED BY <1>3 DEF Grown

LEMMA TablesGrow ==
  ASSUME NEW items, Requests(items), TablesAgree, Admissible(items),
         CommitTables(items), copied \subseteq copied'
  PROVE  /\ TablesAgree'
         /\ \A c, line : Allowed(c, line) => Allowed(c, line)'
         /\ \A x \in items : \A s \in x.sectors :
              /\ Allowed(x.owner, <<x.copy, s - x.offset>>)'
              /\ x.copy \in copied' =>
                   \A c : Allowed(c, <<x.copy, s - x.offset>>)'
         /\ \A x \in items : homes'[x.copy][1] = x.owner
<1> DEFINE table == Candidate(items)
<1>1. intervals' = table /\ HomesAgree(items) /\ ~Overlap(table)
      /\ \A x \in items : WellPlaced(x)
  BY DEF CommitTables, Admissible
<1>2. /\ DOMAIN homes' = DOMAIN homes \cup {x.copy : x \in items}
      /\ \A k \in DOMAIN homes : homes'[k] = homes[k]
      /\ \A x \in items : homes'[x.copy] = Home(x)
  BY <1>1, HomesCommitted
<1>3. /\ DOMAIN table = DOMAIN intervals \cup {x.copy : x \in Placed(items)}
      /\ \A k \in DOMAIN table : table[k] \in Nat \X Nat \X Nat
      /\ \A k \in DOMAIN intervals :
           /\ table[k][1] = intervals[k][1]
           /\ table[k][2] <= intervals[k][2] /\ intervals[k][3] <= table[k][3]
      /\ \A x \in Placed(items) :
           /\ table[x.copy][1] = x.owner
           /\ table[x.copy][2] <= Span(x)[1] /\ Span(x)[2] <= table[x.copy][3]
  BY IntervalsGrow
<1> HIDE DEF table
<1>4. /\ DOMAIN intervals \subseteq DOMAIN homes \cap Nat
      /\ \A k \in DOMAIN homes : homes[k] \in Nat \X Int
      /\ \A k \in DOMAIN intervals :
           /\ intervals[k] \in Nat \X Nat \X Nat /\ intervals[k][1] = homes[k][1]
           /\ intervals[k][2] < intervals[k][3]
  BY DEF TablesAgree
<1>5. \A x \in items :
        /\ x.copy \in Nat /\ x.owner \in Nat /\ x.offset \in Int
        /\ x.sectors \in SUBSET Nat
        /\ Home(x) = <<x.owner, x.offset>>
  BY DEF Requests, Home
<1>6. Placed(items) \subseteq items
  BY DEF Placed
<1>7. TablesAgree'
  <2>1. DOMAIN intervals' \subseteq DOMAIN homes' \cap Nat
    BY <1>1, <1>2, <1>3, <1>4, <1>5, <1>6
  <2>2. ASSUME NEW k \in DOMAIN homes' PROVE homes'[k] \in Nat \X Int
    BY <1>2, <1>4, <1>5
  <2>3. ASSUME NEW k \in DOMAIN intervals'
        PROVE  /\ intervals'[k] \in Nat \X Nat \X Nat /\ intervals'[k][1] = homes'[k][1]
               /\ intervals'[k][2] < intervals'[k][3]
    <3>1. intervals'[k] \in Nat \X Nat \X Nat /\ intervals'[k][1] = homes'[k][1]
      BY <1>1, <1>2, <1>3, <1>4, <1>5, <1>6
    <3>2. CASE k \in DOMAIN intervals
      BY <1>1, <1>3, <1>4, <3>1, <3>2
    <3>3. CASE k \notin DOMAIN intervals
      <4>1. PICK x \in Placed(items) : x.copy = k
        BY <1>1, <1>3, <3>3
      <4>2. /\ Span(x) # None /\ Span(x)[1] \in Nat /\ Span(x)[2] \in Nat
            /\ Span(x)[1] < Span(x)[2]
        BY <1>1, <1>6, SpanHolds DEF Placed, WellPlaced
      <4> QED BY <1>1, <1>3, <3>1, <4>1, <4>2
    <3> QED BY <3>1, <3>2, <3>3
  <2>4. ~Overlap(intervals')
    BY <1>1
  <2>5. (~Overlap(intervals))'
    BY <2>4 DEF Overlap
  <2> QED BY <2>1, <2>2, <2>3, <2>5 DEF TablesAgree
<1>8. ASSUME NEW c, NEW line, Allowed(c, line) PROVE Allowed(c, line)'
  <2>1. /\ line \in Line /\ line[1] \in DOMAIN intervals
        /\ intervals[line[1]][2] <= SectorOf(line)
        /\ SectorOf(line) < intervals[line[1]][3]
        /\ homes[line[1]][1] = c \/ line[1] \in copied
    BY <1>8 DEF Allowed
  <2>2. homes'[line[1]] = homes[line[1]] /\ SectorOf(line)' = SectorOf(line)
    BY <1>2, <1>4, <2>1 DEF SectorOf
  <2>3. line[1] \in DOMAIN table /\ SectorOf(line) \in Int
    BY <1>3, <1>4, <2>1 DEF SectorOf, Line
  <2>4. /\ table[line[1]][2] <= SectorOf(line)
        /\ SectorOf(line) < table[line[1]][3]
    BY <1>3, <1>4, <2>1, <2>3
  <2> QED BY <1>1, <2>1, <2>2, <2>3, <2>4 DEF Allowed
<1>9. ASSUME NEW x \in items, NEW s \in x.sectors
      PROVE  LET line == <<x.copy, s - x.offset>> IN
             /\ line \in Line /\ line[1] \in DOMAIN intervals'
             /\ intervals'[line[1]][2] <= SectorOf(line)'
             /\ SectorOf(line)' < intervals'[line[1]][3]
             /\ homes'[line[1]][1] = x.owner
  <2> DEFINE line == <<x.copy, s - x.offset>>
  <2>1. /\ Span(x) # None /\ Span(x)[1] \in Nat /\ Span(x)[2] \in Nat
        /\ Span(x)[1] <= s /\ s < Span(x)[2]
    BY <1>1, SpanHolds
  <2>2. x \in Placed(items)
    BY <2>1 DEF Placed
  <2>3. homes'[x.copy] = <<x.owner, x.offset>>
    BY <1>2, <1>5
  <2>4. SectorOf(line)' = s /\ s \in Nat /\ line \in Line
    BY <1>5, <2>3 DEF SectorOf, Line
  <2>5. x.copy \in DOMAIN table /\ table[x.copy] \in Nat \X Nat \X Nat
    BY <1>3, <2>2
  <2> HIDE DEF line
  <2>6. line[1] = x.copy
    BY DEF line
  <2>7. table[x.copy][2] <= s /\ s < table[x.copy][3]
    BY <1>3, <2>1, <2>2, <2>4, <2>5
  <2> QED BY <1>1, <2>3, <2>4, <2>5, <2>6, <2>7 DEF line
<1>10. ASSUME NEW x \in items, NEW s \in x.sectors
       PROVE  /\ Allowed(x.owner, <<x.copy, s - x.offset>>)'
              /\ x.copy \in copied' =>
                   \A c : Allowed(c, <<x.copy, s - x.offset>>)'
  BY <1>9 DEF Allowed
<1>11. \A x \in items : homes'[x.copy][1] = x.owner
  BY <1>2, <1>5
<1> QED BY <1>7, <1>8, <1>10, <1>11
------------------------------------------------------------------------------
(* The caches.                                                             *)

LEMMA Enqueues ==
  ASSUME NEW queue \in Seq(Line), NEW line \in Line, NEW capacity \in Nat \ {0}
  PROVE  LET longer == Append(IF Len(queue) >= capacity THEN Tail(queue) ELSE queue, line)
         IN  longer \in Seq(Line) /\ Resident(longer) \subseteq Resident(queue) \cup {line}
<1> DEFINE kept == IF Len(queue) >= capacity THEN Tail(queue) ELSE queue
           longer == Append(kept, line)
<1>1. kept \in Seq(Line) /\ Resident(kept) \subseteq Resident(queue)
  <2>1. CASE Len(queue) >= capacity
    <3>1. queue # <<>>
      BY <2>1
    <3>2. /\ Tail(queue) \in Seq(Line) /\ Len(Tail(queue)) = Len(queue) - 1
          /\ \A i \in 1 .. Len(Tail(queue)) : Tail(queue)[i] = queue[i + 1]
      BY <3>1, HeadTailProperties
    <3>3. DOMAIN Tail(queue) = 1 .. Len(queue) - 1 /\ DOMAIN queue = 1 .. Len(queue)
      BY <3>2
    <3>4. Len(queue) \in Nat
      OBVIOUS
    <3>5. Resident(Tail(queue)) \subseteq Resident(queue)
      BY <3>2, <3>3, <3>4 DEF Resident, Range
    <3> QED BY <2>1, <3>2, <3>5
  <2>2. CASE ~(Len(queue) >= capacity)
    BY <2>2
  <2> QED BY <2>1, <2>2
<1> HIDE DEF kept
<1>2. /\ longer \in Seq(Line) /\ Len(longer) = Len(kept) + 1
      /\ \A i \in 1 .. Len(kept) : longer[i] = kept[i]
      /\ longer[Len(kept) + 1] = line
  BY <1>1, AppendProperties
<1>3. DOMAIN longer = 1 .. Len(kept) + 1 /\ DOMAIN kept = 1 .. Len(kept)
      /\ Len(kept) \in Nat
  BY <1>1, <1>2
<1> HIDE DEF longer
<1>4. Resident(longer) \subseteq Resident(kept) \cup {line}
  BY <1>2, <1>3 DEF Resident, Range
<1> QED BY <1>1, <1>2, <1>4 DEF longer, kept

(* A fill of an allowed line keeps the caches so.                          *)
LEMMA FillKeeps ==
  ASSUME CachesAllowed, NEW w, Allowed(w[1], <<w[2], w[3]>>), FillLine(w),
         UNCHANGED tables
  PROVE  CachesAllowed'
<1> DEFINE line == <<w[2], w[3]>>
           filled == Fill(Capacity[w[1]], caches[w[1]], line)
<1>1. caches' = [caches EXCEPT ![w[1]] = filled]
  BY DEF FillLine
<1>2. line \in Line /\ Allowed(w[1], line)
  BY DEF Allowed
<1>3. caches \in [Cluster -> Seq(Line)]
      /\ \A c \in Cluster : \A l \in Resident(caches[c]) : Allowed(c, l)
  BY DEF CachesAllowed
<1>4. ASSUME w[1] \in Cluster
      PROVE  filled \in Seq(Line) /\ Resident(filled) \subseteq Resident(caches[w[1]]) \cup {line}
  <2>1. caches[w[1]] \in Seq(Line) /\ Capacity[w[1]] \in Nat \ {0}
    BY <1>3, <1>4, SessionAssumption
  <2> HIDE DEF line
  <2> QED BY <1>2, <2>1, Enqueues DEF Fill
<1>5. \A c, l : Allowed(c, l) => Allowed(c, l)'
  BY DEF Allowed, SectorOf, tables
<1> HIDE DEF filled, line
<1>6. caches' \in [Cluster -> Seq(Line)]
  BY <1>1, <1>3, <1>4
<1>7. ASSUME NEW c \in Cluster, NEW l \in Resident(caches'[c])
      PROVE  Allowed(c, l)
  BY <1>1, <1>2, <1>3, <1>4, <1>7
<1> QED BY <1>5, <1>6, <1>7 DEF CachesAllowed

(* What does not change the tables allows what they allowed.               *)
LEMMA AllowedStays ==
  ASSUME UNCHANGED tables
  PROVE  /\ TablesAgree => TablesAgree'
         /\ \A c, line : Allowed(c, line) => Allowed(c, line)'
         /\ copied' = copied /\ homes' = homes
<1>1. homes' = homes /\ intervals' = intervals /\ copied' = copied
  BY DEF tables
<1>2. TablesAgree => TablesAgree'
  BY <1>1 DEF TablesAgree, Overlap
<1>3. \A c, line : Allowed(c, line) => Allowed(c, line)'
  BY <1>1 DEF Allowed, SectorOf
<1> QED BY <1>1, <1>2, <1>3

LEMMA Prefixed ==
  ASSUME NEW c, NEW line \in Line
  PROVE  LET w == <<c>> \o line IN w[1] = c /\ <<w[2], w[3]>> = line
<1>1. PICK a \in Nat, b \in Int : line = <<a, b>>
  BY DEF Line
<1> DEFINE any == {c, a, b}
           w == <<c>> \o <<a, b>>
<1>2. <<c>> \in Seq(any) /\ <<a, b>> \in Seq(any)
  OBVIOUS
<1>3. Len(<<c>>) = 1 /\ Len(<<a, b>>) = 2 /\ <<c>>[1] = c
  OBVIOUS
<1>4. \A i \in 1 .. 3 :
        w[i] = IF i <= 1 THEN <<c>>[i] ELSE <<a, b>>[i - 1]
  BY <1>2, <1>3, ConcatProperties
<1> HIDE DEF w
<1>5. w[1] = c /\ w[2] = a /\ w[3] = b
  BY <1>3, <1>4
<1> QED BY <1>1, <1>5 DEF w
------------------------------------------------------------------------------
(* The steps.                                                              *)

LEMMA CallsAsk ==
  ASSUME NEW items \in Epochs \cup BulkEpochs \cup Writes
  PROVE  Requests(items)
<1>1. /\ items \subseteq Request /\ IsFiniteSet(items)
      /\ \A x \in items : IsFiniteSet(x.sectors)
  BY SessionAssumption
<1>2. \A x \in items :
        /\ x.requester \in Nat /\ x.owner \in Nat /\ x.copy \in Nat
        /\ x.sectors \in SUBSET Nat /\ x.offset \in Int
        /\ x.interval \in (Int \X Int) \cup {None}
  BY <1>1 DEF Request
<1> QED BY <1>1, <1>2 DEF Requests

(* A call that has just begun, with nothing queued yet.                    *)
LEMMA NothingQueued ==
  LET queues == [c \in Cluster |-> <<>>] IN
  /\ queues \in [Cluster -> Seq(Line)]
  /\ \A c \in Cluster : \A line \in Resident(queues[c]) : Allowed(c, line)'
<1>1. <<>> \in Seq(Line) /\ Resident(<<>>) = {}
  BY DEF Resident, Range
<1> QED BY <1>1

LEMMA CachesStay ==
  ASSUME CachesAllowed, UNCHANGED caches,
         \A c, line : Allowed(c, line) => Allowed(c, line)'
  PROVE  CachesAllowed'
BY DEF CachesAllowed

LEMMA EpochStep ==
  ASSUME SessionInv, NEW items \in Epochs, NEW policy, ReplayEpoch(items, policy)
  PROVE  SessionInv'
<1> DEFINE lookups == {Lookup(x, CHOOSE s \in x.sectors : TRUE) : x \in items}
           cold    == {x \in lookups : ~Hits(x, policy)}
           Served(leaders) ==
             [x \in lookups |->
                IF x \notin cold THEN HitSource(x, policy)
                ELSE IF x \in leaders THEN DdrMiss ELSE MshrMerge]
<1>1. /\ Admissible(items) /\ CommitTables(items)
      /\ UNCHANGED <<caches, report>>
  BY DEF ReplayEpoch
<1>2. PICK leaders \in SUBSET cold :
        /\ copied' = copied \cup Recorded(Served(leaders), policy)
        /\ call' = Running("epoch", policy, Served(leaders),
                           {<<x.owner>> \o x.line : x \in leaders},
                           {<<x.requester>> \o x.line :
                              x \in CopyMakers(Served(leaders), policy)})
  BY DEF ReplayEpoch
<1>3. Requests(items)
  BY CallsAsk
<1>4. /\ TablesAgree'
      /\ \A c, line : Allowed(c, line) => Allowed(c, line)'
      /\ \A x \in items : \A s \in x.sectors :
           /\ Allowed(x.owner, <<x.copy, s - x.offset>>)'
           /\ x.copy \in copied' =>
                \A c : Allowed(c, <<x.copy, s - x.offset>>)'
  BY <1>1, <1>2, <1>3, TablesGrow DEF SessionInv
<1>5. CachesAllowed'
  BY <1>1, <1>4, CachesStay DEF SessionInv
<1>6. ASSUME NEW x \in lookups
      PROVE  /\ x.line \in Line /\ Allowed(x.owner, x.line)'
             /\ x.line[1] \in copied' => Allowed(x.requester, x.line)'
  <2>1. PICK y \in items : x = Lookup(y, CHOOSE s \in y.sectors : TRUE)
    OBVIOUS
  <2>2. PICK s \in y.sectors : x = Lookup(y, s)
    <3>1. Cardinality(y.sectors) = 1
      BY SessionAssumption
    <3>2. y.sectors # {}
      BY <3>1, FS_EmptySet, SMTT(60)
    <3> QED BY <2>1, <3>2
  <2>3. x.owner = y.owner /\ x.line = <<y.copy, s - y.offset>>
        /\ x.requester = y.requester
    BY <2>2 DEF Lookup
  <2>4. x.line \in Line /\ x.line[1] = y.copy
    BY <1>3, <2>2, <2>3 DEF Requests, Line
  <2> HIDE DEF lookups
  <2> QED BY <1>4, <2>2, <2>3, <2>4
<1> HIDE DEF lookups
<1>7. CallAllowed'
  <2> DEFINE own == {<<x.owner>> \o x.line : x \in leaders}
             copies == {<<x.requester>> \o x.line :
                          x \in CopyMakers(Served(leaders), policy)}
  <2>1. leaders \subseteq lookups
        /\ CopyMakers(Served(leaders), policy) \subseteq lookups
    BY DEF CopyMakers
  <2>2. ASSUME NEW w \in own PROVE Allowed(w[1], <<w[2], w[3]>>)'
    <3>1. PICK x \in leaders : w = <<x.owner>> \o x.line
      OBVIOUS
    <3>2. w[1] = x.owner /\ <<w[2], w[3]>> = x.line
      BY <1>6, <2>1, <3>1, Prefixed
    <3>3. Allowed(x.owner, x.line)'
      BY <1>6, <2>1
    <3> QED BY <3>2, <3>3
  <2>3. ASSUME NEW w \in copies PROVE Allowed(w[1], <<w[2], w[3]>>)'
    <3>1. PICK x \in CopyMakers(Served(leaders), policy) : w = <<x.requester>> \o x.line
      OBVIOUS
    <3>2. w[1] = x.requester /\ <<w[2], w[3]>> = x.line
      BY <1>6, <2>1, <3>1, Prefixed
    <3>3. x.line[1] \in copied'
      BY <1>2 DEF Recorded
    <3>4. Allowed(x.requester, x.line)'
      BY <1>6, <2>1, <3>3
    <3> QED BY <3>2, <3>4
  <2>4. /\ DOMAIN call' = CallFields
        /\ call'.kind = "epoch" /\ call'.own = own /\ call'.copies = copies
        /\ call'.left = {} /\ call'.items = {}
        /\ call'.queues = [c \in Cluster |-> <<>>]
    <3> HIDE DEF own, copies, Served
    <3> QED BY <1>2 DEF Running, CallFields, own, copies
  <2> HIDE DEF own, copies
  <2> QED BY <2>2, <2>3, <2>4, NothingQueued DEF CallAllowed, CallFields
<1> QED BY <1>4, <1>5, <1>7 DEF SessionInv

LEMMA BulkStep ==
  ASSUME SessionInv, NEW items, Requests(items), \A x \in items : x.offset = 0,
         NEW policy, ReplayBulk(items, policy)
  PROVE  SessionInv'
<1> DEFINE left == UNION {{<<x.owner, x.copy, x.tensor, s>> : s \in x.sectors} :
                            x \in items}
<1>1. /\ Admissible(items) /\ CommitTables(items)
      /\ UNCHANGED <<caches, report>>
      /\ copied' = copied \cup {x.copy : x \in
           {y \in items : policy = BothFill /\ y.requester # y.owner}}
      /\ call' = [Running("bulk", policy, <<>>, {}, {}) EXCEPT
                    !.items = items, !.left = left]
  BY DEF ReplayBulk
<1>2. Requests(items)
  OBVIOUS
<1>3. /\ TablesAgree'
      /\ \A c, line : Allowed(c, line) => Allowed(c, line)'
      /\ \A x \in items : \A s \in x.sectors :
           Allowed(x.owner, <<x.copy, s - x.offset>>)'
  BY <1>1, <1>2, TablesGrow DEF SessionInv
<1>4. CachesAllowed'
  BY <1>1, <1>3, CachesStay DEF SessionInv
<1>5. ASSUME NEW p \in left PROVE Allowed(p[1], <<p[2], p[4]>>)'
  <2>1. PICK x \in items : p \in {<<x.owner, x.copy, x.tensor, s>> : s \in x.sectors}
    OBVIOUS
  <2>2. PICK s \in x.sectors : p = <<x.owner, x.copy, x.tensor, s>>
    BY <2>1
  <2>3. s - x.offset = s
    BY <1>2 DEF Requests
  <2>4. Allowed(x.owner, <<x.copy, s>>)'
    BY <1>3, <2>3
  <2> QED BY <2>2, <2>4
<1>6. /\ DOMAIN call' = CallFields
      /\ call'.kind = "bulk" /\ call'.own = {} /\ call'.copies = {}
      /\ call'.left = left /\ call'.items = items /\ call'.policy = policy
      /\ call'.queues = [c \in Cluster |-> <<>>]
  <2> HIDE DEF left
  <2> QED BY <1>1 DEF Running, CallFields
<1>7. \A x \in items :
        policy = BothFill /\ x.requester # x.owner => x.copy \in copied'
  BY <1>1
<1> HIDE DEF left
<1>8. CallAllowed'
  BY <1>5, <1>6, <1>7, NothingQueued DEF CallAllowed, CallFields
<1> QED BY <1>3, <1>4, <1>8 DEF SessionInv

LEMMA WriteStep ==
  ASSUME SessionInv, NEW items, Requests(items), \A x \in items : x.offset = 0,
         ApplyOutputPressure(items)
  PROVE  SessionInv'
<1> DEFINE written == UNION {{<<x.owner, x.copy, s>> : s \in x.sectors} : x \in
                               {y \in items : OutputPressure[y.owner]}}
<1>1. /\ Writable(items) /\ Admissible(items) /\ CommitTables(items)
      /\ call' = Running("write", HomeOnly, written, written, {})
      /\ UNCHANGED <<caches, copied, report>>
  BY DEF ApplyOutputPressure
<1>2. Requests(items)
  OBVIOUS
<1>3. /\ TablesAgree'
      /\ \A c, line : Allowed(c, line) => Allowed(c, line)'
      /\ \A x \in items : \A s \in x.sectors :
           Allowed(x.owner, <<x.copy, s - x.offset>>)'
      /\ \A x \in items : homes'[x.copy][1] = x.owner
  BY <1>1, <1>2, TablesGrow DEF SessionInv
<1>4. CachesAllowed'
  BY <1>1, <1>3, CachesStay DEF SessionInv
<1>5. ASSUME NEW w \in written
      PROVE  /\ Allowed(w[1], <<w[2], w[3]>>)'
             /\ homes'[w[2]][1] = w[1] /\ w[2] \notin copied'
  <2>1. PICK x \in items : w \in {<<x.owner, x.copy, s>> : s \in x.sectors}
    OBVIOUS
  <2>2. PICK s \in x.sectors : w = <<x.owner, x.copy, s>>
    BY <2>1
  <2>3. s - x.offset = s
    BY <1>2 DEF Requests
  <2>4. Allowed(x.owner, <<x.copy, s>>)' /\ homes'[x.copy][1] = x.owner
    BY <1>3, <2>3
  <2>5. x.copy \notin copied'
    BY <1>1 DEF Writable
  <2> QED BY <2>2, <2>4, <2>5
<1>6. /\ DOMAIN call' = CallFields
      /\ call'.kind = "write" /\ call'.own = written /\ call'.copies = {}
      /\ call'.left = {} /\ call'.items = {} /\ call'.answer = written
      /\ call'.queues = [c \in Cluster |-> <<>>]
  <2> HIDE DEF written
  <2> QED BY <1>1 DEF Running, CallFields
<1> HIDE DEF written
<1>7. CallAllowed'
  BY <1>5, <1>6, NothingQueued DEF CallAllowed, CallFields
<1> QED BY <1>3, <1>4, <1>7 DEF SessionInv

(* A fill that takes one line off what its call has yet to do.             *)
LEMMA FillStep ==
  ASSUME SessionInv, FillOwn \/ FillCopy \/ BulkFlush
  PROVE  SessionInv'
<1>1. /\ call # NoCall /\ UNCHANGED tables
      /\ TablesAgree /\ CachesAllowed /\ CallAllowed
  BY DEF FillOwn, FillCopy, BulkFlush, SessionInv
<1>2. /\ TablesAgree'
      /\ \A c, line : Allowed(c, line) => Allowed(c, line)'
      /\ copied' = copied /\ homes' = homes
  BY <1>1, AllowedStays
<1>3. CASE FillOwn
  <2>1. PICK w \in call.own : FillLine(w) /\ call' = [call EXCEPT !.own = @ \ {w}]
    BY <1>3 DEF FillOwn
  <2>2. Allowed(w[1], <<w[2], w[3]>>)
    BY <1>1 DEF CallAllowed
  <2>3. CachesAllowed'
    BY <1>1, <2>1, <2>2, FillKeeps
  <2>4. CallAllowed'
    BY <1>1, <1>2, <2>1 DEF CallAllowed
  <2> QED BY <1>2, <2>3, <2>4 DEF SessionInv
<1>4. CASE FillCopy
  <2>1. PICK w \in call.copies :
          FillLine(w) /\ call' = [call EXCEPT !.copies = @ \ {w}]
    BY <1>4 DEF FillCopy
  <2>2. Allowed(w[1], <<w[2], w[3]>>)
    BY <1>1 DEF CallAllowed
  <2>3. CachesAllowed'
    BY <1>1, <2>1, <2>2, FillKeeps
  <2>4. CallAllowed'
    BY <1>1, <1>2, <2>1 DEF CallAllowed
  <2> QED BY <1>2, <2>3, <2>4 DEF SessionInv
<1>5. CASE BulkFlush
  <2>1. PICK c \in Cluster :
          /\ call.queues[c] # <<>>
          /\ FillLine(<<c>> \o Head(call.queues[c]))
          /\ call' = [call EXCEPT !.queues[c] = Tail(@)]
    BY <1>5 DEF BulkFlush
  <2> DEFINE queue == call.queues[c]
             w == <<c>> \o Head(queue)
  <2>2. /\ call.queues \in [Cluster -> Seq(Line)]
        /\ \A d \in Cluster : \A line \in Resident(call.queues[d]) : Allowed(d, line)
    BY <1>1 DEF CallAllowed
  <2>3. queue \in Seq(Line) /\ queue # <<>>
    BY <2>1, <2>2
  <2>4. /\ Head(queue) = queue[1] /\ Head(queue) \in Line
        /\ Tail(queue) \in Seq(Line) /\ Len(Tail(queue)) = Len(queue) - 1
        /\ \A i \in 1 .. Len(Tail(queue)) : Tail(queue)[i] = queue[i + 1]
    <3> HIDE DEF queue
    <3> QED BY <2>3, HeadTailProperties
  <2>5. Resident(Tail(queue)) \subseteq Resident(queue) /\ Head(queue) \in Resident(queue)
    <3> HIDE DEF queue
    <3>1. DOMAIN Tail(queue) = 1 .. Len(queue) - 1 /\ DOMAIN queue = 1 .. Len(queue)
          /\ Len(queue) \in Nat /\ Len(queue) # 0
      BY <2>3, <2>4
    <3> QED BY <2>4, <3>1 DEF Resident, Range
  <2>6. w[1] = c /\ <<w[2], w[3]>> = Head(queue)
    <3> HIDE DEF queue
    <3> QED BY <2>4, Prefixed
  <2>7. CachesAllowed'
    <3>1. Allowed(w[1], <<w[2], w[3]>>)
      BY <2>2, <2>5, <2>6
    <3> QED BY <1>1, <2>1, <3>1, FillKeeps
  <2>8. /\ DOMAIN call' = DOMAIN call
        /\ \A f \in DOMAIN call \ {"queues"} : call'[f] = call[f]
        /\ call'.queues = [call.queues EXCEPT ![c] = Tail(queue)]
    BY <1>1, <2>1 DEF CallAllowed
  <2>9. /\ call'.queues \in [Cluster -> Seq(Line)]
        /\ \A d \in Cluster : \A line \in Resident(call'.queues[d]) : Allowed(d, line)
    BY <2>2, <2>4, <2>5, <2>8
  <2> HIDE DEF queue, w
  <2>10. CallAllowed'
    <3>1. /\ DOMAIN call' = DOMAIN call /\ DOMAIN call = CallFields
          /\ call'.kind = call.kind /\ call'.own = call.own
          /\ call'.copies = call.copies /\ call'.left = call.left
          /\ call'.items = call.items /\ call'.policy = call.policy
          /\ call'.answer = call.answer
      BY <1>1, <2>8 DEF CallAllowed, CallFields
    <3> QED BY <1>1, <1>2, <2>9, <3>1 DEF CallAllowed, CallFields
  <2> QED BY <1>2, <2>7, <2>10 DEF SessionInv
<1> QED BY <1>3, <1>4, <1>5

LEMMA LineStep ==
  ASSUME SessionInv, BulkLine
  PROVE  SessionInv'
<1>1. /\ call # NoCall /\ UNCHANGED tables
      /\ TablesAgree /\ CachesAllowed /\ CallAllowed
  BY DEF BulkLine, SessionInv
<1>2. /\ TablesAgree'
      /\ \A c, line : Allowed(c, line) => Allowed(c, line)'
      /\ copied' = copied /\ homes' = homes
  BY <1>1, AllowedStays
<1> DEFINE Owner(p)  == p[1]
           Asking(p) == {x.requester : x \in {y \in call.items :
                           /\ <<y.owner, y.copy, y.tensor>> = <<p[1], p[2], p[3]>>
                           /\ p[4] \in y.sectors}}
           CopyOf(p) == {r \in Asking(p) : call.policy = BothFill /\ r # Owner(p)
                                             /\ Seen(r, <<p[2], p[4]>>)}
<1>3. PICK p, source :
        /\ p \in call.left
        /\ call' = [call EXCEPT
             !.left = @ \ {p},
             !.answer = Answered(@, source),
             !.queues = [r \in Cluster |->
                IF call.policy = BothFill /\ r \in Asking(p) \ (CopyOf(p) \cup {Owner(p)})
                THEN Enqueued(r, @[r], <<p[2], p[4]>>) ELSE @[r]]]
        /\ UNCHANGED caches \/ FillLine(<<Owner(p), p[2], p[4]>>)
  BY DEF BulkLine
<1> DEFINE owner == Owner(p)
           line == <<p[2], p[4]>>
           asked(r) == call.policy = BothFill /\ r \in Asking(p) \ (CopyOf(p) \cup {owner})
<1>4. p \in call.left /\ Allowed(owner, line) /\ line \in Line
  <2>1. p \in call.left
    BY <1>3
  <2> QED BY <1>1, <2>1 DEF CallAllowed, Allowed
<1>5. CachesAllowed'
  <2>1. CASE UNCHANGED caches
    BY <1>1, <1>2, <2>1, CachesStay
  <2>2. CASE FillLine(<<owner, p[2], p[4]>>)
    BY <1>1, <1>4, <2>2, FillKeeps
  <2> QED BY <1>3, <2>1, <2>2
<1>6. ASSUME NEW r, asked(r) PROVE Allowed(r, line)
  <2>1. PICK x \in call.items : x.requester = r /\ x.owner = owner /\ x.copy = p[2]
    BY <1>6
  <2>2. p[2] \in copied
    BY <1>1, <1>6, <2>1 DEF CallAllowed
  <2> QED BY <1>4, <2>2 DEF Allowed
<1>7. /\ call.queues \in [Cluster -> Seq(Line)]
      /\ \A c \in Cluster : \A l \in Resident(call.queues[c]) : Allowed(c, l)
  BY <1>1 DEF CallAllowed
<1>8. /\ DOMAIN call' = CallFields
      /\ call'.kind = call.kind /\ call'.own = call.own
      /\ call'.copies = call.copies /\ call'.left = call.left \ {p}
      /\ call'.items = call.items /\ call'.policy = call.policy
      /\ call'.queues = [r \in Cluster |->
           IF asked(r) THEN Enqueued(r, call.queues[r], line) ELSE call.queues[r]]
  BY <1>1, <1>3 DEF CallAllowed, CallFields
<1> HIDE DEF asked, line, owner
<1>9. ASSUME NEW c \in Cluster
      PROVE  /\ call'.queues[c] \in Seq(Line)
             /\ \A l \in Resident(call'.queues[c]) : Allowed(c, l)
  <2>1. call.queues[c] \in Seq(Line) /\ Capacity[c] \in Nat \ {0}
    BY <1>7, SessionAssumption
  <2>2. CASE asked(c)
    <3>1. /\ Enqueued(c, call.queues[c], line) \in Seq(Line)
          /\ Resident(Enqueued(c, call.queues[c], line))
               \subseteq Resident(call.queues[c]) \cup {line}
      BY <1>4, <2>1, Enqueues DEF Enqueued
    <3>2. call'.queues[c] = Enqueued(c, call.queues[c], line)
      BY <1>8, <2>2
    <3> QED BY <1>6, <1>7, <2>2, <3>1, <3>2
  <2>3. CASE ~asked(c)
    BY <1>7, <1>8, <2>1, <2>3
  <2> QED BY <2>2, <2>3
<1>10. call'.queues \in [Cluster -> Seq(Line)]
  BY <1>8, <1>9
<1>11. call.kind = "bulk"
  BY <1>1, <1>4 DEF CallAllowed
<1>12. CallAllowed'
  BY <1>1, <1>2, <1>8, <1>9, <1>10, <1>11 DEF CallAllowed, CallFields
<1> QED BY <1>2, <1>5, <1>12 DEF SessionInv

(* The tables of an empty session.                                         *)
LEMMA EmptySession ==
  ASSUME caches = [c \in Cluster |-> <<>>], call = NoCall,
         homes = [k \in {} |-> None], intervals = [k \in {} |-> None]
  PROVE  SessionInv
<1>1. <<>> \in Seq(Line) /\ Resident(<<>>) = {}
  BY DEF Resident, Range
<1>2. DOMAIN homes = {} /\ DOMAIN intervals = {}
  OBVIOUS
<1>3. TablesAgree
  BY <1>2 DEF TablesAgree, Overlap
<1>4. CachesAllowed
  BY <1>1 DEF CachesAllowed
<1>5. CallAllowed
  BY DEF CallAllowed
<1> QED BY <1>3, <1>4, <1>5 DEF SessionInv

LEMMA ReturnStep ==
  ASSUME SessionInv, Return
  PROVE  SessionInv'
<1>1. UNCHANGED caches /\ UNCHANGED tables /\ call' = NoCall
  BY DEF Return
<1>2. TablesAgree' /\ CachesAllowed'
  BY <1>1, AllowedStays, CachesStay DEF SessionInv
<1> QED BY <1>1, <1>2 DEF SessionInv, CallAllowed

LEMMA IdleStep ==
  ASSUME SessionInv, UNCHANGED <<caches, tables, call>>
  PROVE  SessionInv'
<1>1. UNCHANGED caches /\ UNCHANGED tables /\ UNCHANGED call
  OBVIOUS
<1>2. TablesAgree' /\ CachesAllowed'
  BY <1>1, AllowedStays, CachesStay DEF SessionInv
<1>3. CallAllowed'
  BY <1>1, AllowedStays DEF SessionInv, CallAllowed
<1> QED BY <1>2, <1>3 DEF SessionInv

LEMMA ResetStep ==
  ASSUME Reset
  PROVE  SessionInv'
<1>1. /\ caches' = [c \in Cluster |-> <<>>] /\ call' = NoCall
      /\ homes' = [k \in {} |-> None] /\ intervals' = [k \in {} |-> None]
  BY DEF Reset
<1>2. <<>> \in Seq(Line) /\ Resident(<<>>) = {}
  BY DEF Resident, Range
<1>3. TablesAgree'
  BY <1>1 DEF TablesAgree, Overlap
<1>4. CachesAllowed'
  BY <1>1, <1>2 DEF CachesAllowed
<1> QED BY <1>1, <1>3, <1>4 DEF SessionInv, CallAllowed

(* In every state of a session its tables speak of the same owners, the    *)
(* reserved intervals of one owner are apart, and what is cached or about  *)
(* to be is within them, at home or a recorded copy.                       *)
THEOREM SessionInvariant == SessionSpec => []SessionInv
<1>1. SessionInit => SessionInv
  BY EmptySession DEF SessionInit
<1>2. SessionInv /\ [SessionNext]_sessionVars => SessionInv'
  <2> SUFFICES ASSUME SessionInv, [SessionNext]_sessionVars PROVE SessionInv'
    OBVIOUS
  <2>1. CASE \E items \in Epochs, policy \in Policies : ReplayEpoch(items, policy)
    BY <2>1, EpochStep
  <2>2. CASE \E items \in BulkEpochs, policy \in Policies : ReplayBulk(items, policy)
    <3>1. PICK items \in BulkEpochs, policy \in Policies : ReplayBulk(items, policy)
      BY <2>2
    <3>2. Requests(items) /\ \A x \in items : x.offset = 0
      BY CallsAsk, SessionAssumption
    <3> QED BY <3>1, <3>2, BulkStep
  <2>3. CASE \E items \in Writes : ApplyOutputPressure(items)
    <3>1. PICK items \in Writes : ApplyOutputPressure(items)
      BY <2>3
    <3>2. Requests(items) /\ \A x \in items : x.offset = 0
      BY CallsAsk, SessionAssumption
    <3> QED BY <3>1, <3>2, WriteStep
  <2>4. CASE FillOwn \/ FillCopy \/ BulkFlush
    BY <2>4, FillStep
  <2>5. CASE BulkLine
    BY <2>5, LineStep
  <2>6. CASE Return
    BY <2>6, ReturnStep
  <2>7. CASE Refuse \/ UNCHANGED sessionVars
    <3>1. UNCHANGED <<caches, tables, call>>
      BY <2>7 DEF Refuse, sessionVars
    <3> QED BY <3>1, IdleStep
  <2>8. CASE Reset
    BY <2>8, ResetStep
  <2> QED BY <2>1, <2>2, <2>3, <2>4, <2>5, <2>6, <2>7, <2>8 DEF SessionNext
<1> QED BY <1>1, <1>2, PTL DEF SessionSpec

LEMMA BeforeEither ==
  ASSUME NEW a \in Int, NEW b \in Int, NEW j \in Nat,
         NEW c \in Int, NEW d \in Int, NEW k \in Nat, j # k
  PROVE  Before(<<a, b, j>>, <<c, d, k>>) \/ Before(<<c, d, k>>, <<a, b, j>>)
BY DEF Before

(* What the invariant says of the caches.                                  *)
LEMMA SectorsApart ==
  ASSUME SessionInv
  PROVE  NoSectorAliasing
<1> SUFFICES ASSUME NEW l \in Lines, NEW m \in Lines,
                    homes[l[1]][1] = homes[m[1]][1], SectorOf(l) = SectorOf(m)
             PROVE  l = m
  BY DEF NoSectorAliasing
<1>1. \A x \in Lines :
        /\ x \in Line /\ x[1] \in DOMAIN intervals
        /\ intervals[x[1]][2] <= SectorOf(x) /\ SectorOf(x) < intervals[x[1]][3]
  BY DEF Lines, SessionInv, CachesAllowed, Allowed
<1>2. /\ DOMAIN intervals \subseteq DOMAIN homes \cap Nat
      /\ \A k \in DOMAIN homes : homes[k] \in Nat \X Int
      /\ \A k \in DOMAIN intervals :
           intervals[k] \in Nat \X Nat \X Nat /\ intervals[k][1] = homes[k][1]
      /\ ~Overlap(intervals)
  BY DEF SessionInv, TablesAgree
<1>3. SectorOf(l) \in Int
  BY <1>1, <1>2 DEF SectorOf, Line
<1>4. l[1] = m[1]
  <2> SUFFICES ASSUME l[1] # m[1] PROVE FALSE
    OBVIOUS
  <2> DEFINE j == l[1]
             k == m[1]
  <2>1. /\ j \in DOMAIN intervals /\ k \in DOMAIN intervals
        /\ j \in Nat /\ k \in Nat /\ intervals[j][1] = intervals[k][1]
        /\ intervals[j] \in Nat \X Nat \X Nat /\ intervals[k] \in Nat \X Nat \X Nat
    BY <1>1, <1>2
  <2>2. intervals[k][2] < intervals[j][3] /\ intervals[j][2] < intervals[k][3]
    BY <1>1, <1>3, <2>1
  <2>3. \/ Before(<<intervals[j][2], intervals[j][3], j>>,
                  <<intervals[k][2], intervals[k][3], k>>)
        \/ Before(<<intervals[k][2], intervals[k][3], k>>,
                  <<intervals[j][2], intervals[j][3], j>>)
    BY <2>1, BeforeEither
  <2> HIDE DEF j, k
  <2> QED BY <1>2, <2>1, <2>2, <2>3 DEF Overlap
<1>5. l[2] + homes[l[1]][2] = m[2] + homes[l[1]][2]
  BY <1>4 DEF SectorOf
<1>6. l \in Nat \X Int /\ m \in Nat \X Int /\ homes[l[1]][2] \in Int
  BY <1>1, <1>2 DEF Line
<1>7. l[2] = m[2]
  BY <1>5, <1>6
<1> QED BY <1>4, <1>6, <1>7

LEMMA WritesAlone ==
  ASSUME SessionInv
  PROVE  WritesFindNoCopies
<1> SUFFICES ASSUME call # NoCall, call.kind = "write",
                    NEW c \in Cluster, NEW w \in call.answer,
                    NEW line \in Resident(caches[c]), line[1] = w[2]
             PROVE  c = w[1]
  BY DEF WritesFindNoCopies
<1>1. homes[line[1]][1] = c \/ line[1] \in copied
  BY DEF SessionInv, CachesAllowed, Allowed
<1>2. homes[w[2]][1] = w[1] /\ w[2] \notin copied
  BY DEF SessionInv, CallAllowed
<1> QED BY <1>1, <1>2

LEMMA CopiesKnown ==
  ASSUME SessionInv
  PROVE  CopiesRecorded
BY DEF SessionInv, CachesAllowed, Allowed, CopiesRecorded

(* Two cached lines of one owner and one DRAM sector are the same line.    *)
THEOREM SectorsNeverAlias == SessionSpec => []NoSectorAliasing
BY SectorsApart, SessionInvariant, PTL

(* What a call writes is in no cache but its owner's.                      *)
THEOREM WritesMeetNoCopies == SessionSpec => []WritesFindNoCopies
BY WritesAlone, SessionInvariant, PTL

(* A line in another cache than its owner's is of a recorded copy.         *)
THEOREM CopiesAreRecorded == SessionSpec => []CopiesRecorded
BY CopiesKnown, SessionInvariant, PTL
------------------------------------------------------------------------------
(* A call that is refused stays refused: tables only grow.                 *)

(* Wider intervals keep an overlap.                                        *)
LEMMA OverlapLasts ==
  ASSUME NEW a, NEW b, DOMAIN a \subseteq DOMAIN b, DOMAIN a \subseteq Nat,
         \A k \in DOMAIN a :
           /\ a[k] \in Nat \X Nat \X Nat /\ a[k][2] < a[k][3]
           /\ b[k] \in Nat \X Nat \X Nat /\ b[k][1] = a[k][1]
           /\ b[k][2] <= a[k][2] /\ a[k][3] <= b[k][3],
         Overlap(a)
  PROVE  Overlap(b)
<1>1. PICK j \in DOMAIN a, k \in DOMAIN a :
        /\ a[j][1] = a[k][1]
        /\ Before(<<a[j][2], a[j][3], j>>, <<a[k][2], a[k][3], k>>)
        /\ a[k][2] < a[j][3]
  BY DEF Overlap
<1>2. PICK js \in Nat, je \in Nat, ks \in Nat, ke \in Nat :
        js = a[j][2] /\ je = a[j][3] /\ ks = a[k][2] /\ ke = a[k][3]
  OBVIOUS
<1>3. PICK jS \in Nat, jE \in Nat, kS \in Nat, kE \in Nat :
        jS = b[j][2] /\ jE = b[j][3] /\ kS = b[k][2] /\ kE = b[k][3]
  OBVIOUS
<1>4. j # k /\ js <= ks
  <2>1. Before(<<js, je, j>>, <<ks, ke, k>>)
    BY <1>1, <1>2
  <2>2. j \in Nat /\ k \in Nat
    OBVIOUS
  <2>. QED BY <1>2, <2>1, <2>2 DEF Before
<1>5. jS <= js /\ je <= jE /\ kS <= ks /\ ke <= kE /\ ks < ke /\ ks < je
  BY <1>1, <1>2, <1>3
<1>6. kS < jE /\ jS < kE
  BY <1>4, <1>5
<1>7. b[j][1] = b[k][1] /\ j \in DOMAIN b /\ k \in DOMAIN b
  BY <1>1
<1>8. Before(<<jS, jE, j>>, <<kS, kE, k>>) \/ Before(<<kS, kE, k>>, <<jS, jE, j>>)
  BY <1>4, BeforeEither, SMTT(60)
<1>. QED BY <1>3, <1>6, <1>7, <1>8 DEF Overlap

LEMMA MappingsCommitted ==
  ASSUME NEW items, MappingsAgree(items), CommitTables(items)
  PROVE  /\ DOMAIN mappings' = DOMAIN mappings \cup {x.copy : x \in items}
         /\ \A k \in DOMAIN mappings : mappings'[k] = mappings[k]
         /\ \A x \in items : mappings'[x.copy] = x.mapping
<1>1. mappings' = [k \in DOMAIN mappings \cup {x.copy : x \in items} |->
                     IF \E x \in items : x.copy = k
                     THEN (CHOOSE x \in items : x.copy = k).mapping ELSE mappings[k]]
  BY DEF CommitTables, Updated
<1>2. ASSUME NEW x \in items PROVE mappings'[x.copy] = x.mapping
  <2> DEFINE y == CHOOSE z \in items : z.copy = x.copy
  <2>1. y \in items /\ y.copy = x.copy
    OBVIOUS
  <2>2. mappings'[x.copy] = y.mapping
    BY <1>1
  <2> HIDE DEF y
  <2>. QED BY <2>1, <2>2 DEF MappingsAgree
<1>3. ASSUME NEW k \in DOMAIN mappings PROVE mappings'[k] = mappings[k]
  <2>1. CASE \E x \in items : x.copy = k
    BY <1>2, <2>1 DEF MappingsAgree
  <2>2. CASE ~\E x \in items : x.copy = k
    BY <1>1, <2>2
  <2>. QED BY <2>1, <2>2
<1>. QED BY <1>1, <1>2, <1>3

LEMMA RefusalLasts ==
  ASSUME TablesAgree, NEW new, Requests(new), Admissible(new), CommitTables(new),
         copied \subseteq copied', NEW items, Requests(items)
  PROVE  /\ Admissible(items)' => Admissible(items)
         /\ MappingsAgree(items)' => MappingsAgree(items)
         /\ Writable(items)' => Writable(items)
<1>1. /\ DOMAIN homes \subseteq DOMAIN homes'
      /\ \A k \in DOMAIN homes : homes'[k] = homes[k]
  BY HomesCommitted DEF Admissible
<1>2. /\ DOMAIN mappings \subseteq DOMAIN mappings'
      /\ \A k \in DOMAIN mappings : mappings'[k] = mappings[k]
  BY MappingsCommitted DEF Admissible
<1>3. /\ DOMAIN intervals \subseteq DOMAIN intervals'
      /\ \A k \in DOMAIN intervals' : intervals'[k] \in Nat \X Nat \X Nat
      /\ \A k \in DOMAIN intervals :
           /\ intervals'[k][1] = intervals[k][1]
           /\ intervals'[k][2] <= intervals[k][2] /\ intervals[k][3] <= intervals'[k][3]
  <2>1. intervals' = Candidate(new)
    BY DEF CommitTables
  <2>. QED BY <2>1, IntervalsGrow
<1>4. TablesAgree'
  BY TablesGrow
<1>5. HomesAgree(items)' => HomesAgree(items)
  BY <1>1 DEF HomesAgree, Home
<1>6. MappingsAgree(items)' => MappingsAgree(items)
  BY <1>2 DEF MappingsAgree
<1>7. Writable(items)' => Writable(items)
  BY DEF Writable
<1>8. OwnersAgree(items)' => OwnersAgree(items)
  BY <1>3 DEF OwnersAgree, Placed, Span
<1>9. /\ InUnit(items)' => InUnit(items)
      /\ (\A x \in items : x.mapping # Unhashable)' =>
           \A x \in items : x.mapping # Unhashable
      /\ (\A x \in items : WellPlaced(x))' => \A x \in items : WellPlaced(x)
  BY DEF InUnit, WellPlaced, Span
<1>10. ASSUME Admissible(items)' PROVE ~Overlap(Candidate(items))
  <2> DEFINE a == Hulls(intervals, items)
             b == Hulls(intervals', items)
  <2>1. Candidate(items) = a
    BY DEF Candidate, Hulls
  <2>2. ~Overlap(b)
    <3>1. (~Overlap(Candidate(items)))'
      BY <1>10 DEF Admissible
    <3>2. Candidate(items)' = b
      BY DEF Candidate, Hulls
    <3> HIDE DEF b
    <3>. QED BY <3>1, <3>2 DEF Overlap
  <2>3. /\ \A x \in items : WellPlaced(x)
        /\ HomesAgree(items)' /\ OwnersAgree(items)'
    BY <1>9, <1>10 DEF Admissible
  <2>4. /\ \A x, y \in items : x.copy = y.copy => x.owner = y.owner
        /\ \A x \in Placed(items) :
             x.copy \in DOMAIN intervals => intervals[x.copy][1] = x.owner
        /\ \A x \in Placed(items) :
             x.copy \in DOMAIN intervals' => intervals'[x.copy][1] = x.owner
    <3>1. \A x, y \in items : x.copy = y.copy => x.owner = y.owner
      BY <2>3 DEF HomesAgree, Home
    <3>2. \A x \in Placed(items) :
            x.copy \in DOMAIN intervals => intervals[x.copy][1] = x.owner
      BY <1>8, <2>3 DEF OwnersAgree
    <3>3. \A x \in Placed(items) :
             x.copy \in DOMAIN intervals' => intervals'[x.copy][1] = x.owner
      BY <2>3 DEF OwnersAgree, Placed, Span
    <3>. QED BY <3>1, <3>2, <3>3
  <2>5. /\ \A k \in DOMAIN intervals : intervals[k] \in Nat \X Nat \X Nat
        /\ \A k \in DOMAIN intervals : intervals[k][2] < intervals[k][3]
        /\ DOMAIN intervals \subseteq Nat
    BY DEF TablesAgree
  <2>6. \A x \in Placed(items) : /\ x \in items /\ x.copy \in Nat
                                 /\ Span(x)[1] \in Nat /\ Span(x)[2] \in Nat
                                 /\ Span(x)[1] < Span(x)[2]
    BY <2>3, SpanHolds DEF Placed, WellPlaced, Requests
  <2>7. /\ DOMAIN a = DOMAIN intervals \cup {x.copy : x \in Placed(items)}
        /\ \A k \in DOMAIN a : a[k] \in Nat \X Nat \X Nat
        /\ \A k \in DOMAIN intervals :
             /\ a[k][1] = intervals[k][1]
             /\ a[k][2] <= intervals[k][2] /\ intervals[k][3] <= a[k][3]
        /\ \A x \in Placed(items) :
             /\ a[x.copy][1] = x.owner
             /\ a[x.copy][2] <= Span(x)[1] /\ Span(x)[2] <= a[x.copy][3]
        /\ \A k \in DOMAIN a :
             /\ \/ k \in DOMAIN intervals /\ a[k][2] = intervals[k][2]
                \/ \E x \in Placed(items) : x.copy = k /\ a[k][2] = Span(x)[1]
             /\ \/ k \in DOMAIN intervals /\ a[k][3] = intervals[k][3]
                \/ \E x \in Placed(items) : x.copy = k /\ a[k][3] = Span(x)[2]
    <3>1. Grown(intervals, a, items)
      BY <2>3, <2>4, <2>5, HullsGrow
    <3> HIDE DEF a
    <3> QED BY <3>1 DEF Grown
  <2>8. /\ DOMAIN b = DOMAIN intervals' \cup {x.copy : x \in Placed(items)}
        /\ \A k \in DOMAIN b : b[k] \in Nat \X Nat \X Nat
        /\ \A k \in DOMAIN intervals' :
             /\ b[k][1] = intervals'[k][1]
             /\ b[k][2] <= intervals'[k][2] /\ intervals'[k][3] <= b[k][3]
        /\ \A x \in Placed(items) :
             /\ b[x.copy][1] = x.owner
             /\ b[x.copy][2] <= Span(x)[1] /\ Span(x)[2] <= b[x.copy][3]
    <3>1. Grown(intervals', b, items)
      BY <1>3, <2>3, <2>4, HullsGrow
    <3> HIDE DEF b
    <3> QED BY <3>1 DEF Grown
  <2> HIDE DEF a, b
  <2>9. DOMAIN a \subseteq DOMAIN b /\ DOMAIN a \subseteq Nat
    BY <1>3, <2>5, <2>6, <2>7, <2>8
  <2>10. ASSUME NEW k \in DOMAIN a
         PROVE  /\ a[k] \in Nat \X Nat \X Nat /\ a[k][2] < a[k][3]
                /\ b[k] \in Nat \X Nat \X Nat /\ b[k][1] = a[k][1]
                /\ b[k][2] <= a[k][2] /\ a[k][3] <= b[k][3]
    <3>1. a[k] \in Nat \X Nat \X Nat /\ b[k] \in Nat \X Nat \X Nat
      BY <2>7, <2>8, <2>9
    <3>2. a[k][2] < a[k][3] /\ b[k][1] = a[k][1]
      <4>1. CASE k \in DOMAIN intervals
        BY <1>3, <2>5, <2>7, <2>8, <3>1, <4>1
      <4>2. CASE k \notin DOMAIN intervals
        <5>1. PICK x \in Placed(items) : x.copy = k
          BY <2>7, <4>2
        <5>. QED BY <2>6, <2>7, <2>8, <3>1, <5>1
      <4>. QED BY <4>1, <4>2
    <3>3. b[k][2] <= a[k][2]
      <4>1. CASE k \in DOMAIN intervals /\ a[k][2] = intervals[k][2]
        BY <1>3, <2>5, <2>8, <3>1, <4>1
      <4>2. CASE \E x \in Placed(items) : x.copy = k /\ a[k][2] = Span(x)[1]
        BY <2>8, <4>2
      <4>. QED BY <2>7, <4>1, <4>2
    <3>4. a[k][3] <= b[k][3]
      <4>1. CASE k \in DOMAIN intervals /\ a[k][3] = intervals[k][3]
        BY <1>3, <2>5, <2>8, <3>1, <4>1
      <4>2. CASE \E x \in Placed(items) : x.copy = k /\ a[k][3] = Span(x)[2]
        BY <2>8, <4>2
      <4>. QED BY <2>7, <4>1, <4>2
    <3>. QED BY <3>1, <3>2, <3>3, <3>4
  <2>11. Overlap(a) => Overlap(b)
    BY <2>9, <2>10, OverlapLasts
  <2>. QED BY <2>1, <2>2, <2>11
<1>11. Admissible(items)' => Admissible(items)
  <2> SUFFICES ASSUME Admissible(items)' PROVE Admissible(items)
    OBVIOUS
  <2>1. /\ InUnit(items)' /\ (\A x \in items : x.mapping # Unhashable)'
        /\ HomesAgree(items)' /\ MappingsAgree(items)'
        /\ (\A x \in items : WellPlaced(x))' /\ OwnersAgree(items)'
    BY DEF Admissible
  <2>. QED BY <1>5, <1>6, <1>8, <1>9, <1>10, <2>1 DEF Admissible
<1>. QED BY <1>6, <1>7, <1>11
------------------------------------------------------------------------------
(* Lines filled one after the other: h[i] is the queue after i of them.    *)
Fills(cap, q, s, h) ==
  h[0] = q /\ \A i \in 1 .. Len(s) : h[i] = Fill(cap, h[i - 1], s[i])

LEMMA TopOfRange ==
  ASSUME NEW k \in Nat \ {0}
  PROVE  /\ \A T \in SUBSET (1 .. k) : k \in T => Max(T) = k
         /\ \A T \in SUBSET (1 .. k) :
              T # {} => Max(T) \in T /\ T \ {Max(T)} \in SUBSET (1 .. k)
<1>1. ASSUME NEW T \in SUBSET (1 .. k), T # {}
      PROVE  Max(T) \in T /\ \A y \in T : y <= Max(T)
  <2>1. IsFiniteSet(1 .. k)
    BY FS_Interval
  <2>2. IsFiniteSet(T)
    BY <2>1, FS_Subset
  <2>3. T \in SUBSET Int
    OBVIOUS
  <2>. QED BY <1>1, <2>2, <2>3, FiniteMax
<1>2. ASSUME NEW T \in SUBSET (1 .. k), k \in T PROVE Max(T) = k
  <2>1. Max(T) \in 1 .. k /\ k <= Max(T)
    BY <1>1, <1>2
  <2>. QED BY <2>1
<1>3. ASSUME NEW T \in SUBSET (1 .. k), T # {}
      PROVE  Max(T) \in T /\ T \ {Max(T)} \in SUBSET (1 .. k)
  BY <1>1, <1>3
<1>. QED BY <1>2, <1>3

(* The fold that FillAll is does them in order.                            *)
LEMMA FillRuns ==
  ASSUME NEW cap, NEW q, NEW S, NEW s \in Seq(S)
  PROVE  \E h : Fills(cap, q, s, h) /\ FillAll(cap, q, s) = h[Len(s)]
<1> DEFINE n == Len(s)
           Fold(T, g) == IF T = {} THEN q
                         ELSE Fill(cap, g[T \ {Max(T)}], s[Max(T)])
           iter == CHOOSE g : g = [T \in SUBSET (1 .. n) |-> Fold(T, g)]
<1>1. n \in Nat /\ DOMAIN s = 1 .. n
  OBVIOUS
<1>2. FillAll(cap, q, s) = iter[1 .. n]
  BY <1>1 DEF FillAll, FoldLeft, MapThenFoldSet
<1>3. \E g : g = [T \in SUBSET (1 .. n) |-> Fold(T, g)]
  <2> DEFINE Good == {k \in Nat : \E g : \A T \in SUBSET (1 .. k) : g[T] = Fold(T, g)}
  <2>1. 0 \in Good
    <3> DEFINE g == [T \in SUBSET {} |-> q]
    <3>1. \A T \in SUBSET (1 .. 0) : T = {} /\ g[T] = q
      OBVIOUS
    <3>2. \A T \in SUBSET (1 .. 0) : g[T] = Fold(T, g)
      BY <3>1
    <3>. QED BY <3>2
  <2>2. ASSUME NEW k \in Nat, k \in Good PROVE k + 1 \in Good
    <3>1. PICK g : \A T \in SUBSET (1 .. k) : g[T] = Fold(T, g)
      BY <2>2
    <3> DEFINE f == [T \in SUBSET (1 .. k + 1) |->
                       IF k + 1 \in T THEN Fill(cap, g[T \ {k + 1}], s[k + 1]) ELSE g[T]]
    <3>2. ASSUME NEW T \in SUBSET (1 .. k + 1) PROVE f[T] = Fold(T, f)
      <4>1. CASE k + 1 \in T
        <5>1. Max(T) = k + 1 /\ T # {} /\ T \ {k + 1} \in SUBSET (1 .. k + 1)
              /\ k + 1 \notin T \ {k + 1}
          BY <4>1, TopOfRange
        <5>2. f[T] = Fill(cap, g[T \ {k + 1}], s[k + 1])
          BY <4>1
        <5>3. f[T \ {k + 1}] = g[T \ {k + 1}]
          BY <5>1
        <5> HIDE DEF f
        <5>. QED BY <5>1, <5>2, <5>3
      <4>2. CASE k + 1 \notin T
        <5>1. T \in SUBSET (1 .. k)
          BY <4>2
        <5>2. f[T] = g[T] /\ g[T] = Fold(T, g)
          BY <3>1, <4>2, <5>1
        <5>3. CASE T = {}
          BY <5>2, <5>3
        <5>4. CASE T # {}
          <6>1. T \ {Max(T)} \in SUBSET (1 .. k) /\ T \ {Max(T)} \in SUBSET (1 .. k + 1)
                /\ k + 1 \notin T \ {Max(T)}
            <7> DEFINE m == Max(T)
            <7> HIDE DEF m
            <7>1. \A y \in 1 .. k : y \in 1 .. k + 1 /\ y # k + 1
              OBVIOUS
            <7>2. \A y \in T \ {m} : y \in 1 .. k
              BY <5>1
            <7>. QED BY <7>1, <7>2 DEF m
          <6>2. f[T \ {Max(T)}] = g[T \ {Max(T)}]
            BY <6>1
          <6> HIDE DEF f
          <6>. QED BY <5>2, <5>4, <6>2
        <5>. QED BY <5>3, <5>4
      <4>. QED BY <4>1, <4>2
    <3> HIDE DEF f
    <3>3. \E u : \A T \in SUBSET (1 .. k + 1) : u[T] = Fold(T, u)
      BY <3>2
    <3> HIDE DEF Fold
    <3>4. k + 1 \in Nat
      OBVIOUS
    <3>. QED BY <3>3, <3>4
  <2> HIDE DEF Good
  <2>3. n \in Good
    BY <1>1, <2>1, <2>2, NatSetInduction
  <2> USE DEF Good
  <2>4. PICK g : \A T \in SUBSET (1 .. n) : g[T] = Fold(T, g)
    BY <2>3
  <2> DEFINE f == [T \in SUBSET (1 .. n) |-> g[T]]
  <2>5. ASSUME NEW T \in SUBSET (1 .. n) PROVE f[T] = Fold(T, f)
    <3>1. f[T] = g[T] /\ T \ {Max(T)} \in SUBSET (1 .. n)
      OBVIOUS
    <3>2. f[T \ {Max(T)}] = g[T \ {Max(T)}]
      BY <3>1
    <3> HIDE DEF f
    <3>. QED BY <2>4, <3>1, <3>2
  <2>6. f = [T \in SUBSET (1 .. n) |-> f[T]]
    OBVIOUS
  <2> HIDE DEF f
  <2>7. f = [T \in SUBSET (1 .. n) |-> Fold(T, f)]
    BY <2>5, <2>6
  <2>. QED BY <2>7
<1>4. iter = [T \in SUBSET (1 .. n) |-> Fold(T, iter)]
  BY <1>3
<1> HIDE DEF iter
<1>5. \A T \in SUBSET (1 .. n) : iter[T] = Fold(T, iter)
  BY <1>4
<1> DEFINE h == [i \in 0 .. n |-> iter[1 .. i]]
<1>6. h[0] = q
  <2>1. 1 .. 0 = {} /\ {} \in SUBSET (1 .. n)
    OBVIOUS
  <2>2. iter[{}] = q
    BY <1>5, <2>1
  <2>3. 0 \in 0 .. n
    BY <1>1
  <2>. QED BY <2>1, <2>2, <2>3
<1>7. ASSUME NEW i \in 1 .. n PROVE h[i] = Fill(cap, h[i - 1], s[i])
  <2>1. /\ i \in Nat \ {0} /\ 1 .. i \in SUBSET (1 .. n) /\ i \in 1 .. i
        /\ (1 .. i) \ {i} = 1 .. (i - 1) /\ i - 1 \in 0 .. n /\ i \in 0 .. n
    BY <1>1
  <2>2. Max(1 .. i) = i
    BY <2>1, TopOfRange
  <2>3. iter[1 .. i] = Fill(cap, iter[1 .. (i - 1)], s[i])
    BY <1>5, <2>1, <2>2
  <2>. QED BY <2>1, <2>3
<1>8. h[n] = iter[1 .. n]
  BY <1>1
<1> HIDE DEF h
<1>. QED BY <1>2, <1>6, <1>7, <1>8 DEF Fills

LEMMA FillsAgree ==
  ASSUME NEW cap, NEW q, NEW S, NEW s \in Seq(S), NEW h, Fills(cap, q, s, h)
  PROVE  FillAll(cap, q, s) = h[Len(s)]
<1>1. PICK g : Fills(cap, q, s, g) /\ FillAll(cap, q, s) = g[Len(s)]
  BY FillRuns
<1> DEFINE Good == {i \in Nat : i <= Len(s) => g[i] = h[i]}
<1>2. 0 \in Good
  BY <1>1 DEF Fills
<1>3. ASSUME NEW i \in Nat, i \in Good PROVE i + 1 \in Good
  <2> SUFFICES ASSUME i + 1 <= Len(s) PROVE g[i + 1] = h[i + 1]
    OBVIOUS
  <2>1. Len(s) \in Nat /\ i + 1 \in 1 .. Len(s) /\ (i + 1) - 1 = i /\ g[i] = h[i]
    BY <1>3
  <2>. QED BY <1>1, <2>1 DEF Fills
<1> HIDE DEF Good
<1>4. Len(s) \in Good
  BY <1>2, <1>3, NatSetInduction
<1>. QED BY <1>1, <1>4 DEF Good

(* Filling a list, by its first and by its last line.                      *)
LEMMA FillNone ==
  ASSUME NEW cap, NEW q
  PROVE  FillAll(cap, q, <<>>) = q
<1>1. <<>> \in Seq({}) /\ Len(<<>>) = 0
  OBVIOUS
<1>2. Fills(cap, q, <<>>, [i \in {0} |-> q])
  BY DEF Fills
<1>. QED BY <1>1, <1>2, FillsAgree

LEMMA FillBoth ==
  ASSUME NEW cap, NEW q, NEW S, NEW s \in Seq(S), NEW t \in Seq(S)
  PROVE  FillAll(cap, q, s \o t) = FillAll(cap, FillAll(cap, q, s), t)
<1>1. PICK g : Fills(cap, q, s, g) /\ FillAll(cap, q, s) = g[Len(s)]
  BY FillRuns
<1>2. PICK h : Fills(cap, g[Len(s)], t, h) /\ FillAll(cap, g[Len(s)], t) = h[Len(t)]
  BY FillRuns
<1> DEFINE u == s \o t
           m == Len(s)
           n == Len(t)
           f == [i \in 0 .. m + n |-> IF i <= m THEN g[i] ELSE h[i - m]]
<1>3. /\ u \in Seq(S) /\ Len(u) = m + n /\ m \in Nat /\ n \in Nat
      /\ \A i \in 1 .. m : u[i] = s[i]
      /\ \A i \in 1 .. n : u[m + i] = t[i]
  OBVIOUS
<1>4. g[0] = q /\ \A i \in 1 .. m : g[i] = Fill(cap, g[i - 1], s[i])
  BY <1>1 DEF Fills
<1>5. h[0] = g[m] /\ \A i \in 1 .. n : h[i] = Fill(cap, h[i - 1], t[i])
  BY <1>2 DEF Fills
<1>6. \A i \in 1 .. n : u[m + i] = t[i]
  OBVIOUS
<1>7. \A i \in 1 .. m : u[i] = s[i]
  OBVIOUS
<1> HIDE DEF u, m, n
<1>8. f[0] = q
  BY <1>3, <1>4
<1>9. ASSUME NEW i \in 1 .. m + n PROVE f[i] = Fill(cap, f[i - 1], u[i])
  <2>1. CASE i <= m
    <3>1. i \in 1 .. m /\ i \in 0 .. m + n /\ i - 1 \in 0 .. m + n /\ i - 1 <= m
      BY <1>3, <2>1
    <3>2. f[i] = g[i] /\ f[i - 1] = g[i - 1]
      BY <2>1, <3>1
    <3>. QED BY <1>4, <1>7, <3>1, <3>2
  <2>2. CASE ~(i <= m)
    <3>1. PICK j \in 1 .. n : i = m + j
      <4>1. i - m \in 1 .. n /\ i = m + (i - m)
        BY <1>3, <2>2
      <4>. QED BY <4>1
    <3>2. f[i] = h[j]
      <4>1. i - m = j /\ i \in 0 .. m + n
        BY <1>3, <3>1
      <4>. QED BY <2>2, <4>1
    <3>3. f[i - 1] = h[j - 1]
      <4>1. i - 1 \in 0 .. m + n /\ (i - 1) - m = j - 1
        BY <1>3, <3>1
      <4>2. CASE j = 1
        <5>1. i - 1 = m /\ j - 1 = 0 /\ m <= m
          BY <1>3, <3>1, <4>2
        <5>2. f[m] = g[m]
          BY <4>1, <5>1
        <5>. QED BY <1>5, <5>1, <5>2
      <4>3. CASE j # 1
        <5>1. ~(i - 1 <= m)
          BY <1>3, <3>1, <4>3
        <5>. QED BY <4>1, <5>1
      <4>. QED BY <4>2, <4>3
    <3>4. h[j] = Fill(cap, h[j - 1], t[j]) /\ u[i] = t[j]
      BY <1>5, <1>6, <3>1
    <3>. QED BY <3>2, <3>3, <3>4
  <2>. QED BY <2>1, <2>2
<1>10. f[m + n] = h[n]
  <2>1. m + n \in 0 .. m + n /\ (m + n) - m = n
    BY <1>3
  <2>2. CASE n = 0
    <3>1. m + n = m /\ m <= m
      BY <1>3, <2>2
    <3>. QED BY <1>5, <2>1, <2>2, <3>1
  <2>3. CASE n # 0
    <3>1. ~(m + n <= m)
      BY <1>3, <2>3
    <3>. QED BY <2>1, <3>1
  <2>. QED BY <2>2, <2>3
<1> HIDE DEF f
<1>11. Fills(cap, q, u, f)
  BY <1>3, <1>8, <1>9 DEF Fills
<1>12. FillAll(cap, q, u) = f[m + n]
  <2>1. u \in Seq(S) /\ Len(u) = m + n
    BY <1>3
  <2>2. FillAll(cap, q, u) = f[Len(u)]
    BY <1>11, <2>1, FillsAgree
  <2>. QED BY <2>1, <2>2
<1>. QED BY <1>1, <1>2, <1>10, <1>12 DEF u, m, n

LEMMA FillOne ==
  ASSUME NEW cap, NEW q, NEW x
  PROVE  FillAll(cap, q, <<x>>) = Fill(cap, q, x)
<1> DEFINE h == [i \in 0 .. 1 |-> IF i = 0 THEN q ELSE Fill(cap, q, x)]
<1>1. <<x>> \in Seq({x}) /\ Len(<<x>>) = 1 /\ <<x>>[1] = x
  OBVIOUS
<1>2. h[0] = q /\ h[1] = Fill(cap, q, x)
  OBVIOUS
<1> HIDE DEF h
<1>3. Fills(cap, q, <<x>>, h)
  BY <1>1, <1>2 DEF Fills
<1>. QED BY <1>1, <1>2, <1>3, FillsAgree

LEMMA FillFirst ==
  ASSUME NEW cap, NEW q, NEW S, NEW x \in S, NEW s \in Seq(S)
  PROVE  FillAll(cap, q, <<x>> \o s) = FillAll(cap, Fill(cap, q, x), s)
<1> DEFINE one == <<x>>
<1>1. one \in Seq(S)
  OBVIOUS
<1> HIDE DEF one
<1>2. FillAll(cap, q, one \o s) = FillAll(cap, FillAll(cap, q, one), s)
  BY <1>1, FillBoth
<1>. QED BY <1>2, FillOne DEF one

LEMMA FillFits ==
  ASSUME NEW cap \in Nat \ {0}, NEW q \in Seq(Line), Len(q) <= cap, NEW x \in Line
  PROVE  LET r == Fill(cap, q, x) IN
         /\ r \in Seq(Line) /\ Len(r) <= cap
         /\ Resident(r) \subseteq Resident(q) \cup {x}
<1>1. CASE x \in Resident(q)
  BY <1>1 DEF Fill
<1>2. CASE x \notin Resident(q)
  <2> DEFINE kept == IF Len(q) >= cap THEN Tail(q) ELSE q
  <2>1. Fill(cap, q, x) = Append(kept, x)
    BY <1>2 DEF Fill
  <2>2. /\ Append(kept, x) \in Seq(Line)
        /\ Resident(Append(kept, x)) \subseteq Resident(q) \cup {x}
    BY Enqueues
  <2>3. kept \in Seq(Line) /\ Len(kept) + 1 <= cap /\ Len(kept) \in Nat
    <3>1. Len(q) \in Nat
      OBVIOUS
    <3>2. CASE Len(q) >= cap
      <4>1. q # <<>>
        BY <3>2
      <4>2. Tail(q) \in Seq(Line) /\ Len(Tail(q)) = Len(q) - 1
        BY <4>1, HeadTailProperties
      <4>. QED BY <3>1, <3>2, <4>2
    <3>3. CASE ~(Len(q) >= cap)
      BY <3>1, <3>3
    <3>. QED BY <3>2, <3>3
  <2> HIDE DEF kept
  <2>4. Len(Append(kept, x)) = Len(kept) + 1
    BY <2>3, AppendProperties
  <2>. QED BY <2>1, <2>2, <2>3, <2>4
<1>. QED BY <1>1, <1>2

(* A cache keeps to its capacity, and to what it held and was filled with. *)
LEMMA FillStays ==
  ASSUME NEW cap \in Nat \ {0}, NEW q \in Seq(Line), Len(q) <= cap,
         NEW s \in Seq(Line)
  PROVE  LET r == FillAll(cap, q, s) IN
         /\ r \in Seq(Line) /\ Len(r) <= cap
         /\ Resident(r) \subseteq Resident(q) \cup Range(s)
<1>1. PICK h : Fills(cap, q, s, h) /\ FillAll(cap, q, s) = h[Len(s)]
  BY FillRuns
<1> DEFINE Stays(r) == /\ r \in Seq(Line) /\ Len(r) <= cap
                       /\ Resident(r) \subseteq Resident(q) \cup Range(s)
           Good == {i \in Nat : i <= Len(s) => Stays(h[i])}
<1>2. 0 \in Good
  BY <1>1 DEF Fills
<1>3. ASSUME NEW i \in Nat, i \in Good PROVE i + 1 \in Good
  <2> SUFFICES ASSUME i + 1 <= Len(s) PROVE Stays(h[i + 1])
    OBVIOUS
  <2>1. Len(s) \in Nat /\ i + 1 \in 1 .. Len(s) /\ (i + 1) - 1 = i
    BY <1>3
  <2>2. Stays(h[i])
    BY <1>3, <2>1
  <2>3. h[i + 1] = Fill(cap, h[i], s[i + 1])
    BY <1>1, <2>1 DEF Fills
  <2>4. s[i + 1] \in Line /\ s[i + 1] \in Range(s)
    BY <2>1 DEF Range
  <2> DEFINE r == h[i]
             x == s[i + 1]
             t == Fill(cap, r, x)
  <2>5. r \in Seq(Line) /\ Len(r) <= cap /\ x \in Line
    BY <2>2, <2>4
  <2> HIDE DEF r, x
  <2>6. t \in Seq(Line) /\ Len(t) <= cap /\ Resident(t) \subseteq Resident(r) \cup {x}
    BY <2>5, FillFits
  <2> HIDE DEF t
  <2>7. Resident(r) \subseteq Resident(q) \cup Range(s) /\ x \in Range(s)
    BY <2>2, <2>4 DEF r, x
  <2>8. h[i + 1] = t
    BY <2>3 DEF r, x, t
  <2>. QED BY <2>6, <2>7, <2>8
<1> HIDE DEF Good
<1>4. Len(s) \in Good
  BY <1>2, <1>3, NatSetInduction
<1>. QED BY <1>1, <1>4 DEF Good

(* Lines that are new to a cache, at least as many as it holds, leave the  *)
(* last of themselves there, whatever was in it.                           *)
LEMMA FreshFills ==
  ASSUME NEW cap \in Nat \ {0}, NEW q \in Seq(Line), Len(q) <= cap,
         NEW s \in Seq(Line), Len(s) >= cap,
         \A i, j \in 1 .. Len(s) : s[i] = s[j] => i = j,
         \A i \in 1 .. Len(s) : s[i] \notin Resident(q)
  PROVE  FillAll(cap, q, s) = [j \in 1 .. cap |-> s[Len(s) - cap + j]]
<1> DEFINE m == Len(q)
           n == Len(s)
           u == q \o s
           size(i) == IF m + i <= cap THEN m + i ELSE cap
<1>1. PICK h : Fills(cap, q, s, h) /\ FillAll(cap, q, s) = h[Len(s)]
  BY FillRuns
<1>2. /\ m \in Nat /\ n \in Nat /\ m <= cap /\ n >= cap
      /\ DOMAIN q = 1 .. m /\ DOMAIN s = 1 .. n
      /\ \A i \in 1 .. n : s[i] \in Line
  OBVIOUS
<1>3. \A j \in 1 .. m : u[j] = q[j]
  OBVIOUS
<1>4. \A j \in 1 .. n : u[m + j] = s[j]
  OBVIOUS
<1>5. \A j \in 1 .. m : u[j] \in Resident(q)
  BY <1>2, <1>3 DEF Resident, Range
<1>6. h[0] = q /\ \A i \in 1 .. n : h[i] = Fill(cap, h[i - 1], s[i])
  BY <1>1 DEF Fills
<1> HIDE DEF u, m, n
<1> DEFINE Newest(i) == /\ h[i] \in Seq(Line) /\ Len(h[i]) = size(i)
                      /\ \A j \in 1 .. size(i) : h[i][j] = u[m + i - size(i) + j]
           Good == {i \in Nat : i <= n => Newest(i)}
<1>7. 0 \in Good
  <2>1. size(0) = m /\ \A j \in 1 .. m : m + 0 - m + j = j
    BY <1>2
  <2>2. h[0] \in Seq(Line) /\ Len(h[0]) = m
    BY <1>6 DEF m
  <2>. QED BY <1>3, <1>6, <2>1, <2>2
<1>8. ASSUME NEW i \in Nat, i \in Good PROVE i + 1 \in Good
  <2> SUFFICES ASSUME i + 1 <= n PROVE Newest(i + 1)
    <3> HIDE DEF Newest
    <3>. QED OBVIOUS
  <2> DEFINE r == h[i]
             x == s[i + 1]
             k == size(i)
             kept == IF Len(r) >= cap THEN Tail(r) ELSE r
  <2>1. /\ i + 1 \in 1 .. n /\ (i + 1) - 1 = i /\ i \in 0 .. n
        /\ k \in 0 .. cap /\ k <= m + i
    BY <1>2
  <2>2. r \in Seq(Line) /\ Len(r) = k /\ \A j \in 1 .. k : r[j] = u[m + i - k + j]
    BY <1>2, <1>8, <2>1
  <2>3. h[i + 1] = Fill(cap, r, x) /\ x \in Line
    BY <1>2, <1>6, <2>1
  <2>4. x \notin Resident(r)
    <3> SUFFICES ASSUME NEW j \in 1 .. k, r[j] = x PROVE FALSE
      <4>1. DOMAIN r = 1 .. k
        BY <2>2
      <4>. QED BY <4>1 DEF Resident, Range
    <3> DEFINE p == m + i - k + j
    <3>1. u[p] = x /\ p \in 1 .. m + i
      BY <1>2, <2>1, <2>2
    <3>2. CASE p <= m
      <4>1. p \in 1 .. m
        BY <1>2, <3>1, <3>2
      <4>2. x \in Resident(q)
        BY <1>5, <3>1, <4>1
      <4>. QED BY <2>1, <4>2 DEF n
    <3>3. CASE ~(p <= m)
      <4>1. p - m \in 1 .. i /\ m + (p - m) = p
        BY <1>2, <2>1, <3>1, <3>3
      <4>2. p - m \in 1 .. n
        BY <1>2, <2>1, <4>1
      <4>3. s[p - m] = s[i + 1]
        BY <1>4, <3>1, <4>1, <4>2
      <4>4. p - m = i + 1
        BY <2>1, <4>2, <4>3 DEF n
      <4>. QED BY <2>1, <4>1, <4>4
    <3>. QED BY <3>2, <3>3
  <2>5. h[i + 1] = Append(kept, x)
    BY <2>3, <2>4 DEF Fill
  <2>6. CASE k >= cap
    <3>1. k = cap /\ size(i + 1) = cap /\ r # <<>>
      BY <1>2, <2>1, <2>2, <2>6
    <3>2. kept = Tail(r)
      BY <2>2, <2>6
    <3>3. /\ kept \in Seq(Line) /\ Len(kept) = cap - 1
          /\ \A j \in 1 .. cap - 1 : kept[j] = r[j + 1]
      BY <2>2, <3>1, <3>2, HeadTailProperties
    <3> HIDE DEF kept, r, x, k
    <3>4. /\ h[i + 1] \in Seq(Line) /\ Len(h[i + 1]) = (cap - 1) + 1
          /\ \A j \in 1 .. cap - 1 : h[i + 1][j] = kept[j]
          /\ h[i + 1][(cap - 1) + 1] = x
      BY <2>3, <2>5, <3>3, AppendProperties
    <3>5. ASSUME NEW j \in 1 .. cap PROVE h[i + 1][j] = u[m + (i + 1) - cap + j]
      <4>1. CASE j = cap
        <5>1. h[i + 1][j] = x /\ m + (i + 1) - cap + j = m + (i + 1)
          BY <1>2, <3>4, <4>1
        <5>. QED BY <1>4, <2>1, <5>1 DEF x
      <4>2. CASE j # cap
        <5>1. j \in 1 .. cap - 1 /\ j + 1 \in 1 .. k
              /\ m + i - k + (j + 1) = m + (i + 1) - cap + j
          BY <1>2, <3>1, <4>2
        <5>. QED BY <2>2, <3>3, <3>4, <5>1
      <4>. QED BY <4>1, <4>2
    <3>6. Len(h[i + 1]) = cap
      BY <3>4
    <3>. QED BY <3>1, <3>4, <3>5, <3>6
  <2>7. CASE ~(k >= cap)
    <3>1. k = m + i /\ size(i + 1) = k + 1
      BY <1>2, <2>1, <2>7
    <3>2. kept = r
      BY <2>2, <2>7
    <3> HIDE DEF kept, r, x, k
    <3>4. /\ h[i + 1] \in Seq(Line) /\ Len(h[i + 1]) = k + 1
          /\ \A j \in 1 .. k : h[i + 1][j] = r[j]
          /\ h[i + 1][k + 1] = x
      BY <2>2, <2>3, <2>5, <3>2, AppendProperties
    <3>5. ASSUME NEW j \in 1 .. k + 1 PROVE h[i + 1][j] = u[m + (i + 1) - (k + 1) + j]
      <4>1. CASE j = k + 1
        <5>1. h[i + 1][j] = x /\ m + (i + 1) - (k + 1) + j = m + (i + 1)
          BY <1>2, <2>1, <3>1, <3>4, <4>1
        <5>. QED BY <1>4, <2>1, <5>1 DEF x
      <4>2. CASE j # k + 1
        <5>1. j \in 1 .. k /\ m + i - k + j = m + (i + 1) - (k + 1) + j
          BY <1>2, <2>1, <4>2
        <5>. QED BY <2>2, <3>4, <5>1
      <4>. QED BY <4>1, <4>2
    <3>. QED BY <3>1, <3>4, <3>5
  <2>. QED BY <2>1, <2>6, <2>7
<1> HIDE DEF Good
<1>9. n \in Good
  BY <1>2, <1>7, <1>8, NatSetInduction
<1>10. Newest(n)
  BY <1>2, <1>9 DEF Good
<1>11. size(n) = cap
  BY <1>2
<1>12. h[n] \in Seq(Line) /\ Len(h[n]) = cap
  BY <1>10, <1>11
<1>13. ASSUME NEW j \in 1 .. cap PROVE h[n][j] = s[n - cap + j]
  <2>1. m + n - cap + j = m + (n - cap + j) /\ n - cap + j \in 1 .. n
    BY <1>2
  <2>. QED BY <1>4, <1>10, <1>11, <2>1
<1>14. h[n] = [j \in 1 .. cap |-> s[n - cap + j]]
  <2>1. h[n] \in [1 .. cap -> Line]
    BY <1>12
  <2>. QED BY <1>13, <2>1
<1>. QED BY <1>1, <1>14 DEF n
------------------------------------------------------------------------------
(* Lines in their order.                                                   *)

LEMMA LineBefore ==
  ASSUME NEW x \in Line, NEW y \in Line
  PROVE  Before(x, y) <=> (x[1] < y[1] \/ (x[1] = y[1] /\ x[2] < y[2]))
<1>1. PICK a \in Nat, b \in Int, c \in Nat, d \in Int : x = <<a, b>> /\ y = <<c, d>>
  BY DEF Line
<1>2. Len(x) = 2 /\ 1 .. 2 = {1, 2} /\ 1 .. 1 - 1 = {} /\ 1 .. 2 - 1 = {1}
  BY <1>1
<1>3. Before(x, y) <=>
        \E i \in {1, 2} : x[i] < y[i] /\ \A j \in 1 .. i - 1 : x[j] = y[j]
  BY <1>2 DEF Before
<1>4. (\E i \in {1, 2} : x[i] < y[i] /\ \A j \in 1 .. i - 1 : x[j] = y[j])
        <=> (x[1] < y[1] \/ (x[2] < y[2] /\ x[1] = y[1]))
  BY <1>2
<1>. QED BY <1>3, <1>4

LEMMA LineOrder ==
  /\ \A x \in Line : ~Before(x, x)
  /\ \A x, y \in Line : x = y \/ Before(x, y) \/ Before(y, x)
  /\ \A x, y, z \in Line : Before(x, y) /\ Before(y, z) => Before(x, z)
<1>1. \A x \in Line : x[1] \in Int /\ x[2] \in Int
  BY DEF Line
<1>2. \A x, y \in Line : x[1] = y[1] /\ x[2] = y[2] => x = y
  BY DEF Line
<1>3. \A x \in Line : ~Before(x, x)
  BY <1>1, LineBefore
<1>4. \A x, y \in Line : x = y \/ Before(x, y) \/ Before(y, x)
  BY <1>1, <1>2, LineBefore
<1>5. ASSUME NEW x \in Line, NEW y \in Line, NEW z \in Line, Before(x, y), Before(y, z)
      PROVE  Before(x, z)
  BY <1>1, <1>5, LineBefore
<1>. QED BY <1>3, <1>4, <1>5

LEMMA FirstLine ==
  ASSUME NEW S \in SUBSET Line, IsFiniteSet(S), S # {}
  PROVE  \E x \in S : First(x, S)
<1> DEFINE Good == {T \in SUBSET S : T # {} => \E x \in T : First(x, T)}
<1>1. {} \in Good
  OBVIOUS
<1>2. ASSUME NEW T \in SUBSET S, NEW x \in S, T \in Good, x \notin T
      PROVE  T \cup {x} \in Good
  <2>1. CASE T = {}
    <3>1. First(x, T \cup {x})
      BY <2>1 DEF First
    <3>. QED BY <3>1
  <2>2. CASE T # {}
    <3>1. PICK y \in T : First(y, T)
      BY <1>2, <2>2
    <3>2. x \in Line /\ y \in Line /\ T \subseteq Line
      OBVIOUS
    <3>3. CASE Before(x, y)
      <4>1. First(x, T \cup {x})
        BY <3>1, <3>2, <3>3, LineOrder DEF First
      <4>. QED BY <4>1
    <3>4. CASE ~Before(x, y)
      <4>1. First(y, T \cup {x})
        BY <3>1, <3>2, <3>4, LineOrder DEF First
      <4>. QED BY <4>1
    <3>. QED BY <3>3, <3>4
  <2>. QED BY <2>1, <2>2
<1> HIDE DEF Good
<1>3. S \in Good
  BY <1>1, <1>2, FiniteInduction
<1>. QED BY <1>3 DEF Good

Sorted(s) == \A i, j \in DOMAIN s : i < j => Before(s[i], s[j])

LEMMA SortedExists ==
  ASSUME NEW S \in SUBSET Line, IsFiniteSet(S)
  PROVE  \E s \in [1 .. Cardinality(S) -> S] : Sorted(s)
<1> DEFINE Good == {n \in Nat : \A T \in SUBSET Line :
                      IsFiniteSet(T) /\ Cardinality(T) = n
                        => \E s \in [1 .. n -> T] : Sorted(s)}
<1>1. 0 \in Good
  <2> SUFFICES ASSUME NEW T \in SUBSET Line, IsFiniteSet(T), Cardinality(T) = 0
               PROVE  \E s \in [1 .. 0 -> T] : Sorted(s)
    OBVIOUS
  <2> DEFINE s == [i \in 1 .. 0 |-> 0]
  <2>1. s \in [1 .. 0 -> T] /\ DOMAIN s = {}
    OBVIOUS
  <2> HIDE DEF s
  <2>. QED BY <2>1 DEF Sorted
<1>2. ASSUME NEW n \in Nat, n \in Good PROVE n + 1 \in Good
  <2> SUFFICES ASSUME NEW T \in SUBSET Line, IsFiniteSet(T), Cardinality(T) = n + 1
               PROVE  \E s \in [1 .. n + 1 -> T] : Sorted(s)
    OBVIOUS
  <2>1. T # {}
    BY FS_EmptySet
  <2>2. PICK x \in T : First(x, T)
    BY <2>1, FirstLine
  <2>3. IsFiniteSet(T \ {x}) /\ Cardinality(T \ {x}) = n
    <3>1. IsFiniteSet(T \ {x}) /\ Cardinality(T \ {x}) = (n + 1) - 1
      BY FS_RemoveElement
    <3>. QED BY <3>1
  <2>4. PICK t \in [1 .. n -> T \ {x}] : Sorted(t)
    BY <1>2, <2>3
  <2> DEFINE s == [i \in 1 .. n + 1 |-> IF i = 1 THEN x ELSE t[i - 1]]
  <2>5. \A i \in 1 .. n + 1 : i # 1 => i - 1 \in 1 .. n
    OBVIOUS
  <2>6. /\ DOMAIN s = 1 .. n + 1 /\ s[1] = x
        /\ \A i \in 1 .. n + 1 : i # 1 => s[i] = t[i - 1] /\ s[i] \in T \ {x}
    BY <2>5
  <2>7. s \in [1 .. n + 1 -> T]
    BY <2>5
  <2> HIDE DEF s
  <2>8. ASSUME NEW i \in 1 .. n + 1, NEW j \in 1 .. n + 1, i < j
        PROVE  Before(s[i], s[j])
    <3>1. j # 1 /\ j - 1 \in 1 .. n
      BY <2>8
    <3>2. CASE i = 1
      BY <2>2, <2>6, <3>1, <3>2 DEF First
    <3>3. CASE i # 1
      <4>1. i - 1 \in 1 .. n /\ i - 1 < j - 1
        BY <2>8, <3>3
      <4>. QED BY <2>4, <2>6, <3>1, <3>3, <4>1 DEF Sorted
    <3>. QED BY <3>2, <3>3
  <2>9. Sorted(s)
    BY <2>6, <2>8 DEF Sorted
  <2>. QED BY <2>7, <2>9
<1>3. Cardinality(S) \in Nat
  BY FS_CardinalityType
<1> HIDE DEF Good
<1>4. Cardinality(S) \in Good
  BY <1>1, <1>2, <1>3, NatSetInduction
<1>. QED BY <1>4 DEF Good

(* InOrder lists a set of lines, each once.                                *)
LEMMA Ordered ==
  ASSUME NEW S \in SUBSET Line, IsFiniteSet(S)
  PROVE  /\ InOrder(S) \in Seq(S) /\ InOrder(S) \in Seq(Line) /\ Sorted(InOrder(S))
         /\ Len(InOrder(S)) = Cardinality(S)
         /\ Range(InOrder(S)) = S
         /\ \A i, j \in 1 .. Len(InOrder(S)) : InOrder(S)[i] = InOrder(S)[j] => i = j
<1> DEFINE n == Cardinality(S)
           s == InOrder(S)
<1>1. n \in Nat
  BY FS_CardinalityType
<1>2. s \in [1 .. n -> S] /\ Sorted(s)
  <2>1. s = CHOOSE t \in [1 .. n -> S] : Sorted(t)
    BY DEF InOrder, TupleOf, Sorted
  <2> HIDE DEF s
  <2>. QED BY <2>1, SortedExists
<1> HIDE DEF s
<1>3. s \in Seq(S) /\ s \in Seq(Line) /\ Len(s) = n /\ DOMAIN s = 1 .. n
  BY <1>1, <1>2
<1>4. \A i, j \in 1 .. n : s[i] = s[j] => i = j
  <2> SUFFICES ASSUME NEW i \in 1 .. n, NEW j \in 1 .. n, s[i] = s[j] PROVE i = j
    OBVIOUS
  <2>1. s[i] \in Line /\ s[j] \in Line
    BY <1>2
  <2>2. ~(i < j) /\ ~(j < i)
    BY <1>2, <1>3, <2>1, LineOrder DEF Sorted
  <2>. QED BY <1>1, <2>2
<1>5. Range(s) = {s[i] : i \in 1 .. n}
  BY <1>3 DEF Range
<1>6. IsFiniteSet(1 .. n) /\ Cardinality(1 .. n) = n
  BY <1>1, FS_Interval
<1>7. Cardinality(Range(s)) = n
  BY <1>3, <1>4, <1>5, <1>6, SameSize
<1>8. Range(s) \subseteq S
  BY <1>2, <1>5
<1>9. Range(s) = S
  BY <1>7, <1>8, FS_Subset
<1>. QED BY <1>2, <1>3, <1>4, <1>9 DEF s

(* There is one such list.                                                 *)
LEMMA SortedUnique ==
  ASSUME NEW s \in Seq(Line), NEW t \in Seq(Line), Sorted(s), Sorted(t),
         Range(s) = Range(t)
  PROVE  s = t
<1> DEFINE S == Range(s)
           Upto(x) == {y \in S : y = x \/ Before(y, x)}
<1>1. ASSUME NEW u \in Seq(Line), Sorted(u), Range(u) = S, NEW i \in 1 .. Len(u)
      PROVE  u[i] \in S /\ Cardinality(Upto(u[i])) = i
  <2>1. DOMAIN u = 1 .. Len(u) /\ Len(u) \in Nat /\ 1 .. i \in SUBSET (1 .. Len(u))
        /\ i \in Nat
    OBVIOUS
  <2>2. \A j \in 1 .. Len(u) : u[j] \in Line /\ u[j] \in S
    <3>1. \A j \in 1 .. Len(u) : u[j] \in Line
      OBVIOUS
    <3>2. \A j \in 1 .. Len(u) : u[j] \in Range(u)
      BY <2>1 DEF Range
    <3>. QED BY <1>1, <3>1, <3>2
  <2>3. \A j, k \in 1 .. Len(u) : j < k => Before(u[j], u[k])
    BY <1>1, <2>1 DEF Sorted
  <2>4. \A j, k \in 1 .. Len(u) : u[j] = u[k] => j = k
    <3> SUFFICES ASSUME NEW j \in 1 .. Len(u), NEW k \in 1 .. Len(u), u[j] = u[k]
                 PROVE  j = k
      OBVIOUS
    <3>1. ~(j < k) /\ ~(k < j)
      BY <2>2, <2>3, LineOrder
    <3>. QED BY <3>1
  <2>5. Upto(u[i]) = {u[j] : j \in 1 .. i}
    <3>1. ASSUME NEW j \in 1 .. i PROVE u[j] \in Upto(u[i])
      <4>1. j \in 1 .. Len(u) /\ (j = i \/ j < i)
        BY <2>1
      <4>. QED BY <2>2, <2>3, <4>1
    <3>2. ASSUME NEW y \in Upto(u[i]) PROVE \E j \in 1 .. i : y = u[j]
      <4>1. PICK j \in 1 .. Len(u) : y = u[j]
        BY <1>1, <2>1 DEF Range
      <4>2. ~(i < j)
        <5> SUFFICES ASSUME i < j PROVE FALSE
          OBVIOUS
        <5>1. Before(u[i], u[j])
          BY <2>3
        <5>2. u[j] = u[i] \/ Before(u[j], u[i])
          BY <3>2, <4>1
        <5>. QED BY <2>2, <5>1, <5>2, LineOrder
      <4>3. j \in 1 .. i
        BY <4>2
      <4>. QED BY <4>1, <4>3
    <3>. QED BY <3>1, <3>2
  <2>6. Cardinality({u[j] : j \in 1 .. i}) = i
    <3> DEFINE f == [j \in 1 .. i |-> u[j]]
    <3>1. /\ DOMAIN f = 1 .. i /\ {f[j] : j \in 1 .. i} = {u[j] : j \in 1 .. i}
          /\ \A j, k \in 1 .. i : f[j] = f[k] => j = k
      BY <2>1, <2>4
    <3>2. IsFiniteSet(1 .. i) /\ Cardinality(1 .. i) = i
      BY <2>1, FS_Interval
    <3> HIDE DEF f
    <3>3. Cardinality({f[j] : j \in 1 .. i}) = i
      BY <3>1, <3>2, SameSize
    <3>. QED BY <3>1, <3>3
  <2>. QED BY <2>2, <2>5, <2>6
<1>2. \A i \in 1 .. Len(s) : s[i] \in S /\ Cardinality(Upto(s[i])) = i
  BY <1>1
<1>3. \A i \in 1 .. Len(t) : t[i] \in S /\ Cardinality(Upto(t[i])) = i
  BY <1>1
<1>4. DOMAIN s = 1 .. Len(s) /\ DOMAIN t = 1 .. Len(t) /\ Len(s) \in Nat /\ Len(t) \in Nat
  OBVIOUS
<1>5. \A x \in S : (\E i \in 1 .. Len(s) : x = s[i]) /\ (\E i \in 1 .. Len(t) : x = t[i])
  BY <1>4 DEF Range
<1> HIDE DEF S, Upto
<1>6. ASSUME NEW i \in 1 .. Len(s) PROVE i \in 1 .. Len(t) /\ t[i] = s[i]
  <2>1. PICK j \in 1 .. Len(t) : s[i] = t[j]
    BY <1>2, <1>5
  <2>2. i = j
    BY <1>2, <1>3, <2>1
  <2>. QED BY <2>1, <2>2
<1>7. ASSUME NEW i \in 1 .. Len(t) PROVE i \in 1 .. Len(s)
  <2>1. PICK j \in 1 .. Len(s) : t[i] = s[j]
    BY <1>3, <1>5
  <2>2. i = j
    BY <1>2, <1>3, <2>1
  <2>. QED BY <2>2
<1>8. Len(s) = Len(t)
  <2> DEFINE m == Len(s)
             n == Len(t)
  <2>1. m \in Nat /\ n \in Nat
    BY <1>4
  <2>2. \A i \in 1 .. m : i \in 1 .. n
    BY <1>6
  <2>3. \A i \in 1 .. n : i \in 1 .. m
    BY <1>7
  <2> HIDE DEF m, n
  <2>4. m = n
    <3>1. m # 0 => m \in 1 .. m
      BY <2>1
    <3>2. n # 0 => n \in 1 .. n
      BY <2>1
    <3>3. m # 0 => m <= n
      BY <2>1, <2>2, <3>1
    <3>4. n # 0 => n <= m
      BY <2>1, <2>3, <3>2
    <3>. QED BY <2>1, <3>3, <3>4
  <2>. QED BY <2>4 DEF m, n
<1>. QED BY <1>4, <1>6, <1>8, SeqEqual

LEMMA OrderedNone ==
  InOrder({}) = <<>>
<1>1. IsFiniteSet({}) /\ Cardinality({}) = 0 /\ {} \in SUBSET Line
  BY FS_EmptySet
<1>2. InOrder({}) \in Seq(Line) /\ Len(InOrder({})) = 0
  BY <1>1, Ordered
<1>. QED BY <1>2

(* The first of a set is first in its list.                                *)
LEMMA OrderedFirst ==
  ASSUME NEW S \in SUBSET Line, IsFiniteSet(S), NEW x \in S, First(x, S)
  PROVE  InOrder(S) = <<x>> \o InOrder(S \ {x})
<1> DEFINE t == InOrder(S \ {x})
           s == <<x>> \o t
<1>1. IsFiniteSet(S \ {x}) /\ S \ {x} \in SUBSET Line /\ x \in Line
  BY FS_RemoveElement
<1>2. t \in Seq(Line) /\ Sorted(t) /\ Range(t) = S \ {x}
  BY <1>1, Ordered
<1> HIDE DEF t
<1>3. DOMAIN t = 1 .. Len(t) /\ Len(t) \in Nat
  BY <1>2
<1>4. s \in Seq(Line)
  BY <1>1, <1>2
<1>5. /\ DOMAIN s = 1 .. Len(t) + 1 /\ s[1] = x
      /\ \A i \in 1 .. Len(t) : s[i + 1] = t[i]
  BY <1>1, <1>2
<1> HIDE DEF s
<1>6. \A i \in 2 .. Len(t) + 1 : i - 1 \in 1 .. Len(t) /\ s[i] = t[i - 1]
  <2> SUFFICES ASSUME NEW i \in 2 .. Len(t) + 1
               PROVE  i - 1 \in 1 .. Len(t) /\ s[i] = t[i - 1]
    OBVIOUS
  <2>1. i - 1 \in 1 .. Len(t) /\ (i - 1) + 1 = i
    BY <1>3
  <2>. QED BY <1>5, <2>1
<1>7. Range(s) = S
  <2>1. ASSUME NEW y \in Range(s) PROVE y \in S
    <3>1. PICK i \in 1 .. Len(t) + 1 : y = s[i]
      BY <1>5 DEF Range
    <3>2. CASE i = 1
      BY <1>5, <3>1, <3>2
    <3>3. CASE i # 1
      <4>1. i \in 2 .. Len(t) + 1
        BY <1>3, <3>3
      <4>2. s[i] \in Range(t)
        BY <1>3, <1>6, <4>1 DEF Range
      <4>. QED BY <1>2, <3>1, <4>2
    <3>. QED BY <3>2, <3>3
  <2>2. ASSUME NEW y \in S PROVE y \in Range(s)
    <3>1. CASE y = x
      <4>1. 1 \in DOMAIN s
        BY <1>3, <1>5
      <4>. QED BY <1>5, <3>1, <4>1 DEF Range
    <3>2. CASE y # x
      <4>1. PICK i \in 1 .. Len(t) : y = t[i]
        BY <1>2, <1>3, <3>2 DEF Range
      <4>2. i + 1 \in DOMAIN s
        BY <1>3, <1>5
      <4>. QED BY <1>5, <4>1, <4>2 DEF Range
    <3>. QED BY <3>1, <3>2
  <2>. QED BY <2>1, <2>2
<1>8. Sorted(s)
  <2> SUFFICES ASSUME NEW i \in 1 .. Len(t) + 1, NEW j \in 1 .. Len(t) + 1, i < j
               PROVE  Before(s[i], s[j])
    BY <1>5 DEF Sorted
  <2>1. j \in 2 .. Len(t) + 1
    BY <1>3
  <2>2. CASE i = 1
    <3>1. s[j] \in Range(t)
      BY <1>3, <1>6, <2>1 DEF Range
    <3>. QED BY <1>2, <1>5, <2>2, <3>1 DEF First
  <2>3. CASE i # 1
    <3>1. i \in 2 .. Len(t) + 1 /\ i - 1 < j - 1
      BY <1>3, <2>3
    <3>. QED BY <1>2, <1>3, <1>6, <2>1, <3>1 DEF Sorted
  <2>. QED BY <2>2, <2>3
<1>9. InOrder(S) \in Seq(Line) /\ Sorted(InOrder(S)) /\ Range(InOrder(S)) = S
  BY Ordered
<1>10. InOrder(S) = s
  BY <1>4, <1>7, <1>8, <1>9, SortedUnique
<1>. QED BY <1>10 DEF s, t
------------------------------------------------------------------------------
(* The session implements EpochReplay.                                     *)

(* The lines cluster c takes in as an owner and as a remote requester.     *)
Taken(c, served) ==
  {x.line : x \in {y \in DOMAIN served :
                     y.owner = c /\ served[y] \in {DdrMiss, MshrMerge}}}

Copied(c, served, policy) ==
  {x.line : x \in {y \in DOMAIN served :
                     /\ policy = BothFill
                     /\ y.requester # y.owner /\ y.requester = c
                     /\ served[y] # RequesterHit}}

(* The answers are right for caches as they were when the call began.      *)
ServedRight(before, served, policy) ==
  \A x \in DOMAIN served :
    LET cached(c) == x.line \in Resident(before[c])
        remote == x.requester # x.owner
        copy == cached(x.requester) /\ (remote => policy = BothFill)
    IN  /\ served[x] = RequesterHit <=> copy
        /\ served[x] = OwnerHit <=> remote /\ cached(x.owner) /\ ~copy

OneMiss(served) ==
  \A x \in DOMAIN served :
    served[x] \in {DdrMiss, MshrMerge} =>
      Cardinality({y \in DOMAIN served :
                     y.line = x.line /\ served[y] = DdrMiss}) = 1

Aged(before, served, policy) ==
  [c \in Cluster |->
     FillAll(Capacity[c], before[c],
             InOrder(Taken(c, served)) \o InOrder(Copied(c, served, policy)))]

LEMMA SameFill ==
  \A cap, q, s : Replay!FillAll(cap, q, s) = FillAll(cap, q, s)
BY DEF Replay!FillAll, FillAll, Replay!FoldLeft, FoldLeft, Replay!MapThenFoldSet,
       MapThenFoldSet, Replay!Fill, Fill, Replay!Resident, Resident, Replay!Range, Range,
       Replay!Max, Max

LEMMA SameSizes ==
  \A S : Replay!Cardinality(S) = Cardinality(S)
BY DEF Replay!Cardinality, Cardinality, Replay!IsFiniteSet, IsFiniteSet

LEMMA SameOrder ==
  \A S : Replay!InOrder(S) = InOrder(S)
BY SameSizes DEF Replay!InOrder, InOrder, Replay!TupleOf, TupleOf, Replay!Before, Before

LEMMA SameAged ==
  \A before, served, policy : Replay!Filled(before, served, policy) = Aged(before, served, policy)
BY SameFill, SameOrder DEF Replay!Filled, Aged, Replay!OwnLines, Taken,
   Replay!CopyLines, Copied, Replay!Remote, DdrMiss, MshrMerge, BothFill, RequesterHit

LEMMA SameServed ==
  \A served, policy : Replay!Classified(served, policy) <=> ServedRight(Settled, served, policy)
BY DEF Replay!Classified, ServedRight, Replay!RequesterServes, Replay!OwnerServes,
   Replay!Cached, Replay!Remote, Replay!Resident, Resident, Replay!Range, Range,
   OwnerHit, BothFill, RequesterHit

LEMMA SameMiss ==
  \A served : Replay!OneMissPerLine(served) <=> OneMiss(served)
BY SameSizes DEF Replay!OneMissPerLine, OneMiss, DdrMiss, MshrMerge, Replay!DdrMiss, Replay!MshrMerge

------------------------------------------------------------------------------
(* The lines of cluster c in a set of fills.                               *)
Mine(c, set) == {<<w[2], w[3]>> : w \in {v \in set : v[1] = c}}

FillSet == Cluster \X Nat \X Int

(* What a finished call leaves in the cache of c.                          *)
Goal(k, c) ==
  FillAll(Capacity[c], k.snapshot[c],
          IF k.kind = "write" THEN InOrder(Mine(c, k.answer))
          ELSE InOrder(Taken(c, k.answer)) \o InOrder(Copied(c, k.answer, k.policy)))

Capped == \A c \in Cluster : Len(caches[c]) <= Capacity[c]

(* A call whose fills are a list: what it has yet to do leads to its goal. *)
ListRuns ==
  call # NoCall /\ call.kind # "bulk" =>
    /\ call.own \in SUBSET FillSet /\ IsFiniteSet(call.own)
    /\ call.copies \in SUBSET FillSet /\ IsFiniteSet(call.copies)
    /\ call.left = {} /\ \A c \in Cluster : call.queues[c] = <<>>
    /\ \A c \in Cluster :
         FillAll(Capacity[c], caches[c],
                 InOrder(Mine(c, call.own)) \o InOrder(Mine(c, call.copies)))
           = Goal(call, c)
    /\ call.kind = "epoch" =>
         ServedRight(call.snapshot, call.answer, call.policy) /\ OneMiss(call.answer)

LEMMA MineLines ==
  ASSUME NEW set \in SUBSET FillSet, IsFiniteSet(set), NEW c
  PROVE  Mine(c, set) \in SUBSET Line /\ IsFiniteSet(Mine(c, set))
<1> DEFINE own == {v \in set : v[1] = c}
           f == [w \in own |-> <<w[2], w[3]>>]
<1>1. Mine(c, set) = {f[w] : w \in own} /\ DOMAIN f = own
  BY DEF Mine
<1>2. IsFiniteSet(own)
  <2>1. own \subseteq set
    OBVIOUS
  <2>. QED BY <2>1, FS_Subset
<1>3. \A w \in set : <<w[2], w[3]>> \in Line
  BY DEF FillSet, Line
<1>4. Mine(c, set) \in SUBSET Line
  BY <1>3 DEF Mine
<1> HIDE DEF own, f
<1>. QED BY <1>1, <1>2, <1>4, FiniteImage

LEMMA ClustersAreNumbers ==
  Cluster \subseteq Int
<1> DEFINE n == Cardinality(Cluster) - 1
<1>1. Cluster = 0 .. n
  BY SessionAssumption
<1> HIDE DEF n
<1>. QED BY <1>1

LEMMA TripleBefore ==
  ASSUME NEW x \in FillSet, NEW y \in FillSet, x[1] = y[1], Before(x, y)
  PROVE  Before(<<x[2], x[3]>>, <<y[2], y[3]>>)
<1>1. PICK a \in Int, b \in Nat, c \in Int, d \in Nat, e \in Int :
        x = <<a, b, c>> /\ y = <<a, d, e>>
  <2>1. Cluster \subseteq Int
    BY ClustersAreNumbers
  <2>2. /\ x[2] \in Nat /\ x[3] \in Int /\ x = <<x[1], x[2], x[3]>>
        /\ y[2] \in Nat /\ y[3] \in Int /\ y = <<y[1], y[2], y[3]>>
        /\ x[1] \in Cluster
    BY DEF FillSet
  <2>. QED BY <2>1, <2>2
<1>2. b < d \/ (b = d /\ c < e)
  BY <1>1 DEF Before
<1>3. <<b, c>> \in Line /\ <<d, e>> \in Line
  BY DEF Line
<1>. QED BY <1>1, <1>2, <1>3, LineBefore

(* The first fill of a set is the first of its cluster.                    *)
LEMMA MineFirst ==
  ASSUME NEW set \in SUBSET FillSet, NEW w \in set, First(w, set)
  PROVE  LET line == <<w[2], w[3]>> IN
         /\ First(line, Mine(w[1], set))
         /\ Mine(w[1], set \ {w}) = Mine(w[1], set) \ {line}
         /\ \A c : c # w[1] => Mine(c, set \ {w}) = Mine(c, set)
<1> DEFINE line == <<w[2], w[3]>>
           c == w[1]
<1>1. \A v \in set : v = <<v[1], v[2], v[3]>>
  BY DEF FillSet
<1>2. line \in Mine(c, set)
  BY DEF Mine
<1>3. ASSUME NEW m \in Mine(c, set) PROVE line = m \/ Before(line, m)
  <2>1. PICK v \in set : v[1] = c /\ m = <<v[2], v[3]>>
    BY DEF Mine
  <2>2. w = v \/ Before(w, v)
    BY DEF First
  <2>3. w \in FillSet /\ v \in FillSet
    OBVIOUS
  <2>. QED BY <2>1, <2>2, <2>3, TripleBefore
<1>4. Mine(c, set \ {w}) = Mine(c, set) \ {line}
  <2>1. ASSUME NEW m \in Mine(c, set \ {w}) PROVE m \in Mine(c, set) \ {line}
    <3>1. PICK v \in set \ {w} : v[1] = c /\ m = <<v[2], v[3]>>
      BY DEF Mine
    <3>2. m # line
      BY <1>1, <3>1
    <3>. QED BY <3>1, <3>2 DEF Mine
  <2>2. ASSUME NEW m \in Mine(c, set) \ {line} PROVE m \in Mine(c, set \ {w})
    <3>1. PICK v \in set : v[1] = c /\ m = <<v[2], v[3]>>
      BY DEF Mine
    <3>2. v # w
      BY <3>1
    <3>. QED BY <3>1, <3>2 DEF Mine
  <2>. QED BY <2>1, <2>2
<1>5. ASSUME NEW d, d # c PROVE Mine(d, set \ {w}) = Mine(d, set)
  BY <1>5 DEF Mine
<1>. QED BY <1>2, <1>3, <1>4, <1>5 DEF First

(* A fill of cluster c, the first of what is left of it.                   *)
LEMMA FillNext ==
  ASSUME CachesAllowed, NEW w \in FillSet, FillLine(w),
         NEW c \in Cluster,
         NEW set \in SUBSET Line, IsFiniteSet(set), NEW more \in Seq(Line),
         NEW rest,
         c = w[1] => First(<<w[2], w[3]>>, set) /\ rest = set \ {<<w[2], w[3]>>},
         c # w[1] => rest = set
  PROVE  FillAll(Capacity[c], caches'[c], InOrder(rest) \o more)
           = FillAll(Capacity[c], caches[c], InOrder(set) \o more)
<1> DEFINE line == <<w[2], w[3]>>
<1>1. caches' = [caches EXCEPT ![w[1]] = Fill(Capacity[w[1]], @, line)]
      /\ caches \in [Cluster -> Seq(Line)] /\ line \in Line
  BY DEF FillLine, CachesAllowed, Line, FillSet
<1> HIDE DEF line
<1>2. CASE c = w[1]
  <2>1. First(line, set) /\ rest = set \ {line} /\ line \in set
    BY <1>2 DEF line, First
  <2>2. InOrder(set) = <<line>> \o InOrder(rest)
    BY <2>1, OrderedFirst
  <2>3. rest \in SUBSET Line /\ IsFiniteSet(rest)
    BY <2>1, FS_RemoveElement
  <2>4. InOrder(rest) \in Seq(Line)
    BY <2>3, Ordered
  <2> DEFINE t == InOrder(rest)
             one == <<line>>
  <2>5. one \in Seq(Line) /\ t \in Seq(Line)
    BY <1>1, <2>4
  <2> HIDE DEF t
  <2>6. (<<line>> \o t) \o more = <<line>> \o (t \o more) /\ t \o more \in Seq(Line)
    BY <2>5
  <2>7. FillAll(Capacity[c], caches[c], <<line>> \o (t \o more))
          = FillAll(Capacity[c], Fill(Capacity[c], caches[c], line), t \o more)
    <3> DEFINE r == t \o more
    <3>1. r \in Seq(Line) /\ line \in Line
      BY <1>1, <2>6
    <3> HIDE DEF r
    <3>2. FillAll(Capacity[c], caches[c], <<line>> \o r)
            = FillAll(Capacity[c], Fill(Capacity[c], caches[c], line), r)
      BY <3>1, FillFirst
    <3>. QED BY <3>2 DEF r
  <2>8. caches'[c] = Fill(Capacity[c], caches[c], line)
    BY <1>1, <1>2
  <2>. QED BY <2>2, <2>6, <2>7, <2>8 DEF t
<1>3. CASE c # w[1]
  <2>1. caches'[c] = caches[c] /\ rest = set
    BY <1>1, <1>3
  <2>. QED BY <2>1
<1>. QED BY <1>2, <1>3

LEMMA CapKept ==
  ASSUME CachesAllowed, Capped, NEW w \in FillSet, FillLine(w)
  PROVE  Capped'
<1> DEFINE line == <<w[2], w[3]>>
<1>1. caches' = [caches EXCEPT ![w[1]] = Fill(Capacity[w[1]], @, line)]
      /\ caches \in [Cluster -> Seq(Line)] /\ line \in Line
  BY DEF FillLine, CachesAllowed, Line, FillSet
<1> HIDE DEF line
<1> SUFFICES ASSUME NEW c \in Cluster PROVE Len(caches'[c]) <= Capacity[c]
  BY DEF Capped
<1>2. Capacity[c] \in Nat \ {0} /\ caches[c] \in Seq(Line) /\ Len(caches[c]) <= Capacity[c]
  BY <1>1, SessionAssumption DEF Capped
<1>3. Len(Fill(Capacity[c], caches[c], line)) <= Capacity[c]
  BY <1>1, <1>2, FillFits
<1>. QED BY <1>1, <1>2, <1>3

LEMMA CallEnded ==
  ASSUME CachesAllowed, Return, call.kind \in {"epoch", "write", "bulk"},
         \A c \in Cluster : caches[c] = Goal(call, c),
         call.kind # "write" =>
           ServedRight(call.snapshot, call.answer, call.policy) /\ OneMiss(call.answer)
  PROVE  Replay!EpochNext
<1>1. call # NoCall /\ call' = NoCall /\ caches' = caches
  BY DEF Return, Finished
<1>2. Settled = call.snapshot /\ Settled' = caches
  BY <1>1 DEF Settled
<1>3. caches = [c \in Cluster |-> Goal(call, c)]
  BY DEF CachesAllowed
<1>4. CASE call.kind = "write"
  <2> DEFINE lines == {<<w[1], <<w[2], w[3]>>>> : w \in call.answer}
             mine(c) == {w[2] : w \in {v \in lines : v[1] = c}}
  <2>1. report' = [call |-> "write", lines |-> lines]
    BY <1>4 DEF Return
  <2>2. ASSUME NEW c PROVE mine(c) = Mine(c, call.answer)
    <3>1. ASSUME NEW m \in mine(c) PROVE m \in Mine(c, call.answer)
      <4>1. PICK v \in lines : v[1] = c /\ m = v[2]
        OBVIOUS
      <4>2. PICK w \in call.answer : v = <<w[1], <<w[2], w[3]>>>>
        OBVIOUS
      <4>. QED BY <4>1, <4>2 DEF Mine
    <3>2. ASSUME NEW m \in Mine(c, call.answer) PROVE m \in mine(c)
      <4>1. PICK w \in call.answer : w[1] = c /\ m = <<w[2], w[3]>>
        BY DEF Mine
      <4> DEFINE v == <<w[1], <<w[2], w[3]>>>>
      <4>2. v \in lines /\ v[1] = c /\ v[2] = m
        BY <4>1
      <4> HIDE DEF v, lines
      <4>. QED BY <4>2
    <3>. QED BY <3>1, <3>2
  <2>3. Settled' = [c \in Cluster |-> FillAll(Capacity[c], call.snapshot[c],
                                             InOrder(Mine(c, call.answer)))]
    BY <1>2, <1>3, <1>4 DEF Goal
  <2>4. report'.call = "write" /\ report'.lines = lines
    BY <2>1
  <2>5. Replay!Pressure <=>
          /\ report'.call = "write"
          /\ Settled' = [c \in Cluster |->
               FillAll(Capacity[c], Settled[c],
                       InOrder({w[2] : w \in {v \in report'.lines : v[1] = c}}))]
    BY SameFill, SameOrder DEF Replay!Pressure
  <2>6. Settled' = [c \in Cluster |-> FillAll(Capacity[c], Settled[c], InOrder(mine(c)))]
    <3> HIDE DEF mine
    <3>. QED BY <1>2, <2>2, <2>3
  <2> HIDE DEF lines
  <2>7. Replay!Pressure
    BY <2>4, <2>5, <2>6
  <2>. QED BY <2>7 DEF Replay!EpochNext
<1>5. CASE call.kind # "write"
  <2>1. report' = [call |-> "epoch", policy |-> call.policy, served |-> call.answer]
    BY <1>5 DEF Return
  <2>2. report'.call = "epoch" /\ report'.policy = call.policy /\ report'.served = call.answer
    BY <2>1
  <2>3. Settled' = Aged(Settled, call.answer, call.policy)
    BY <1>2, <1>3, <1>5 DEF Goal, Aged
  <2>4. Replay!Epoch
    BY <1>2, <1>5, <2>2, <2>3, SameAged, SameServed, SameMiss DEF Replay!Epoch
  <2>. QED BY <2>4 DEF Replay!EpochNext
<1>. QED BY <1>4, <1>5

(* The fills of a list, in both of its phases.                             *)
LEMMA ListFills ==
  ASSUME SessionInv, Capped, ListRuns, call.kind \in {"epoch", "write"},
         FillOwn \/ FillCopy
  PROVE  /\ Capped' /\ ListRuns' /\ call'.kind = call.kind
         /\ call' # NoCall /\ call'.snapshot = call.snapshot /\ UNCHANGED report
<1>1. CachesAllowed /\ DOMAIN call = CallFields /\ call # NoCall
      /\ caches \in [Cluster -> Seq(Line)]
  BY DEF SessionInv, CallAllowed, CachesAllowed, FillOwn, FillCopy
<1>2. /\ call.own \in SUBSET FillSet /\ IsFiniteSet(call.own)
      /\ call.copies \in SUBSET FillSet /\ IsFiniteSet(call.copies)
      /\ call.left = {} /\ \A c \in Cluster : call.queues[c] = <<>>
      /\ call.kind = "epoch" =>
           ServedRight(call.snapshot, call.answer, call.policy) /\ OneMiss(call.answer)
  BY <1>1 DEF ListRuns
<1>3. \A c \in Cluster :
        FillAll(Capacity[c], caches[c],
                InOrder(Mine(c, call.own)) \o InOrder(Mine(c, call.copies)))
          = Goal(call, c)
  BY <1>1 DEF ListRuns
<1>4. \A c : /\ Mine(c, call.own) \in SUBSET Line /\ IsFiniteSet(Mine(c, call.own))
             /\ Mine(c, call.copies) \in SUBSET Line /\ IsFiniteSet(Mine(c, call.copies))
             /\ InOrder(Mine(c, call.own)) \in Seq(Line)
             /\ InOrder(Mine(c, call.copies)) \in Seq(Line)
  BY <1>2, MineLines, Ordered
<1>5. CASE FillOwn
  <2>1. PICK w \in call.own :
          First(w, call.own) /\ FillLine(w) /\ call' = [call EXCEPT !.own = @ \ {w}]
    BY <1>5 DEF FillOwn
  <2>2. /\ call'.own = call.own \ {w} /\ call'.copies = call.copies
        /\ call'.left = call.left /\ call'.queues = call.queues
        /\ call'.answer = call.answer /\ call'.policy = call.policy
        /\ call'.snapshot = call.snapshot /\ call'.kind = call.kind
    BY <1>1, <2>1 DEF CallFields
  <2>3. w[1] \in Cluster /\ w \in FillSet
    BY <1>2, <2>1 DEF FillSet
  <2>4. Capped'
    BY <1>1, <2>1, <2>3, CapKept
  <2>5. ASSUME NEW c \in Cluster
        PROVE  FillAll(Capacity[c], caches'[c],
                       InOrder(Mine(c, call'.own)) \o InOrder(Mine(c, call'.copies)))
                 = Goal(call', c)
    <3> DEFINE set == Mine(c, call.own)
               rest == Mine(c, call.own \ {w})
               more == InOrder(Mine(c, call.copies))
    <3>1. /\ c = w[1] => First(<<w[2], w[3]>>, set) /\ rest = set \ {<<w[2], w[3]>>}
          /\ c # w[1] => rest = set
      <4>1. /\ First(<<w[2], w[3]>>, Mine(w[1], call.own))
            /\ Mine(w[1], call.own \ {w}) = Mine(w[1], call.own) \ {<<w[2], w[3]>>}
            /\ \A d : d # w[1] => Mine(d, call.own \ {w}) = Mine(d, call.own)
        BY <1>2, <2>1, MineFirst
      <4>. QED BY <4>1
    <3>2. set \in SUBSET Line /\ IsFiniteSet(set) /\ more \in Seq(Line)
      BY <1>4
    <3> HIDE DEF set, rest, more
    <3>3. FillAll(Capacity[c], caches'[c], InOrder(rest) \o more)
            = FillAll(Capacity[c], caches[c], InOrder(set) \o more)
      <4>1. PICK S, R, M : S = set /\ R = rest /\ M = more
        OBVIOUS
      <4>2. FillAll(Capacity[c], caches'[c], InOrder(R) \o M)
              = FillAll(Capacity[c], caches[c], InOrder(S) \o M)
        <5>1. /\ CachesAllowed /\ w \in FillSet /\ FillLine(w)
              /\ S \in SUBSET Line /\ IsFiniteSet(S) /\ M \in Seq(Line)
          BY <1>1, <2>1, <2>3, <3>1, <3>2, <4>1
        <5>2. c = w[1] => First(<<w[2], w[3]>>, S) /\ R = S \ {<<w[2], w[3]>>}
          BY <3>1, <4>1
        <5>3. c # w[1] => R = S
          BY <3>1, <4>1
        <5>. QED BY <5>1, <5>2, <5>3, FillNext
      <4>. QED BY <4>1, <4>2
    <3>4. Goal(call', c) = Goal(call, c)
      BY <2>2 DEF Goal
    <3>. QED BY <1>3, <2>2, <3>3, <3>4 DEF set, rest, more
  <2>6. IsFiniteSet(call'.own) /\ call'.own \in SUBSET FillSet
    BY <1>2, <2>2, FS_RemoveElement
  <2>7. call' # NoCall
    BY <2>2 DEF NoCall
  <2>8. ListRuns'
    BY <1>2, <2>2, <2>5, <2>6 DEF ListRuns
  <2>. QED BY <1>5, <2>2, <2>4, <2>7, <2>8 DEF FillOwn
<1>6. CASE FillCopy
  <2>1. PICK w \in call.copies :
          First(w, call.copies) /\ FillLine(w) /\ call' = [call EXCEPT !.copies = @ \ {w}]
    BY <1>6 DEF FillCopy
  <2>2. /\ call'.own = {} /\ call.own = {} /\ call'.copies = call.copies \ {w}
        /\ call'.left = call.left /\ call'.queues = call.queues
        /\ call'.answer = call.answer /\ call'.policy = call.policy
        /\ call'.snapshot = call.snapshot /\ call'.kind = call.kind
    BY <1>1, <1>6, <2>1 DEF CallFields, FillCopy
  <2>3. w[1] \in Cluster /\ w \in FillSet
    BY <1>2, <2>1 DEF FillSet
  <2>4. Capped'
    BY <1>1, <2>1, <2>3, CapKept
  <2>5. ASSUME NEW c \in Cluster
        PROVE  FillAll(Capacity[c], caches'[c],
                       InOrder(Mine(c, call'.own)) \o InOrder(Mine(c, call'.copies)))
                 = Goal(call', c)
    <3> DEFINE set == Mine(c, call.copies)
               rest == Mine(c, call.copies \ {w})
    <3>1. /\ c = w[1] => First(<<w[2], w[3]>>, set) /\ rest = set \ {<<w[2], w[3]>>}
          /\ c # w[1] => rest = set
      <4>1. /\ First(<<w[2], w[3]>>, Mine(w[1], call.copies))
            /\ Mine(w[1], call.copies \ {w}) = Mine(w[1], call.copies) \ {<<w[2], w[3]>>}
            /\ \A d : d # w[1] => Mine(d, call.copies \ {w}) = Mine(d, call.copies)
        BY <1>2, <2>1, MineFirst
      <4>. QED BY <4>1
    <3>2. set \in SUBSET Line /\ IsFiniteSet(set)
      BY <1>4
    <3>3. Mine(c, {}) = {}
      BY DEF Mine
    <3> HIDE DEF set, rest
    <3>4. rest \in SUBSET Line /\ IsFiniteSet(rest)
      BY <3>1, <3>2, FS_RemoveElement DEF First
    <3>5. \A s \in Seq(Line) : <<>> \o s = s /\ s \o <<>> = s
      OBVIOUS
    <3>6. <<>> \in Seq(Line) /\ InOrder(set) \in Seq(Line) /\ InOrder(rest) \in Seq(Line)
      BY <3>2, <3>4, Ordered
    <3>7. FillAll(Capacity[c], caches'[c], InOrder(rest) \o <<>>)
            = FillAll(Capacity[c], caches[c], InOrder(set) \o <<>>)
      <4>1. PICK S, R, M : S = set /\ R = rest /\ M = <<>>
        OBVIOUS
      <4>2. FillAll(Capacity[c], caches'[c], InOrder(R) \o M)
              = FillAll(Capacity[c], caches[c], InOrder(S) \o M)
        <5>1. /\ CachesAllowed /\ w \in FillSet /\ FillLine(w)
              /\ S \in SUBSET Line /\ IsFiniteSet(S) /\ M \in Seq(Line)
          BY <1>1, <2>1, <2>3, <3>1, <3>2, <3>6, <4>1
        <5>2. c = w[1] => First(<<w[2], w[3]>>, S) /\ R = S \ {<<w[2], w[3]>>}
          BY <3>1, <4>1
        <5>3. c # w[1] => R = S
          BY <3>1, <4>1
        <5>. QED BY <5>1, <5>2, <5>3, FillNext
      <4>. QED BY <4>1, <4>2
    <3>8. Goal(call', c) = Goal(call, c)
      BY <2>2 DEF Goal
    <3>9. /\ InOrder(Mine(c, call'.own)) \o InOrder(Mine(c, call'.copies)) = InOrder(rest)
          /\ InOrder(Mine(c, call.own)) \o InOrder(Mine(c, call.copies)) = InOrder(set)
      BY <2>2, <3>3, <3>5, <3>6, OrderedNone DEF set, rest
    <3>10. InOrder(rest) \o <<>> = InOrder(rest) /\ InOrder(set) \o <<>> = InOrder(set)
      BY <3>5, <3>6
    <3>. QED BY <1>3, <3>7, <3>8, <3>9, <3>10
  <2>6. IsFiniteSet(call'.copies) /\ call'.copies \in SUBSET FillSet
    BY <1>2, <2>2, FS_RemoveElement
  <2>7. call' # NoCall
    BY <2>2 DEF NoCall
  <2>8. ListRuns'
    BY <1>2, <2>2, <2>5, <2>6 DEF ListRuns
  <2>. QED BY <1>6, <2>2, <2>4, <2>7, <2>8 DEF FillCopy
<1>. QED BY <1>5, <1>6

LEMMA ListEnds ==
  ASSUME SessionInv, ListRuns, call.kind \in {"epoch", "write"}, Return
  PROVE  Replay!EpochNext
<1>1. /\ CachesAllowed /\ caches \in [Cluster -> Seq(Line)]
      /\ call # NoCall /\ call.own = {} /\ call.copies = {}
  BY DEF SessionInv, CachesAllowed, Return, Finished
<1>2. ASSUME NEW c \in Cluster PROVE caches[c] = Goal(call, c)
  <2>1. Mine(c, {}) = {}
    BY DEF Mine
  <2>2. FillAll(Capacity[c], caches[c], <<>> \o <<>>) = Goal(call, c)
    BY <1>1, <2>1, OrderedNone DEF ListRuns
  <2>3. <<>> \o <<>> = <<>>
    OBVIOUS
  <2>. QED BY <2>2, <2>3, FillNone
<1>3. call.kind # "write" =>
        ServedRight(call.snapshot, call.answer, call.policy) /\ OneMiss(call.answer)
  BY <1>1 DEF ListRuns
<1>. QED BY <1>1, <1>2, <1>3, CallEnded

LEMMA InUnitClusters ==
  ASSUME NEW items, Requests(items), InUnit(items), NEW x \in items
  PROVE  x.requester \in Cluster /\ x.owner \in Cluster
<1> DEFINE n == Cardinality(Cluster)
<1>1. Cluster = 0 .. n - 1 /\ IsFiniteSet(Cluster)
  BY SessionAssumption
<1>2. n \in Nat
  BY <1>1, FS_CardinalityType
<1>3. x.requester \in Nat /\ x.owner \in Nat /\ Max({x.requester, x.owner}) < n
  BY DEF Requests, InUnit
<1> DEFINE r == x.requester
           o == x.owner
<1> HIDE DEF n
<1>4. r <= Max({r, o}) /\ o <= Max({r, o}) /\ Max({r, o}) \in Int
  BY <1>3, MaxTwo
<1>. QED BY <1>1, <1>2, <1>3, <1>4

(* The lines of the lookups that cluster c owns, and of those it makes.    *)
OwnedBy(c, set) == {x.line : x \in {y \in set : y.owner = c}}
AskedBy(c, set) == {x.line : x \in {y \in set : y.requester = c}}
LinesAt(at, c, set) == {x.line : x \in {y \in set : at[y] = c}}

LEMMA PlacesDiffer ==
  /\ RequesterHit # OwnerHit /\ RequesterHit # DdrMiss /\ RequesterHit # MshrMerge
  /\ OwnerHit # DdrMiss /\ OwnerHit # MshrMerge /\ DdrMiss # MshrMerge
BY DEF RequesterHit, OwnerHit, DdrMiss, MshrMerge, Replay!RequesterHit, Replay!OwnerHit,
       Replay!DdrMiss, Replay!MshrMerge

(* What replay_epoch makes of its lookups, whoever leads the cold ones.    *)
ServedFrom(served, lookups, cold, leaders, policy) ==
  /\ \A x : x \in cold <=> x \in lookups /\ ~Hits(x, policy)
  /\ leaders \in SUBSET cold /\ Leads(leaders, cold)
  /\ \A x, y \in lookups : x.line = y.line => x.owner = y.owner
  /\ DOMAIN served = lookups
  /\ \A x \in lookups : served[x] = IF x \notin cold THEN HitSource(x, policy)
                                    ELSE IF x \in leaders THEN DdrMiss ELSE MshrMerge

LEMMA ServedOnce ==
  ASSUME NEW lookups, NEW policy, NEW cold, NEW leaders, NEW served,
         ServedFrom(served, lookups, cold, leaders, policy)
  PROVE  /\ ServedRight(caches, served, policy) /\ OneMiss(served)
         /\ \A c : Taken(c, served) = OwnedBy(c, leaders)
         /\ \A c : Copied(c, served, policy) = AskedBy(c, CopyMakers(served, policy))
<1>0. /\ \A x : x \in cold <=> x \in lookups /\ ~Hits(x, policy)
      /\ leaders \in SUBSET cold /\ Leads(leaders, cold)
      /\ \A x, y \in lookups : x.line = y.line => x.owner = y.owner
      /\ DOMAIN served = lookups
      /\ \A x \in lookups : served[x] = IF x \notin cold THEN HitSource(x, policy)
                                        ELSE IF x \in leaders THEN DdrMiss ELSE MshrMerge
  BY DEF ServedFrom
<1>1. /\ \A x \in cold : \E y \in leaders : y.line = x.line
      /\ \A x, y \in leaders : x.line = y.line => x = y
      /\ leaders \subseteq cold /\ cold \subseteq lookups
  BY <1>0 DEF Leads
<1>2. DOMAIN served = lookups
  BY <1>0
<1>3. \A x \in lookups : x \notin cold =>
        served[x] = HitSource(x, policy) /\ served[x] \in {RequesterHit, OwnerHit}
  BY <1>0 DEF HitSource
<1>4. \A x \in cold : /\ served[x] = IF x \in leaders THEN DdrMiss ELSE MshrMerge
                      /\ served[x] \in {DdrMiss, MshrMerge}
  BY <1>0, <1>1
<1>5. \A x \in lookups : x \in cold <=> ~Hits(x, policy)
  BY <1>0
<1>6. ASSUME NEW x \in lookups
      PROVE  /\ served[x] \in {DdrMiss, MshrMerge} <=> x \in cold
             /\ served[x] = DdrMiss <=> x \in leaders
  BY <1>1, <1>3, <1>4, PlacesDiffer
<1>7. ServedRight(caches, served, policy)
  <2> SUFFICES ASSUME NEW x \in lookups
               PROVE  LET cached(c) == x.line \in Resident(caches[c])
                          remote == x.requester # x.owner
                          copy == cached(x.requester) /\ (remote => policy = BothFill)
                      IN  /\ served[x] = RequesterHit <=> copy
                          /\ served[x] = OwnerHit <=> remote /\ cached(x.owner) /\ ~copy
    BY <1>2 DEF ServedRight
  <2> DEFINE atR == x.line \in Resident(caches[x.requester])
             atO == x.line \in Resident(caches[x.owner])
             remote == x.requester # x.owner
             copy == atR /\ (remote => policy = BothFill)
  <2>1. /\ Hits(x, policy) <=> (policy = BothFill /\ remote /\ atR) \/ atO
        /\ HitSource(x, policy) =
             IF (policy = BothFill /\ remote /\ atR) \/ ~remote
             THEN RequesterHit ELSE OwnerHit
    BY DEF Hits, HitSource, CopyHit, Holds
  <2>2. ~remote => (atR <=> atO)
    OBVIOUS
  <2> HIDE DEF atR, atO, remote
  <2>3. CASE x \in cold
    <3>1. ~((policy = BothFill /\ remote /\ atR) \/ atO)
      BY <1>5, <2>1, <2>3
    <3>2. served[x] # RequesterHit /\ served[x] # OwnerHit
      BY <1>4, <2>3, PlacesDiffer
    <3>3. (served[x] = RequesterHit <=> copy)
          /\ (served[x] = OwnerHit <=> remote /\ atO /\ ~copy)
      BY <2>2, <3>1, <3>2
    <3>. QED BY <3>3 DEF atR, atO, remote
  <2>4. CASE x \notin cold
    <3>1. (policy = BothFill /\ remote /\ atR) \/ atO
      BY <1>5, <2>1, <2>4
    <3>2. served[x] = IF (policy = BothFill /\ remote /\ atR) \/ ~remote
                      THEN RequesterHit ELSE OwnerHit
      BY <1>3, <2>1, <2>4
    <3>3. (served[x] = RequesterHit <=> copy)
          /\ (served[x] = OwnerHit <=> remote /\ atO /\ ~copy)
      <4>1. CASE remote
        BY <3>1, <3>2, <4>1, PlacesDiffer
      <4>2. CASE ~remote
        BY <2>2, <3>1, <3>2, <4>2, PlacesDiffer
      <4>. QED BY <4>1, <4>2
    <3>. QED BY <3>3 DEF atR, atO, remote
  <2>. QED BY <2>3, <2>4
<1>8. OneMiss(served)
  <2> SUFFICES ASSUME NEW x \in lookups, served[x] \in {DdrMiss, MshrMerge}
               PROVE  Cardinality({y \in lookups : y.line = x.line /\ served[y] = DdrMiss}) = 1
    BY <1>2 DEF OneMiss
  <2>1. x \in cold
    BY <1>6
  <2>2. PICK y \in leaders : y.line = x.line
    BY <1>1, <2>1
  <2>3. {z \in lookups : z.line = x.line /\ served[z] = DdrMiss} = {y}
    BY <1>1, <1>6, <2>2
  <2>. QED BY <2>3, FS_Singleton
<1>9. ASSUME NEW c
      PROVE  /\ Taken(c, served) = OwnedBy(c, leaders)
             /\ Copied(c, served, policy)
                  = AskedBy(c, CopyMakers(served, policy))
  <2>1. Taken(c, served) = {x.line : x \in {y \in cold : y.owner = c}}
    <3>1. {y \in DOMAIN served : y.owner = c /\ served[y] \in {DdrMiss, MshrMerge}}
            = {y \in cold : y.owner = c}
      BY <1>1, <1>2, <1>6
    <3>. QED BY <3>1 DEF Taken
  <2>2. {x.line : x \in {y \in cold : y.owner = c}}
          = OwnedBy(c, leaders)
    <3>1. ASSUME NEW x \in cold, x.owner = c
          PROVE  \E y \in leaders : y.owner = c /\ y.line = x.line
      BY <1>0, <1>1, <3>1
    <3>. QED BY <1>1, <3>1 DEF OwnedBy
  <2>3. {y \in DOMAIN served : /\ policy = BothFill
                               /\ y.requester # y.owner /\ y.requester = c
                               /\ served[y] # RequesterHit}
          = {y \in CopyMakers(served, policy) : y.requester = c}
    BY DEF CopyMakers
  <2>. QED BY <2>1, <2>2, <2>3 DEF Copied, AskedBy
<1>. QED BY <1>7, <1>8, <1>9

(* The fills of some lookups, each at the cluster of its own.              *)
LEMMA FillsOf ==
  ASSUME NEW set, IsFiniteSet(set), NEW at,
         \A x \in set : x.line \in Line /\ at[x] \in Cluster,
         NEW fills, \A w : w \in fills <=> \E x \in set : w = <<at[x]>> \o x.line
  PROVE  /\ fills \in SUBSET FillSet /\ IsFiniteSet(fills)
         /\ \A c : Mine(c, fills) = LinesAt(at, c, set)
<1> DEFINE f == [x \in set |-> <<at[x]>> \o x.line]
<1>1. fills = {f[x] : x \in set} /\ DOMAIN f = set
  OBVIOUS
<1>2. \A x \in set : /\ f[x][1] = at[x] /\ <<f[x][2], f[x][3]>> = x.line
                     /\ f[x] \in FillSet
  <2> SUFFICES ASSUME NEW x \in set
               PROVE  /\ f[x][1] = at[x] /\ <<f[x][2], f[x][3]>> = x.line
                      /\ f[x] \in FillSet
    OBVIOUS
  <2>1. f[x][1] = at[x] /\ <<f[x][2], f[x][3]>> = x.line
    BY Prefixed
  <2>2. PICK a \in Nat, b \in Int : x.line = <<a, b>>
    <3>1. \A l \in Line : \E a \in Nat, b \in Int : l = <<a, b>>
      BY DEF Line
    <3>2. x.line \in Line
      OBVIOUS
    <3>. QED BY <3>1, <3>2
  <2>3. at[x] \in Cluster
    OBVIOUS
  <2> DEFINE k == at[x]
  <2>4. f[x] = <<k>> \o <<a, b>>
    BY <2>2
  <2> HIDE DEF k, f
  <2>5. <<k>> \o <<a, b>> = <<k, a, b>>
    <3> DEFINE any == {k, a, b}
               one == <<k>>
               two == <<a, b>>
    <3>1. one \in Seq(any) /\ two \in Seq(any) /\ Len(one) = 1 /\ Len(two) = 2
          /\ one[1] = k /\ two[1] = a /\ two[2] = b
      OBVIOUS
    <3> HIDE DEF one, two
    <3> HIDE DEF any
    <3>2. /\ one \o two \in Seq(any) /\ Len(one \o two) = Len(one) + Len(two)
          /\ \A i \in 1 .. Len(one) + Len(two) :
               (one \o two)[i] = IF i <= Len(one) THEN one[i] ELSE two[i - Len(one)]
      BY <3>1, ConcatProperties
    <3>3. (one \o two)[1] = k /\ (one \o two)[2] = a /\ (one \o two)[3] = b
      BY <3>1, <3>2
    <3> DEFINE all == one \o two
    <3>4. all \in Seq(any) /\ Len(all) = 3 /\ all[1] = k /\ all[2] = a /\ all[3] = b
      BY <3>1, <3>2, <3>3
    <3> HIDE DEF all
    <3>5. all = <<k, a, b>>
      BY <3>4
    <3>6. one \o two = <<k, a, b>>
      BY <3>5 DEF all
    <3>. QED BY <3>6 DEF one, two
  <2>6. f[x] \in FillSet
    BY <2>3, <2>4, <2>5 DEF FillSet, k
  <2>. QED BY <2>1, <2>6
<1> HIDE DEF f
<1>3. IsFiniteSet(fills)
  <2>1. IsFiniteSet({f[x] : x \in set})
    BY <1>1, FiniteImage
  <2>. QED BY <1>1, <2>1
<1>4. fills \in SUBSET FillSet
  BY <1>1, <1>2
<1>5. ASSUME NEW c PROVE Mine(c, fills) = LinesAt(at, c, set)
  <2>1. ASSUME NEW m \in Mine(c, fills) PROVE \E x \in set : at[x] = c /\ m = x.line
    <3>1. PICK w \in fills : w[1] = c /\ m = <<w[2], w[3]>>
      BY DEF Mine
    <3>2. PICK x \in set : w = f[x]
      BY <1>1
    <3>. QED BY <1>2, <3>1, <3>2
  <2>2. ASSUME NEW x \in set, at[x] = c PROVE x.line \in Mine(c, fills)
    <3>1. f[x] \in fills
      BY <1>1
    <3>. QED BY <1>2, <2>2, <3>1 DEF Mine
  <2>. QED BY <2>1, <2>2 DEF LinesAt
<1>. QED BY <1>3, <1>4, <1>5

LEMMA EpochBegins ==
  ASSUME SessionInv, Capped, NEW items \in Epochs, NEW policy, ReplayEpoch(items, policy)
  PROVE  /\ Capped' /\ ListRuns' /\ call'.kind = "epoch"
         /\ call' # NoCall /\ call'.snapshot = caches /\ UNCHANGED <<caches, report>>
<1> DEFINE lookups == {Lookup(x, CHOOSE s \in x.sectors : TRUE) : x \in items}
           cold    == {x \in lookups : ~Hits(x, policy)}
           Served(leaders) ==
             [x \in lookups |->
                IF x \notin cold THEN HitSource(x, policy)
                ELSE IF x \in leaders THEN DdrMiss ELSE MshrMerge]
           owners == [x \in lookups |-> x.owner]
           requesters == [x \in lookups |-> x.requester]
<1>1. HomesAgree(items) /\ InUnit(items) /\ UNCHANGED <<caches, report>>
  BY DEF ReplayEpoch, Admissible
<1>2. PICK leaders \in SUBSET cold :
        /\ Leads(leaders, cold)
        /\ call' = Running("epoch", policy, Served(leaders),
                           {<<x.owner>> \o x.line : x \in leaders},
                           {<<x.requester>> \o x.line :
                              x \in CopyMakers(Served(leaders), policy)})
  BY DEF ReplayEpoch
<1>3. Requests(items)
  BY CallsAsk
<1> DEFINE served == Served(leaders)
           makers == CopyMakers(served, policy)
           own == {<<owners[x]>> \o x.line : x \in leaders}
           copies == {<<requesters[x]>> \o x.line : x \in makers}
<1>4. \A x \in lookups : \E y \in items : /\ x.owner = y.owner /\ x.requester = y.requester
                                        /\ x.line[1] = y.copy /\ x.line \in Line
  <2> SUFFICES ASSUME NEW y \in items
               PROVE  LET x == Lookup(y, CHOOSE s \in y.sectors : TRUE) IN
                      /\ x.owner = y.owner /\ x.requester = y.requester
                      /\ x.line[1] = y.copy /\ x.line \in Line
    OBVIOUS
  <2>1. Cardinality(y.sectors) = 1
    BY SessionAssumption
  <2>2. PICK s \in y.sectors : s = CHOOSE z \in y.sectors : TRUE
    BY <2>1, FS_EmptySet
  <2>3. y.copy \in Nat /\ s - y.offset \in Int
    BY <1>3 DEF Requests
  <2>. QED BY <2>2, <2>3 DEF Lookup, Line
<1>5. \A x, y \in lookups : x.line = y.line => x.owner = y.owner
  BY <1>1, <1>4, SMTT(60) DEF HomesAgree, Home
<1>6. \A x \in lookups : x.owner \in Cluster /\ x.requester \in Cluster
  BY <1>1, <1>3, <1>4, InUnitClusters
<1>7. IsFiniteSet(lookups)
  <2> DEFINE f == [x \in items |-> Lookup(x, CHOOSE s \in x.sectors : TRUE)]
  <2>1. lookups = {f[x] : x \in items} /\ DOMAIN f = items /\ IsFiniteSet(items)
    BY <1>3 DEF Requests
  <2> HIDE DEF f, lookups
  <2>. QED BY <2>1, FiniteImage
<1> HIDE DEF lookups
<1>8. /\ ServedRight(caches, served, policy) /\ OneMiss(served)
      /\ \A c : Taken(c, served) = OwnedBy(c, leaders)
      /\ \A c : Copied(c, served, policy)
                  = AskedBy(c, makers)
  <2>1. PICK L, C, V : L = lookups /\ C = cold /\ V = served
    OBVIOUS
  <2>2. /\ \A x : x \in C <=> x \in L /\ ~Hits(x, policy)
        /\ leaders \in SUBSET C /\ Leads(leaders, C)
    BY <1>2, <2>1
  <2>3. /\ DOMAIN V = L
        /\ \A x \in L : V[x] = IF x \notin C THEN HitSource(x, policy)
                                ELSE IF x \in leaders THEN DdrMiss ELSE MshrMerge
    BY <2>1
  <2> HIDE DEF cold, Served, served
  <2>4. ServedFrom(V, L, C, leaders, policy)
    BY <1>5, <2>1, <2>2, <2>3 DEF ServedFrom
  <2>. QED BY <2>1, <2>4, ServedOnce
<1>9. /\ leaders \subseteq lookups /\ makers \subseteq lookups
      /\ IsFiniteSet(leaders) /\ IsFiniteSet(makers)
  <2>1. leaders \subseteq lookups /\ makers \subseteq lookups
    BY DEF CopyMakers
  <2>. QED BY <1>7, <2>1, FS_Subset
<1> HIDE DEF cold, Served
<1>10. own = {<<x.owner>> \o x.line : x \in leaders}
       /\ copies = {<<x.requester>> \o x.line : x \in makers}
  <2>1. \A x \in leaders : owners[x] = x.owner
    BY <1>9
  <2>2. \A x \in makers : requesters[x] = x.requester
    BY <1>9
  <2> HIDE DEF owners, requesters, makers
  <2>. QED BY <2>1, <2>2
<1>11. /\ \A x \in leaders : /\ x.line \in Line /\ owners[x] \in Cluster
                              /\ owners[x] = x.owner
       /\ \A x \in makers : /\ x.line \in Line /\ requesters[x] \in Cluster
                             /\ requesters[x] = x.requester
  BY <1>4, <1>6, <1>9
<1> HIDE DEF owners, requesters, makers, served
<1>12. /\ own \in SUBSET FillSet /\ IsFiniteSet(own)
       /\ \A c : Mine(c, own) = LinesAt(owners, c, leaders)
  <2>1. PICK S, A, F : S = leaders /\ A = owners /\ F = own
    OBVIOUS
  <2>2. \A w : w \in F <=> \E x \in S : w = <<A[x]>> \o x.line
    BY <2>1
  <2> HIDE DEF own
  <2>3. IsFiniteSet(S) /\ \A x \in S : x.line \in Line /\ A[x] \in Cluster
    BY <1>9, <1>11, <2>1
  <2>4. /\ F \in SUBSET FillSet /\ IsFiniteSet(F)
        /\ \A c : Mine(c, F) = LinesAt(A, c, S)
    BY <2>2, <2>3, FillsOf
  <2>. QED BY <2>1, <2>4
<1>13. /\ copies \in SUBSET FillSet /\ IsFiniteSet(copies)
       /\ \A c : Mine(c, copies) = LinesAt(requesters, c, makers)
  <2>1. PICK S, A, F : S = makers /\ A = requesters /\ F = copies
    OBVIOUS
  <2>2. \A w : w \in F <=> \E x \in S : w = <<A[x]>> \o x.line
    BY <2>1
  <2> HIDE DEF copies
  <2>3. IsFiniteSet(S) /\ \A x \in S : x.line \in Line /\ A[x] \in Cluster
    BY <1>9, <1>11, <2>1
  <2>4. /\ F \in SUBSET FillSet /\ IsFiniteSet(F)
        /\ \A c : Mine(c, F) = LinesAt(A, c, S)
    BY <2>2, <2>3, FillsOf
  <2>. QED BY <2>1, <2>4
<1>14. \A c : Mine(c, own) = Taken(c, served) /\ Mine(c, copies) = Copied(c, served, policy)
  <2> TAKE c
  <2>1. {y \in leaders : owners[y] = c} = {y \in leaders : y.owner = c}
        /\ {y \in makers : requesters[y] = c} = {y \in makers : y.requester = c}
    BY <1>11
  <2>. QED BY <1>8, <1>12, <1>13, <2>1 DEF OwnedBy, AskedBy, LinesAt
<1>15. call' = Running("epoch", policy, served, own, copies)
  BY <1>2, <1>10 DEF served, makers
<1> HIDE DEF own, copies
<1>16. /\ call'.kind = "epoch" /\ call'.own = own /\ call'.copies = copies
       /\ call'.left = {} /\ call'.queues = [c \in Cluster |-> <<>>]
       /\ call'.answer = served /\ call'.policy = policy /\ call'.snapshot = caches
  BY <1>15 DEF Running
<1>17. call' # NoCall
  BY <1>16 DEF NoCall
<1>18. ListRuns'
  <2>1. \A c \in Cluster : Goal(call', c)
          = FillAll(Capacity[c], caches'[c],
                    InOrder(Mine(c, call'.own)) \o InOrder(Mine(c, call'.copies)))
    BY <1>1, <1>14, <1>16 DEF Goal
  <2>2. ServedRight(call'.snapshot, call'.answer, call'.policy) /\ OneMiss(call'.answer)
    BY <1>8, <1>16
  <2>. QED BY <1>12, <1>13, <1>16, <2>1, <2>2 DEF ListRuns
<1>19. Capped'
  BY <1>1 DEF Capped
<1>. QED BY <1>1, <1>16, <1>17, <1>18, <1>19

LEMMA WriteBegins ==
  ASSUME SessionInv, Capped, NEW items, Requests(items), \A x \in items : x.offset = 0,
         ApplyOutputPressure(items)
  PROVE  /\ Capped' /\ ListRuns' /\ call'.kind = "write"
         /\ call' # NoCall /\ call'.snapshot = caches /\ UNCHANGED <<caches, report>>
<1> DEFINE aged == {y \in items : OutputPressure[y.owner]}
           fills(x) == {<<x.owner, x.copy, s>> : s \in x.sectors}
           written == UNION {fills(x) : x \in aged}
<1>1. /\ InUnit(items) /\ UNCHANGED <<caches, report>>
      /\ call' = Running("write", HomeOnly, written, written, {})
  BY DEF ApplyOutputPressure, Admissible
<1>2. ASSUME NEW x \in items PROVE IsFiniteSet(fills(x)) /\ fills(x) \subseteq FillSet
  <2> DEFINE f == [s \in x.sectors |-> <<x.owner, x.copy, s>>]
  <2>1. IsFiniteSet(x.sectors) /\ x.sectors \subseteq Nat /\ x.copy \in Nat
        /\ x.owner \in Cluster
    BY <1>1, InUnitClusters DEF Requests
  <2>2. fills(x) = {f[s] : s \in x.sectors} /\ DOMAIN f = x.sectors
    OBVIOUS
  <2>3. fills(x) \subseteq FillSet
    BY <2>1 DEF FillSet
  <2> HIDE DEF f, fills
  <2>. QED BY <2>1, <2>2, <2>3, FiniteImage
<1>3. written \in SUBSET FillSet /\ IsFiniteSet(written)
  <2>1. written \in SUBSET FillSet
    BY <1>2
  <2> DEFINE sets == {fills(x) : x \in aged}
             f == [x \in aged |-> fills(x)]
  <2>2. aged \subseteq items /\ IsFiniteSet(items)
    BY DEF Requests
  <2>3. IsFiniteSet(aged)
    BY <2>2, FS_Subset
  <2>4. sets = {f[x] : x \in aged} /\ DOMAIN f = aged
    OBVIOUS
  <2>5. \A set \in sets : IsFiniteSet(set)
    BY <1>2
  <2> HIDE DEF aged, f, fills
  <2>6. IsFiniteSet(sets)
    <3> HIDE DEF sets
    <3>. QED BY <2>3, <2>4, FiniteImage
  <2>7. IsFiniteSet(UNION sets)
    BY <2>5, <2>6, FS_UNION
  <2>. QED BY <2>1, <2>7
<1> HIDE DEF written
<1>4. /\ call'.kind = "write" /\ call'.own = written /\ call'.copies = {}
      /\ call'.left = {} /\ call'.queues = [c \in Cluster |-> <<>>]
      /\ call'.answer = written /\ call'.snapshot = caches
  BY <1>1 DEF Running
<1>5. call' # NoCall
  BY <1>4 DEF NoCall
<1>6. ASSUME NEW c
      PROVE  InOrder(Mine(c, written)) \o InOrder(Mine(c, {})) = InOrder(Mine(c, written))
  <2>1. Mine(c, {}) = {}
    BY DEF Mine
  <2>2. Mine(c, written) \in SUBSET Line /\ IsFiniteSet(Mine(c, written))
    BY <1>3, MineLines
  <2>3. InOrder(Mine(c, written)) \in Seq(Line)
    BY <2>2, Ordered
  <2>4. \A s \in Seq(Line) : s \o <<>> = s
    OBVIOUS
  <2>. QED BY <2>1, <2>3, <2>4, OrderedNone
<1>7. ListRuns'
  <2>1. \A c \in Cluster : Goal(call', c)
          = FillAll(Capacity[c], caches'[c],
                    InOrder(Mine(c, call'.own)) \o InOrder(Mine(c, call'.copies)))
    BY <1>1, <1>4, <1>6 DEF Goal
  <2>2. IsFiniteSet({}) /\ call'.kind # "epoch" /\ {} \in SUBSET FillSet
    BY <1>4, FS_EmptySet
  <2>. QED BY <1>3, <1>4, <2>1, <2>2 DEF ListRuns
<1>8. Capped'
  BY <1>1 DEF Capped
<1>. QED BY <1>1, <1>4, <1>5, <1>7, <1>8

------------------------------------------------------------------------------
(* What the bulk loop does at a position, by the call it belongs to.       *)
LineAt(p) == <<p[2], p[4]>>

SeenAt(k, c, line) == line \in Resident(k.snapshot[c])

AskingAt(k, p) ==
  {x.requester : x \in {y \in k.items :
                          /\ <<y.owner, y.copy, y.tensor>> = <<p[1], p[2], p[3]>>
                          /\ p[4] \in y.sectors}}

CopyAt(k, p) ==
  {r \in AskingAt(k, p) : k.policy = BothFill /\ r # p[1] /\ SeenAt(k, r, LineAt(p))}

ColdAt(k, p) ==
  IF SeenAt(k, p[1], LineAt(p)) THEN {} ELSE AskingAt(k, p) \ CopyAt(k, p)

TakesCopy(k, p, c) ==
  k.policy = BothFill /\ c \in AskingAt(k, p) \ (CopyAt(k, p) \cup {p[1]})

KeyAt(p, r) == [requester |-> r, owner |-> p[1], tensor |-> p[3],
                line |-> LineAt(p), interval |-> None]

PlaceAt(k, p, r) ==
  IF r \in CopyAt(k, p) THEN RequesterHit
  ELSE IF r \notin ColdAt(k, p) THEN IF r = p[1] THEN RequesterHit ELSE OwnerHit
  ELSE IF r = Min(ColdAt(k, p)) THEN DdrMiss ELSE MshrMerge

ColdLines(k, c, set) ==
  {LineAt(p) : p \in {q \in set : q[1] = c /\ ColdAt(k, q) # {}}}

CopiedLines(k, c, set) == {LineAt(p) : p \in {q \in set : TakesCopy(k, q, c)}}

AnswersAt(k, visited) ==
  /\ \A x : x \in DOMAIN k.answer <=>
              \E p \in visited : \E r \in AskingAt(k, p) : x = KeyAt(p, r)
  /\ \A p \in visited : \A r \in AskingAt(k, p) :
       k.answer[KeyAt(p, r)] = PlaceAt(k, p, r)

(* The requests for which the bulk path is the detailed one: a copy has    *)
(* one name, and a requester's copies, where copies are made, come in the  *)
(* order of their owners.                                                  *)
OneName(items) == \A x, y \in items : x.copy = y.copy => x.tensor = y.tensor

InOwnerOrder(items) ==
  \A x, y \in items :
    /\ x.requester = y.requester
    /\ x.requester # x.owner /\ y.requester # y.owner
    /\ x.owner < y.owner
    => x.copy < y.copy

BulkAsDetailed(items) ==
  OneName(items) /\ (BothFill \in Policies => InOwnerOrder(items))

Kept(items) ==
  /\ Requests(items) /\ InUnit(items)
  /\ \A x \in items : x.tensor \in Nat
  /\ \A x, y \in items : x.copy = y.copy => x.owner = y.owner
  /\ BulkAsDetailed(items)

BulkGoal(k, c) ==
  FillAll(Capacity[c], k.snapshot[c],
          InOrder(ColdLines(k, c, Asked(k.items)))
            \o InOrder(CopiedLines(k, c, Asked(k.items))))

(* The cache of c after the fills to come, those of the positions left and *)
(* those queued.                                                           *)
ToCome(k, c, left, queue, cache) ==
  FillAll(Capacity[c], cache,
          InOrder(ColdLines(k, c, left)) \o (queue \o InOrder(CopiedLines(k, c, left))))

(* While the loop visits lines, what its queues hold is new to the caches  *)
(* they will be flushed to, so that a full queue may drop its oldest line. *)
Steady(k, c, left, queue, cache) ==
  /\ Len(queue) <= Capacity[c]
  /\ \A i, j \in 1 .. Len(queue) : queue[i] = queue[j] => i = j
  /\ Resident(queue) \subseteq CopiedLines(k, c, Asked(k.items) \ left)
  /\ Resident(cache) \subseteq Resident(k.snapshot[c]) \cup ColdLines(k, c, Asked(k.items))

(* A bulk call on its way.                                                 *)
BulkRuns ==
  call # NoCall /\ call.kind = "bulk" =>
    /\ Kept(call.items) /\ call.policy \in Policies
    /\ call.own = {} /\ call.copies = {}
    /\ call.left \in SUBSET Asked(call.items)
    /\ AnswersAt(call, Asked(call.items) \ call.left)
    /\ \A c \in Cluster :
         ToCome(call, c, call.left, call.queues[c], caches[c]) = BulkGoal(call, c)
    /\ call.left # {} =>
         \A c \in Cluster : Steady(call, c, call.left, call.queues[c], caches[c])

LEMMA AskedFields ==
  ASSUME NEW items, Kept(items), NEW p \in Asked(items)
  PROVE  /\ p = <<p[1], p[2], p[3], p[4]>>
         /\ p[1] \in Cluster /\ p[2] \in Nat /\ p[3] \in Nat /\ p[4] \in Nat
         /\ \E x \in items : /\ x.owner = p[1] /\ x.copy = p[2] /\ x.tensor = p[3]
                             /\ p[4] \in x.sectors
         /\ LineAt(p) \in Line
<1>1. PICK x \in items : \E s \in x.sectors : p = <<x.owner, x.copy, x.tensor, s>>
  BY DEF Asked
<1>0. PICK s \in x.sectors : p = <<x.owner, x.copy, x.tensor, s>>
  BY <1>1
<1>2. x.owner \in Cluster /\ x.copy \in Nat /\ x.tensor \in Nat /\ s \in Nat
  BY InUnitClusters DEF Kept, Requests
<1>. QED BY <1>0, <1>2 DEF LineAt, Line

LEMMA AskedFinite ==
  ASSUME NEW items, Requests(items)
  PROVE  IsFiniteSet(Asked(items))
<1> DEFINE points(x) == {<<x.owner, x.copy, x.tensor, s>> : s \in x.sectors}
           sets == {points(x) : x \in items}
           g == [x \in items |-> points(x)]
<1>1. ASSUME NEW x \in items PROVE IsFiniteSet(points(x))
  <2> DEFINE f == [s \in x.sectors |-> <<x.owner, x.copy, x.tensor, s>>]
  <2>1. points(x) = {f[s] : s \in x.sectors} /\ DOMAIN f = x.sectors
    OBVIOUS
  <2>2. IsFiniteSet(x.sectors)
    BY DEF Requests
  <2> HIDE DEF f, points
  <2>. QED BY <2>1, <2>2, FiniteImage
<1>2. sets = {g[x] : x \in items} /\ DOMAIN g = items /\ IsFiniteSet(items)
  BY DEF Requests
<1>3. \A set \in sets : IsFiniteSet(set)
  BY <1>1
<1> HIDE DEF points, g
<1>4. IsFiniteSet(sets)
  <2> HIDE DEF sets
  <2>. QED BY <1>2, FiniteImage
<1>5. IsFiniteSet(UNION sets)
  BY <1>3, <1>4, FS_UNION
<1>. QED BY <1>5 DEF Asked, points

LEMMA LineNames ==
  ASSUME NEW items, Kept(items), NEW p \in Asked(items), NEW q \in Asked(items),
         LineAt(p) = LineAt(q)
  PROVE  p = q
<1>1. p = <<p[1], p[2], p[3], p[4]>> /\ q = <<q[1], q[2], q[3], q[4]>>
  BY AskedFields
<1>2. p[2] = q[2] /\ p[4] = q[4]
  BY DEF LineAt
<1>3. PICK x \in items : x.owner = p[1] /\ x.copy = p[2] /\ x.tensor = p[3]
  BY AskedFields
<1>4. PICK y \in items : y.owner = q[1] /\ y.copy = q[2] /\ y.tensor = q[3]
  BY AskedFields
<1>5. p[1] = q[1] /\ p[3] = q[3]
  BY <1>2, <1>3, <1>4 DEF Kept, BulkAsDetailed, OneName
<1>. QED BY <1>1, <1>2, <1>5

(* Lines of one owner, and copies of one requester, are visited in order.  *)
LEMMA VisitOrder ==
  ASSUME NEW items, Kept(items), NEW p \in Asked(items), NEW q \in Asked(items),
         p = q \/ Before(p, q), NEW k, k.items = items, k.policy \in Policies,
         NEW c,
         \/ p[1] = q[1]
         \/ TakesCopy(k, p, c) /\ TakesCopy(k, q, c)
  PROVE  LineAt(p) = LineAt(q) \/ Before(LineAt(p), LineAt(q))
<1> SUFFICES ASSUME Before(p, q) PROVE LineAt(p) = LineAt(q) \/ Before(LineAt(p), LineAt(q))
  OBVIOUS
<1>0. \A r \in Asked(items) : r = <<r[1], r[2], r[3], r[4]>> /\ r[1] \in Int
                              /\ r[2] \in Nat /\ r[3] \in Nat /\ r[4] \in Nat
  BY AskedFields, ClustersAreNumbers
<1>1. PICK a, b, t, s : p = <<a, b, t, s>> /\ a \in Int /\ b \in Nat /\ t \in Nat /\ s \in Nat
  BY <1>0
<1>2. PICK d, e, u, v : q = <<d, e, u, v>> /\ d \in Int /\ e \in Nat /\ u \in Nat /\ v \in Nat
  BY <1>0
<1>3. \/ a < d \/ (a = d /\ b < e) \/ (a = d /\ b = e /\ t < u)
      \/ (a = d /\ b = e /\ t = u /\ s < v)
  <2>1. Len(p) = 4
    BY <1>1
  <2>2. \E i \in 1 .. 4 : p[i] < q[i] /\ \A j \in 1 .. i - 1 : p[j] = q[j]
    BY <2>1 DEF Before
  <2>3. 1 .. 4 = {1, 2, 3, 4}
    OBVIOUS
  <2>4. PICK i \in {1, 2, 3, 4} : p[i] < q[i] /\ \A j \in 1 .. i - 1 : p[j] = q[j]
    BY <2>2, <2>3
  <2>. QED BY <1>1, <1>2, <2>4
<1>4. b = e => t = u
  <2>1. PICK x \in items : x.copy = b /\ x.tensor = t
    BY <1>1, AskedFields
  <2>2. PICK y \in items : y.copy = e /\ y.tensor = u
    BY <1>2, AskedFields
  <2>. QED BY <2>1, <2>2 DEF Kept, BulkAsDetailed, OneName
<1>5. a < d => b < e
  <2> SUFFICES ASSUME a < d PROVE b < e
    OBVIOUS
  <2>1. /\ c \in AskingAt(k, p) /\ c # a /\ c \in AskingAt(k, q) /\ c # d
        /\ BothFill \in Policies
    BY <1>1, <1>2 DEF TakesCopy
  <2>2. PICK x \in items : x.requester = c /\ x.owner = a /\ x.copy = b
    BY <1>1, <2>1 DEF AskingAt
  <2>3. PICK y \in items : y.requester = c /\ y.owner = d /\ y.copy = e
    BY <1>2, <2>1 DEF AskingAt
  <2>. QED BY <2>1, <2>2, <2>3 DEF Kept, BulkAsDetailed, InOwnerOrder
<1>6. b < e \/ (b = e /\ s < v)
  BY <1>1, <1>2, <1>3, <1>4, <1>5
<1>7. <<b, s>> \in Line /\ <<e, v>> \in Line
  BY <1>1, <1>2 DEF Line
<1>8. Before(<<b, s>>, <<e, v>>)
  BY <1>6, <1>7, LineBefore
<1>. QED BY <1>1, <1>2, <1>8 DEF LineAt

(* The lines of some positions, the first of them first.                   *)
LEMMA LinesFirst ==
  ASSUME NEW items, Kept(items), NEW set \in SUBSET Asked(items), NEW p \in set,
         \A q \in set : LineAt(p) = LineAt(q) \/ Before(LineAt(p), LineAt(q))
  PROVE  /\ First(LineAt(p), {LineAt(q) : q \in set})
         /\ {LineAt(q) : q \in set \ {p}} = {LineAt(q) : q \in set} \ {LineAt(p)}
<1>1. First(LineAt(p), {LineAt(q) : q \in set})
  BY DEF First
<1>2. \A q \in set : LineAt(q) = LineAt(p) => q = p
  BY LineNames
<1>3. {LineAt(q) : q \in set \ {p}} = {LineAt(q) : q \in set} \ {LineAt(p)}
  <2>1. ASSUME NEW q \in set \ {p} PROVE LineAt(q) # LineAt(p)
    BY <1>2
  <2>. QED BY <2>1
<1>. QED BY <1>1, <1>3

LEMMA LineSets ==
  ASSUME NEW k, Kept(k.items), NEW set \in SUBSET Asked(k.items), NEW c
  PROVE  /\ ColdLines(k, c, set) \in SUBSET Line /\ IsFiniteSet(ColdLines(k, c, set))
         /\ CopiedLines(k, c, set) \in SUBSET Line /\ IsFiniteSet(CopiedLines(k, c, set))
<1> DEFINE f == [p \in set |-> LineAt(p)]
           mine == {q \in set : q[1] = c /\ ColdAt(k, q) # {}}
           made == {q \in set : TakesCopy(k, q, c)}
<1>1. IsFiniteSet(set)
  BY AskedFinite, FS_Subset DEF Kept
<1>2. \A p \in set : LineAt(p) \in Line
  BY AskedFields
<1>3. IsFiniteSet({f[p] : p \in set}) /\ {f[p] : p \in set} = {LineAt(p) : p \in set}
  <2>1. DOMAIN f = set /\ {f[p] : p \in set} = {LineAt(p) : p \in set}
    OBVIOUS
  <2> HIDE DEF f
  <2>. QED BY <1>1, <2>1, FiniteImage
<1>4. ColdLines(k, c, set) \subseteq {LineAt(p) : p \in set}
      /\ CopiedLines(k, c, set) \subseteq {LineAt(p) : p \in set}
  BY DEF ColdLines, CopiedLines
<1>5. {LineAt(p) : p \in set} \subseteq Line
  BY <1>2
<1>6. IsFiniteSet({LineAt(p) : p \in set})
  BY <1>3
<1>. QED BY <1>4, <1>5, <1>6, FS_Subset

(* What a cluster copies it neither had nor owns.                          *)
LEMMA CopiesAreNew ==
  ASSUME NEW k, Kept(k.items), NEW c
  PROVE  CopiedLines(k, c, Asked(k.items))
           \cap (Resident(k.snapshot[c]) \cup ColdLines(k, c, Asked(k.items))) = {}
<1> SUFFICES ASSUME NEW p \in Asked(k.items), TakesCopy(k, p, c)
             PROVE  /\ LineAt(p) \notin Resident(k.snapshot[c])
                    /\ LineAt(p) \notin ColdLines(k, c, Asked(k.items))
  BY DEF CopiedLines
<1>1. c # p[1] /\ LineAt(p) \notin Resident(k.snapshot[c])
  BY DEF TakesCopy, CopyAt, SeenAt
<1>2. ASSUME LineAt(p) \in ColdLines(k, c, Asked(k.items)) PROVE FALSE
  <2>1. PICK q \in Asked(k.items) : q[1] = c /\ LineAt(p) = LineAt(q)
    BY <1>2 DEF ColdLines
  <2>2. p = q
    BY <2>1, LineNames
  <2>. QED BY <1>1, <2>1, <2>2
<1>. QED BY <1>1, <1>2

(* The loop of k, with set still to visit, is at p.                        *)
Visits(k, set, p) ==
  /\ Kept(k.items) /\ k.policy \in Policies
  /\ set \in SUBSET Asked(k.items) /\ p \in set /\ First(p, set)

(* What is left of each kind of line of c after p.                         *)
Passes(k, set, p, c) ==
  /\ p[1] = c /\ ColdAt(k, p) # {} =>
       /\ First(LineAt(p), ColdLines(k, c, set))
       /\ ColdLines(k, c, set \ {p}) = ColdLines(k, c, set) \ {LineAt(p)}
  /\ ~(p[1] = c /\ ColdAt(k, p) # {}) =>
       ColdLines(k, c, set \ {p}) = ColdLines(k, c, set)
  /\ TakesCopy(k, p, c) =>
       /\ First(LineAt(p), CopiedLines(k, c, set))
       /\ CopiedLines(k, c, set \ {p}) = CopiedLines(k, c, set) \ {LineAt(p)}
  /\ ~TakesCopy(k, p, c) => CopiedLines(k, c, set \ {p}) = CopiedLines(k, c, set)

LEMMA OneLine ==
  ASSUME NEW k, NEW set, NEW p, Visits(k, set, p), NEW c
  PROVE  Passes(k, set, p, c)
<1>0. /\ Kept(k.items) /\ k.policy \in Policies
      /\ set \in SUBSET Asked(k.items) /\ p \in set /\ First(p, set)
  BY DEF Visits
<1>1. ASSUME p[1] = c, ColdAt(k, p) # {}
      PROVE  /\ First(LineAt(p), ColdLines(k, c, set))
             /\ ColdLines(k, c, set \ {p}) = ColdLines(k, c, set) \ {LineAt(p)}
  <2> DEFINE mine == {q \in set : q[1] = c /\ ColdAt(k, q) # {}}
             rest == {q \in set \ {p} : q[1] = c /\ ColdAt(k, q) # {}}
  <2>1. mine \in SUBSET Asked(k.items) /\ p \in mine /\ mine \ {p} = rest
    BY <1>0, <1>1
  <2>2. \A q \in mine : LineAt(p) = LineAt(q) \/ Before(LineAt(p), LineAt(q))
    BY <1>0, <1>1, VisitOrder DEF First
  <2>3. ColdLines(k, c, set) = {LineAt(q) : q \in mine}
        /\ ColdLines(k, c, set \ {p}) = {LineAt(q) : q \in rest}
    BY DEF ColdLines
  <2> HIDE DEF mine, rest
  <2>4. /\ First(LineAt(p), {LineAt(q) : q \in mine})
        /\ {LineAt(q) : q \in mine \ {p}} = {LineAt(q) : q \in mine} \ {LineAt(p)}
    BY <1>0, <2>1, <2>2, LinesFirst
  <2>. QED BY <2>1, <2>3, <2>4
<1>2. ASSUME ~(p[1] = c /\ ColdAt(k, p) # {})
      PROVE  ColdLines(k, c, set \ {p}) = ColdLines(k, c, set)
  <2>1. {q \in set \ {p} : q[1] = c /\ ColdAt(k, q) # {}}
          = {q \in set : q[1] = c /\ ColdAt(k, q) # {}}
    BY <1>2
  <2>. QED BY <2>1 DEF ColdLines
<1>3. ASSUME TakesCopy(k, p, c)
      PROVE  /\ First(LineAt(p), CopiedLines(k, c, set))
             /\ CopiedLines(k, c, set \ {p}) = CopiedLines(k, c, set) \ {LineAt(p)}
  <2> DEFINE made == {q \in set : TakesCopy(k, q, c)}
             rest == {q \in set \ {p} : TakesCopy(k, q, c)}
  <2>1. made \in SUBSET Asked(k.items) /\ p \in made /\ made \ {p} = rest
    BY <1>0, <1>3
  <2>2. \A q \in made : LineAt(p) = LineAt(q) \/ Before(LineAt(p), LineAt(q))
    BY <1>0, <1>3, VisitOrder DEF First
  <2>3. CopiedLines(k, c, set) = {LineAt(q) : q \in made}
        /\ CopiedLines(k, c, set \ {p}) = {LineAt(q) : q \in rest}
    BY DEF CopiedLines
  <2> HIDE DEF made, rest
  <2>4. /\ First(LineAt(p), {LineAt(q) : q \in made})
        /\ {LineAt(q) : q \in made \ {p}} = {LineAt(q) : q \in made} \ {LineAt(p)}
    BY <1>0, <2>1, <2>2, LinesFirst
  <2>. QED BY <2>1, <2>3, <2>4
<1>4. ASSUME ~TakesCopy(k, p, c)
      PROVE  CopiedLines(k, c, set \ {p}) = CopiedLines(k, c, set)
  <2>1. {q \in set \ {p} : TakesCopy(k, q, c)} = {q \in set : TakesCopy(k, q, c)}
    BY <1>4
  <2>. QED BY <2>1 DEF CopiedLines
<1>. QED BY <1>1, <1>2, <1>3, <1>4 DEF Passes

Joined(cap, queue, line) ==
  Append(IF Len(queue) >= cap THEN Tail(queue) ELSE queue, line)

(* A queue of new lines that is full may drop its oldest: the cache it is  *)
(* flushed to would.                                                       *)
LEMMA Drop ==
  ASSUME NEW cap \in Nat \ {0}, NEW q \in Seq(Line), Len(q) <= cap,
         NEW queue \in Seq(Line), Len(queue) <= cap,
         \A i, j \in 1 .. Len(queue) : queue[i] = queue[j] => i = j,
         NEW line \in Line, line \notin Resident(queue), line \notin Resident(q),
         Resident(queue) \cap Resident(q) = {},
         NEW longer, longer = Joined(cap, queue, line)
  PROVE  /\ longer \in Seq(Line) /\ Len(longer) <= cap
         /\ Resident(longer) \subseteq Resident(queue) \cup {line}
         /\ \A i, j \in 1 .. Len(longer) : longer[i] = longer[j] => i = j
         /\ FillAll(cap, q, longer) = FillAll(cap, q, Append(queue, line))
<1> DEFINE n == Len(queue)
           all == Append(queue, line)
<1>1. n \in Nat /\ n <= cap /\ DOMAIN queue = 1 .. n
  OBVIOUS
<1>2. /\ all \in Seq(Line) /\ Len(all) = n + 1
      /\ \A i \in 1 .. n : all[i] = queue[i]
      /\ all[n + 1] = line
  BY AppendProperties
<1>3. longer \in Seq(Line) /\ Resident(longer) \subseteq Resident(queue) \cup {line}
  BY Enqueues DEF Joined
<1>4. \A i \in 1 .. n : queue[i] \in Resident(queue)
  BY <1>1 DEF Resident, Range
<1> HIDE DEF all, n
<1>5. \A i, j \in 1 .. n + 1 : all[i] = all[j] => i = j
  <2> SUFFICES ASSUME NEW i \in 1 .. n + 1, NEW j \in 1 .. n + 1, all[i] = all[j]
               PROVE  i = j
    OBVIOUS
  <2>1. (i \in 1 .. n \/ i = n + 1) /\ (j \in 1 .. n \/ j = n + 1)
    BY <1>1
  <2>2. CASE i \in 1 .. n /\ j \in 1 .. n
    BY <1>2, <2>2 DEF n
  <2>3. CASE i \in 1 .. n /\ j = n + 1
    BY <1>2, <1>4, <2>3
  <2>4. CASE i = n + 1 /\ j \in 1 .. n
    BY <1>2, <1>4, <2>4
  <2>. QED BY <2>1, <2>2, <2>3, <2>4
<1>6. \A i \in 1 .. n + 1 : all[i] \notin Resident(q)
  <2> SUFFICES ASSUME NEW i \in 1 .. n + 1 PROVE all[i] \notin Resident(q)
    OBVIOUS
  <2>1. i \in 1 .. n \/ i = n + 1
    BY <1>1
  <2>2. CASE i \in 1 .. n
    <3>1. all[i] \in Resident(queue)
      BY <1>2, <1>4, <2>2
    <3>. QED BY <3>1
  <2>3. CASE i = n + 1
    BY <1>2, <2>3
  <2>. QED BY <2>1, <2>2, <2>3
<1>7. CASE n < cap
  <2>1. longer = all
    BY <1>1, <1>7 DEF n, all, Joined
  <2>2. n + 1 <= cap
    BY <1>1, <1>7
  <2>. QED BY <1>2, <1>3, <1>5, <2>1, <2>2 DEF all
<1>8. CASE ~(n < cap)
  <2>0. n = cap
    BY <1>1, <1>8
  <2>1. n = cap /\ queue # <<>>
    <3>1. Len(queue) # 0
      BY <2>0 DEF n
    <3>. QED BY <2>0, <3>1
  <2> DEFINE kept == Tail(queue)
  <2>2. longer = Append(kept, line)
    BY <2>1 DEF n, Joined
  <2>3. /\ kept \in Seq(Line) /\ Len(kept) = cap - 1
        /\ \A i \in 1 .. cap - 1 : kept[i] = queue[i + 1]
    BY <2>1, HeadTailProperties DEF n
  <2> HIDE DEF kept
  <2>4. /\ Len(longer) = (cap - 1) + 1
        /\ \A i \in 1 .. cap - 1 : longer[i] = kept[i]
        /\ longer[(cap - 1) + 1] = line
    <3>1. /\ Len(Append(kept, line)) = Len(kept) + 1
          /\ \A i \in 1 .. Len(kept) : Append(kept, line)[i] = kept[i]
          /\ Append(kept, line)[Len(kept) + 1] = line
      BY <2>3, AppendProperties
    <3>. QED BY <2>2, <2>3, <3>1
  <2>5. Len(longer) = cap /\ \A i \in 1 .. cap : longer[i] = all[i + 1]
    <3>1. Len(longer) = cap
      BY <2>4
    <3>2. ASSUME NEW i \in 1 .. cap PROVE longer[i] = all[i + 1]
      <4>1. CASE i = cap
        BY <1>2, <2>1, <2>4, <4>1
      <4>2. CASE i # cap
        <5>1. i \in 1 .. cap - 1 /\ i + 1 \in 1 .. n
          BY <2>1, <4>2
        <5>. QED BY <1>2, <2>3, <2>4, <5>1
      <4>. QED BY <4>1, <4>2
    <3>. QED BY <3>1, <3>2
  <2>6. \A i, j \in 1 .. cap : longer[i] = longer[j] => i = j
    <3> SUFFICES ASSUME NEW i \in 1 .. cap, NEW j \in 1 .. cap, longer[i] = longer[j]
                 PROVE  i = j
      OBVIOUS
    <3>1. i + 1 \in 1 .. n + 1 /\ j + 1 \in 1 .. n + 1
      BY <2>1
    <3>2. all[i + 1] = all[j + 1]
      BY <2>5
    <3>3. i + 1 = j + 1
      BY <1>5, <3>1, <3>2
    <3>. QED BY <3>3
  <2>7. \A i \in 1 .. cap : longer[i] \notin Resident(q)
    <3> SUFFICES ASSUME NEW i \in 1 .. cap PROVE longer[i] \notin Resident(q)
      OBVIOUS
    <3>1. i + 1 \in 1 .. n + 1
      BY <2>1
    <3>. QED BY <1>6, <2>5, <3>1
  <2>8. /\ Len(all) >= cap /\ Len(longer) >= cap
        /\ Len(all) = cap + 1 /\ Len(longer) = cap
    BY <1>1, <1>2, <2>1, <2>5
  <2>9. FillAll(cap, q, all) = [j \in 1 .. cap |-> all[Len(all) - cap + j]]
    <3>1. 1 .. Len(all) = 1 .. n + 1
      BY <1>2
    <3>2. all \in Seq(Line) /\ Len(all) >= cap
      BY <1>2, <2>8
    <3>3. /\ \A i, j \in 1 .. Len(all) : all[i] = all[j] => i = j
          /\ \A i \in 1 .. Len(all) : all[i] \notin Resident(q)
      BY <1>5, <1>6, <3>1
    <3>. QED BY <3>2, <3>3, FreshFills
  <2>10. FillAll(cap, q, longer) = [j \in 1 .. cap |-> longer[Len(longer) - cap + j]]
    <3>1. /\ \A i, j \in 1 .. Len(longer) : longer[i] = longer[j] => i = j
          /\ \A i \in 1 .. Len(longer) : longer[i] \notin Resident(q)
      BY <2>6, <2>7, <2>8
    <3>2. PICK l : l = longer
      OBVIOUS
    <3>3. /\ l \in Seq(Line) /\ Len(l) >= cap
          /\ \A i, j \in 1 .. Len(l) : l[i] = l[j] => i = j
          /\ \A i \in 1 .. Len(l) : l[i] \notin Resident(q)
      BY <1>3, <2>8, <3>1, <3>2
    <3>4. FillAll(cap, q, l) = [j \in 1 .. cap |-> l[Len(l) - cap + j]]
      BY <3>3, FreshFills
    <3>. QED BY <3>2, <3>4
  <2>11. \A j \in 1 .. cap : longer[Len(longer) - cap + j] = all[Len(all) - cap + j]
    <3> SUFFICES ASSUME NEW j \in 1 .. cap
                 PROVE  longer[Len(longer) - cap + j] = all[Len(all) - cap + j]
      OBVIOUS
    <3>1. Len(longer) - cap + j = j /\ Len(all) - cap + j = j + 1
      <4> DEFINE m == Len(longer)
                 l == Len(all)
      <4>1. m = cap /\ l = cap + 1
        BY <2>8
      <4> HIDE DEF m, l
      <4>2. m - cap + j = j /\ l - cap + j = j + 1
        BY <4>1
      <4>. QED BY <4>2 DEF m, l
    <3>. QED BY <2>5, <3>1
  <2>12. FillAll(cap, q, longer) = FillAll(cap, q, all)
    BY <2>9, <2>10, <2>11
  <2>13. Len(longer) <= cap
    BY <2>5
  <2>. QED BY <1>3, <2>5, <2>6, <2>12, <2>13 DEF all
<1>. QED BY <1>7, <1>8

(* Filling fills and then queue into q, line is new.                       *)
NewTo(cap, q, fills, queue, line) ==
  /\ cap \in Nat \ {0}
  /\ q \in Seq(Line) /\ Len(q) <= cap /\ fills \in Seq(Line)
  /\ queue \in Seq(Line) /\ Len(queue) <= cap
  /\ \A i, j \in 1 .. Len(queue) : queue[i] = queue[j] => i = j
  /\ line \in Line /\ line \notin Resident(queue)
  /\ (Resident(queue) \cup {line}) \cap (Resident(q) \cup Range(fills)) = {}

LEMMA QueueStep ==
  ASSUME NEW cap, NEW q, NEW fills, NEW queue, NEW line,
         NewTo(cap, q, fills, queue, line), NEW more \in Seq(Line),
         NEW longer, longer = Joined(cap, queue, line)
  PROVE  /\ longer \in Seq(Line) /\ Len(longer) <= cap
         /\ Resident(longer) \subseteq Resident(queue) \cup {line}
         /\ \A i, j \in 1 .. Len(longer) : longer[i] = longer[j] => i = j
         /\ FillAll(cap, q, fills \o (longer \o more))
              = FillAll(cap, q, fills \o (queue \o (<<line>> \o more)))
<1>0. /\ cap \in Nat \ {0}
      /\ q \in Seq(Line) /\ Len(q) <= cap /\ fills \in Seq(Line)
      /\ queue \in Seq(Line) /\ Len(queue) <= cap
      /\ \A i, j \in 1 .. Len(queue) : queue[i] = queue[j] => i = j
      /\ line \in Line /\ line \notin Resident(queue)
      /\ (Resident(queue) \cup {line}) \cap (Resident(q) \cup Range(fills)) = {}
  BY DEF NewTo
<1>1. PICK r : r = FillAll(cap, q, fills)
  OBVIOUS
<1>2. r \in Seq(Line) /\ Len(r) <= cap /\ Resident(r) \subseteq Resident(q) \cup Range(fills)
  BY <1>0, <1>1, FillStays
<1>3. line \notin Resident(r) /\ Resident(queue) \cap Resident(r) = {}
  BY <1>0, <1>2
<1>4. /\ longer \in Seq(Line) /\ Len(longer) <= cap
      /\ Resident(longer) \subseteq Resident(queue) \cup {line}
      /\ \A i, j \in 1 .. Len(longer) : longer[i] = longer[j] => i = j
      /\ FillAll(cap, r, longer) = FillAll(cap, r, Append(queue, line))
  BY <1>0, <1>2, <1>3, Drop
<1>5. PICK all : all = Append(queue, line) /\ all \in Seq(Line)
  BY <1>0, AppendProperties
<1>6. queue \o (<<line>> \o more) = all \o more
  BY <1>0, <1>5
<1>7. \A s \in Seq(Line) :
        FillAll(cap, q, fills \o (s \o more)) = FillAll(cap, FillAll(cap, r, s), more)
  <2> TAKE s \in Seq(Line)
  <2>0. s \o more \in Seq(Line)
    OBVIOUS
  <2>1. PICK t \in Seq(Line) : t = s \o more
    BY <2>0
  <2>2. FillAll(cap, q, fills \o t) = FillAll(cap, r, t)
    <3>1. FillAll(cap, q, fills \o t) = FillAll(cap, FillAll(cap, q, fills), t)
      BY <1>0, FillBoth
    <3>. QED BY <1>1, <3>1
  <2>3. FillAll(cap, r, s \o more) = FillAll(cap, FillAll(cap, r, s), more)
    BY FillBoth
  <2>. QED BY <2>1, <2>2, <2>3
<1>. QED BY <1>0, <1>4, <1>5, <1>6, <1>7

(* A position means the same to a call until it returns.                   *)
LEMMA SamePositions ==
  ASSUME NEW k, NEW m, m.items = k.items, m.policy = k.policy, m.snapshot = k.snapshot
  PROVE  /\ \A p : AskingAt(m, p) = AskingAt(k, p)
         /\ \A p, r : PlaceAt(m, p, r) = PlaceAt(k, p, r)
         /\ \A c, set : ColdLines(m, c, set) = ColdLines(k, c, set)
         /\ \A c, set : CopiedLines(m, c, set) = CopiedLines(k, c, set)
         /\ \A c : BulkGoal(m, c) = BulkGoal(k, c)
<1>1. \A p : AskingAt(m, p) = AskingAt(k, p)
  BY DEF AskingAt
<1>2. \A c, line : SeenAt(m, c, line) = SeenAt(k, c, line)
  BY DEF SeenAt
<1>3. \A p : CopyAt(m, p) = CopyAt(k, p)
  BY <1>1, <1>2 DEF CopyAt
<1>4. \A p : ColdAt(m, p) = ColdAt(k, p)
  BY <1>1, <1>2, <1>3 DEF ColdAt
<1>5. \A p, r : PlaceAt(m, p, r) = PlaceAt(k, p, r)
  BY <1>3, <1>4 DEF PlaceAt
<1>6. \A p, c : TakesCopy(m, p, c) = TakesCopy(k, p, c)
  BY <1>1, <1>3 DEF TakesCopy
<1>7. \A c, set : ColdLines(m, c, set) = ColdLines(k, c, set)
  BY <1>4 DEF ColdLines
<1>8. \A c, set : CopiedLines(m, c, set) = CopiedLines(k, c, set)
  BY <1>6 DEF CopiedLines
<1>9. \A c : BulkGoal(m, c) = BulkGoal(k, c)
  BY <1>7, <1>8 DEF BulkGoal
<1>. QED BY <1>1, <1>5, <1>7, <1>8, <1>9

LEMMA BulkBegins ==
  ASSUME SessionInv, Capped, NEW items \in BulkEpochs, BulkAsDetailed(items),
         NEW policy \in Policies, ReplayBulk(items, policy)
  PROVE  /\ Capped' /\ BulkRuns' /\ call'.kind = "bulk"
         /\ call' # NoCall /\ call'.snapshot = caches /\ UNCHANGED <<caches, report>>
<1>1. /\ HomesAgree(items) /\ InUnit(items) /\ UNCHANGED <<caches, report>>
      /\ call' = [Running("bulk", policy, <<>>, {}, {}) EXCEPT
                    !.items = items, !.left = Asked(items)]
  BY DEF ReplayBulk, Admissible, Asked
<1>2. Kept(items)
  <2>1. Requests(items)
    BY CallsAsk
  <2>2. items \subseteq Request
    BY SessionAssumption
  <2>3. \A x \in items : x.tensor \in Nat
    BY <2>2 DEF Request
  <2>4. \A x, y \in items : x.copy = y.copy => x.owner = y.owner
    BY <1>1 DEF HomesAgree, Home
  <2>. QED BY <1>1, <2>1, <2>3, <2>4 DEF Kept
<1>3. /\ call'.kind = "bulk" /\ call'.policy = policy /\ call'.snapshot = caches
      /\ call'.answer = <<>> /\ call'.own = {} /\ call'.copies = {}
      /\ call'.left = Asked(items) /\ call'.items = items
      /\ call'.queues = [c \in Cluster |-> <<>>]
  <2> HIDE DEF Asked
  <2>. QED BY <1>1 DEF Running
<1>4. call' # NoCall
  BY <1>3 DEF NoCall
<1>5. PICK k : k = call'
  OBVIOUS
<1>6. AnswersAt(k, Asked(k.items) \ k.left)
  <2>1. Asked(k.items) \ k.left = {} /\ DOMAIN k.answer = {}
    BY <1>3, <1>5
  <2>. QED BY <2>1 DEF AnswersAt
<1>7. ASSUME NEW c \in Cluster
      PROVE  FillAll(Capacity[c], caches'[c],
                     InOrder(ColdLines(k, c, k.left))
                       \o (k.queues[c] \o InOrder(CopiedLines(k, c, k.left))))
               = BulkGoal(k, c)
  <2>1. PICK set : set = CopiedLines(k, c, k.left)
    OBVIOUS
  <2>2. set \in SUBSET Line /\ IsFiniteSet(set)
    BY <1>2, <1>3, <1>5, <2>1, LineSets
  <2>3. InOrder(set) \in Seq(Line)
    BY <2>2, Ordered
  <2>4. <<>> \o InOrder(set) = InOrder(set)
    BY <2>3
  <2>. QED BY <1>1, <1>3, <1>5, <2>1, <2>4 DEF BulkGoal
<1>8. \A c \in Cluster :
        /\ Len(k.queues[c]) <= Capacity[c]
        /\ \A i, j \in 1 .. Len(k.queues[c]) : k.queues[c][i] = k.queues[c][j] => i = j
        /\ Resident(k.queues[c]) \subseteq CopiedLines(k, c, Asked(k.items) \ k.left)
        /\ Resident(caches'[c]) \subseteq
             Resident(k.snapshot[c]) \cup ColdLines(k, c, Asked(k.items))
  <2> TAKE c \in Cluster
  <2>1. k.queues[c] = <<>> /\ Len(<<>>) = 0 /\ Resident(<<>>) = {} /\ Capacity[c] \in Nat
    BY <1>3, <1>5, SessionAssumption DEF Resident, Range
  <2>. QED BY <1>1, <1>3, <1>5, <2>1
<1>9. BulkRuns'
  <2>1. /\ Kept(k.items) /\ k.policy \in Policies
        /\ k.own = {} /\ k.copies = {} /\ k.left \in SUBSET Asked(k.items)
    BY <1>2, <1>3, <1>5
  <2>2. \A c \in Cluster :
          /\ ToCome(k, c, k.left, k.queues[c], caches'[c]) = BulkGoal(k, c)
          /\ Steady(k, c, k.left, k.queues[c], caches'[c])
    BY <1>7, <1>8 DEF ToCome, Steady
  <2>. QED BY <1>5, <1>6, <2>1, <2>2 DEF BulkRuns
<1>10. Capped'
  BY <1>1 DEF Capped
<1>. QED BY <1>1, <1>3, <1>4, <1>9, <1>10

LEMMA BulkFlushes ==
  ASSUME SessionInv, Capped, BulkRuns, call.kind = "bulk", BulkFlush
  PROVE  /\ Capped' /\ BulkRuns' /\ call'.kind = "bulk"
         /\ call' # NoCall /\ call'.snapshot = call.snapshot /\ UNCHANGED report
<1>1. /\ CachesAllowed /\ DOMAIN call = CallFields /\ call # NoCall
      /\ caches \in [Cluster -> Seq(Line)] /\ call.queues \in [Cluster -> Seq(Line)]
  BY DEF SessionInv, CallAllowed, CachesAllowed, BulkFlush
<1>2. PICK d \in Cluster :
        /\ call.left = {} /\ call.queues[d] # <<>>
        /\ FillLine(<<d>> \o Head(call.queues[d]))
        /\ call' = [call EXCEPT !.queues[d] = Tail(@)]
        /\ UNCHANGED report
  BY DEF BulkFlush
<1>3. /\ call'.queues = [call.queues EXCEPT ![d] = Tail(call.queues[d])]
      /\ call'.left = call.left /\ call'.own = call.own /\ call'.copies = call.copies
      /\ call'.answer = call.answer /\ call'.policy = call.policy
      /\ call'.items = call.items /\ call'.snapshot = call.snapshot
      /\ call'.kind = call.kind
  BY <1>1, <1>2 DEF CallFields
<1>4. PICK k, m, queue : k = call /\ m = call' /\ queue = call.queues[d]
  OBVIOUS
<1>5. /\ queue \in Seq(Line) /\ queue # <<>> /\ Head(queue) \in Line
      /\ Tail(queue) \in Seq(Line) /\ queue = <<Head(queue)>> \o Tail(queue)
  BY <1>1, <1>2, <1>4
<1>6. PICK line, rest : line = Head(queue) /\ rest = Tail(queue)
  OBVIOUS
<1>7. PICK w : w = <<d>> \o line
  OBVIOUS
<1>8. w[1] = d /\ <<w[2], w[3]>> = line
  BY <1>5, <1>6, <1>7, Prefixed
<1>9. caches' = [caches EXCEPT ![d] = Fill(Capacity[d], @, line)]
  BY <1>2, <1>4, <1>6, <1>7, <1>8 DEF FillLine
<1>10. Capped'
  <2> SUFFICES ASSUME NEW c \in Cluster PROVE Len(caches'[c]) <= Capacity[c]
    BY DEF Capped
  <2>1. Capacity[c] \in Nat \ {0} /\ caches[c] \in Seq(Line) /\ Len(caches[c]) <= Capacity[c]
    BY <1>1, SessionAssumption DEF Capped
  <2>2. Len(Fill(Capacity[c], caches[c], line)) <= Capacity[c]
    BY <1>5, <1>6, <2>1, FillFits
  <2>. QED BY <1>1, <1>9, <2>1, <2>2
<1>11. ASSUME NEW c \in Cluster
       PROVE  FillAll(Capacity[c], caches'[c],
                      InOrder(ColdLines(m, c, m.left))
                        \o (m.queues[c] \o InOrder(CopiedLines(m, c, m.left))))
                = BulkGoal(m, c)
  <2>0. m.items = k.items /\ m.policy = k.policy /\ m.snapshot = k.snapshot
    BY <1>3, <1>4
  <2>1. m.left = {} /\ k.left = {} /\ BulkGoal(m, c) = BulkGoal(k, c)
    <3>1. BulkGoal(m, c) = BulkGoal(k, c)
      BY <2>0, SamePositions
    <3>. QED BY <1>2, <1>3, <1>4, <3>1
  <2>2. /\ ColdLines(m, c, {}) = {} /\ CopiedLines(m, c, {}) = {}
        /\ ColdLines(k, c, {}) = {} /\ CopiedLines(k, c, {}) = {}
    BY DEF ColdLines, CopiedLines
  <2>3. \A s \in Seq(Line) : <<>> \o (s \o <<>>) = s
    OBVIOUS
  <2>4. k.queues[c] \in Seq(Line) /\ m.queues[c] \in Seq(Line)
    BY <1>1, <1>3, <1>4, <1>5
  <2>5. FillAll(Capacity[c], caches[c], k.queues[c]) = BulkGoal(k, c)
    <3>1. FillAll(Capacity[c], caches[c],
                  InOrder(ColdLines(k, c, k.left))
                    \o (k.queues[c] \o InOrder(CopiedLines(k, c, k.left))))
            = BulkGoal(k, c)
      <4>1. ToCome(k, c, k.left, k.queues[c], caches[c]) = BulkGoal(k, c)
        BY <1>1, <1>4 DEF BulkRuns
      <4>. QED BY <4>1 DEF ToCome
    <3>2. PICK s \in Seq(Line) : s = k.queues[c]
      BY <2>4
    <3>3. <<>> \o (s \o <<>>) = s
      BY <2>3
    <3>4. InOrder(ColdLines(k, c, k.left)) = <<>> /\ InOrder(CopiedLines(k, c, k.left)) = <<>>
      BY <2>1, <2>2, OrderedNone
    <3>. QED BY <3>1, <3>2, <3>3, <3>4
  <2>6. FillAll(Capacity[c], caches'[c], m.queues[c])
          = FillAll(Capacity[c], caches[c], k.queues[c])
    <3>1. CASE c = d
      <4>1. k.queues[c] = <<line>> \o rest /\ m.queues[c] = rest
        BY <1>1, <1>3, <1>4, <1>5, <1>6, <3>1
      <4>2. caches'[c] = Fill(Capacity[c], caches[c], line)
        BY <1>1, <1>9, <3>1
      <4>3. FillAll(Capacity[c], caches[c], <<line>> \o rest)
              = FillAll(Capacity[c], Fill(Capacity[c], caches[c], line), rest)
        <5>1. line \in Line /\ rest \in Seq(Line)
          BY <1>5, <1>6
        <5>2. PICK cap, q : cap = Capacity[c] /\ q = caches[c]
          OBVIOUS
        <5>3. FillAll(cap, q, <<line>> \o rest) = FillAll(cap, Fill(cap, q, line), rest)
          BY <5>1, FillFirst
        <5>. QED BY <5>2, <5>3
      <4>. QED BY <4>1, <4>2, <4>3
    <3>2. CASE c # d
      BY <1>1, <1>3, <1>4, <1>9, <3>2
    <3>. QED BY <3>1, <3>2
  <2>. QED BY <2>1, <2>2, <2>3, <2>4, <2>5, <2>6, OrderedNone
<1>12. AnswersAt(m, Asked(m.items) \ m.left)
  <2>1. AnswersAt(k, Asked(k.items) \ k.left)
    BY <1>1, <1>4 DEF BulkRuns
  <2>2. \A p : AskingAt(m, p) = AskingAt(k, p)
    BY <1>3, <1>4, SamePositions
  <2>3. \A p, r : PlaceAt(m, p, r) = PlaceAt(k, p, r)
    BY <1>3, <1>4, SamePositions
  <2>. QED BY <1>3, <1>4, <2>1, <2>2, <2>3 DEF AnswersAt
<1>13. call' # NoCall
  BY <1>3 DEF NoCall
<1>14. BulkRuns'
  <2>1. /\ Kept(m.items) /\ m.policy \in Policies /\ m.own = {} /\ m.copies = {}
        /\ m.left \in SUBSET Asked(m.items) /\ m.left = {}
    BY <1>1, <1>2, <1>3, <1>4 DEF BulkRuns
  <2>2. \A c \in Cluster : ToCome(m, c, m.left, m.queues[c], caches'[c]) = BulkGoal(m, c)
    BY <1>11 DEF ToCome
  <2>. QED BY <1>4, <1>12, <2>1, <2>2 DEF BulkRuns
<1>. QED BY <1>2, <1>3, <1>10, <1>13, <1>14

FillsAt(k, p) ==
  IF ColdAt(k, p) = {} THEN UNCHANGED caches ELSE FillLine(<<p[1], p[2], p[4]>>)

QueueAt(k, p, c, queue) ==
  IF TakesCopy(k, p, c) THEN Joined(Capacity[c], queue, LineAt(p)) ELSE queue

(* A step of the loop, in these words.                                     *)
LEMMA BulkVisits ==
  ASSUME SessionInv, BulkLine
  PROVE  \E p \in call.left :
           /\ First(p, call.left)
           /\ call'.left = call.left \ {p}
           /\ \A c \in Cluster :
                call'.queues[c] = QueueAt(call, p, c, call.queues[c])
           /\ \A x : x \in DOMAIN call'.answer <=>
                       \/ x \in DOMAIN call.answer
                       \/ \E r \in AskingAt(call, p) : x = KeyAt(p, r)
           /\ \A r \in AskingAt(call, p) : call'.answer[KeyAt(p, r)] = PlaceAt(call, p, r)
           /\ \A x \in DOMAIN call.answer :
                (\A r \in AskingAt(call, p) : x # KeyAt(p, r))
                  => call'.answer[x] = call.answer[x]
           /\ FillsAt(call, p)
           /\ call'.own = call.own /\ call'.copies = call.copies
           /\ call'.policy = call.policy /\ call'.items = call.items
           /\ call'.snapshot = call.snapshot /\ call'.kind = call.kind
           /\ call # NoCall /\ UNCHANGED report
<1>1. DOMAIN call = CallFields /\ call # NoCall /\ UNCHANGED report
  BY DEF SessionInv, CallAllowed, BulkLine
<1> DEFINE line(p) == <<p[2], p[4]>>
           asking(p) == {x.requester : x \in {y \in call.items :
                        /\ <<y.owner, y.copy, y.tensor>> = <<p[1], p[2], p[3]>>
                        /\ p[4] \in y.sectors}}
           copy(p) == {r \in asking(p) : call.policy = BothFill /\ r # p[1]
                                       /\ Seen(r, line(p))}
           cold(p) == IF Seen(p[1], line(p)) THEN {} ELSE asking(p) \ copy(p)
           Key(p, r) == [requester |-> r, owner |-> p[1], tensor |-> p[3],
                      line |-> line(p), interval |-> None]
           source(p) == [x \in {Key(p, r) : r \in asking(p)} |->
                        IF x.requester \in copy(p) THEN RequesterHit
                        ELSE IF x.requester \notin cold(p)
                        THEN IF x.requester = p[1] THEN RequesterHit ELSE OwnerHit
                        ELSE IF x.requester = Min(cold(p)) THEN DdrMiss
                        ELSE MshrMerge]
           queues(p) == [r \in Cluster |->
               IF call.policy = BothFill /\ r \in asking(p) \ (copy(p) \cup {p[1]})
               THEN Enqueued(r, call.queues[r], line(p)) ELSE call.queues[r]]
<1>2. PICK p \in call.left :
        /\ First(p, call.left)
        /\ call' = [call EXCEPT
             !.left = @ \ {p},
             !.answer = Answered(@, source(p)),
             !.queues = queues(p)]
        /\ IF cold(p) = {} THEN UNCHANGED caches
           ELSE FillLine(<<p[1], p[2], p[4]>>)
  BY DEF BulkLine
<1>3. asking(p) = AskingAt(call, p)
  BY DEF AskingAt
<1>4. copy(p) = CopyAt(call, p)
  BY <1>3 DEF CopyAt, SeenAt, Seen, LineAt
<1>5. cold(p) = ColdAt(call, p)
  BY <1>3, <1>4 DEF ColdAt, SeenAt, Seen, LineAt
<1>6. \A r : Key(p, r) = KeyAt(p, r)
  BY DEF KeyAt, LineAt
<1>7. \A c \in Cluster :
        queues(p)[c] = QueueAt(call, p, c, call.queues[c])
  <2> HIDE DEF asking, copy
  <2>. QED BY <1>3, <1>4 DEF QueueAt, TakesCopy, Joined, Enqueued, LineAt
<1>8. DOMAIN source(p) = {KeyAt(p, r) : r \in AskingAt(call, p)}
  <2> HIDE DEF asking, copy, cold, Key
  <2>. QED BY <1>3, <1>6
<1>9. ASSUME NEW r \in AskingAt(call, p)
      PROVE  source(p)[KeyAt(p, r)] = PlaceAt(call, p, r)
  <2>1. KeyAt(p, r).requester = r
    BY DEF KeyAt
  <2>2. KeyAt(p, r) \in {Key(p, u) : u \in asking(p)}
    <3> HIDE DEF asking, Key
    <3>. QED BY <1>3, <1>6
  <2> HIDE DEF asking, copy, cold, Key
  <2>. QED BY <1>4, <1>5, <2>1, <2>2 DEF PlaceAt
<1> HIDE DEF line, asking, copy, cold, Key, source, queues
<1>10. /\ call'.left = call.left \ {p} /\ call'.queues = queues(p)
       /\ call'.answer = Answered(call.answer, source(p))
       /\ call'.own = call.own /\ call'.copies = call.copies
       /\ call'.policy = call.policy /\ call'.items = call.items
       /\ call'.snapshot = call.snapshot /\ call'.kind = call.kind
  BY <1>1, <1>2 DEF CallFields
<1>11. \A x : x \in DOMAIN call'.answer <=>
                \/ x \in DOMAIN call.answer
                \/ \E r \in AskingAt(call, p) : x = KeyAt(p, r)
  BY <1>8, <1>10 DEF Answered
<1>12. \A r \in AskingAt(call, p) : call'.answer[KeyAt(p, r)] = PlaceAt(call, p, r)
  BY <1>8, <1>9, <1>10 DEF Answered
<1>13. \A x \in DOMAIN call.answer :
         (\A r \in AskingAt(call, p) : x # KeyAt(p, r))
           => call'.answer[x] = call.answer[x]
  BY <1>8, <1>10 DEF Answered
<1>14. FillsAt(call, p)
  BY <1>2, <1>5 DEF FillsAt
<1>15. \A c \in Cluster :
         call'.queues[c] = QueueAt(call, p, c, call.queues[c])
  BY <1>7, <1>10
<1>. QED BY <1>1, <1>2, <1>10, <1>11, <1>12, <1>13, <1>14, <1>15

(* What one position does to the fills still to come of one cluster.       *)
LEMMA BulkFills ==
  ASSUME CachesAllowed, Capped, NEW k, NEW left, NEW p, Visits(k, left, p),
         NEW c \in Cluster, NEW queue \in Seq(Line),
         Steady(k, c, left, queue, caches[c]),
         FillsAt(k, p), NEW longer, longer = QueueAt(k, p, c, queue),
         NEW rest, rest = left \ {p}
  PROVE  /\ Steady(k, c, rest, longer, caches'[c])
         /\ ToCome(k, c, rest, longer, caches'[c]) = ToCome(k, c, left, queue, caches[c])
<1>0. Kept(k.items) /\ left \in SUBSET Asked(k.items) /\ p \in left
  BY DEF Visits
<1>. /\ Len(queue) <= Capacity[c]
     /\ \A i, j \in 1 .. Len(queue) : queue[i] = queue[j] => i = j
     /\ Resident(queue) \subseteq CopiedLines(k, c, Asked(k.items) \ left)
     /\ Resident(caches[c]) \subseteq
          Resident(k.snapshot[c]) \cup ColdLines(k, c, Asked(k.items))
  BY DEF Steady
<1>1. /\ caches \in [Cluster -> Seq(Line)] /\ Capacity[c] \in Nat \ {0}
      /\ Len(caches[c]) <= Capacity[c]
  BY SessionAssumption DEF CachesAllowed, Capped
<1>2. /\ p \in Asked(k.items) /\ LineAt(p) \in Line /\ rest \in SUBSET Asked(k.items)
      /\ p[1] \in Cluster /\ p[2] \in Nat /\ p[4] \in Nat
  BY <1>0, AskedFields
<1>3. PICK line : line = LineAt(p)
  OBVIOUS
<1>4. PICK w : w = <<p[1], p[2], p[4]>>
  OBVIOUS
<1>5. w \in FillSet /\ w[1] = p[1] /\ <<w[2], w[3]>> = line
  BY <1>2, <1>3, <1>4 DEF FillSet, LineAt
<1>6. PICK cold, less, made, fewer :
        /\ cold = ColdLines(k, c, left) /\ less = ColdLines(k, c, rest)
        /\ made = CopiedLines(k, c, left) /\ fewer = CopiedLines(k, c, rest)
  OBVIOUS
<1>7. PICK allCold, allMade :
        allCold = ColdLines(k, c, Asked(k.items)) /\ allMade = CopiedLines(k, c, Asked(k.items))
  OBVIOUS
<1>8. /\ cold \in SUBSET Line /\ IsFiniteSet(cold) /\ less \in SUBSET Line /\ IsFiniteSet(less)
      /\ made \in SUBSET Line /\ IsFiniteSet(made) /\ fewer \in SUBSET Line /\ IsFiniteSet(fewer)
  BY <1>0, <1>2, <1>6, LineSets
<1>9. /\ InOrder(cold) \in Seq(Line) /\ InOrder(less) \in Seq(Line)
      /\ InOrder(made) \in Seq(Line) /\ InOrder(fewer) \in Seq(Line)
      /\ Range(InOrder(less)) = less
  BY <1>8, Ordered
<1>10. /\ p[1] = c /\ ColdAt(k, p) # {} => First(line, cold) /\ less = cold \ {line}
       /\ ~(p[1] = c /\ ColdAt(k, p) # {}) => less = cold
       /\ TakesCopy(k, p, c) => First(line, made) /\ fewer = made \ {line}
       /\ ~TakesCopy(k, p, c) => fewer = made
  <2>1. Passes(k, left, p, c)
    BY OneLine
  <2>. QED BY <1>3, <1>6, <2>1 DEF Passes
<1>11. less \subseteq allCold /\ cold \subseteq allCold /\ made \subseteq allMade
  BY <1>0, <1>2, <1>6, <1>7 DEF ColdLines, CopiedLines
<1>12. /\ allMade \cap (Resident(k.snapshot[c]) \cup allCold) = {}
  BY <1>0, <1>7, CopiesAreNew
<1>13. /\ caches'[c] \in Seq(Line) /\ Len(caches'[c]) <= Capacity[c]
       /\ Resident(caches'[c]) \subseteq Resident(k.snapshot[c]) \cup allCold
  <2>1. CASE ColdAt(k, p) = {} \/ p[1] # c
    <3>1. caches'[c] = caches[c]
      BY <1>1, <1>4, <1>5, <2>1 DEF FillLine, FillsAt
    <3>. QED BY <1>1, <1>7, <3>1
  <2>2. CASE ColdAt(k, p) # {} /\ p[1] = c
    <3>1. caches'[c] = Fill(Capacity[c], caches[c], line)
      BY <1>1, <1>4, <1>5, <2>2 DEF FillLine, FillsAt
    <3>2. PICK cap, q : cap = Capacity[c] /\ q = caches[c]
      OBVIOUS
    <3>3. cap \in Nat \ {0} /\ q \in Seq(Line) /\ Len(q) <= cap /\ line \in Line
      BY <1>1, <1>2, <1>3, <3>2
    <3>4. /\ Fill(cap, q, line) \in Seq(Line) /\ Len(Fill(cap, q, line)) <= cap
          /\ Resident(Fill(cap, q, line)) \subseteq Resident(q) \cup {line}
      BY <3>3, FillFits
    <3>5. line \in allCold
      BY <1>10, <1>11, <2>2 DEF First
    <3>. QED BY <1>7, <3>1, <3>2, <3>4, <3>5
  <2>. QED BY <2>1, <2>2
<1>14. ASSUME NEW more \in Seq(Line)
       PROVE  FillAll(Capacity[c], caches'[c], InOrder(less) \o more)
                = FillAll(Capacity[c], caches[c], InOrder(cold) \o more)
  <2>1. CASE ColdAt(k, p) = {}
    BY <1>10, <2>1 DEF FillsAt
  <2>2. CASE ColdAt(k, p) # {}
    <3>1. FillLine(w)
      BY <1>4, <2>2 DEF FillsAt
    <3>2. c = w[1] => First(<<w[2], w[3]>>, cold) /\ less = cold \ {<<w[2], w[3]>>}
      BY <1>5, <1>10, <2>2
    <3>3. c # w[1] => less = cold
      BY <1>5, <1>10
    <3>4. /\ CachesAllowed /\ w \in FillSet /\ FillLine(w)
          /\ cold \in SUBSET Line /\ IsFiniteSet(cold)
      BY <1>5, <1>8, <3>1
    <3>. QED BY <3>2, <3>3, <3>4, FillNext
  <2>. QED BY <2>1, <2>2
<1>15. CASE TakesCopy(k, p, c)
  <2>1. longer = Joined(Capacity[c], queue, line)
    BY <1>3, <1>15 DEF QueueAt
  <2>2. First(line, made) /\ fewer = made \ {line} /\ line \in made
    BY <1>10, <1>15 DEF First
  <2>3. InOrder(made) = <<line>> \o InOrder(fewer)
    BY <1>8, <2>2, OrderedFirst
  <2>4. line \notin Resident(queue)
    <3> SUFFICES ASSUME line \in Resident(queue) PROVE FALSE
      OBVIOUS
    <3>1. PICK q \in Asked(k.items) \ left : line = LineAt(q)
      BY DEF CopiedLines
    <3>. QED BY <1>0, <1>2, <1>3, <3>1, LineNames
  <2>5. Resident(queue) \cup {line} \subseteq allMade
    <3>1. CopiedLines(k, c, Asked(k.items) \ left) \subseteq allMade
      BY <1>7 DEF CopiedLines
    <3>. QED BY <1>11, <2>2, <3>1
  <2>6. PICK cap, q, fills, more :
          cap = Capacity[c] /\ q = caches'[c] /\ fills = InOrder(less) /\ more = InOrder(fewer)
    OBVIOUS
  <2>7. (Resident(queue) \cup {line}) \cap (Resident(q) \cup Range(fills)) = {}
    BY <1>9, <1>11, <1>12, <1>13, <2>5, <2>6
  <2>8. /\ cap \in Nat \ {0} /\ q \in Seq(Line) /\ Len(q) <= cap
        /\ fills \in Seq(Line) /\ more \in Seq(Line) /\ Len(queue) <= cap /\ line \in Line
        /\ longer = Joined(cap, queue, line)
    BY <1>1, <1>2, <1>3, <1>9, <1>13, <2>1, <2>6
  <2>9. /\ longer \in Seq(Line) /\ Len(longer) <= cap
        /\ Resident(longer) \subseteq Resident(queue) \cup {line}
        /\ \A i, j \in 1 .. Len(longer) : longer[i] = longer[j] => i = j
        /\ FillAll(cap, q, fills \o (longer \o more))
             = FillAll(cap, q, fills \o (queue \o (<<line>> \o more)))
    <3>1. \A i, j \in 1 .. Len(queue) : queue[i] = queue[j] => i = j
      OBVIOUS
    <3>2. NewTo(cap, q, fills, queue, line)
      BY <2>4, <2>7, <2>8, <3>1 DEF NewTo
    <3>. QED BY <2>8, <3>2, QueueStep
  <2>10. Resident(longer) \subseteq CopiedLines(k, c, Asked(k.items) \ rest)
    <3>1. line \in CopiedLines(k, c, Asked(k.items) \ rest)
      BY <1>0, <1>2, <1>3, <1>15 DEF CopiedLines
    <3>2. CopiedLines(k, c, Asked(k.items) \ left) \subseteq CopiedLines(k, c, Asked(k.items) \ rest)
      BY DEF CopiedLines
    <3>. QED BY <2>9, <3>1, <3>2
  <2>11. FillAll(Capacity[c], caches'[c], InOrder(less) \o (longer \o InOrder(fewer)))
           = FillAll(Capacity[c], caches'[c], InOrder(less) \o (queue \o InOrder(made)))
    BY <2>3, <2>6, <2>9
  <2>12. queue \o InOrder(made) \in Seq(Line)
    BY <1>9
  <2>13. FillAll(Capacity[c], caches'[c], InOrder(less) \o (queue \o InOrder(made)))
           = FillAll(Capacity[c], caches[c], InOrder(cold) \o (queue \o InOrder(made)))
    BY <1>14, <2>12
  <2>. QED BY <1>6, <1>7, <1>13, <2>6, <2>9, <2>10, <2>11, <2>13 DEF Steady, ToCome
<1>16. CASE ~TakesCopy(k, p, c)
  <2>1. longer = queue /\ fewer = made
    BY <1>10, <1>16 DEF QueueAt
  <2>2. queue \o InOrder(made) \in Seq(Line)
    BY <1>9
  <2>3. FillAll(Capacity[c], caches'[c], InOrder(less) \o (queue \o InOrder(made)))
          = FillAll(Capacity[c], caches[c], InOrder(cold) \o (queue \o InOrder(made)))
    BY <1>14, <2>2
  <2>4. CopiedLines(k, c, Asked(k.items) \ left) \subseteq CopiedLines(k, c, Asked(k.items) \ rest)
    BY DEF CopiedLines
  <2>. QED BY <1>6, <1>7, <1>13, <2>1, <2>3, <2>4 DEF Steady, ToCome
<1>. QED BY <1>15, <1>16

(* The answers of one more position.                                       *)
LEMMA BulkAnswers ==
  ASSUME NEW k, NEW m, Kept(k.items), NEW left \in SUBSET Asked(k.items), NEW p \in left,
         AnswersAt(k, Asked(k.items) \ left),
         m.items = k.items, m.policy = k.policy, m.snapshot = k.snapshot,
         \A x : x \in DOMAIN m.answer <=>
                  x \in DOMAIN k.answer \/ \E r \in AskingAt(k, p) : x = KeyAt(p, r),
         \A r \in AskingAt(k, p) : m.answer[KeyAt(p, r)] = PlaceAt(k, p, r),
         \A x \in DOMAIN k.answer :
           (\A r \in AskingAt(k, p) : x # KeyAt(p, r)) => m.answer[x] = k.answer[x],
         NEW rest, rest = left \ {p}
  PROVE  AnswersAt(m, Asked(m.items) \ rest)
<1>1. PICK old, new : old = Asked(k.items) \ left /\ new = Asked(m.items) \ rest
  OBVIOUS
<1>2. new = old \cup {p} /\ old \subseteq Asked(k.items) /\ p \notin old /\ p \in Asked(k.items)
  BY <1>1
<1>3. (\A q : AskingAt(m, q) = AskingAt(k, q)) /\ (\A q, r : PlaceAt(m, q, r) = PlaceAt(k, q, r))
  BY SamePositions
<1>4. /\ \A x : x \in DOMAIN k.answer <=>
                  \E q \in old : \E r \in AskingAt(k, q) : x = KeyAt(q, r)
      /\ \A q \in old : \A r \in AskingAt(k, q) : k.answer[KeyAt(q, r)] = PlaceAt(k, q, r)
  BY <1>1 DEF AnswersAt
<1>5. ASSUME NEW x
      PROVE  x \in DOMAIN m.answer <=>
               \E q \in new : \E r \in AskingAt(m, q) : x = KeyAt(q, r)
  BY <1>2, <1>3, <1>4
<1>6. ASSUME NEW q \in new, NEW r \in AskingAt(m, q)
      PROVE  m.answer[KeyAt(q, r)] = PlaceAt(m, q, r)
  <2>1. r \in AskingAt(k, q)
    BY <1>3
  <2>2. CASE q = p
    BY <1>3, <2>1, <2>2
  <2>3. CASE q # p
    <3>1. q \in old /\ q \in Asked(k.items)
      BY <1>2, <2>3
    <3>2. KeyAt(q, r) \in DOMAIN k.answer /\ k.answer[KeyAt(q, r)] = PlaceAt(k, q, r)
      BY <1>4, <2>1, <3>1
    <3>3. ASSUME NEW u \in AskingAt(k, p), KeyAt(q, r) = KeyAt(p, u) PROVE FALSE
      <4>1. LineAt(q) = LineAt(p)
        <5>1. KeyAt(q, r).line = LineAt(q) /\ KeyAt(p, u).line = LineAt(p)
          BY DEF KeyAt
        <5>. QED BY <3>3, <5>1
      <4>. QED BY <1>2, <2>3, <3>1, <4>1, LineNames
    <3>. QED BY <1>3, <3>2, <3>3
  <2>. QED BY <2>2, <2>3
<1>. QED BY <1>1, <1>5, <1>6 DEF AnswersAt

LEMMA BulkGoes ==
  ASSUME SessionInv, Capped, BulkRuns, call.kind = "bulk", BulkLine
  PROVE  /\ Capped' /\ BulkRuns' /\ call'.kind = "bulk"
         /\ call' # NoCall /\ call'.snapshot = call.snapshot /\ UNCHANGED report
<1>1. CachesAllowed /\ call.queues \in [Cluster -> Seq(Line)] /\ call # NoCall
  BY DEF SessionInv, CallAllowed, BulkLine
<1>2. PICK p \in call.left :
        /\ First(p, call.left)
        /\ call'.left = call.left \ {p}
        /\ \A c \in Cluster : call'.queues[c] = QueueAt(call, p, c, call.queues[c])
        /\ \A x : x \in DOMAIN call'.answer <=>
                    \/ x \in DOMAIN call.answer
                    \/ \E r \in AskingAt(call, p) : x = KeyAt(p, r)
        /\ \A r \in AskingAt(call, p) : call'.answer[KeyAt(p, r)] = PlaceAt(call, p, r)
        /\ \A x \in DOMAIN call.answer :
             (\A r \in AskingAt(call, p) : x # KeyAt(p, r))
               => call'.answer[x] = call.answer[x]
        /\ FillsAt(call, p)
        /\ call'.own = call.own /\ call'.copies = call.copies
        /\ call'.policy = call.policy /\ call'.items = call.items
        /\ call'.snapshot = call.snapshot /\ call'.kind = call.kind
        /\ call # NoCall /\ UNCHANGED report
  BY BulkVisits
<1>3. PICK k, m : k = call /\ m = call'
  OBVIOUS
<1>4. /\ Kept(k.items) /\ k.policy \in Policies /\ k.own = {} /\ k.copies = {}
      /\ k.left \in SUBSET Asked(k.items) /\ p \in k.left /\ k.left # {}
      /\ AnswersAt(k, Asked(k.items) \ k.left)
      /\ k.queues \in [Cluster -> Seq(Line)]
  BY <1>1, <1>2, <1>3 DEF BulkRuns
<1>5. \A c \in Cluster :
        /\ ToCome(k, c, k.left, k.queues[c], caches[c]) = BulkGoal(k, c)
        /\ Steady(k, c, k.left, k.queues[c], caches[c])
  BY <1>1, <1>3, <1>4 DEF BulkRuns
<1>6. m.items = k.items /\ m.policy = k.policy /\ m.snapshot = k.snapshot
      /\ m.left = k.left \ {p} /\ m.own = {} /\ m.copies = {} /\ m.kind = "bulk"
  BY <1>2, <1>3, <1>4
<1>7. /\ \A c, set : ColdLines(m, c, set) = ColdLines(k, c, set)
      /\ \A c, set : CopiedLines(m, c, set) = CopiedLines(k, c, set)
      /\ \A c : BulkGoal(m, c) = BulkGoal(k, c)
  BY <1>6, SamePositions
<1>8. Visits(k, k.left, p)
  BY <1>2, <1>3, <1>4 DEF Visits
<1>9. Capped'
  <2>1. CASE ColdAt(k, p) = {}
    BY <1>2, <1>3, <2>1 DEF FillsAt, Capped
  <2>2. CASE ColdAt(k, p) # {}
    <3>1. PICK w : w = <<p[1], p[2], p[4]>>
      OBVIOUS
    <3>2. FillLine(w)
      BY <1>2, <1>3, <2>2, <3>1 DEF FillsAt
    <3>3. p \in Asked(k.items)
      BY <1>4
    <3>4. w \in FillSet
      BY <1>4, <3>1, <3>3, AskedFields DEF FillSet
    <3>. QED BY <1>1, <3>2, <3>4, CapKept
  <2>. QED BY <2>1, <2>2
<1>10. ASSUME NEW c \in Cluster
       PROVE  /\ Steady(m, c, m.left, m.queues[c], caches'[c])
              /\ ToCome(m, c, m.left, m.queues[c], caches'[c]) = BulkGoal(m, c)
  <2>1. PICK left, rest, queue, longer :
          /\ left = k.left /\ rest = m.left
          /\ queue = k.queues[c] /\ longer = m.queues[c]
    OBVIOUS
  <2>2. /\ Visits(k, left, p) /\ queue \in Seq(Line)
        /\ Steady(k, c, left, queue, caches[c])
    BY <1>4, <1>5, <1>8, <2>1
  <2>3. FillsAt(k, p) /\ longer = QueueAt(k, p, c, queue) /\ rest = left \ {p}
    BY <1>2, <1>3, <1>6, <2>1
  <2>4. /\ Steady(k, c, rest, longer, caches'[c])
        /\ ToCome(k, c, rest, longer, caches'[c]) = ToCome(k, c, left, queue, caches[c])
    <3>1. CachesAllowed /\ Capped
      BY <1>1
    <3>2. Visits(k, left, p) /\ queue \in Seq(Line)
      BY <2>2
    <3>3. Steady(k, c, left, queue, caches[c])
      BY <2>2
    <3>4. FillsAt(k, p)
      BY <2>3
    <3>5. longer = QueueAt(k, p, c, queue)
      BY <2>3
    <3>6. rest = left \ {p}
      BY <2>3
    <3>. QED BY <3>1, <3>2, <3>3, <3>4, <3>5, <3>6, BulkFills
  <2>5. Steady(m, c, rest, longer, caches'[c])
    <3>1. /\ Len(longer) <= Capacity[c]
          /\ \A i, j \in 1 .. Len(longer) : longer[i] = longer[j] => i = j
          /\ Resident(longer) \subseteq CopiedLines(k, c, Asked(k.items) \ rest)
          /\ Resident(caches'[c]) \subseteq
               Resident(k.snapshot[c]) \cup ColdLines(k, c, Asked(k.items))
      BY <2>4 DEF Steady
    <3>2. CopiedLines(m, c, Asked(m.items) \ rest) = CopiedLines(k, c, Asked(k.items) \ rest)
      BY <1>6, <1>7
    <3>3. ColdLines(m, c, Asked(m.items)) = ColdLines(k, c, Asked(k.items))
      BY <1>6, <1>7
    <3>. QED BY <1>6, <3>1, <3>2, <3>3 DEF Steady
  <2>6. ToCome(m, c, rest, longer, caches'[c]) = ToCome(k, c, left, queue, caches[c])
    BY <1>7, <2>4 DEF ToCome
  <2>. QED BY <1>5, <1>7, <2>1, <2>5, <2>6
<1>11. AnswersAt(m, Asked(m.items) \ m.left)
  <2>1. PICK left, rest : left = k.left /\ rest = m.left
    OBVIOUS
  <2>2. /\ left \in SUBSET Asked(k.items) /\ p \in left /\ rest = left \ {p}
        /\ AnswersAt(k, Asked(k.items) \ left)
    BY <1>4, <1>6, <2>1
  <2>3. /\ \A x : x \in DOMAIN m.answer <=>
                    x \in DOMAIN k.answer \/ \E r \in AskingAt(k, p) : x = KeyAt(p, r)
        /\ \A r \in AskingAt(k, p) : m.answer[KeyAt(p, r)] = PlaceAt(k, p, r)
        /\ \A x \in DOMAIN k.answer :
             (\A r \in AskingAt(k, p) : x # KeyAt(p, r)) => m.answer[x] = k.answer[x]
    BY <1>2, <1>3
  <2>4. AnswersAt(m, Asked(m.items) \ rest)
    BY <1>4, <1>6, <2>2, <2>3, BulkAnswers
  <2>. QED BY <2>1, <2>4
<1>12. call' # NoCall
  BY <1>3, <1>6 DEF NoCall
<1>13. BulkRuns'
  <2>1. Kept(m.items) /\ m.policy \in Policies /\ m.left \in SUBSET Asked(m.items)
    BY <1>4, <1>6
  <2>. QED BY <1>3, <1>6, <1>10, <1>11, <2>1 DEF BulkRuns
<1>. QED BY <1>2, <1>3, <1>6, <1>9, <1>12, <1>13

------------------------------------------------------------------------------
(* What the answers of a whole bulk call mean.                             *)
LEMMA PlaceMeans ==
  ASSUME NEW k, NEW p, NEW r \in AskingAt(k, p)
  PROVE  /\ PlaceAt(k, p, r) \in {DdrMiss, MshrMerge} <=> r \in ColdAt(k, p)
         /\ PlaceAt(k, p, r) = DdrMiss <=> r \in ColdAt(k, p) /\ r = Min(ColdAt(k, p))
         /\ PlaceAt(k, p, r) = RequesterHit <=>
              /\ SeenAt(k, r, LineAt(p))
              /\ r # p[1] => k.policy = BothFill
         /\ PlaceAt(k, p, r) = OwnerHit <=>
              /\ r # p[1] /\ SeenAt(k, p[1], LineAt(p))
              /\ ~(SeenAt(k, r, LineAt(p)) /\ k.policy = BothFill)
<1>1. r \in ColdAt(k, p) <=> r \notin CopyAt(k, p) /\ ~SeenAt(k, p[1], LineAt(p))
  BY DEF ColdAt
<1>2. r \in CopyAt(k, p) <=> k.policy = BothFill /\ r # p[1] /\ SeenAt(k, r, LineAt(p))
  BY DEF CopyAt
<1>. QED BY <1>1, <1>2, PlacesDiffer DEF PlaceAt

LEMMA AnswersRight ==
  ASSUME NEW k, Kept(k.items), AnswersAt(k, Asked(k.items))
  PROVE  /\ \A c : Taken(c, k.answer) = ColdLines(k, c, Asked(k.items))
         /\ \A c : Copied(c, k.answer, k.policy) = CopiedLines(k, c, Asked(k.items))
         /\ ServedRight(k.snapshot, k.answer, k.policy)
         /\ OneMiss(k.answer)
<1>1. ASSUME NEW x \in DOMAIN k.answer
      PROVE  \E p \in Asked(k.items) : \E r \in AskingAt(k, p) :
               /\ x = KeyAt(p, r) /\ k.answer[x] = PlaceAt(k, p, r)
               /\ x.requester = r /\ x.owner = p[1] /\ x.line = LineAt(p)
  BY DEF AnswersAt, KeyAt
<1>2. ASSUME NEW p \in Asked(k.items), NEW r \in AskingAt(k, p)
      PROVE  /\ KeyAt(p, r) \in DOMAIN k.answer
             /\ k.answer[KeyAt(p, r)] = PlaceAt(k, p, r)
             /\ KeyAt(p, r).requester = r /\ KeyAt(p, r).owner = p[1]
             /\ KeyAt(p, r).line = LineAt(p)
  BY DEF AnswersAt, KeyAt
<1>3. \A p : ColdAt(k, p) \subseteq AskingAt(k, p)
  BY DEF ColdAt
<1>4. ASSUME NEW c PROVE Taken(c, k.answer) = ColdLines(k, c, Asked(k.items))
  <2>1. ASSUME NEW line \in Taken(c, k.answer) PROVE line \in ColdLines(k, c, Asked(k.items))
    <3>1. PICK x \in DOMAIN k.answer :
            line = x.line /\ x.owner = c /\ k.answer[x] \in {DdrMiss, MshrMerge}
      BY DEF Taken
    <3>2. PICK p \in Asked(k.items) : \E r \in AskingAt(k, p) :
            k.answer[x] = PlaceAt(k, p, r) /\ x.owner = p[1] /\ x.line = LineAt(p)
      BY <1>1
    <3>3. ColdAt(k, p) # {}
      BY <3>1, <3>2, PlaceMeans
    <3>. QED BY <3>1, <3>2, <3>3 DEF ColdLines
  <2>2. ASSUME NEW line \in ColdLines(k, c, Asked(k.items)) PROVE line \in Taken(c, k.answer)
    <3>1. PICK p \in Asked(k.items) : line = LineAt(p) /\ p[1] = c /\ ColdAt(k, p) # {}
      BY DEF ColdLines
    <3>2. PICK r : r \in ColdAt(k, p) /\ r \in AskingAt(k, p)
      BY <1>3, <3>1
    <3>3. PICK x : x = KeyAt(p, r)
      OBVIOUS
    <3>4. x \in DOMAIN k.answer /\ x.line = line /\ x.owner = c
          /\ k.answer[x] \in {DdrMiss, MshrMerge}
      BY <1>2, <3>1, <3>2, <3>3, PlaceMeans
    <3>. QED BY <3>4 DEF Taken
  <2>. QED BY <2>1, <2>2
<1>5. ASSUME NEW c
      PROVE  Copied(c, k.answer, k.policy) = CopiedLines(k, c, Asked(k.items))
  <2>0. ASSUME NEW p, NEW r \in AskingAt(k, p)
        PROVE  TakesCopy(k, p, r) <=>
                 k.policy = BothFill /\ r # p[1] /\ PlaceAt(k, p, r) # RequesterHit
    BY PlaceMeans DEF TakesCopy, CopyAt
  <2>1. ASSUME NEW line \in Copied(c, k.answer, k.policy)
        PROVE  line \in CopiedLines(k, c, Asked(k.items))
    <3>1. PICK x \in DOMAIN k.answer :
            /\ line = x.line /\ k.policy = BothFill
            /\ x.requester # x.owner /\ x.requester = c /\ k.answer[x] # RequesterHit
      BY DEF Copied
    <3>2. PICK p \in Asked(k.items) : \E r \in AskingAt(k, p) :
            /\ k.answer[x] = PlaceAt(k, p, r)
            /\ x.requester = r /\ x.owner = p[1] /\ x.line = LineAt(p)
      BY <1>1
    <3>3. TakesCopy(k, p, c)
      BY <2>0, <3>1, <3>2
    <3>. QED BY <3>1, <3>2, <3>3 DEF CopiedLines
  <2>2. ASSUME NEW line \in CopiedLines(k, c, Asked(k.items))
        PROVE  line \in Copied(c, k.answer, k.policy)
    <3>1. PICK p \in Asked(k.items) : line = LineAt(p) /\ TakesCopy(k, p, c)
      BY DEF CopiedLines
    <3>2. c \in AskingAt(k, p)
      BY <3>1 DEF TakesCopy
    <3>3. PICK x : x = KeyAt(p, c)
      OBVIOUS
    <3>4. /\ x \in DOMAIN k.answer /\ x.line = line /\ k.policy = BothFill
          /\ x.requester # x.owner /\ x.requester = c /\ k.answer[x] # RequesterHit
      BY <1>2, <2>0, <3>1, <3>2, <3>3
    <3>. QED BY <3>4 DEF Copied
  <2>. QED BY <2>1, <2>2
<1>6. ServedRight(k.snapshot, k.answer, k.policy)
  <2> SUFFICES ASSUME NEW x \in DOMAIN k.answer
               PROVE  LET cached(c) == x.line \in Resident(k.snapshot[c])
                          remote == x.requester # x.owner
                          copy == cached(x.requester) /\ (remote => k.policy = BothFill)
                      IN  /\ k.answer[x] = RequesterHit <=> copy
                          /\ k.answer[x] = OwnerHit <=> remote /\ cached(x.owner) /\ ~copy
    BY DEF ServedRight
  <2>1. PICK p, r : p \in Asked(k.items) /\ r \in AskingAt(k, p)
          /\ k.answer[x] = PlaceAt(k, p, r)
          /\ x.requester = r /\ x.owner = p[1] /\ x.line = LineAt(p)
    BY <1>1
  <2>. QED BY <2>1, PlaceMeans DEF SeenAt
<1>7. OneMiss(k.answer)
  <2> SUFFICES ASSUME NEW x \in DOMAIN k.answer, k.answer[x] \in {DdrMiss, MshrMerge}
               PROVE  Cardinality({y \in DOMAIN k.answer :
                                     y.line = x.line /\ k.answer[y] = DdrMiss}) = 1
    BY DEF OneMiss
  <2>1. PICK p, r : p \in Asked(k.items) /\ r \in AskingAt(k, p)
          /\ k.answer[x] = PlaceAt(k, p, r) /\ x.line = LineAt(p)
    BY <1>1
  <2>2. r \in ColdAt(k, p)
    BY <2>1, PlaceMeans
  <2>3. PICK least : least = Min(ColdAt(k, p)) /\ least \in ColdAt(k, p)
    <3>1. AskingAt(k, p) \subseteq Nat
      BY DEF AskingAt, Kept, Requests
    <3>. QED BY <1>3, <2>2, <3>1, NatMin
  <2>4. least \in AskingAt(k, p)
    BY <1>3, <2>3
  <2>5. PICK z : z = KeyAt(p, least)
    OBVIOUS
  <2>6. z \in DOMAIN k.answer /\ z.line = x.line /\ k.answer[z] = DdrMiss
    BY <1>2, <2>1, <2>3, <2>4, <2>5, PlaceMeans
  <2>7. ASSUME NEW y \in DOMAIN k.answer, y.line = x.line, k.answer[y] = DdrMiss
        PROVE  y = z
    <3>1. PICK q, u : q \in Asked(k.items) /\ u \in AskingAt(k, q)
            /\ y = KeyAt(q, u) /\ k.answer[y] = PlaceAt(k, q, u) /\ y.line = LineAt(q)
      BY <1>1
    <3>2. q = p
      BY <2>1, <2>7, <3>1, LineNames
    <3>3. u = least
      BY <2>3, <2>7, <3>1, <3>2, PlaceMeans
    <3>. QED BY <2>5, <3>1, <3>2, <3>3
  <2>8. {y \in DOMAIN k.answer : y.line = x.line /\ k.answer[y] = DdrMiss} = {z}
    BY <2>6, <2>7
  <2>. QED BY <2>8, FS_Singleton
<1>. QED BY <1>4, <1>5, <1>6, <1>7

LEMMA BulkEnds ==
  ASSUME SessionInv, BulkRuns, call.kind = "bulk", Return
  PROVE  Replay!EpochNext
<1>1. /\ CachesAllowed /\ caches \in [Cluster -> Seq(Line)]
      /\ call # NoCall /\ call.left = {} /\ \A c \in Cluster : call.queues[c] = <<>>
  BY DEF SessionInv, CachesAllowed, Return, Finished
<1>2. PICK k : k = call
  OBVIOUS
<1>3. /\ Kept(k.items) /\ AnswersAt(k, Asked(k.items) \ {}) /\ k.kind = "bulk"
      /\ \A c \in Cluster : ToCome(k, c, {}, <<>>, caches[c]) = BulkGoal(k, c)
  BY <1>1, <1>2 DEF BulkRuns
<1>4. Asked(k.items) \ {} = Asked(k.items)
  OBVIOUS
<1>5. /\ \A c : Taken(c, k.answer) = ColdLines(k, c, Asked(k.items))
      /\ \A c : Copied(c, k.answer, k.policy) = CopiedLines(k, c, Asked(k.items))
      /\ ServedRight(k.snapshot, k.answer, k.policy)
      /\ OneMiss(k.answer)
  BY <1>3, <1>4, AnswersRight
<1>6. ASSUME NEW c \in Cluster PROVE caches[c] = Goal(k, c)
  <2>1. ColdLines(k, c, {}) = {} /\ CopiedLines(k, c, {}) = {}
    BY DEF ColdLines, CopiedLines
  <2>2. <<>> \o (<<>> \o <<>>) = <<>>
    OBVIOUS
  <2>3. ToCome(k, c, {}, <<>>, caches[c]) = caches[c]
    BY <2>1, <2>2, OrderedNone, FillNone DEF ToCome
  <2>4. BulkGoal(k, c) = Goal(k, c)
    BY <1>3, <1>5 DEF BulkGoal, Goal
  <2>. QED BY <1>3, <2>3, <2>4
<1>. QED BY <1>1, <1>2, <1>3, <1>5, <1>6, CallEnded

------------------------------------------------------------------------------
(* What holds between the steps of a session, so that each return of a     *)
(* call is a step of EpochReplay and each other step is none.              *)
ReplayInv ==
  /\ Capped
  /\ call # NoCall => call.kind \in {"epoch", "write", "bulk"}
  /\ ListRuns
  /\ BulkRuns

LEMMA ReplayStep ==
  ASSUME \A items \in BulkEpochs : BulkAsDetailed(items),
         SessionInv, ReplayInv, SessionNext
  PROVE  ReplayInv' /\ (Replay!EpochNext \/ UNCHANGED <<Settled, report>>)
<1>1. ASSUME Capped', ListRuns' \/ BulkRuns', call' # NoCall,
             call'.kind \in {"epoch", "write", "bulk"},
             call'.kind = "bulk" => BulkRuns', call'.kind # "bulk" => ListRuns',
             call'.snapshot = Settled, UNCHANGED report
      PROVE  ReplayInv' /\ UNCHANGED <<Settled, report>>
  BY <1>1 DEF ReplayInv, Settled, ListRuns, BulkRuns
<1>2. call = NoCall => Settled = caches
  BY DEF Settled
<1>3. call # NoCall => Settled = call.snapshot
  BY DEF Settled
<1>4. ASSUME NEW items \in Epochs, NEW policy \in Policies, ReplayEpoch(items, policy)
      PROVE  ReplayInv' /\ UNCHANGED <<Settled, report>>
  <2>1. call = NoCall
    BY <1>4 DEF ReplayEpoch
  <2>. QED BY <1>1, <1>2, <1>4, <2>1, EpochBegins DEF ReplayInv
<1>5. ASSUME NEW items \in BulkEpochs, NEW policy \in Policies, ReplayBulk(items, policy)
      PROVE  ReplayInv' /\ UNCHANGED <<Settled, report>>
  <2>1. call = NoCall
    BY <1>5 DEF ReplayBulk
  <2>. QED BY <1>1, <1>2, <1>5, <2>1, BulkBegins DEF ReplayInv
<1>6. ASSUME NEW items \in Writes, ApplyOutputPressure(items)
      PROVE  ReplayInv' /\ UNCHANGED <<Settled, report>>
  <2>1. call = NoCall
    BY <1>6 DEF ApplyOutputPressure
  <2>2. Requests(items) /\ \A x \in items : x.offset = 0
    BY CallsAsk, SessionAssumption
  <2>3. SessionInv /\ Capped
    BY DEF ReplayInv
  <2>4. /\ Capped' /\ ListRuns' /\ call'.kind = "write"
        /\ call' # NoCall /\ call'.snapshot = caches /\ UNCHANGED <<caches, report>>
    BY <1>6, <2>2, <2>3, WriteBegins
  <2>. QED BY <1>1, <1>2, <2>1, <2>4
<1>7. CASE FillOwn \/ FillCopy
  <2>1. call # NoCall /\ call.kind \in {"epoch", "write", "bulk"}
    BY <1>7 DEF FillOwn, FillCopy, ReplayInv
  <2>2. call.kind # "bulk"
    BY <1>7, <2>1 DEF FillOwn, FillCopy, ReplayInv, BulkRuns
  <2>3. call.kind \in {"epoch", "write"}
    BY <2>1, <2>2
  <2>. QED BY <1>1, <1>3, <1>7, <2>1, <2>3, ListFills DEF ReplayInv
<1>8. CASE BulkLine
  <2>1. call # NoCall /\ call.kind \in {"epoch", "write", "bulk"}
    BY <1>8 DEF BulkLine, ReplayInv
  <2>2. call.kind = "bulk"
    BY <1>8, <2>1 DEF BulkLine, ReplayInv, ListRuns
  <2>. QED BY <1>1, <1>3, <1>8, <2>1, <2>2, BulkGoes DEF ReplayInv
<1>9. CASE BulkFlush
  <2>1. call # NoCall /\ call.kind \in {"epoch", "write", "bulk"}
    BY <1>9 DEF BulkFlush, ReplayInv
  <2>2. call.kind = "bulk"
    BY <1>9, <2>1 DEF BulkFlush, ReplayInv, ListRuns
  <2>. QED BY <1>1, <1>3, <1>9, <2>1, <2>2, BulkFlushes DEF ReplayInv
<1>10. CASE Return
  <2>1. call # NoCall /\ call.kind \in {"epoch", "write", "bulk"} /\ call' = NoCall
        /\ caches' = caches
    BY <1>10 DEF Return, Finished, ReplayInv
  <2>2. Replay!EpochNext
    BY <1>10, <2>1, ListEnds, BulkEnds DEF ReplayInv
  <2>. QED BY <2>1, <2>2 DEF ReplayInv, Capped, ListRuns, BulkRuns
<1>11. CASE Refuse
  <2>1. call = NoCall /\ call' = call /\ caches' = caches
        /\ report' = [call |-> "ValueError"]
    BY <1>11 DEF Refuse
  <2>2. Settled' = Settled
    BY <2>1 DEF Settled
  <2>3. Replay!EpochNext
    BY <2>1, <2>2 DEF Replay!EpochNext, Replay!Reject
  <2>. QED BY <2>1, <2>3 DEF ReplayInv, Capped, ListRuns, BulkRuns
<1>12. CASE Reset
  <2>1. call = NoCall /\ call' = call /\ caches' = [c \in Cluster |-> <<>>]
        /\ report' = [call |-> "reset"]
    BY <1>12 DEF Reset
  <2>2. Settled' = [c \in Cluster |-> <<>>]
    BY <2>1 DEF Settled
  <2>3. Replay!EpochNext
    BY <2>1, <2>2 DEF Replay!EpochNext, Replay!Reset
  <2>4. Capped'
    BY <2>1, SessionAssumption DEF Capped
  <2>. QED BY <2>1, <2>3, <2>4 DEF ReplayInv, ListRuns, BulkRuns
<1>. QED BY <1>4, <1>5, <1>6, <1>7, <1>8, <1>9, <1>10, <1>11, <1>12 DEF SessionNext

(* The session keeps the promise of its docstring, for any requests whose  *)
(* bulk sets give a copy one name and, under requester_and_home, a         *)
(* requester its copies in the order of their owners: each call that       *)
(* returns classified its lookups against the caches it began with, missed *)
(* once per cold line, and left the caches those fills lead to, and        *)
(* nothing else that a caller could see happens.  Without either           *)
(* condition it fails, as BulkTwoNames.cfg and BulkFillOrder.cfg show.     *)
THEOREM SessionImplementsReplay ==
  ASSUME \A items \in BulkEpochs : BulkAsDetailed(items)
  PROVE  SessionSpec => ImplementsEpochReplay
<1>1. SessionInit => Replay!EpochInit /\ ReplayInv
  <2> SUFFICES ASSUME SessionInit PROVE Replay!EpochInit /\ ReplayInv
    OBVIOUS
  <2>1. call = NoCall /\ caches = [c \in Cluster |-> <<>>] /\ report = [call |-> "reset"]
    BY DEF SessionInit
  <2>2. Capped
    BY <2>1, SessionAssumption DEF Capped
  <2>. QED BY <2>1, <2>2 DEF Replay!EpochInit, Settled, ReplayInv, ListRuns, BulkRuns
<1>2. SessionInv /\ ReplayInv /\ [SessionNext]_sessionVars =>
        ReplayInv' /\ [Replay!EpochNext]_(Replay!epochVars)
  <2> SUFFICES ASSUME SessionInv, ReplayInv, [SessionNext]_sessionVars
               PROVE  ReplayInv' /\ [Replay!EpochNext]_(Replay!epochVars)
    OBVIOUS
  <2>1. CASE SessionNext
    BY <2>1, ReplayStep DEF Replay!epochVars
  <2>2. CASE UNCHANGED sessionVars
    <3>1. UNCHANGED <<Settled, report>>
      BY <2>2 DEF sessionVars, Settled
    <3>2. ReplayInv'
      BY <2>2 DEF sessionVars, ReplayInv, Capped, ListRuns, BulkRuns
    <3>. QED BY <3>1, <3>2 DEF Replay!epochVars
  <2>. QED BY <2>1, <2>2
<1>. QED BY <1>1, <1>2, SessionInvariant, PTL DEF SessionSpec, ImplementsEpochReplay, Replay!EpochSpec
================================================================================
