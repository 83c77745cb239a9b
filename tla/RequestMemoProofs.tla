-------------------------- MODULE RequestMemoProofs --------------------------
(***************************************************************************)
(* First the cache, for every key set, capacity and mix of line and block  *)
(* calls: it keeps its accounting, residency is decided by FIFO age alone, *)
(* and the queue implements the reuse-window rule.  Then the memo over it: *)
(* the resident requests it remembers never lie and are never forgotten,   *)
(* for every capacity, every set of requests and every order of them.      *)
(***************************************************************************)
EXTENDS RequestMemo, TLAPS

QueueType(q, dict, lines, clock) ==
  /\ q \in Seq(Key)
  /\ DOMAIN dict \subseteq Key
  /\ dict \in [DOMAIN dict -> Block]
  /\ lines \in Nat
  /\ clock \in Nat

(* popleft: the oldest block leaves the deque and the dictionary, and the  *)
(* rest still tiles the clock.                                             *)
LEMMA PopTiles ==
  ASSUME NEW q, NEW dict, NEW lines, NEW clock,
         QueueType(q, dict, lines, clock),
         Tiles(q, dict, lines, clock),
         Len(q) > 0
  PROVE  LET v == Head(q)
             left == lines - dict[v].lines
         IN  /\ v \in DOMAIN dict
             /\ dict[v].start = clock - lines
             /\ \A k \in DOMAIN dict \ {v} : dict[k].start >= End(dict[v])
             /\ QueueType(Tail(q), Dropped(dict, v), left, clock)
             /\ Tiles(Tail(q), Dropped(dict, v), left, clock)
<1> DEFINE v == Head(q)
           t == Tail(q)
           d == Dropped(dict, v)
           left == lines - dict[v].lines
<1>1. /\ v = q[1] /\ v \in DOMAIN dict
      /\ Len(q) \in Nat \ {0}
      /\ t \in Seq(Key) /\ Len(t) = Len(q) - 1
      /\ \A i \in 1 .. Len(t) : t[i] = q[i+1]
  BY DEF QueueType, Tiles
<1>a. \A i \in 1 .. Len(q) : q[i] \in DOMAIN dict
  BY DEF Tiles
<1>b. \A i, j \in 1 .. Len(q) : i < j => End(dict[q[i]]) <= dict[q[j]].start
  BY DEF Tiles
<1>c. \A i \in 1 .. Len(q) :
        End(dict[q[i]]) = IF i = Len(q) THEN clock ELSE dict[q[i+1]].start
  BY DEF Tiles
<1>d. 1 \in 1 .. Len(q)
  BY <1>1
<1>2. /\ DOMAIN d = DOMAIN dict \ {v}
      /\ \A k \in DOMAIN d : d[k] = dict[k]
      /\ d \in [DOMAIN d -> Block]
  BY DEF QueueType, Dropped
<1> HIDE DEF v, t, d, left
<1>3. \A k \in DOMAIN dict : dict[k].start \in Nat /\ dict[k].lines \in Nat \ {0}
  BY DEF QueueType, Block
<1>4. dict[v].start = clock - lines
  BY <1>1, <1>3 DEF Tiles, QueueType
<1>5. \A k \in DOMAIN dict \ {v} : dict[k].start >= End(dict[v])
  <2> SUFFICES ASSUME NEW k \in DOMAIN dict \ {v}
               PROVE  dict[k].start >= End(dict[v])
    OBVIOUS
  <2>1. PICK i \in 1 .. Len(q) : q[i] = k
    BY DEF Tiles
  <2>2. i # 1 /\ 1 < i
    BY <2>1, <1>1
  <2>3. End(dict[q[1]]) <= dict[q[i]].start
    BY <2>2, <1>b, <1>d
  <2>. QED BY <2>1, <2>3, <1>1, <1>3 DEF End
<1>6. \A i \in 1 .. Len(t) : t[i] # v
  <2> SUFFICES ASSUME NEW i \in 1 .. Len(t), t[i] = v PROVE FALSE
    OBVIOUS
  <2>1. i + 1 \in 1 .. Len(q) /\ q[i+1] = q[1] /\ 1 < i + 1
    BY <1>1
  <2>2. End(dict[q[1]]) <= dict[q[i+1]].start
    BY <2>1, <1>b, <1>d
  <2>. QED BY <2>1, <2>2, <1>1, <1>3 DEF End
<1>7. left = IF Len(t) = 0 THEN 0 ELSE clock - d[t[1]].start
  <2>1. CASE Len(q) = 1
    <3>1. End(dict[q[1]]) = clock
      BY <2>1, <1>c, <1>d
    <3>. QED BY <3>1, <2>1, <1>1, <1>3, <1>4 DEF End, QueueType, left
  <2>2. CASE Len(q) # 1
    <3>1. t[1] = q[2] /\ 1 \in 1 .. Len(t) /\ 2 \in 1 .. Len(q)
      BY <2>2, <1>1
    <3>2. End(dict[q[1]]) = dict[q[2]].start
      BY <2>2, <3>1, <1>c, <1>d, 1 + 1 = 2
    <3>3. q[2] \in DOMAIN dict /\ q[2] # v
      BY <3>1, <1>a, <1>6
    <3>. QED BY <3>1, <3>2, <3>3, <2>2, <1>1, <1>2, <1>3, <1>4
             DEF End, QueueType, left
  <2>. QED BY <2>1, <2>2
<1>8. QueueType(t, d, left, clock)
  <2>1. left \in Nat
    <3>1. CASE Len(t) = 0  BY <3>1, <1>7
    <3>2. CASE Len(t) # 0
      <4>1. 1 \in 1 .. Len(t) /\ 2 \in 1 .. Len(q) /\ t[1] = q[2]
        BY <3>2, <1>1
      <4>2. q[2] \in DOMAIN dict /\ d[t[1]] = dict[q[2]]
        BY <4>1, <1>2, <1>6, <1>a
      <4>3. End(dict[q[2]]) <= clock
        <5>1. CASE Len(q) = 2  BY <5>1, <4>1, <4>2, <1>3, <1>c DEF End, QueueType
        <5>2. CASE Len(q) # 2
          <6>1. 2 < Len(q) /\ Len(q) \in 1 .. Len(q)
            BY <5>2, <4>1, <1>1
          <6>2. End(dict[q[2]]) <= dict[q[Len(q)]].start
            BY <6>1, <4>1, <1>b
          <6>3. End(dict[q[Len(q)]]) = clock /\ q[Len(q)] \in DOMAIN dict
            BY <6>1, <1>a, <1>c
          <6>. QED BY <6>2, <6>3, <4>2, <1>3, SMTT(60) DEF End, QueueType
        <5>. QED BY <5>1, <5>2
      <4>. QED BY <4>2, <4>3, <3>2, <1>3, <1>7 DEF End, QueueType
    <3>. QED BY <3>1, <3>2
  <2>. QED BY <2>1, <1>1, <1>2 DEF QueueType
<1>9. Tiles(t, d, left, clock)
  <2>1. \A i \in 1 .. Len(t) : /\ i + 1 \in 1 .. Len(q) /\ t[i] = q[i+1]
                               /\ t[i] \in DOMAIN d /\ d[t[i]] = dict[q[i+1]]
    BY <1>1, <1>2, <1>6 DEF Tiles
  <2>2. \A k \in DOMAIN d : \E i \in 1 .. Len(t) : t[i] = k
    <3> SUFFICES ASSUME NEW k \in DOMAIN d PROVE \E i \in 1 .. Len(t) : t[i] = k
      OBVIOUS
    <3>1. PICK i \in 1 .. Len(q) : q[i] = k
      BY <1>2 DEF Tiles
    <3>2. i - 1 \in 1 .. Len(t) /\ t[i-1] = k
      BY <3>1, <1>1, <1>2
    <3>. QED BY <3>2
  <2>3. \A i, j \in 1 .. Len(t) : i < j => End(d[t[i]]) <= d[t[j]].start
    <3> SUFFICES ASSUME NEW i \in 1 .. Len(t), NEW j \in 1 .. Len(t), i < j
                 PROVE  End(dict[q[i+1]]) <= dict[q[j+1]].start
      BY <2>1
    <3>1. i + 1 \in 1 .. Len(q) /\ j + 1 \in 1 .. Len(q) /\ i + 1 < j + 1
      BY <1>1
    <3>. QED BY <3>1 DEF Tiles
  <2>4. \A i \in 1 .. Len(t) :
          End(d[t[i]]) = IF i = Len(t) THEN clock ELSE d[t[i+1]].start
    <3> SUFFICES ASSUME NEW i \in 1 .. Len(t)
                 PROVE  End(dict[q[i+1]])
                          = IF i = Len(t) THEN clock ELSE d[t[i+1]].start
      BY <2>1
    <3>1. CASE i = Len(t)  BY <3>1, <2>1, <1>1 DEF Tiles
    <3>2. CASE i # Len(t)
      <4>1. i + 1 \in 1 .. Len(t) /\ i + 1 # Len(q) /\ i + 1 \in 1 .. Len(q)
        BY <3>2, <1>1
      <4>2. End(dict[q[i+1]]) = dict[q[i+1+1]].start
        BY <4>1, <1>c
      <4>. QED BY <4>1, <4>2, <3>2, <2>1
    <3>. QED BY <3>1, <3>2
  <2>. QED BY <2>1, <2>2, <2>3, <2>4, <1>7 DEF Tiles
<1>. QED BY <1>1, <1>4, <1>5, <1>8, <1>9 DEF v, t, d, left

(* Every resident block ends by the clock.                                 *)
LEMMA TilesEndByClock ==
  ASSUME NEW q, NEW dict, NEW lines, NEW clock,
         QueueType(q, dict, lines, clock),
         Tiles(q, dict, lines, clock)
  PROVE  \A i \in 1 .. Len(q) : End(dict[q[i]]) <= clock
<1> SUFFICES ASSUME NEW i \in 1 .. Len(q)
             PROVE  End(dict[q[i]]) <= clock
  OBVIOUS
<1>1. Len(q) \in Nat \ {0} /\ Len(q) \in 1 .. Len(q)
  BY DEF QueueType
<1>2. /\ q[i] \in DOMAIN dict /\ q[Len(q)] \in DOMAIN dict
      /\ End(dict[q[Len(q)]]) = clock
      /\ i < Len(q) => End(dict[q[i]]) <= dict[q[Len(q)]].start
  BY <1>1 DEF Tiles
<1>. QED BY <1>1, <1>2 DEF QueueType, Block, End

(* append: a new block of n lines at the clock extends the tiling.         *)
LEMMA PushTiles ==
  ASSUME NEW q, NEW dict, NEW lines, NEW clock,
         QueueType(q, dict, lines, clock),
         Tiles(q, dict, lines, clock),
         NEW k \in Key \ DOMAIN dict, NEW n \in Nat \ {0}
  PROVE  LET d == Stored(dict, k, [lines |-> n, start |-> clock])
         IN  /\ QueueType(Append(q, k), d, lines + n, clock + n)
             /\ Tiles(Append(q, k), d, lines + n, clock + n)
<1> DEFINE a == Append(q, k)
           block == [lines |-> n, start |-> clock]
           d == Stored(dict, k, block)
<1>1. /\ a \in Seq(Key) /\ Len(q) \in Nat /\ Len(a) = Len(q) + 1
      /\ \A i \in 1 .. Len(q) : i \in 1 .. Len(a) /\ a[i] = q[i]
      /\ a[Len(a)] = k /\ Len(a) \in 1 .. Len(a)
  BY DEF QueueType
<1>2. /\ DOMAIN d = DOMAIN dict \cup {k}
      /\ d[k] = block
      /\ \A j \in DOMAIN dict : d[j] = dict[j]
      /\ d \in [DOMAIN d -> Block]
  BY DEF Stored, QueueType, Block
<1>3. End(d[k]) = clock + n /\ d[k].start = clock
  BY <1>2 DEF End, QueueType
<1>4. \A i \in 1 .. Len(q) : /\ a[i] \in DOMAIN dict /\ d[a[i]] = dict[q[i]]
                             /\ End(dict[q[i]]) <= clock
  BY <1>1, <1>2, TilesEndByClock DEF Tiles
<1> HIDE DEF a, d, block
<1>5. QueueType(a, d, lines + n, clock + n)
  BY <1>1, <1>2 DEF QueueType
<1>6. \A i \in 1 .. Len(a) : i \in 1 .. Len(q) \/ (i = Len(a) /\ i = Len(q) + 1)
  BY <1>1
<1>7. \A i \in 1 .. Len(a) : a[i] \in DOMAIN d
  BY <1>1, <1>2, <1>4, <1>6
<1>8. \A j \in DOMAIN d : \E i \in 1 .. Len(a) : a[i] = j
  <2> SUFFICES ASSUME NEW j \in DOMAIN d
               PROVE  \E i \in 1 .. Len(a) : a[i] = j
    OBVIOUS
  <2>1. CASE j = k  BY <2>1, <1>1
  <2>2. CASE j # k
    <3>1. PICK i \in 1 .. Len(q) : q[i] = j
      BY <2>2, <1>2 DEF Tiles
    <3>. QED BY <3>1, <1>1
  <2>. QED BY <2>1, <2>2
<1>9. \A i, j \in 1 .. Len(a) : i < j => End(d[a[i]]) <= d[a[j]].start
  <2> SUFFICES ASSUME NEW i \in 1 .. Len(a), NEW j \in 1 .. Len(a), i < j
               PROVE  End(d[a[i]]) <= d[a[j]].start
    OBVIOUS
  <2>1. i \in 1 .. Len(q)
    BY <1>1
  <2>2. CASE j \in 1 .. Len(q)
    BY <2>1, <2>2, <1>4 DEF Tiles
  <2>3. CASE j = Len(a)
    BY <2>1, <2>3, <1>1, <1>3, <1>4
  <2>. QED BY <2>2, <2>3, <1>6
<1>10. \A i \in 1 .. Len(a) :
         End(d[a[i]]) = IF i = Len(a) THEN clock + n ELSE d[a[i+1]].start
  <2> SUFFICES ASSUME NEW i \in 1 .. Len(a)
               PROVE  End(d[a[i]])
                        = IF i = Len(a) THEN clock + n ELSE d[a[i+1]].start
    OBVIOUS
  <2>1. CASE i = Len(a)  BY <2>1, <1>1, <1>3
  <2>2. CASE i # Len(a)
    <3>1. i \in 1 .. Len(q)
      BY <2>2, <1>6
    <3>2. End(d[a[i]]) = IF i = Len(q) THEN clock ELSE dict[q[i+1]].start
      BY <3>1, <1>4 DEF Tiles
    <3>3. CASE i = Len(q)  BY <3>2, <3>3, <2>2, <1>1, <1>3
    <3>4. CASE i # Len(q)
      <4>1. i + 1 \in 1 .. Len(q)
        BY <3>1, <3>4, <1>1
      <4>. QED BY <4>1, <3>2, <3>4, <2>2, <1>4
    <3>. QED BY <3>3, <3>4
  <2>. QED BY <2>1, <2>2
<1>11. lines + n = IF Len(a) = 0 THEN 0 ELSE (clock + n) - d[a[1]].start
  <2>1. CASE Len(q) = 0
    <3>1. a[1] = k /\ lines = 0
      BY <2>1, <1>1 DEF Tiles
    <3>. QED BY <3>1, <1>1, <1>3 DEF QueueType
  <2>2. CASE Len(q) # 0
    <3>1. 1 \in 1 .. Len(q) /\ lines = clock - dict[q[1]].start
      BY <2>2, <1>1 DEF Tiles
    <3>2. q[1] \in DOMAIN dict /\ dict[q[1]].start \in Nat
      BY <3>1, <1>1, <1>4 DEF QueueType, Block
    <3>. QED BY <3>1, <3>2, <1>1, <1>4, SMTT(60) DEF QueueType
  <2>. QED BY <2>1, <2>2
<1>12. Tiles(a, d, lines + n, clock + n)
  BY <1>7, <1>8, <1>9, <1>10, <1>11 DEF Tiles
<1>. QED BY <1>5, <1>12 DEF a, d, block

(* clear: the empty queue tiles nothing.                                   *)
LEMMA EmptyTiles ==
  ASSUME NEW clock \in Nat
  PROVE  /\ QueueType(<<>>, [k \in {} |-> None], 0, clock)
         /\ Tiles(<<>>, [k \in {} |-> None], 0, clock)
BY DEF QueueType, Tiles, Block
------------------------------------------------------------------------------
(* The invariant in the vocabulary of the lemmas above.                    *)
LEMMA CacheTyped ==
  ASSUME FifoInv
  PROVE  /\ QueueType(queue, resident, residentLines, insertedLines)
         /\ Tiles(queue, resident, residentLines, insertedLines)
BY DEF FifoInv, TypeOK, QueueType, QueueTilesClock, Tags

(* In a tiling, the line count is the distance from the oldest start.      *)
LEMMA OldestFromTiles ==
  ASSUME NEW q, NEW dict, NEW lines, NEW clock,
         QueueType(q, dict, lines, clock),
         Tiles(q, dict, lines, clock)
  PROVE  lines = clock - (IF Len(q) = 0 THEN clock ELSE dict[q[1]].start)
<1>1. Len(q) # 0 => 1 \in 1 .. Len(q)
  BY DEF QueueType
<1>2. Len(q) # 0 => dict[q[1]].start \in Nat
  BY <1>1 DEF QueueType, Tiles, Block
<1>. QED BY <1>1, <1>2 DEF QueueType, Tiles

LEMMA InitInv == Init => FifoInv
<1> SUFFICES ASSUME Init PROVE FifoInv
  OBVIOUS
<1> USE FifoAssumption
<1>1. TypeOK
  BY DEF Init, TypeOK, Tags, Never, Window!Never
<1>2. QueueTilesClock
  BY EmptyTiles DEF Init, QueueTilesClock
<1>3. AgesSplit
  BY DEF Init, AgesSplit, Tags, Never, Window!Never
<1>4. CapacityRespected
  BY DEF Init, CapacityRespected, OldestResidentSequence
<1>. QED BY <1>1, <1>2, <1>3, <1>4 DEF FifoInv

(* A line miss: at most one victim, then the line.                         *)
LEMMA LineMissInv ==
  ASSUME FifoInv, NEW key \in Key, LineMiss(key)
  PROVE  FifoInv'
<1>. Capacity \in Nat \ {0}
  BY FifoAssumption
<1>1. /\ QueueType(queue, resident, residentLines, insertedLines)
      /\ Tiles(queue, resident, residentLines, insertedLines)
  BY CacheTyped
<1>2. /\ key \in Key \ DOMAIN resident
      /\ pending = None /\ pending' = None
      /\ insertedLines' = insertedLines + 1
      /\ born' = [born EXCEPT ![key] = insertedLines]
      /\ insertedLines \in Nat /\ residentLines \in Nat
      /\ born \in [Key -> Nat \cup {Never}] /\ Never = -1
      /\ residentLines <= Capacity
      /\ peakResidentLines \in Nat /\ peakResidentLines <= Capacity
  BY DEF LineMiss, FifoInv, TypeOK, CapacityRespected, Tags, Never, Window!Never
<1>3. /\ QueueType(queue', resident', residentLines', insertedLines')
      /\ Tiles(queue', resident', residentLines', insertedLines')
      /\ residentLines' \in 1 .. Capacity
      /\ DOMAIN resident' \subseteq DOMAIN resident \cup {key}
      /\ key \in DOMAIN resident' /\ resident'[key].start = insertedLines
      /\ \A k \in DOMAIN resident' \ {key} : resident'[k] = resident[k]
      /\ \A k \in DOMAIN resident \ DOMAIN resident' :
           insertedLines + 1 - resident[k].start > Capacity
  <2>1. CASE Full
    <3> DEFINE v == Head(queue)
               d == Dropped(resident, v)
               left == residentLines - resident[v].lines
    <3>1. Len(queue) > 0
      BY <2>1, <1>1, <1>2 DEF Full, Tiles, QueueType
    <3>2. /\ v \in DOMAIN resident
          /\ resident[v].start = insertedLines - residentLines
          /\ QueueType(Tail(queue), d, left, insertedLines)
          /\ Tiles(Tail(queue), d, left, insertedLines)
      BY <3>1, <1>1, PopTiles
    <3>3. /\ DOMAIN d = DOMAIN resident \ {v}
          /\ \A k \in DOMAIN d : d[k] = resident[k]
          /\ resident[v].lines \in Nat \ {0}
      BY <3>2, <1>1 DEF Dropped, QueueType, Block
    <3>4. /\ queue' = Append(Tail(queue), key)
          /\ resident' = Stored(d, key, [lines |-> 1, start |-> insertedLines])
          /\ residentLines' = left + 1
      BY <2>1 DEF LineMiss
    <3> HIDE DEF v, d, left
    <3>5. key \in Key \ DOMAIN d
      BY <1>2, <3>3
    <3>6. /\ QueueType(queue', resident', residentLines', insertedLines')
          /\ Tiles(queue', resident', residentLines', insertedLines')
      BY <3>2, <3>4, <3>5, <1>2, PushTiles, 1 \in Nat \ {0}
    <3>7. residentLines' \in 1 .. Capacity
      BY <3>2, <3>3, <3>4, <1>2, SMTT(60) DEF QueueType, left
    <3>8. /\ DOMAIN resident' = DOMAIN d \cup {key}
          /\ resident'[key] = [lines |-> 1, start |-> insertedLines]
          /\ \A k \in DOMAIN d : resident'[k] = d[k]
      BY <3>4, <3>5 DEF Stored
    <3>9. insertedLines + 1 - resident[v].start > Capacity
      BY <2>1, <3>2, <1>2 DEF Full
    <3>. QED BY <3>3, <3>6, <3>7, <3>8, <3>9
  <2>2. CASE ~Full
    <3>1. /\ queue' = Append(queue, key)
          /\ resident' = Stored(resident, key, [lines |-> 1, start |-> insertedLines])
          /\ residentLines' = residentLines + 1
      BY <2>2, <1>2 DEF LineMiss
    <3>2. /\ QueueType(queue', resident', residentLines', insertedLines')
          /\ Tiles(queue', resident', residentLines', insertedLines')
      BY <3>1, <1>1, <1>2, PushTiles, 1 \in Nat \ {0}
    <3>3. /\ DOMAIN resident' = DOMAIN resident \cup {key}
          /\ resident'[key] = [lines |-> 1, start |-> insertedLines]
          /\ \A k \in DOMAIN resident : resident'[k] = resident[k]
      BY <3>1, <1>2 DEF Stored
    <3>4. residentLines' \in 1 .. Capacity
      BY <2>2, <3>1, <1>2 DEF Full
    <3>. QED BY <3>2, <3>3, <3>4
  <2>. QED BY <2>1, <2>2
<1>4. /\ peakResidentLines' \in Nat
      /\ residentLines' <= peakResidentLines' /\ peakResidentLines' <= Capacity
  <2>1. peakResidentLines' = Larger(peakResidentLines, residentLines')
    BY DEF LineMiss
  <2>. QED BY <2>1, <1>2, <1>3 DEF Larger
<1>5. TypeOK'
  <2>1. /\ lastInsertion' = lastInsertion
        /\ lastLineSequence' = insertedLines
        /\ result' = Returned(FALSE, FALSE, None)
    BY DEF LineMiss
  <2>. QED BY <2>1, <1>2, <1>3, <1>4
           DEF TypeOK, FifoInv, QueueType, Tags, Result, Returned
<1>6. QueueTilesClock'
  BY <1>3 DEF QueueTilesClock
<1>7. AgesSplit'
  <2>1. /\ \A k \in DOMAIN resident : born[k] = resident[k].start
        /\ \A k \in Key \ DOMAIN resident :
             born[k] # Never => insertedLines - born[k] > Capacity
        /\ \A k \in Key : born[k] < insertedLines
    BY <1>2 DEF FifoInv, AgesSplit, Tags, Pressure
  <2>2. \A k \in DOMAIN resident' : born'[k] = resident'[k].start
    BY <2>1, <1>2, <1>3
  <2>3. \A k \in Key \ DOMAIN resident' :
          born'[k] # Never => insertedLines' - born'[k] > Capacity
    <3> SUFFICES ASSUME NEW k \in Key \ DOMAIN resident', born'[k] # Never
                 PROVE  insertedLines' - born'[k] > Capacity
      OBVIOUS
    <3>1. k # key /\ born'[k] = born[k] /\ born[k] \in Nat
      BY <1>2, <1>3
    <3>2. CASE k \in DOMAIN resident  BY <3>1, <3>2, <2>1, <1>2, <1>3
    <3>3. CASE k \notin DOMAIN resident  BY <3>1, <3>3, <2>1, <1>2
    <3>. QED BY <3>2, <3>3
  <2>4. \A k \in Key : born'[k] < insertedLines'
    BY <2>1, <1>2
  <2>5. \A k \in DOMAIN lastInsertion' : lastInsertion'[k] <= born'[k]
    BY <2>1, <1>2 DEF LineMiss, FifoInv, AgesSplit, TypeOK
  <2>. QED BY <2>2, <2>3, <2>4, <2>5, <1>2 DEF AgesSplit, Tags, Pressure
<1>8. CapacityRespected'
  <2>1. (residentLines = insertedLines - OldestResidentSequence)'
    BY <1>3, OldestFromTiles DEF OldestResidentSequence
  <2>. QED BY <2>1, <1>4 DEF CapacityRespected
<1>. QED BY <1>5, <1>6, <1>7, <1>8 DEF FifoInv

(* What every proof below reads off the invariant.                         *)
LEMMA FifoFacts ==
  ASSUME FifoInv
  PROVE  /\ insertedLines \in Nat /\ residentLines \in Nat
         /\ residentLines <= peakResidentLines
         /\ peakResidentLines \in Nat /\ peakResidentLines <= Capacity
         /\ Capacity \in Nat \ {0} /\ None \notin Key
         /\ DOMAIN resident \subseteq Key
         /\ born \in [Key -> Nat \cup {Never}] /\ Never = -1
         /\ \A k \in Key : born[k] \in Int
         /\ \A k \in DOMAIN resident : /\ born[k] = resident[k].start
                                      /\ resident[k].start \in Nat
         /\ \A k \in Key \ DOMAIN resident :
              born[k] # Never => insertedLines + Pressure - born[k] > Capacity
         /\ \A k \in Key : born[k] < insertedLines
         /\ DOMAIN lastInsertion \subseteq Key
         /\ lastInsertion \in [DOMAIN lastInsertion -> Nat]
         /\ \A k \in DOMAIN lastInsertion : lastInsertion[k] <= born[k]
         /\ pending # None => /\ pending.key \in Key \ DOMAIN resident
                              /\ ~Window!InWindow(pending.key)
                              /\ pending.lines \in 1 .. Capacity
<1>1. born \in [Key -> Nat \cup {-1}]
  BY DEF FifoInv, TypeOK, Never, Window!Never
<1>2. \A k \in Key : born[k] \in Int
  BY <1>1
<1>. QED
  BY <1>1, <1>2, FifoAssumption
     DEF FifoInv, TypeOK, CapacityRespected, AgesSplit, Tags, Never,
         Window!Never, Block

(* A resident block's age never exceeds the resident line count.           *)
LEMMA ResidentYoung ==
  ASSUME FifoInv, NEW k \in DOMAIN resident
  PROVE  insertedLines - resident[k].start \in 1 .. residentLines
<1>1. /\ QueueType(queue, resident, residentLines, insertedLines)
      /\ Tiles(queue, resident, residentLines, insertedLines)
  BY CacheTyped
<1>2. PICK i \in 1 .. Len(queue) : queue[i] = k
  BY <1>1 DEF Tiles
<1>3. Len(queue) > 0
  BY <1>1, <1>2 DEF QueueType
<1>4. /\ Head(queue) \in DOMAIN resident
      /\ resident[Head(queue)].start = insertedLines - residentLines
      /\ k # Head(queue) => resident[k].start >= End(resident[Head(queue)])
  BY <1>1, <1>3, PopTiles
<1>5. /\ resident[k].start \in Nat /\ resident[Head(queue)].lines \in Nat
      /\ resident[k].start < insertedLines
  BY <1>4, <1>1, FifoFacts DEF QueueType, Block
<1>. QED BY <1>4, <1>5, FifoFacts, SMTT(60) DEF End

LEMMA MissResultTyped ==
  ASSUME FifoInv, NEW key \in Key
  PROVE  MissResult(key) \in Result
<1>1. key \in DOMAIN lastInsertion => insertedLines - lastInsertion[key] \in Nat
  <2> SUFFICES ASSUME key \in DOMAIN lastInsertion
               PROVE  insertedLines - lastInsertion[key] \in Nat
    OBVIOUS
  <2>1. /\ lastInsertion[key] \in Nat /\ lastInsertion[key] <= born[key]
        /\ born[key] < insertedLines /\ born[key] \in Int
        /\ insertedLines \in Nat
    BY FifoFacts
  <2>. QED BY <2>1
<1>. QED BY <1>1 DEF MissResult, Returned, Result

(* An oversized block: everything leaves and nothing enters.               *)
LEMMA BlockStreamInv ==
  ASSUME FifoInv, NEW key \in Key, NEW lines \in Footprint,
         BlockStream(key, lines)
  PROVE  FifoInv'
<1>1. /\ lines \in Nat /\ lines > Capacity
      /\ queue' = <<>> /\ resident' = [k \in {} |-> None] /\ residentLines' = 0
      /\ insertedLines' = insertedLines + lines
      /\ born' = [born EXCEPT ![key] = insertedLines]
      /\ pending = None /\ pending' = None
      /\ peakResidentLines' = peakResidentLines
      /\ lastInsertion' = Stored(lastInsertion, key, insertedLines)
      /\ lastLineSequence' = lastLineSequence
      /\ result' = MissResult(key)
  BY FifoAssumption DEF BlockStream, Footprint, Oversized
<1>2. /\ QueueType(queue', resident', residentLines', insertedLines')
      /\ Tiles(queue', resident', residentLines', insertedLines')
  BY <1>1, FifoFacts, EmptyTiles
<1>3. /\ DOMAIN lastInsertion' \subseteq Key
      /\ lastInsertion' \in [DOMAIN lastInsertion' -> Nat]
      /\ \A k \in DOMAIN lastInsertion' : lastInsertion'[k] <= born'[k]
  BY <1>1, FifoFacts DEF Stored
<1>4. TypeOK'
  BY <1>1, <1>2, <1>3, FifoFacts, MissResultTyped
     DEF TypeOK, FifoInv, QueueType, Tags
<1>5. QueueTilesClock'
  BY <1>2 DEF QueueTilesClock
<1>6. AgesSplit'
  <2>1. \A k \in Key : /\ born'[k] # Never => insertedLines' - born'[k] > Capacity
                       /\ born'[k] < insertedLines'
    <3> SUFFICES ASSUME NEW k \in Key
                 PROVE  /\ born'[k] # Never => insertedLines' - born'[k] > Capacity
                        /\ born'[k] < insertedLines'
      OBVIOUS
    <3>1. /\ born'[k] = IF k = key THEN insertedLines ELSE born[k]
          /\ born[k] \in Int /\ born[k] < insertedLines
          /\ insertedLines \in Nat /\ Capacity \in Nat
      BY <1>1, FifoFacts
    <3>. QED BY <3>1, <1>1
  <2>. QED BY <2>1, <1>1, <1>3, FifoFacts DEF AgesSplit, Tags, Pressure
<1>7. CapacityRespected'
  BY <1>1, <1>2, FifoFacts DEF CapacityRespected, OldestResidentSequence
<1>. QED BY <1>4, <1>5, <1>6, <1>7 DEF FifoInv

(* A block that fits enters the eviction loop: nothing moves yet.          *)
LEMMA BlockMissInv ==
  ASSUME FifoInv, NEW key \in Key, NEW lines \in Footprint,
         BlockMiss(key, lines)
  PROVE  FifoInv'
<1>1. /\ UNCHANGED <<cacheVars, born>>
      /\ pending = None /\ pending' = [key |-> key, lines |-> lines]
      /\ key \notin DOMAIN resident
      /\ lines \in 1 .. Capacity
      /\ result' = MissResult(key)
  BY FifoAssumption DEF BlockMiss, Footprint, Oversized, Tags
<1>2. TypeOK'
  BY <1>1, MissResultTyped DEF TypeOK, FifoInv, cacheVars, Tags
<1>3. AgesSplit'
  <2>1. Pressure = 0 /\ Pressure' \in Nat
    BY <1>1 DEF Pressure
  <2>2. ~Window!InWindow(key)'
    BY <1>1, <2>1, FifoFacts DEF Window!InWindow, Never, cacheVars
  <2>. QED BY <1>1, <2>1, <2>2, FifoFacts
           DEF AgesSplit, cacheVars, Tags, Window!InWindow
<1>. QED BY <1>1, <1>2, <1>3
         DEF FifoInv, QueueTilesClock, CapacityRespected,
             OldestResidentSequence, cacheVars

(* One turn of the eviction loop.                                          *)
LEMMA EvictOldestInv ==
  ASSUME FifoInv, EvictOldest
  PROVE  FifoInv'
<1> DEFINE v == Head(queue)
<1>1. /\ QueueType(queue, resident, residentLines, insertedLines)
      /\ Tiles(queue, resident, residentLines, insertedLines)
  BY CacheTyped
<1>2. /\ pending # None
      /\ residentLines + pending.lines > Capacity
      /\ Len(queue) > 0
      /\ queue' = Tail(queue)
      /\ resident' = Dropped(resident, v)
      /\ residentLines' = residentLines - resident[v].lines
      /\ UNCHANGED <<lastInsertion, insertedLines, peakResidentLines,
                     lastLineSequence, pending, result, born>>
  BY FifoFacts DEF EvictOldest, Fits
<1>3. /\ v \in DOMAIN resident
      /\ resident[v].start = insertedLines - residentLines
      /\ QueueType(queue', resident', residentLines', insertedLines')
      /\ Tiles(queue', resident', residentLines', insertedLines')
  BY <1>1, <1>2, PopTiles
<1>4. /\ DOMAIN resident' = DOMAIN resident \ {v}
      /\ \A k \in DOMAIN resident' : resident'[k] = resident[k]
      /\ resident[v].lines \in Nat
  BY <1>1, <1>2, <1>3 DEF Dropped, QueueType, Block
<1> HIDE DEF v
<1>5. TypeOK'
  BY <1>2, <1>3 DEF TypeOK, FifoInv, QueueType, Tags
<1>6. AgesSplit'
  <2>1. insertedLines + Pressure - born[v] > Capacity
    BY <1>2, <1>3, FifoFacts DEF Pressure
  <2>. QED BY <2>1, <1>2, <1>3, <1>4, FifoFacts
           DEF AgesSplit, Tags, Pressure, Window!InWindow
<1>7. CapacityRespected'
  <2>1. (residentLines = insertedLines - OldestResidentSequence)'
    BY <1>3, OldestFromTiles DEF OldestResidentSequence
  <2>. QED BY <2>1, <1>2, <1>4, FifoFacts DEF CapacityRespected
<1>. QED BY <1>3, <1>5, <1>6, <1>7 DEF FifoInv, QueueTilesClock

(* The block enters: every block still resident is young enough for it.    *)
LEMMA InsertBlockInv ==
  ASSUME FifoInv, InsertBlock
  PROVE  FifoInv'
<1> DEFINE key == pending.key
           lines == pending.lines
<1>1. /\ QueueType(queue, resident, residentLines, insertedLines)
      /\ Tiles(queue, resident, residentLines, insertedLines)
  BY CacheTyped
<1>2. /\ pending # None /\ pending' = None
      /\ residentLines + lines <= Capacity
      /\ queue' = Append(queue, key)
      /\ resident' = Stored(resident, key,
                             [lines |-> lines, start |-> insertedLines])
      /\ lastInsertion' = Stored(lastInsertion, key, insertedLines)
      /\ residentLines' = residentLines + lines
      /\ insertedLines' = insertedLines + lines
      /\ peakResidentLines' = Larger(peakResidentLines, residentLines + lines)
      /\ born' = [born EXCEPT ![key] = insertedLines]
      /\ UNCHANGED <<lastLineSequence, result>>
  BY DEF InsertBlock, Fits
<1>3. key \in Key \ DOMAIN resident /\ lines \in Nat \ {0}
  BY <1>2, FifoFacts
<1> HIDE DEF key, lines
<1>4. /\ QueueType(queue', resident', residentLines', insertedLines')
      /\ Tiles(queue', resident', residentLines', insertedLines')
  BY <1>1, <1>2, <1>3, PushTiles
<1>5. /\ DOMAIN resident' = DOMAIN resident \cup {key}
      /\ resident'[key].start = insertedLines
      /\ \A k \in DOMAIN resident : resident'[k] = resident[k]
  BY <1>2, <1>3 DEF Stored
<1>6. /\ DOMAIN lastInsertion' \subseteq Key
      /\ lastInsertion' \in [DOMAIN lastInsertion' -> Nat]
      /\ \A k \in DOMAIN lastInsertion' : lastInsertion'[k] <= born'[k]
  BY <1>2, <1>3, FifoFacts DEF Stored
<1>7. /\ peakResidentLines' \in Nat
      /\ residentLines' <= peakResidentLines' /\ peakResidentLines' <= Capacity
  BY <1>2, <1>3, FifoFacts DEF Larger
<1>8. TypeOK'
  BY <1>2, <1>3, <1>4, <1>6, <1>7, FifoFacts
     DEF TypeOK, FifoInv, QueueType, Tags
<1>9. AgesSplit'
  <2>1. Pressure = lines /\ Pressure' = 0
    BY <1>2 DEF Pressure, lines
  <2>2. \A k \in DOMAIN resident' : born'[k] = resident'[k].start
    BY <1>2, <1>3, <1>5, FifoFacts
  <2>3. \A k \in Key \ DOMAIN resident' :
          born'[k] # Never => insertedLines' + 0 - born'[k] > Capacity
    BY <2>1, <1>2, <1>3, <1>5, FifoFacts
  <2>4. \A k \in Key : born'[k] < insertedLines'
    <3> SUFFICES ASSUME NEW k \in Key PROVE born'[k] < insertedLines'
      OBVIOUS
    <3>1. /\ born'[k] = IF k = key THEN insertedLines ELSE born[k]
          /\ born[k] \in Int /\ born[k] < insertedLines /\ insertedLines \in Nat
      BY <1>2, FifoFacts
    <3>. QED BY <3>1, <1>2, <1>3
  <2>. QED BY <2>1, <2>2, <2>3, <2>4, <1>2, <1>6 DEF AgesSplit, Tags
<1>10. CapacityRespected'
  <2>1. (residentLines = insertedLines - OldestResidentSequence)'
    BY <1>4, OldestFromTiles DEF OldestResidentSequence
  <2>. QED BY <2>1, <1>7 DEF CapacityRespected
<1>. QED BY <1>4, <1>8, <1>9, <1>10 DEF FifoInv, QueueTilesClock

(* The steps that only report: hits, and a key whose footprint changed.    *)
LEMMA LineHitInv ==
  ASSUME FifoInv, NEW key \in Key, LineHit(key)
  PROVE  FifoInv'
<1>1. lastLineSequence' \in Nat
  BY FifoFacts DEF LineHit, Tags
<1>2. result' \in Result
  BY DEF LineHit, Returned, Result
<1>. QED BY <1>1, <1>2
         DEF LineHit, FifoInv, TypeOK, QueueTilesClock, AgesSplit, Pressure,
             CapacityRespected, OldestResidentSequence, Tags

LEMMA BlockHitInv ==
  ASSUME FifoInv, NEW key \in Key, NEW lines \in Footprint,
         BlockHit(key, lines)
  PROVE  FifoInv'
<1>1. insertedLines - resident[key].start \in 1 .. residentLines
  BY ResidentYoung DEF BlockHit, Tags
<1>2. result' \in Result
  BY <1>1, FifoFacts DEF BlockHit, Returned, Raised, Result
<1>. QED BY <1>2
         DEF BlockHit, FifoInv, TypeOK, QueueTilesClock, AgesSplit, Pressure,
             CapacityRespected, OldestResidentSequence, Tags, cacheVars

LEMMA StepInv == FifoInv /\ [Next]_vars => FifoInv'
<1> SUFFICES ASSUME FifoInv, [Next]_vars PROVE FifoInv'
  OBVIOUS
<1>1. ASSUME NEW key \in Key, LineHit(key) PROVE FifoInv'
  BY <1>1, LineHitInv
<1>2. ASSUME NEW key \in Key, LineMiss(key) PROVE FifoInv'
  BY <1>2, LineMissInv
<1>3. ASSUME NEW key \in Key, NEW lines \in Footprint, BlockHit(key, lines)
      PROVE  FifoInv'
  BY <1>3, BlockHitInv
<1>4. ASSUME NEW key \in Key, NEW lines \in Footprint, BlockStream(key, lines)
      PROVE  FifoInv'
  BY <1>4, BlockStreamInv
<1>5. ASSUME NEW key \in Key, NEW lines \in Footprint, BlockMiss(key, lines)
      PROVE  FifoInv'
  BY <1>5, BlockMissInv
<1>6. CASE EvictOldest
  BY <1>6, EvictOldestInv
<1>7. CASE InsertBlock
  BY <1>7, InsertBlockInv
<1>8. CASE UNCHANGED vars
  BY <1>8 DEF vars, cacheVars, FifoInv, TypeOK, QueueTilesClock, AgesSplit,
              Pressure, CapacityRespected, OldestResidentSequence, Tags,
              Window!InWindow
<1>. QED BY <1>1, <1>2, <1>3, <1>4, <1>5, <1>6, <1>7, <1>8 DEF Next

(* The cache's accounting holds for every capacity and every mix of calls. *)
THEOREM FifoCacheInvariant == Spec => []FifoInv
BY InitInv, StepInv, PTL DEF Spec

(* Between calls, FIFO age alone decides residency.                        *)
THEOREM ResidencyByAge == Spec => []AgeDecidesResidency
<1>1. FifoInv => AgeDecidesResidency
  <2> SUFFICES ASSUME FifoInv, pending = None, NEW k \in Key
               PROVE  k \in Tags <=> Window!InWindow(k)
    BY DEF AgeDecidesResidency
  <2>1. CASE k \in Tags
    <3>1. insertedLines - resident[k].start \in 1 .. residentLines
      BY <2>1, ResidentYoung DEF Tags
    <3>2. born[k] = resident[k].start /\ born[k] \in Nat
      BY <2>1, FifoFacts DEF Tags
    <3>. QED BY <2>1, <3>1, <3>2, FifoFacts DEF Window!InWindow, Never
  <2>2. CASE k \notin Tags
    <3>1. Pressure = 0
      BY DEF Pressure
    <3>. QED BY <2>2, <3>1, FifoFacts DEF Tags, Window!InWindow, Never
  <2>. QED BY <2>1, <2>2
<1>. QED BY <1>1, FifoCacheInvariant, PTL

(* Neither the running total nor its peak ever exceeds the capacity.       *)
THEOREM CapacityNeverExceeded == Spec => []CapacityRespected
<1>1. FifoInv => CapacityRespected
  BY DEF FifoInv
<1>. QED BY <1>1, FifoCacheInvariant, PTL

(* The AssertionError of access is unreachable and a reported hit distance *)
(* lies between one line and the capacity.                                 *)
THEOREM NoAgeAssertion == Spec => []HitDistanceWithinCapacity
<1>1. Init => HitDistanceWithinCapacity
  BY DEF Init, HitDistanceWithinCapacity
<1>2. FifoInv /\ HitDistanceWithinCapacity /\ [Next]_vars
        => HitDistanceWithinCapacity'
  <2> SUFFICES ASSUME FifoInv, HitDistanceWithinCapacity, [Next]_vars
               PROVE  HitDistanceWithinCapacity'
    OBVIOUS
  <2>1. ASSUME NEW key \in Key, NEW lines \in Footprint, BlockHit(key, lines)
        PROVE  HitDistanceWithinCapacity'
    <3>1. insertedLines - resident[key].start \in 1 .. residentLines
      BY <2>1, ResidentYoung DEF BlockHit, Tags
    <3>. QED BY <2>1, <3>1, FifoFacts, FifoAssumption
             DEF BlockHit, HitDistanceWithinCapacity, Returned, Raised
  <2>2. ASSUME NEW key \in Key, LineHit(key) \/ LineMiss(key)
        PROVE  HitDistanceWithinCapacity'
    <3>1. result'.distance = None /\ result'.raised = None
      BY <2>2 DEF LineHit, LineMiss, Returned
    <3>. QED BY <3>1, FifoAssumption DEF HitDistanceWithinCapacity
  <2>3. ASSUME NEW key \in Key, NEW lines \in Footprint,
               BlockStream(key, lines) \/ BlockMiss(key, lines)
        PROVE  HitDistanceWithinCapacity'
    <3>1. result'.hit = FALSE /\ result'.raised = None
      BY <2>3 DEF BlockStream, BlockMiss, MissResult, Returned
    <3>. QED BY <3>1, FifoAssumption DEF HitDistanceWithinCapacity
  <2>4. CASE UNCHANGED result
    BY <2>4 DEF HitDistanceWithinCapacity
  <2>5. EvictOldest \/ InsertBlock \/ UNCHANGED vars => UNCHANGED result
    BY DEF EvictOldest, InsertBlock, vars
  <2>. QED BY <2>1, <2>2, <2>3, <2>4, <2>5 DEF Next
<1>. QED BY <1>1, <1>2, FifoCacheInvariant, PTL DEF Spec

(* The queue implements the reuse-window rule.                             *)
THEOREM FifoImplementsWindow == Spec => ImplementsWindow
<1>1. Init => Window!WindowInit
  BY DEF Init, Window!WindowInit, Never, Window!Never
<1>2. FifoInv /\ [Next]_vars => [Window!WindowNext]_(Window!windowVars)
  <2> SUFFICES ASSUME FifoInv, [Next]_vars
               PROVE  Window!WindowNext \/ UNCHANGED <<insertedLines, born>>
    BY DEF Window!windowVars
  <2>1. \A k \in Key \ Tags : pending = None => ~Window!InWindow(k)
    BY FifoFacts DEF Tags, Pressure, Window!InWindow, Never
  <2>2. ASSUME NEW k \in Key, NEW n \in Nat \ {0}, ~Window!InWindow(k),
               insertedLines' = insertedLines + n,
               born' = [born EXCEPT ![k] = insertedLines]
        PROVE  Window!WindowNext
    <3>1. insertedLines' \in Nat /\ insertedLines' > insertedLines
      BY <2>2, FifoFacts
    <3>. QED BY <2>2, <3>1, Zenon DEF Window!WindowNext, Window!WindowMiss
  <2>3. ASSUME NEW key \in Key, LineMiss(key) PROVE Window!WindowNext
    BY <2>1, <2>2, <2>3, 1 \in Nat \ {0} DEF LineMiss
  <2>4. ASSUME NEW key \in Key, NEW lines \in Footprint,
               BlockStream(key, lines)
        PROVE  Window!WindowNext
    <3>1. lines \in Nat \ {0}
      BY FifoAssumption DEF Footprint
    <3>. QED BY <2>1, <2>2, <2>4, <3>1 DEF BlockStream
  <2>8. ASSUME InsertBlock PROVE Window!WindowNext
    <3>1. /\ pending.key \in Key /\ ~Window!InWindow(pending.key)
          /\ pending.lines \in Nat \ {0}
      BY <2>8, FifoFacts DEF InsertBlock
    <3>. QED BY <2>2, <2>8, <3>1 DEF InsertBlock
  <2>5. ASSUME NEW key \in Key, LineHit(key)
        PROVE  UNCHANGED <<insertedLines, born>>
    BY <2>5 DEF LineHit
  <2>6. ASSUME NEW key \in Key, NEW lines \in Footprint,
               BlockHit(key, lines) \/ BlockMiss(key, lines)
        PROVE  UNCHANGED <<insertedLines, born>>
    BY <2>6 DEF BlockHit, BlockMiss, cacheVars
  <2>7. EvictOldest \/ UNCHANGED vars => UNCHANGED <<insertedLines, born>>
    BY DEF EvictOldest, vars, cacheVars
  <2>. QED BY <2>3, <2>4, <2>5, <2>6, <2>7, <2>8 DEF Next
<1>. QED
  BY <1>1, <1>2, FifoCacheInvariant, PTL
     DEF Spec, ImplementsWindow, Window!WindowSpec

(* Keys leave in the order they came.                                      *)
THEOREM FifoOrder == Spec => OldestLeavesFirst
<1> DEFINE OldestOut == \A gone \in Tags \ Tags', kept \in Tags \cap Tags' :
                          born[gone] < born[kept]
<1>1. FifoInv /\ [Next]_vars => OldestOut
  <2> SUFFICES ASSUME FifoInv, [Next]_vars,
                      NEW gone \in Tags \ Tags', NEW kept \in Tags \cap Tags'
               PROVE  born[gone] < born[kept]
    OBVIOUS
  <2>1. /\ QueueType(queue, resident, residentLines, insertedLines)
        /\ Tiles(queue, resident, residentLines, insertedLines)
    BY CacheTyped
  <2>2. ASSUME Len(queue) > 0, gone = Head(queue)
        PROVE  born[gone] < born[kept]
    <3>1. resident[kept].start >= End(resident[gone])
      BY <2>1, <2>2, PopTiles DEF Tags
    <3>2. /\ resident[gone].start \in Nat /\ resident[gone].lines \in Nat \ {0}
          /\ resident[kept].start \in Nat
      BY <2>1 DEF QueueType, Block, Tags
    <3>. QED BY <3>1, <3>2, FifoFacts DEF End, Tags
  <2>3. ASSUME NEW key \in Key, LineMiss(key)
        PROVE  Len(queue) > 0 /\ gone = Head(queue)
    <3>1. Full /\ gone = Head(queue)
      BY <2>3 DEF LineMiss, Stored, Dropped, Tags
    <3>2. Len(queue) # 0
      BY <3>1, <2>1, FifoFacts DEF Full, Tiles
    <3>. QED BY <3>1, <3>2, <2>1 DEF QueueType
  <2>4. ASSUME EvictOldest PROVE Len(queue) > 0 /\ gone = Head(queue)
    BY <2>4 DEF EvictOldest, Dropped, Tags
  <2>5. ASSUME NEW key \in Key, NEW lines \in Footprint,
               BlockStream(key, lines)
        PROVE  FALSE
    BY <2>5 DEF BlockStream, Tags
  <2>6. ASSUME InsertBlock PROVE FALSE
    BY <2>6 DEF InsertBlock, Stored, Tags
  <2>7. ASSUME NEW key \in Key, NEW lines \in Footprint,
               LineHit(key) \/ BlockHit(key, lines) \/ BlockMiss(key, lines)
        PROVE  FALSE
    BY <2>7 DEF LineHit, BlockHit, BlockMiss, cacheVars, Tags
  <2>8. ASSUME NEW key \in Key, LineHit(key) PROVE FALSE
    BY <2>8 DEF LineHit, Tags
  <2>9. ASSUME UNCHANGED vars PROVE FALSE
    BY <2>9 DEF vars, cacheVars, Tags
  <2>. QED BY <2>2, <2>3, <2>4, <2>5, <2>6, <2>7, <2>8, <2>9 DEF Next
<1>2. FifoInv /\ [Next]_vars => [OldestOut]_vars
  BY <1>1
<1>. QED BY <1>2, FifoCacheInvariant, PTL DEF Spec, OldestLeavesFirst
------------------------------------------------------------------------------
(* The memo.  A request names one or more sectors, each once.              *)
LEMMA SectorFacts ==
  ASSUME NEW r \in Request
  PROVE  /\ Sectors[r] \in Seq(Key) /\ Len(Sectors[r]) \in Nat \ {0}
         /\ \A i \in 1 .. Len(Sectors[r]) : Sectors[r][i] \in Key
         /\ \A i, j \in 1 .. Len(Sectors[r]) :
              Sectors[r][i] = Sectors[r][j] => i = j
BY RequestAssumption

(* The oldest resident sequence, and what it says of every key.            *)
LEMMA OldestSplits ==
  ASSUME FifoInv
  PROVE  /\ OldestResidentSequence = insertedLines - residentLines
         /\ OldestResidentSequence \in Nat
         /\ \A k \in Tags : resident[k].start >= OldestResidentSequence
         /\ pending = None =>
              \A k \in Key : born[k] # Never /\ born[k] >= OldestResidentSequence
                               => k \in Tags
<1>1. OldestResidentSequence = insertedLines - residentLines
  <2>1. /\ QueueType(queue, resident, residentLines, insertedLines)
        /\ Tiles(queue, resident, residentLines, insertedLines)
    BY CacheTyped
  <2>2. /\ residentLines = insertedLines - OldestResidentSequence
        /\ OldestResidentSequence \in Int
    <3>1. Len(queue) # 0 => resident[queue[1]].start \in Nat
      BY <2>1, 1 \in Nat DEF QueueType, Tiles, Block
    <3>. QED BY <2>1, <3>1, OldestFromTiles, FifoFacts DEF OldestResidentSequence
  <2>. QED BY <2>2, FifoFacts
<1>2. OldestResidentSequence \in Nat
  <2>1. /\ QueueType(queue, resident, residentLines, insertedLines)
        /\ Tiles(queue, resident, residentLines, insertedLines)
    BY CacheTyped
  <2>2. Len(queue) # 0 => 1 \in 1 .. Len(queue)
    BY <2>1 DEF QueueType
  <2>3. Len(queue) # 0 => resident[queue[1]].start \in Nat
    BY <2>1, <2>2 DEF QueueType, Tiles, Block
  <2>. QED BY <2>3, FifoFacts DEF OldestResidentSequence
<1>3. \A k \in Tags : resident[k].start >= OldestResidentSequence
  <2> SUFFICES ASSUME NEW k \in Tags
               PROVE  resident[k].start >= OldestResidentSequence
    OBVIOUS
  <2>1. insertedLines - resident[k].start \in 1 .. residentLines
    BY ResidentYoung DEF Tags
  <2>. QED BY <2>1, <1>1, FifoFacts DEF Tags
<1>4. ASSUME pending = None, NEW k \in Key, born[k] # Never,
             born[k] >= OldestResidentSequence
      PROVE  k \in Tags
  <2> SUFFICES ASSUME k \notin Tags PROVE FALSE
    OBVIOUS
  <2>1. insertedLines + 0 - born[k] > Capacity
    BY <1>4, FifoFacts DEF Pressure, Tags
  <2>2. born[k] \in Int /\ insertedLines \in Nat /\ residentLines \in Nat
        /\ residentLines <= Capacity /\ Capacity \in Nat
    BY FifoFacts
  <2>. QED BY <2>1, <2>2, <1>1, <1>4
<1>. QED BY <1>1, <1>2, <1>3, <1>4

(* One access of the walk: a hit leaves the cache alone; a miss only ever  *)
(* moves the oldest sequence up, and drops only keys below it.             *)
LEMMA HitFrame ==
  ASSUME NEW key \in Key, LineHit(key)
  PROVE  /\ UNCHANGED <<resident, born, insertedLines, queue>>
         /\ UNCHANGED OldestResidentSequence /\ UNCHANGED Tags
         /\ pending' = None
         /\ key \in Tags /\ lastLineSequence' = resident[key].start
BY DEF LineHit, OldestResidentSequence, Tags

LEMMA MissFrame ==
  ASSUME FifoInv, NEW key \in Key, LineMiss(key)
  PROVE  /\ FifoInv'
         /\ pending' = None
         /\ OldestResidentSequence' >= OldestResidentSequence
         /\ lastLineSequence' = insertedLines
         /\ born' = [born EXCEPT ![key] = insertedLines]
         /\ \A k \in Tags : resident[k].start >= OldestResidentSequence' =>
              k \in Tags' /\ resident'[k] = resident[k]
<1>1. FifoInv'
  BY LineMissInv
<1>2. /\ OldestResidentSequence = insertedLines - residentLines
      /\ OldestResidentSequence' = insertedLines' - residentLines'
      /\ OldestResidentSequence \in Nat
  <2>1. FifoInv => OldestResidentSequence = insertedLines - residentLines
    BY OldestSplits
  <2>2. (FifoInv => OldestResidentSequence = insertedLines - residentLines)'
    BY OldestSplits, PTL
  <2>. QED BY <1>1, <2>1, <2>2, OldestSplits
<1>3. /\ QueueType(queue, resident, residentLines, insertedLines)
      /\ Tiles(queue, resident, residentLines, insertedLines)
  BY CacheTyped
<1>4. insertedLines' = insertedLines + 1 /\ key \notin DOMAIN resident
  BY DEF LineMiss, Tags
<1>5. CASE Full
  <2>1. Len(queue) > 0
    BY <1>3, <1>5, FifoFacts DEF Full, Tiles, QueueType
  <2> DEFINE v == Head(queue)
  <2>2. /\ v \in DOMAIN resident
        /\ resident[v].start = insertedLines - residentLines
        /\ resident[v].lines \in Nat \ {0}
    BY <1>3, <2>1, PopTiles DEF QueueType, Block
  <2>3. /\ residentLines' = residentLines - resident[v].lines + 1
        /\ resident' = Stored(Dropped(resident, v), key,
                              [lines |-> 1, start |-> insertedLines])
    BY <1>5 DEF LineMiss
  <2>4. /\ DOMAIN resident' = (DOMAIN resident \ {v}) \cup {key}
        /\ \A k \in DOMAIN resident \ {v} : resident'[k] = resident[k]
    BY <2>3, <1>4 DEF Stored, Dropped
  <2> HIDE DEF v
  <2>5. OldestResidentSequence' = resident[v].start + resident[v].lines
    BY <1>2, <1>4, <2>2, <2>3, FifoFacts
  <2>. QED BY <1>1, <1>2, <2>2, <2>4, <2>5, FifoFacts DEF LineMiss, Tags
<1>6. CASE ~Full
  <2>1. /\ residentLines' = residentLines + 1
        /\ resident' = Stored(resident, key, [lines |-> 1, start |-> insertedLines])
    BY <1>6, FifoFacts DEF LineMiss
  <2>2. /\ DOMAIN resident' = DOMAIN resident \cup {key}
        /\ \A k \in DOMAIN resident : resident'[k] = resident[k]
    BY <2>1, <1>4 DEF Stored
  <2>3. OldestResidentSequence' = OldestResidentSequence
    BY <1>2, <1>4, <2>1, FifoFacts
  <2>. QED BY <1>1, <1>2, <2>2, <2>3 DEF LineMiss, Tags
<1>. QED BY <1>5, <1>6
------------------------------------------------------------------------------
LEMMA MemoInitBase == MemoInit => MemoBase
<1> SUFFICES ASSUME MemoInit PROVE MemoBase
  OBVIOUS
<1>1. FifoInv
  BY InitInv DEF MemoInit
<1>2. MemoTypeOK
  BY <1>1 DEF MemoInit, Init, MemoTypeOK, FifoInv
<1>3. MemoBounds /\ WalkBounds /\ WalkAssertions
  BY DEF MemoInit, MemoBounds, WalkBounds, WalkAssertions, Remembered
<1>. QED BY <1>1, <1>2, <1>3 DEF MemoBase

(* An access keeps every entry honest that it still lets through.          *)
LEMMA AccessKeepsMemo ==
  ASSUME MemoBase, UNCHANGED memo, NEW key \in Key,
         LineHit(key) \/ LineMiss(key)
  PROVE  FifoInv' /\ MemoBounds' /\ pending' = None
<1>1. CASE LineHit(key)
  <2>1. FifoInv'
    BY <1>1, LineHitInv DEF MemoBase
  <2>. QED BY <2>1, <1>1, HitFrame DEF MemoBase, MemoBounds, Remembered
<1>2. CASE LineMiss(key)
  <2>1. /\ FifoInv' /\ pending' = None
        /\ OldestResidentSequence' >= OldestResidentSequence
        /\ \A k \in Tags : resident[k].start >= OldestResidentSequence' =>
             k \in Tags' /\ resident'[k] = resident[k]
    BY <1>2, MissFrame DEF MemoBase
  <2>2. OldestResidentSequence \in Nat /\ OldestResidentSequence' \in Nat
    <3>1. FifoInv => OldestResidentSequence \in Nat
      BY OldestSplits
    <3>2. (FifoInv => OldestResidentSequence \in Nat)'
      BY OldestSplits, PTL
    <3>. QED BY <2>1, <3>1, <3>2 DEF MemoBase
  <2>3. MemoBounds'
    <3> SUFFICES ASSUME NEW r \in Request, Remembered(r)', NEW s \in SectorsOf(r)
                 PROVE  s \in Tags' /\ resident'[s].start >= memo'[r]
      BY DEF MemoBounds, SectorsOf
    <3>1. memo[r] \in Nat /\ memo'[r] = memo[r]
      BY DEF MemoBase, MemoTypeOK, Remembered
    <3>2. Remembered(r)
      BY <3>1, <2>1, <2>2 DEF Remembered
    <3>3. s \in Tags /\ resident[s].start >= memo[r] /\ resident[s].start \in Nat
      BY <3>2, FifoFacts DEF MemoBase, MemoBounds, Tags
    <3>. QED BY <3>1, <3>3, <2>1, <2>2 DEF Remembered
  <2>. QED BY <2>1, <2>3
<1>. QED BY <1>1, <1>2

(* What both loop steps share.                                             *)
LEMMA WalkFacts ==
  ASSUME MemoBase, walk # None, walk.position <= Len(Sectors[walk.request])
  PROVE  /\ walk \in Walking
         /\ walk.request \in Request
         /\ walk.position \in 1 .. Len(Sectors[walk.request])
         /\ Sector \in Key
         /\ Sector \notin Passed /\ Passed \subseteq Key
<1>1. walk \in Walking
  BY DEF MemoBase, MemoTypeOK
<1>2. /\ walk.request \in Request
      /\ walk.position \in 1 .. Len(Sectors[walk.request])
  BY <1>1, SectorFacts DEF Walking
<1>3. \A i \in 1 .. walk.position - 1 :
        i \in 1 .. Len(Sectors[walk.request]) /\ i # walk.position
  BY <1>2, SectorFacts
<1>. QED BY <1>1, <1>2, <1>3, SectorFacts DEF Sector, Passed

(* The running minimum covers one more sector.                             *)
LEMMA LeastPassed ==
  ASSUME MemoBase, walk \in Walking, walk.request \in Request,
         walk.position \in 1 .. Len(Sectors[walk.request]),
         walk # None, Sector \in Key,
         walk'.request = walk.request,
         walk'.position = walk.position + 1,
         walk'.minimum = LeastSequence,
         lastLineSequence' = born'[Sector], lastLineSequence' \in Nat,
         \A s \in Passed : born'[s] = born[s]
  PROVE  WalkBounds'
<1>1. Passed' = Passed \cup {Sector}
  <2>1. 1 .. walk'.position - 1 = (1 .. walk.position - 1) \cup {walk.position}
    BY SectorFacts
  <2>. QED BY <2>1 DEF Passed, Sector
<1>2. CASE walk.position = 1
  <2>1. Passed = {} /\ walk.minimum = None
    BY <1>2 DEF Passed, MemoBase, WalkBounds
  <2>2. LeastSequence = lastLineSequence'
    BY <2>1 DEF LeastSequence
  <2>3. Passed' = {Sector} /\ walk'.position = 2
    BY <2>1, <1>1, <1>2
  <2>. QED BY <2>2, <2>3 DEF WalkBounds
<1>3. CASE walk.position > 1
  <2>1. /\ walk.minimum \in Nat /\ walk.minimum # None
        /\ \A s \in Passed : born'[s] >= walk.minimum
        /\ \E s \in Passed : born'[s] = walk.minimum
    BY <1>3, RequestAssumption DEF MemoBase, WalkBounds
  <2>2. /\ LeastSequence = walk.minimum \/ LeastSequence = born'[Sector]
        /\ LeastSequence <= walk.minimum /\ LeastSequence <= born'[Sector]
        /\ LeastSequence \in Nat
    BY <2>1 DEF LeastSequence, Smaller
  <2>3. Passed \subseteq Key /\ \A s \in Passed : born'[s] \in Int
    <3>1. Passed \subseteq Key
      BY WalkFacts
    <3>2. \A s \in Key : born[s] \in Int
      BY FifoFacts DEF MemoBase
    <3>. QED BY <3>1, <3>2
  <2>4. \A s \in Passed' : born'[s] >= LeastSequence
    BY <2>1, <2>2, <2>3, <1>1
  <2>5. \E s \in Passed' : born'[s] = LeastSequence
    BY <2>1, <2>2, <1>1
  <2>6. walk'.position > 1 /\ walk'.position # 1
    BY <1>3
  <2>. QED BY <2>2, <2>4, <2>5, <2>6 DEF WalkBounds
<1>. QED BY <1>2, <1>3, SectorFacts

LEMMA WalkHitBase == MemoBase /\ WalkHit => MemoBase'
<1> SUFFICES ASSUME MemoBase, WalkHit PROVE MemoBase'
  OBVIOUS
<1>1. /\ walk \in Walking /\ walk.request \in Request
      /\ walk.position \in 1 .. Len(Sectors[walk.request])
      /\ Sector \in Key
  BY WalkFacts DEF WalkHit
<1>2. LineHit(Sector) /\ memo' = memo /\ answer' = answer
  BY DEF WalkHit
<1>3. FifoInv' /\ MemoBounds' /\ pending' = None
  BY <1>1, <1>2, AccessKeepsMemo
<1>4. /\ lastLineSequence' = born[Sector] /\ born' = born
      /\ lastLineSequence' \in Nat
  BY <1>1, <1>2, HitFrame, FifoFacts DEF MemoBase, Tags
<1>5. LeastSequence \in Nat /\ FirstHit \in Seq(Key)
  <2>1. LeastSequence \in Nat
    BY <1>1, <1>4 DEF LeastSequence, Smaller, Walking
  <2>2. FirstHit \in Seq(Key)
    BY <1>1, SectorFacts DEF FirstHit
  <2>. QED BY <2>1, <2>2
<1>6. /\ walk' \in Walking
      /\ walk'.request = walk.request
      /\ walk'.position = walk.position + 1
      /\ walk'.minimum = LeastSequence
  <2>1. walk' = [walk EXCEPT !.position = @ + 1,
                             !.hits = @ + 1,
                             !.minimum = LeastSequence,
                             !.partial = IF walk.hits = 0 THEN FirstHit ELSE @]
    BY DEF WalkHit
  <2> DEFINE found == IF walk.hits = 0 THEN FirstHit ELSE walk.partial
  <2>2. /\ found \in Seq(Key) \cup {None}
        /\ walk.position + 1 \in Nat \ {0} /\ walk.hits + 1 \in Nat
    BY <1>1, <1>5 DEF Walking
  <2>3. walk' = [request |-> walk.request, position |-> walk.position + 1,
                 hits |-> walk.hits + 1, partial |-> found,
                 minimum |-> LeastSequence, since |-> walk.since]
    BY <1>1, <2>1 DEF Walking
  <2> HIDE DEF found
  <2>. QED BY <1>1, <1>5, <2>2, <2>3 DEF Walking
<1>7. MemoTypeOK'
  BY <1>1, <1>2, <1>3, <1>6 DEF WalkHit, MemoBase, MemoTypeOK, FifoInv
<1>8. WalkBounds'
  BY <1>1, <1>4, <1>5, <1>6, LeastPassed DEF WalkHit, MemoBase
<1>9. WalkAssertions'
  <2>1. walk'.minimum # None
    BY <1>5, <1>6, RequestAssumption
  <2>2. walk'.partial # None
    <3>1. FirstHit # None
      BY <1>5, RequestAssumption
    <3>. QED BY <3>1, <1>1 DEF WalkHit, MemoBase, WalkAssertions, Walking
  <2>. QED BY <2>1, <2>2 DEF WalkAssertions
<1>. QED BY <1>3, <1>7, <1>8, <1>9 DEF MemoBase

LEMMA WalkMissBase == MemoBase /\ WalkMiss => MemoBase'
<1> SUFFICES ASSUME MemoBase, WalkMiss PROVE MemoBase'
  OBVIOUS
<1>1. /\ walk \in Walking /\ walk.request \in Request
      /\ walk.position \in 1 .. Len(Sectors[walk.request])
      /\ Sector \in Key /\ Sector \notin Passed
  BY WalkFacts DEF WalkMiss
<1>2. LineMiss(Sector) /\ memo' = memo /\ answer' = answer
  BY DEF WalkMiss
<1>3. FifoInv' /\ MemoBounds' /\ pending' = None
  BY <1>1, <1>2, AccessKeepsMemo
<1>4. /\ lastLineSequence' = born'[Sector]
      /\ lastLineSequence' \in Nat
      /\ \A s \in Passed : born'[s] = born[s]
  BY <1>1, <1>2, MissFrame, FifoFacts, WalkFacts DEF MemoBase, WalkMiss
<1>5. LeastSequence \in Nat
  BY <1>1, <1>4 DEF LeastSequence, Smaller, Walking
<1>6. /\ walk' \in Walking
      /\ walk'.request = walk.request
      /\ walk'.position = walk.position + 1
      /\ walk'.minimum = LeastSequence
  <2>1. walk.hits > 0 => walk.partial \in Seq(Key)
    BY <1>1 DEF MemoBase, WalkAssertions, Walking, WalkMiss
  <2>2. walk' = [walk EXCEPT
                   !.position = @ + 1,
                   !.minimum = LeastSequence,
                   !.partial = IF walk.hits > 0 THEN Append(@, Sector) ELSE @]
    BY DEF WalkMiss
  <2>3. walk.hits > 0 => Append(walk.partial, Sector) \in Seq(Key)
    BY <1>1, <2>1
  <2> DEFINE found == IF walk.hits > 0 THEN Append(walk.partial, Sector)
                      ELSE walk.partial
  <2>4. found \in Seq(Key) \cup {None} /\ walk.position + 1 \in Nat \ {0}
    BY <1>1, <2>3 DEF Walking
  <2>5. walk' = [request |-> walk.request, position |-> walk.position + 1,
                 hits |-> walk.hits, partial |-> found,
                 minimum |-> LeastSequence, since |-> walk.since]
    BY <1>1, <2>2 DEF Walking
  <2> HIDE DEF found
  <2>. QED BY <1>1, <1>5, <2>4, <2>5 DEF Walking
<1>7. MemoTypeOK'
  BY <1>1, <1>2, <1>3, <1>6 DEF WalkMiss, MemoBase, MemoTypeOK, FifoInv
<1>8. WalkBounds'
  BY <1>1, <1>4, <1>5, <1>6, LeastPassed DEF WalkMiss, MemoBase
<1>9. WalkAssertions'
  <2>1. walk'.minimum # None
    BY <1>5, <1>6, RequestAssumption
  <2>2. walk'.hits > 0 => walk'.partial # None
    <3>1. walk.hits > 0 => Append(walk.partial, Sector) # None
      BY <1>1, RequestAssumption
         DEF MemoBase, WalkAssertions, Walking, WalkMiss
    <3>. QED BY <3>1, <1>1 DEF WalkMiss, Walking
  <2>. QED BY <2>1, <2>2 DEF WalkAssertions
<1>. QED BY <1>3, <1>7, <1>8, <1>9 DEF MemoBase

(* A finished walk whose least sequence is still within the queue has all  *)
(* of its sectors resident; one whose sectors are all resident has such a  *)
(* least sequence.                                                         *)
LEMMA FinishedWalk ==
  ASSUME MemoBase, walk # None,
         walk.position = Len(Sectors[walk.request]) + 1
  PROVE  /\ walk.request \in Request
         /\ walk.minimum \in Nat
         /\ Passed = SectorsOf(walk.request)
         /\ Keeps => \A s \in Passed :
                       s \in Tags /\ resident[s].start >= walk.minimum
         /\ Passed \subseteq Tags => Keeps
<1>1. walk \in Walking /\ walk.request \in Request
  BY DEF MemoBase, MemoTypeOK, Walking
<1>2. Passed = SectorsOf(walk.request) /\ walk.position > 1
      /\ Passed \subseteq Key
  BY <1>1, SectorFacts DEF Passed, SectorsOf
<1>3. /\ walk.minimum \in Nat
      /\ \A s \in Passed : born[s] >= walk.minimum
      /\ \E s \in Passed : born[s] = walk.minimum
  BY <1>2 DEF MemoBase, WalkBounds
<1>4. FifoInv /\ pending = None
  BY DEF MemoBase, MemoTypeOK
<1>5. Keeps => \A s \in Passed : s \in Tags /\ resident[s].start >= walk.minimum
  <2> SUFFICES ASSUME Keeps, NEW s \in Passed
               PROVE  s \in Tags /\ resident[s].start >= walk.minimum
    OBVIOUS
  <2>1. born[s] >= OldestResidentSequence /\ born[s] # Never
    BY <1>2, <1>3, <1>4, OldestSplits, FifoFacts DEF Keeps
  <2>. QED BY <2>1, <1>2, <1>3, <1>4, OldestSplits, FifoFacts DEF Tags
<1>6. Passed \subseteq Tags => Keeps
  BY <1>3, <1>4, OldestSplits, FifoFacts DEF Keeps, Tags
<1>. QED BY <1>1, <1>2, <1>3, <1>5, <1>6

LEMMA StutterInv == FifoInv /\ UNCHANGED vars => FifoInv'
BY StepInv

(* The three steps that leave the cache alone.                             *)
LEMMA MemoHitBase ==
  ASSUME MemoBase, NEW r \in Request, MemoHit(r)
  PROVE  MemoBase'
<1>1. UNCHANGED <<vars, memo, walk>>
  BY DEF MemoHit
<1>2. FifoInv'
  BY <1>1, StutterInv DEF MemoBase
<1>3. answer' \in Answered
  BY FifoFacts DEF MemoHit, Answered, MemoBase
<1>4. MemoTypeOK'
  BY <1>1, <1>2, <1>3 DEF MemoHit, MemoBase, MemoTypeOK, FifoInv, vars
<1>5. MemoBounds' /\ WalkBounds' /\ WalkAssertions'
  BY <1>1 DEF MemoBase, MemoBounds, WalkBounds, WalkAssertions, Remembered,
              OldestResidentSequence, Tags, Passed, vars, cacheVars
<1>. QED BY <1>2, <1>4, <1>5 DEF MemoBase

LEMMA BeginWalkBase ==
  ASSUME MemoBase, NEW r \in Request, BeginWalk(r)
  PROVE  MemoBase'
<1>1. UNCHANGED <<vars, memo>> /\ answer' = None
  BY DEF BeginWalk
<1>2. FifoInv'
  BY <1>1, StutterInv DEF MemoBase
<1>3. walk' = [request |-> r, position |-> 1, hits |-> 0, partial |-> None,
               minimum |-> None, since |-> insertedLines]
  BY DEF BeginWalk
<1>4. walk' \in Walking /\ walk'.position <= Len(Sectors[walk'.request]) + 1
  BY <1>3, SectorFacts, FifoFacts DEF Walking, MemoBase
<1>5. MemoTypeOK'
  BY <1>1, <1>2, <1>4 DEF MemoBase, MemoTypeOK, FifoInv, vars
<1>6. MemoBounds'
  BY <1>1 DEF MemoBase, MemoBounds, Remembered, OldestResidentSequence, Tags,
              vars, cacheVars
<1>7. WalkBounds' /\ WalkAssertions'
  BY <1>3 DEF WalkBounds, WalkAssertions
<1>. QED BY <1>2, <1>5, <1>6, <1>7 DEF MemoBase

LEMMA EndWalkBase == MemoBase /\ EndWalk => MemoBase'
<1> SUFFICES ASSUME MemoBase, EndWalk PROVE MemoBase'
  OBVIOUS
<1>1. UNCHANGED vars /\ walk' = None
  BY DEF EndWalk
<1>2. FifoInv'
  BY <1>1, StutterInv DEF MemoBase
<1>3. /\ walk \in Walking /\ walk.request \in Request
      /\ walk.minimum \in Nat
      /\ Keeps => \A s \in SectorsOf(walk.request) :
                    s \in Tags /\ resident[s].start >= walk.minimum
  BY FinishedWalk DEF EndWalk, MemoBase, MemoTypeOK
<1>4. DOMAIN memo \subseteq Request /\ memo \in [DOMAIN memo -> Nat]
  BY DEF MemoBase, MemoTypeOK
<1>5. /\ DOMAIN memo' \subseteq Request /\ memo' \in [DOMAIN memo' -> Nat]
      /\ \A q \in DOMAIN memo' : q # walk.request =>
           q \in DOMAIN memo /\ memo'[q] = memo[q]
      /\ walk.request \in DOMAIN memo' =>
           Keeps /\ memo'[walk.request] = walk.minimum
  BY <1>3, <1>4 DEF EndWalk, Stored, Dropped
<1>6. MemoBounds'
  <2> SUFFICES ASSUME NEW q \in Request, Remembered(q)', NEW s \in SectorsOf(q)
               PROVE  s \in Tags' /\ resident'[s].start >= memo'[q]
    BY DEF MemoBounds, SectorsOf
  <2>1. UNCHANGED <<Tags, resident, OldestResidentSequence>>
    BY <1>1 DEF vars, cacheVars, Tags, OldestResidentSequence
  <2>2. q \in DOMAIN memo' /\ memo'[q] >= OldestResidentSequence
    BY <2>1 DEF Remembered
  <2>3. CASE q = walk.request
    BY <1>3, <1>5, <2>1, <2>2, <2>3
  <2>4. CASE q # walk.request
    <3>1. Remembered(q)
      BY <1>5, <2>2, <2>4 DEF Remembered
    <3>. QED BY <1>5, <2>1, <2>2, <2>4, <3>1 DEF MemoBase, MemoBounds
  <2>. QED BY <2>3, <2>4
<1>7. answer' \in Answered
  <2>1. walk.partial \in Seq(Key) \cup {None} /\ walk.since \in Nat
    BY <1>3 DEF Walking
  <2>. QED BY <1>3, <2>1 DEF EndWalk, Answered
<1>8. MemoTypeOK'
  BY <1>1, <1>2, <1>5, <1>7 DEF MemoBase, MemoTypeOK, FifoInv, vars
<1>9. WalkBounds' /\ WalkAssertions'
  BY <1>1 DEF WalkBounds, WalkAssertions
<1>. QED BY <1>2, <1>6, <1>8, <1>9 DEF MemoBase

LEMMA MemoStepBase == MemoBase /\ [MemoNext]_memoVars => MemoBase'
<1> SUFFICES ASSUME MemoBase, [MemoNext]_memoVars PROVE MemoBase'
  OBVIOUS
<1>1. ASSUME NEW r \in Request, MemoHit(r) PROVE MemoBase'
  BY <1>1, MemoHitBase
<1>2. ASSUME NEW r \in Request, BeginWalk(r) PROVE MemoBase'
  BY <1>2, BeginWalkBase
<1>3. CASE WalkHit \/ WalkMiss \/ EndWalk
  BY <1>3, WalkHitBase, WalkMissBase, EndWalkBase
<1>4. CASE UNCHANGED memoVars
  <2>1. UNCHANGED <<vars, memo, walk, answer>>
    BY <1>4 DEF memoVars
  <2>2. FifoInv'
    BY <2>1, StutterInv DEF MemoBase
  <2>3. MemoTypeOK'
    BY <2>1, <2>2 DEF MemoBase, MemoTypeOK, FifoInv, vars
  <2>. QED
    BY <2>1, <2>2, <2>3
       DEF MemoBase, MemoBounds, WalkBounds, WalkAssertions, Remembered,
           OldestResidentSequence, Tags, Passed, vars, cacheVars
<1>. QED BY <1>1, <1>2, <1>3, <1>4 DEF MemoNext

------------------------------------------------------------------------------
(* What a walk may use of the numbers it carries.                          *)
LEMMA FetchedBounds ==
  ASSUME FifoInv, NEW since \in Nat
  PROVE  \A s \in Key : s \in Fetched(since) <=> born[s] >= since
BY DEF Fetched

(* A hit passes one more sector, which is not fetched now, and makes the   *)
(* list if it is the first to hit.                                         *)
LEMMA WalkHitExact == MemoBase /\ WalkExact /\ WalkHit => WalkExact'
<1> SUFFICES ASSUME MemoBase, WalkExact, WalkHit PROVE WalkExact'
  OBVIOUS
<1> DEFINE asked   == Sectors[walk.request]
           fetched == Fetched(walk.since)
           n       == walk.position
<1>1. /\ walk \in Walking /\ walk.request \in Request
      /\ n \in 1 .. Len(asked) /\ Sector \in Key /\ walk # None
  BY WalkFacts DEF WalkHit
<1>2. /\ asked \in Seq(Key) /\ Len(asked) \in Nat \ {0}
      /\ \A i \in 1 .. Len(asked) : asked[i] \in Key
      /\ \A i, j \in 1 .. Len(asked) : asked[i] = asked[j] => i = j
  BY <1>1, SectorFacts
<1>3. /\ walk.since <= insertedLines /\ walk.hits <= n - 1
      /\ \A i \in n .. Len(asked) : asked[i] \notin fetched
      /\ walk.hits = 0 <=> \A i \in 1 .. n - 1 : asked[i] \in fetched
      /\ walk.hits = n - 1 <=> \A i \in 1 .. n - 1 : asked[i] \notin fetched
      /\ walk.hits > 0 => ListsFetched(walk.partial, asked, n - 1, fetched)
  BY <1>1 DEF WalkExact
<1>4. UNCHANGED <<born, insertedLines>>
  BY <1>1, HitFrame DEF WalkHit
<1>5. /\ walk'.request = walk.request /\ walk'.since = walk.since
      /\ walk'.position = n + 1 /\ walk'.hits = walk.hits + 1
      /\ walk'.partial = IF walk.hits = 0 THEN FirstHit ELSE walk.partial
  BY <1>1 DEF WalkHit, Walking
<1>6. Fetched(walk.since)' = fetched
  BY <1>4, <1>5 DEF Fetched
<1>7. asked[n] \notin fetched
  BY <1>1, <1>2, <1>3
<1>8. ListsFetched(walk'.partial, asked, n, fetched)
  <2>1. CASE walk.hits = 0
    <3>1. walk'.partial = SubSeq(asked, 1, n - 1)
      BY <1>5, <2>1 DEF FirstHit
    <3>2. /\ Len(walk'.partial) = n - 1
          /\ \A i \in 1 .. n - 1 : walk'.partial[i] = asked[i]
      BY <3>1, <1>1, <1>2
    <3>3. \A i \in 1 .. n - 1 : asked[i] \in fetched
      BY <2>1, <1>3
    <3> HIDE DEF asked, fetched, n
    <3> DEFINE list == walk'.partial
    <3>4. \A p \in 1 .. n : asked[p] \in fetched => p \in 1 .. n - 1
      BY <1>1, <1>2, <1>7
    <3>5. /\ Len(list) = n - 1 /\ \A i \in 1 .. n - 1 : list[i] = asked[i]
          /\ n - 1 \in Nat /\ 1 .. n - 1 \subseteq 1 .. n
          /\ 1 .. n \subseteq 1 .. Len(asked)
      BY <3>2, <1>1, <1>2
    <3> HIDE DEF list
    <3>6. {list[i] : i \in 1 .. Len(list)} = {asked[p] : p \in 1 .. n} \cap fetched
      BY <3>3, <3>4, <3>5
    <3>7. \A i, j \in 1 .. Len(list) : \A p, q \in 1 .. n :
            i < j /\ list[i] = asked[p] /\ list[j] = asked[q] => p < q
      BY <3>5, <1>2
    <3>. QED BY <3>6, <3>7 DEF ListsFetched, list
  <2>2. CASE walk.hits # 0
    <3>1. /\ walk'.partial = walk.partial
          /\ ListsFetched(walk.partial, asked, n - 1, fetched)
      BY <1>1, <1>3, <1>5, <2>2 DEF Walking
    <3> HIDE DEF asked, fetched, n
    <3>2. \A p \in 1 .. n : asked[p] \in fetched => p \in 1 .. n - 1
      BY <1>1, <1>2, <1>7
    <3>3. {asked[p] : p \in 1 .. n} \cap fetched
            = {asked[p] : p \in 1 .. n - 1} \cap fetched
      BY <3>2, <1>1, <1>2
    <3>4. ASSUME NEW i \in 1 .. Len(walk.partial), NEW p \in 1 .. n,
                 walk.partial[i] = asked[p]
          PROVE  p \in 1 .. n - 1
      BY <3>1, <3>2, <3>4 DEF ListsFetched
    <3>. QED BY <3>1, <3>3, <3>4 DEF ListsFetched
  <2>. QED BY <2>1, <2>2
<1> HIDE DEF asked, fetched, n
<1>9. /\ \A i \in n + 1 .. Len(asked) : asked[i] \notin fetched
      /\ \E i \in 1 .. n : asked[i] \notin fetched
      /\ walk.hits + 1 <= n /\ walk.hits + 1 # 0
      /\ walk.hits + 1 = n <=> \A i \in 1 .. n : asked[i] \notin fetched
  <2>1. walk.hits \in Nat
    BY <1>1 DEF Walking
  <2>2. 1 .. n = (1 .. n - 1) \cup {n}
    BY <1>1, <1>2
  <2>3. n \in 1 .. n
    BY <1>1, <1>2
  <2>. QED BY <1>1, <1>2, <1>3, <1>7, <2>1, <2>2, <2>3
<1>10. walk'.position - 1 = n /\ Len(asked) \in Nat /\ n \in Nat
  BY <1>1, <1>2, <1>5
<1>11. Sectors[walk'.request] = asked /\ Fetched(walk.since)' = fetched
  BY <1>5, <1>6 DEF asked, fetched
<1>. QED BY <1>3, <1>4, <1>5, <1>8, <1>9, <1>10, <1>11 DEF WalkExact
(* A miss passes one more sector, which is fetched now and no earlier, and *)
(* goes to the end of the list.                                            *)
LEMMA WalkMissExact == MemoBase /\ WalkExact /\ WalkMiss => WalkExact'
<1> SUFFICES ASSUME MemoBase, WalkExact, WalkMiss PROVE WalkExact'
  OBVIOUS
<1> DEFINE asked   == Sectors[walk.request]
           fetched == Fetched(walk.since)
           after   == fetched \cup {Sector}
           n       == walk.position
<1>1. /\ walk \in Walking /\ walk.request \in Request
      /\ n \in 1 .. Len(asked) /\ Sector \in Key /\ walk # None
  BY WalkFacts DEF WalkMiss
<1>2. /\ asked \in Seq(Key) /\ Len(asked) \in Nat \ {0}
      /\ \A i \in 1 .. Len(asked) : asked[i] \in Key
      /\ \A i, j \in 1 .. Len(asked) : asked[i] = asked[j] => i = j
      /\ Sector = asked[n]
  BY <1>1, SectorFacts DEF Sector
<1>3. /\ walk.since <= insertedLines /\ walk.hits <= n - 1
      /\ \A i \in n .. Len(asked) : asked[i] \notin fetched
      /\ walk.hits = 0 <=> \A i \in 1 .. n - 1 : asked[i] \in fetched
      /\ walk.hits = n - 1 <=> \A i \in 1 .. n - 1 : asked[i] \notin fetched
      /\ walk.hits > 0 => ListsFetched(walk.partial, asked, n - 1, fetched)
  BY <1>1 DEF WalkExact
<1>4. /\ born' = [born EXCEPT ![Sector] = insertedLines]
      /\ insertedLines' = insertedLines + 1
  BY <1>1, MissFrame DEF WalkMiss, MemoBase, LineMiss
<1>5. /\ walk'.request = walk.request /\ walk'.since = walk.since
      /\ walk'.position = n + 1 /\ walk'.hits = walk.hits
      /\ walk'.partial = IF walk.hits > 0 THEN Append(walk.partial, Sector)
                         ELSE walk.partial
  BY <1>1 DEF WalkMiss, Walking
<1>6. Fetched(walk.since)' = after
  BY <1>1, <1>3, <1>4, <1>5, FifoFacts DEF Fetched, MemoBase
<1>7. /\ \A i \in 1 .. Len(asked) : i # n => (asked[i] \in after <=> asked[i] \in fetched)
      /\ asked[n] \in after /\ asked[n] \notin fetched
  BY <1>1, <1>2, <1>3
<1>8. walk.hits > 0 => ListsFetched(walk'.partial, asked, n, after)
  <2> SUFFICES ASSUME walk.hits > 0
               PROVE  ListsFetched(walk'.partial, asked, n, after)
    OBVIOUS
  <2> DEFINE list == walk.partial
             last == Len(list)
  <2>1. list \in Seq(Key) /\ Sector \in Key
    BY <1>1 DEF MemoBase, WalkAssertions, Walking
  <2>2. /\ last \in Nat /\ Len(walk'.partial) = last + 1
        /\ \A i \in 1 .. last : walk'.partial[i] = list[i]
        /\ walk'.partial[last + 1] = asked[n]
    BY <2>1, <1>2, <1>5
  <2>3. /\ {list[i] : i \in 1 .. last} = {asked[p] : p \in 1 .. n - 1} \cap fetched
        /\ \A i, j \in 1 .. last : \A p, q \in 1 .. n - 1 :
             i < j /\ list[i] = asked[p] /\ list[j] = asked[q] => p < q
    BY <1>3 DEF ListsFetched
  <2>4. /\ 1 .. n = (1 .. n - 1) \cup {n} /\ 1 .. n \subseteq 1 .. Len(asked)
        /\ n \in Nat /\ n \notin 1 .. n - 1
    BY <1>1, <1>2
  <2>5. 1 .. last + 1 = (1 .. last) \cup {last + 1}
    BY <2>2
  <2> DEFINE longer == walk'.partial
  <2> HIDE DEF list, last, longer, asked, fetched, after, n
  <2>6. {longer[i] : i \in 1 .. last + 1} = {list[i] : i \in 1 .. last} \cup {asked[n]}
    <3>1. {longer[i] : i \in 1 .. last + 1}
            = {longer[i] : i \in 1 .. last} \cup {longer[last + 1]}
      BY <2>5
    <3>. QED BY <3>1, <2>2 DEF longer
  <2>7. {asked[p] : p \in 1 .. n} \cap after
          = ({asked[p] : p \in 1 .. n - 1} \cap fetched) \cup {asked[n]}
    BY <1>7, <2>4
  <2>8. ASSUME NEW i \in 1 .. last + 1, NEW j \in 1 .. last + 1,
               NEW p \in 1 .. n, NEW q \in 1 .. n,
               i < j, longer[i] = asked[p], longer[j] = asked[q]
        PROVE  p < q
    <3>1. i \in 1 .. last /\ list[i] = asked[p]
      BY <2>2, <2>8 DEF longer
    <3>2. asked[p] \in fetched
      BY <3>1, <2>3
    <3>3. p \in 1 .. n - 1
      BY <3>2, <1>7, <2>4
    <3>4. CASE j = last + 1
      BY <3>3, <3>4, <2>2, <2>4, <2>8, <1>1, <1>2 DEF longer, n
    <3>5. CASE j # last + 1
      <4>1. j \in 1 .. last /\ list[j] = asked[q]
        BY <2>2, <2>8, <3>5 DEF longer
      <4>2. q \in 1 .. n - 1
        BY <4>1, <2>3, <1>7, <2>4
      <4>. QED BY <4>1, <4>2, <3>1, <3>3, <2>3, <2>8
    <3>. QED BY <3>4, <3>5
  <2>. QED BY <2>2, <2>3, <2>6, <2>7, <2>8 DEF ListsFetched, longer, last
<1> HIDE DEF asked, fetched, after, n
<1>9. /\ \A i \in n + 1 .. Len(asked) : asked[i] \notin after
      /\ walk.hits <= n /\ walk.hits # n
      /\ \E i \in 1 .. n : asked[i] \in after
      /\ walk.hits = 0 <=> \A i \in 1 .. n : asked[i] \in after
  <2>1. walk.hits \in Nat
    BY <1>1 DEF Walking
  <2>2. 1 .. n = (1 .. n - 1) \cup {n} /\ n \in 1 .. n
    BY <1>1, <1>2
  <2>3. 1 .. n - 1 \subseteq 1 .. Len(asked) /\ n \notin 1 .. n - 1
    BY <1>1, <1>2
  <2>4. \A i \in n + 1 .. Len(asked) : i \in n .. Len(asked) /\ i # n
                                       /\ i \in 1 .. Len(asked)
    BY <1>1, <1>2
  <2>5. walk.hits <= n /\ walk.hits # n
    BY <1>1, <1>2, <1>3, <2>1
  <2>. QED BY <1>3, <1>7, <2>2, <2>3, <2>4, <2>5
<1>10. /\ walk'.position - 1 = n /\ Len(asked) \in Nat /\ n \in Nat
       /\ walk'.since <= insertedLines'
  <2>1. insertedLines \in Nat /\ walk.since \in Nat
    BY <1>1, FifoFacts DEF MemoBase, Walking
  <2>. QED BY <2>1, <1>1, <1>2, <1>3, <1>4, <1>5
<1>11. Sectors[walk'.request] = asked /\ Fetched(walk.since)' = after
  BY <1>5, <1>6 DEF asked
<1>. QED BY <1>3, <1>4, <1>5, <1>8, <1>9, <1>10, <1>11 DEF WalkExact

(* An empty walk has fetched nothing, since no line is as new as the clock. *)
LEMMA BeginWalkExact ==
  ASSUME MemoBase, NEW r \in Request, BeginWalk(r)
  PROVE  WalkExact'
<1>1. walk' = [request |-> r, position |-> 1, hits |-> 0, partial |-> None,
               minimum |-> None, since |-> insertedLines]
  BY DEF BeginWalk
<1>2. UNCHANGED <<born, insertedLines>>
  BY DEF BeginWalk, vars, cacheVars
<1>3. Fetched(walk.since)' = {}
  BY <1>1, <1>2, FifoFacts DEF Fetched, MemoBase
<1>4. insertedLines \in Nat
  BY FifoFacts DEF MemoBase
<1>. QED BY <1>1, <1>2, <1>3, <1>4 DEF WalkExact

(* As long as only lines are accessed, the queue's length is the number of *)
(* lines held, and a full cache is one whose queue is full.                *)
LEMMA LinesOnlyStep ==
  ASSUME FifoInv, LinesOnly, NEW key \in Key, LineHit(key) \/ LineMiss(key)
  PROVE  /\ LinesOnly'
         /\ queue' = Lines!Fill(Capacity, queue, key)
<1>1. /\ QueueType(queue, resident, residentLines, insertedLines)
      /\ Tiles(queue, resident, residentLines, insertedLines)
  BY CacheTyped
<1>2. Lines!Resident(queue) = Tags /\ queue \in Seq(Key)
  <2>1. queue \in Seq(Key)
    BY DEF FifoInv, TypeOK
  <2>2. Lines!Resident(queue) = {queue[i] : i \in 1 .. Len(queue)}
    BY <2>1 DEF Lines!Resident, Lines!Range
  <2>. QED BY <1>1, <2>1, <2>2 DEF Tiles, Tags
<1>3. CASE LineHit(key)
  BY <1>2, <1>3 DEF LineHit, LinesOnly, Lines!Fill, Tags
<1>4. CASE LineMiss(key) /\ Full
  <2>1. Len(queue) > 0 /\ Len(queue) >= Capacity
    BY <1>4, FifoFacts DEF Full, LinesOnly
  <2> DEFINE v == Head(queue)
  <2>2. v \in DOMAIN resident /\ resident[v].lines = 1
    BY <1>1, <2>1 DEF Tiles, QueueType, LinesOnly, Tags
  <2>3. /\ queue' = Append(Tail(queue), key) /\ key \notin Tags
        /\ resident' = Stored(Dropped(resident, v), key,
                              [lines |-> 1, start |-> insertedLines])
        /\ residentLines' = residentLines - 1 + 1
    BY <1>4, <2>2 DEF LineMiss
  <2>4. Len(queue') = Len(queue)
    BY <2>1, <2>3, <1>2
  <2> HIDE DEF v
  <2>5. \A k \in DOMAIN resident' : resident'[k].lines = 1
    BY <2>3, <2>2 DEF Stored, Dropped, LinesOnly, Tags
  <2>. QED BY <1>2, <2>1, <2>3, <2>4, <2>5, FifoFacts DEF LinesOnly, Lines!Fill, Tags
<1>5. CASE LineMiss(key) /\ ~Full
  <2>1. /\ queue' = Append(queue, key) /\ key \notin Tags
        /\ resident' = Stored(resident, key, [lines |-> 1, start |-> insertedLines])
        /\ residentLines' = residentLines + 1
    BY <1>5, FifoFacts DEF LineMiss
  <2>2. ~(Len(queue) >= Capacity)
    BY <1>5 DEF Full, LinesOnly
  <2>3. Len(queue') = Len(queue) + 1
    BY <2>1, <1>2
  <2>4. \A k \in DOMAIN resident' : resident'[k].lines = 1
    BY <2>1 DEF Stored, LinesOnly, Tags
  <2>. QED BY <1>2, <2>1, <2>2, <2>3, <2>4 DEF LinesOnly, Lines!Fill, Tags
<1>. QED BY <1>3, <1>4, <1>5

LEMMA MemoInitInv == MemoInit => MemoInv
<1>1. MemoInit => WalkExact /\ LinesOnly
  BY DEF MemoInit, Init, WalkExact, LinesOnly, Tags
<1>. QED BY <1>1, MemoInitBase DEF MemoInv

LEMMA MemoStepInv == MemoInv /\ [MemoNext]_memoVars => MemoInv'
<1> SUFFICES ASSUME MemoInv, [MemoNext]_memoVars PROVE MemoInv'
  OBVIOUS
<1>1. MemoBase'
  BY MemoStepBase DEF MemoInv
<1>2. ASSUME UNCHANGED vars PROVE LinesOnly'
  BY <1>2 DEF MemoInv, LinesOnly, Tags, vars, cacheVars
<1>3. ASSUME UNCHANGED <<vars, walk>> PROVE WalkExact'
  BY <1>3 DEF MemoInv, WalkExact, Fetched, vars, cacheVars
<1>4. CASE \E r \in Request : MemoHit(r)
  BY <1>1, <1>2, <1>3, <1>4 DEF MemoHit, MemoInv
<1>5. CASE \E r \in Request : BeginWalk(r)
  BY <1>1, <1>2, <1>5, BeginWalkExact DEF BeginWalk, MemoInv
<1>6. CASE WalkHit \/ WalkMiss
  <2>1. WalkExact'
    BY <1>6, WalkHitExact, WalkMissExact DEF MemoInv
  <2>2. Sector \in Key /\ (LineHit(Sector) \/ LineMiss(Sector))
    BY <1>6, WalkFacts DEF WalkHit, WalkMiss, MemoInv
  <2>. QED BY <1>1, <2>1, <2>2, LinesOnlyStep DEF MemoInv, MemoBase
<1>7. CASE EndWalk
  BY <1>1, <1>2, <1>7 DEF EndWalk, MemoInv, WalkExact
<1>8. CASE UNCHANGED memoVars
  BY <1>1, <1>2, <1>3, <1>8 DEF memoVars, MemoInv
<1>. QED BY <1>4, <1>5, <1>6, <1>7, <1>8 DEF MemoNext

(* The invariant of cache, memo and walk together.                         *)
THEOREM RequestMemoInvariant == MemoSpec => []MemoInv
BY MemoInitInv, MemoStepInv, PTL DEF MemoSpec

(* "All hit" answered from the memo is always true of the cache.           *)
THEOREM MemoNeverLies == MemoSpec => []MemoSound
<1>1. MemoInv => MemoSound
  BY DEF MemoInv, MemoBase, MemoBounds, MemoSound
<1>. QED BY <1>1, RequestMemoInvariant, PTL

(* A request whose sectors are all resident when it is answered is         *)
(* remembered.                                                             *)
THEOREM MemoNeverForgets == MemoSpec => []MemoComplete
<1>1. MemoInit => MemoComplete
  BY DEF MemoInit, MemoComplete
<1>2. MemoInv /\ MemoComplete /\ [MemoNext]_memoVars => MemoComplete'
  <2> SUFFICES ASSUME MemoInv, MemoComplete, [MemoNext]_memoVars
               PROVE  MemoComplete'
    OBVIOUS
  <2>1. ASSUME NEW r \in Request, MemoHit(r) PROVE MemoComplete'
    BY <2>1 DEF MemoHit, MemoComplete, Remembered, OldestResidentSequence,
                vars, cacheVars
  <2>2. ASSUME NEW r \in Request, BeginWalk(r) PROVE MemoComplete'
    BY <2>2 DEF BeginWalk, MemoComplete
  <2>3. CASE WalkHit \/ WalkMiss
    <3>1. answer' = None
      BY <2>3 DEF WalkHit, WalkMiss, MemoInv, MemoBase, MemoTypeOK
    <3>. QED BY <3>1 DEF MemoComplete
  <2>4. CASE EndWalk
    <3>1. UNCHANGED <<Tags, OldestResidentSequence>> /\ answer'.request = walk.request
      BY <2>4 DEF EndWalk, vars, cacheVars, Tags, OldestResidentSequence
    <3>2. /\ walk.minimum \in Nat
          /\ SectorsOf(walk.request) \subseteq Tags => Keeps
      BY <2>4, FinishedWalk DEF EndWalk, MemoInv
    <3>3. ASSUME Keeps
          PROVE  /\ walk.request \in DOMAIN memo'
                 /\ memo'[walk.request] >= OldestResidentSequence'
      <4>1. memo' = Stored(memo, walk.request, walk.minimum)
        BY <2>4, <3>3 DEF EndWalk
      <4>2. walk.request \in DOMAIN memo' /\ memo'[walk.request] = walk.minimum
        BY <4>1 DEF Stored
      <4>. QED BY <3>1, <3>3, <4>2 DEF Keeps
    <3>4. MemoComplete' <=>
            (walk' = None /\ answer' # None =>
               (SectorsOf(walk.request) \subseteq Tags' =>
                  walk.request \in DOMAIN memo'
                    /\ memo'[walk.request] >= OldestResidentSequence'))
      BY <3>1 DEF MemoComplete, Remembered, SectorsOf
    <3>. QED BY <3>1, <3>2, <3>3, <3>4
  <2>5. CASE UNCHANGED memoVars
    BY <2>5 DEF memoVars, vars, cacheVars, MemoComplete, Remembered,
                OldestResidentSequence, Tags
  <2>. QED BY <2>1, <2>2, <2>3, <2>4, <2>5 DEF MemoNext
<1>. QED BY <1>1, <1>2, RequestMemoInvariant, PTL DEF MemoSpec

(* What the walk returns is exact: hit, miss or partial as the sectors it  *)
(* fetched say, and the list of the partial answer is the fetched sectors  *)
(* in the order asked.                                                     *)
THEOREM AnswersAreExact == MemoSpec => []AnswerExact
<1>1. MemoInit => AnswerExact
  BY DEF MemoInit, AnswerExact
<1>2. MemoInv /\ AnswerExact /\ [MemoNext]_memoVars => AnswerExact'
  <2> SUFFICES ASSUME MemoInv, AnswerExact, [MemoNext]_memoVars
               PROVE  AnswerExact'
    OBVIOUS
  <2>1. ASSUME NEW r \in Request, MemoHit(r) PROVE AnswerExact'
    <3>1. answer' = [request |-> r, status |-> Hit, partial |-> None,
                     since |-> insertedLines]
      BY <2>1 DEF MemoHit
    <3>2. Fetched(answer.since)' = {}
      BY <2>1, <3>1, FifoFacts
         DEF MemoHit, Fetched, vars, cacheVars, MemoInv, MemoBase
    <3>3. Sectors[r][1] \in SectorsOf(r)
      BY SectorFacts, 1 \in 1 .. Len(Sectors[r]) DEF SectorsOf
    <3>4. SectorsOf(answer.request)' = SectorsOf(r)
      BY <3>1 DEF SectorsOf
    <3>5. answer'.status = 0 /\ SectorsOf(r) # {}
      BY <3>1, <3>3 DEF Hit
    <3>. QED BY <3>2, <3>4, <3>5 DEF AnswerExact, Hit, Miss, Partial
  <2>2. CASE \E r \in Request : BeginWalk(r)
    BY <2>2 DEF BeginWalk, AnswerExact
  <2>3. CASE WalkHit \/ WalkMiss
    <3>1. answer' = None
      BY <2>3 DEF WalkHit, WalkMiss, MemoInv, MemoBase, MemoTypeOK
    <3>. QED BY <3>1 DEF AnswerExact
  <2>4. CASE EndWalk
    <3> DEFINE r       == walk.request
               asked   == Sectors[r]
               fetched == Fetched(walk.since)
    <3>1. /\ r \in Request /\ walk \in Walking /\ walk # None
          /\ walk.position - 1 = Len(asked) /\ Len(asked) \in Nat \ {0}
      BY <2>4, FinishedWalk, SectorFacts
         DEF EndWalk, MemoInv, MemoBase, MemoTypeOK
    <3>2. /\ answer'.request = r /\ answer'.since = walk.since
          /\ answer'.status = IF walk.hits = Len(asked) THEN Hit
                              ELSE IF walk.hits = 0 THEN Miss ELSE Partial
          /\ answer'.partial = IF walk.hits \in 1 .. Len(asked) - 1
                               THEN walk.partial ELSE None
      BY <2>4 DEF EndWalk
    <3>3. Fetched(answer.since)' = fetched
      BY <2>4, <3>2 DEF EndWalk, Fetched, vars, cacheVars
    <3>4. /\ walk.hits \in Nat /\ walk.hits <= Len(asked)
          /\ walk.hits = 0 <=> \A i \in 1 .. Len(asked) : asked[i] \in fetched
          /\ walk.hits = Len(asked)
               <=> \A i \in 1 .. Len(asked) : asked[i] \notin fetched
          /\ walk.hits > 0 => ListsFetched(walk.partial, asked, Len(asked), fetched)
      BY <3>1 DEF MemoInv, WalkExact, Walking
    <3>5. SectorsOf(r) = {asked[i] : i \in 1 .. Len(asked)}
      BY DEF SectorsOf
    <3>6. /\ Sectors[answer'.request] = asked
          /\ SectorsOf(answer.request)' = SectorsOf(r)
      BY <3>2 DEF SectorsOf
    <3> HIDE DEF r, asked, fetched
    <3>7. /\ answer'.status = Hit <=> SectorsOf(r) \cap fetched = {}
          /\ answer'.status = Miss <=> SectorsOf(r) \cap fetched = SectorsOf(r)
      BY <3>1, <3>2, <3>4, <3>5 DEF Hit, Miss, Partial
    <3>8. answer'.status = Partial =>
            ListsFetched(answer'.partial, asked, Len(asked), fetched)
      BY <3>1, <3>2, <3>4 DEF Hit, Miss, Partial
    <3>. QED BY <3>3, <3>6, <3>7, <3>8 DEF AnswerExact
  <2>5. CASE UNCHANGED memoVars
    BY <2>5 DEF memoVars, vars, cacheVars, AnswerExact, Fetched, SectorsOf
  <2>. QED BY <2>1, <2>2, <2>3, <2>4, <2>5 DEF MemoNext
<1>. QED BY <1>1, <1>2, RequestMemoInvariant, PTL DEF MemoSpec

(* The line calls of the cache move its queue as the session's model of it *)
(* does, with evictions, for every capacity.                               *)
THEOREM QueueIsFilled == MemoSpec => AccessesFill
<1>1. MemoInv /\ [MemoNext]_memoVars =>
        [walk # None /\ walk' # None =>
           queue' = Lines!Fill(Capacity, queue, Sector)]_memoVars
  <2> SUFFICES ASSUME MemoInv, MemoNext, walk # None, walk' # None
               PROVE  queue' = Lines!Fill(Capacity, queue, Sector)
    BY DEF memoVars
  <2>1. WalkHit \/ WalkMiss
    BY DEF MemoNext, MemoHit, BeginWalk, EndWalk
  <2>2. Sector \in Key /\ (LineHit(Sector) \/ LineMiss(Sector))
    BY <2>1, WalkFacts DEF WalkHit, WalkMiss, MemoInv
  <2>. QED BY <2>2, LinesOnlyStep DEF MemoInv, MemoBase
<1>. QED BY <1>1, RequestMemoInvariant, PTL DEF MemoSpec, AccessesFill
=============================================================================
