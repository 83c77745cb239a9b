----------------------------- MODULE RequestMemo -----------------------------
(***************************************************************************)
(* The operator-level L2 walk of bank_oracle/gemm.py: _fifo_sector_request *)
(* asks one FifoCache for the sectors of a whole tile request and keeps    *)
(* resident_memo, which lets a repeated request be answered "all hit"      *)
(* without touching the cache.  _build_gemm_l2_trace issues the requests;  *)
(* here any request may come next.                                         *)
(***************************************************************************)
EXTENDS FifoCache

CONSTANTS
  Request,     \* request ids: operand and tile coordinates
  Sectors      \* Request -> its sectors, ascending and distinct (np.unique)

ASSUME RequestAssumption ==
  /\ Sectors \in [Request -> Seq(Key) \ {<<>>}]
  /\ \A r \in Request : \A i, j \in 1 .. Len(Sectors[r]) :
       Sectors[r][i] = Sectors[r][j] => i = j
  /\ None \notin Nat
  /\ None \notin Seq(Key)

VARIABLES
  memo,        \* resident_memo: request -> least sequence of its sectors
  walk,        \* the sector loop in progress, or None
  answer       \* what the last request returned, or None

memoVars == <<vars, memo, walk, answer>>

Lines == INSTANCE LineFifo

Hit     == 0
Miss    == 1
Partial == 2

SectorsOf(r) == {Sectors[r][i] : i \in 1 .. Len(Sectors[r])}

Smaller(a, b) == IF a < b THEN a ELSE b

MemoInit ==
  /\ Init
  /\ memo = [r \in {} |-> None]
  /\ walk = None
  /\ answer = None

(* Wrong form of Remembered: a memo entry is trusted for as long as it is  *)
(* there.                                                                  *)
RememberedForever(r) == r \in DOMAIN memo

(* memo_sequence >= cache.oldest_resident_sequence                         *)
Remembered(r) == r \in DOMAIN memo /\ memo[r] >= OldestResidentSequence

(* The early return: full hit, the cache is not touched.                   *)
MemoHit(r) ==
  /\ walk = None
  /\ Remembered(r)
  /\ answer' = [request |-> r, status |-> Hit, partial |-> None,
                since |-> insertedLines]
  /\ UNCHANGED <<vars, memo, walk>>

BeginWalk(r) ==
  /\ walk = None
  /\ ~Remembered(r)
  /\ insertedLines + Len(Sectors[r]) <= MaxInserted
  /\ walk' = [request |-> r, position |-> 1, hits |-> 0, partial |-> None,
              minimum |-> None, since |-> insertedLines]
  /\ answer' = None
  /\ UNCHANGED <<vars, memo>>

Sector == Sectors[walk.request][walk.position]

(* Wrong form of LeastSequence: keep the last sector's sequence.           *)
LatestSequence == lastLineSequence'

(* minimum_sequence after the sector at hand was accessed.                 *)
LeastSequence == IF walk.minimum = None THEN lastLineSequence'
                 ELSE Smaller(walk.minimum, lastLineSequence')

(* Wrong form of FirstHit: the misses before the first hit are dropped.    *)
FirstHitForgets == <<>>

(* All preceding lines missed; they are materialized at the first hit.     *)
FirstHit == SubSeq(Sectors[walk.request], 1, walk.position - 1)

WalkHit ==
  /\ walk # None
  /\ walk.position <= Len(Sectors[walk.request])
  /\ LineHit(Sector)
  /\ walk' = [walk EXCEPT
                !.position = @ + 1,
                !.hits = @ + 1,
                !.minimum = LeastSequence,
                !.partial = IF walk.hits = 0 THEN FirstHit ELSE @]
  /\ UNCHANGED <<memo, answer>>

WalkMiss ==
  /\ walk # None
  /\ walk.position <= Len(Sectors[walk.request])
  /\ LineMiss(Sector)
  /\ walk' = [walk EXCEPT
                !.position = @ + 1,
                !.minimum = LeastSequence,
                !.partial = IF walk.hits > 0 THEN Append(@, Sector) ELSE @]
  /\ UNCHANGED <<memo, answer>>

(* Wrong form of Keeps: one inserted or evicted line too strict.           *)
KeepsStrictly == walk.minimum > OldestResidentSequence

(* The walk saw every sector resident at its end.                          *)
Keeps == walk.minimum >= OldestResidentSequence

EndWalk ==
  LET r == walk.request IN
  /\ walk # None
  /\ walk.position = Len(Sectors[r]) + 1
  /\ memo' = IF Keeps THEN Stored(memo, r, walk.minimum) ELSE Dropped(memo, r)
  /\ answer' = [request |-> r,
                status  |-> IF walk.hits = Len(Sectors[r]) THEN Hit
                            ELSE IF walk.hits = 0 THEN Miss ELSE Partial,
                partial |-> IF walk.hits \in 1 .. Len(Sectors[r]) - 1
                            THEN walk.partial ELSE None,
                since   |-> walk.since]
  /\ walk' = None
  /\ UNCHANGED vars

MemoNext ==
  \/ \E r \in Request : MemoHit(r) \/ BeginWalk(r)
  \/ WalkHit
  \/ WalkMiss
  \/ EndWalk

MemoSpec == MemoInit /\ [][MemoNext]_memoVars
------------------------------------------------------------------------------
Walking == [request : Request, position : Nat \ {0}, hits : Nat,
            partial : Seq(Key) \cup {None}, minimum : Nat \cup {None},
            since : Nat]

Answered == [request : Request, status : {Hit, Miss, Partial},
             partial : Seq(Key) \cup {None}, since : Nat]

MemoTypeOK ==
  /\ TypeOK
  /\ pending = None
  /\ DOMAIN memo \subseteq Request /\ memo \in [DOMAIN memo -> Nat]
  /\ walk \in Walking \cup {None}
  /\ walk # None => walk.position <= Len(Sectors[walk.request]) + 1
  /\ answer \in Answered \cup {None}
  /\ walk # None => answer = None

(* A memo entry the code would trust is right: every sector of the request *)
(* is resident, however many other requests evicted and refilled lines     *)
(* since the entry was made, and also in the middle of another walk.       *)
MemoSound ==
  \A r \in Request : Remembered(r) => SectorsOf(r) \subseteq Tags

(* And a request that is wholly resident when its walk ends is remembered, *)
(* so a repeated request is never walked twice in a row.                   *)
MemoComplete ==
  walk = None /\ answer # None =>
    (SectorsOf(answer.request) \subseteq Tags => Remembered(answer.request))

(* Part of the invariant: once a sector hit, the list of misses exists, and *)
(* a walk that has begun has a least sequence, as the loop asserts.         *)
WalkAssertions ==
  walk # None =>
    /\ walk.hits > 0 => walk.partial # None
    /\ walk.position > 1 => walk.minimum # None

(* The strengthening of both: no sector of a trusted request is older than *)
(* the sequence its entry recorded, and the least sequence of a walk in    *)
(* progress is the age of one of the sectors it passed and of none older.  *)
MemoBounds ==
  \A r \in Request : Remembered(r) =>
    \A s \in SectorsOf(r) : s \in Tags /\ resident[s].start >= memo[r]

Passed == {Sectors[walk.request][i] : i \in 1 .. walk.position - 1}

WalkBounds ==
  /\ walk # None /\ walk.position = 1 => walk.minimum = None
  /\ walk # None /\ walk.position > 1 =>
    /\ walk.minimum \in Nat
    /\ \A s \in Passed : born[s] >= walk.minimum
    /\ \E s \in Passed : born[s] = walk.minimum

(* What a walk knows so far: it has fetched exactly the sectors it missed,  *)
(* none of those still to come, and lists them once one was hit.           *)
Fetched(since) == {s \in Key : born[s] >= since}

(* A list names the first n sectors of those asked for that were fetched,  *)
(* each once and in the order asked.                                       *)
ListsFetched(list, asked, n, fetched) ==
  /\ {list[i] : i \in 1 .. Len(list)} = {asked[p] : p \in 1 .. n} \cap fetched
  /\ \A i, j \in 1 .. Len(list) : \A p, q \in 1 .. n :
       i < j /\ list[i] = asked[p] /\ list[j] = asked[q] => p < q

WalkExact ==
  walk # None =>
    LET asked   == Sectors[walk.request]
        fetched == Fetched(walk.since)
        passed  == walk.position - 1
    IN  /\ walk.since <= insertedLines /\ walk.hits <= passed
        /\ \A i \in walk.position .. Len(asked) : asked[i] \notin fetched
        /\ walk.hits = 0 <=> \A i \in 1 .. passed : asked[i] \in fetched
        /\ walk.hits = passed <=> \A i \in 1 .. passed : asked[i] \notin fetched
        /\ walk.hits > 0 => ListsFetched(walk.partial, asked, passed, fetched)

(* No block was ever inserted: every footprint is one line.                *)
LinesOnly ==
  /\ residentLines = Len(queue)
  /\ \A k \in Tags : resident[k].lines = 1

MemoBase ==
  FifoInv /\ MemoTypeOK /\ MemoBounds /\ WalkBounds /\ WalkAssertions

MemoInv == MemoBase /\ WalkExact /\ LinesOnly

(* The status and the list of missing sectors returned for a request name  *)
(* exactly the sectors this request brought in from DRAM, in their order,  *)
(* although an early sector may be evicted again by a later one.           *)
AnswerExact ==
  answer # None =>
    LET asked   == Sectors[answer.request]
        fetched == Fetched(answer.since)
        missing == SectorsOf(answer.request) \cap fetched
    IN  /\ answer.status = Hit     <=> missing = {}
        /\ answer.status = Miss    <=> missing = SectorsOf(answer.request)
        /\ answer.status = Partial =>
             ListsFetched(answer.partial, asked, Len(asked), fetched)

(* What DistributedL2 relies on: as long as only lines are accessed, the   *)
(* cache is its queue, and an access moves it as LineFifo!Fill says.       *)
AccessesFill ==
  [][walk # None /\ walk' # None =>
       queue' = Lines!Fill(Capacity, queue, Sector)]_memoVars
=============================================================================
