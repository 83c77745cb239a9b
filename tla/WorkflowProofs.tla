---------------------------- MODULE WorkflowProofs ----------------------------
(***************************************************************************)
(* Theorems about the artifact workflow, for every list of stages that     *)
(* ends with the figures and any number of commands in one result tree.    *)
(***************************************************************************)
EXTENDS Workflow, TLAPS

Good(r) == [run |-> r, says |-> "good"]

(* The numbers of runs, and the rows of a running workflow, which are in   *)
(* the ledger from the first one on.                                       *)
Numbered ==
  /\ pc <= Len(Script[Stage]) + 1
  /\ ledger.run <= run /\ ledger.run \notin alone
  /\ \A a \in alone : a <= run
  /\ mode = "alone" => run \in alone
  /\ mode \in {"reproduce", "returned"} => run # 0 /\ run \notin alone

Collected ==
  /\ Len(ledger.rows) <= Len(plan)
  /\ mode \in {"reproduce", "returned"} /\ rows # <<>> =>
       ledger = [run |-> run, rows |-> rows]
  /\ mode = "reproduce" => Len(rows) = at - 1
  /\ mode = "returned" => Len(rows) = Len(plan)
  /\ \A k \in DOMAIN rows : rows[k]

(* Stages that never mark a FAIL: a check ends them first.                 *)
NeverFails(s) ==
  \/ s = "figures"
  \/ \A i \in DOMAIN Script[s] :
       Script[s][i] = "mark" => \E j \in 1 .. i - 1 : Script[s][j] = "check"

(* A complete ledger comes with figures of its own run's points.           *)
Drawn ==
  Len(ledger.rows) = Len(plan) /\ ledger.rows[Len(plan)] =>
    \A k \in 2 .. Len(plan) - 1 :
      disk[plan[k]]["points"].run = ledger.run => drawn[plan[k]] = ledger.run

(* Where results are of the ledger's run, so is the root PASS above them.  *)
Rooted ==
  \A k \in DOMAIN ledger.rows :
    /\ ledger.rows[k] /\ k > 1 /\ plan[k] = "fig22"
    /\ disk[plan[k]]["points"].run = ledger.run
    => disk[plan[k]]["root"] = Good(ledger.run)

(* What is true of the result tree whatever is under way.                  *)
Settled ==
  /\ \A s \in Range(plan), f \in Files : disk[s][f].run <= run
  /\ LedgerMatchesDisk
  /\ \A s \in Range(plan) : NeverFails(s) => disk[s]["fail"] = Absent
  /\ PassSpeaksForResults
  /\ \A s \in Range(plan) \cap {"fig23", "table4"} : disk[s]["points"].says # "bad"
  /\ Drawn /\ Rooted

(* What a stage leaves that returned well in run r.                        *)
Fresh(s, r) ==
  /\ disk[s]["points"] = Good(r) /\ disk[s]["summary"] = Good(r)
  /\ s \in Marked => disk[s]["pass"] = Good(r)
  /\ s = "fig22" => disk[s]["root"] = Good(r)
  /\ disk[s]["fail"] = Absent

(* What the stage under way has already done.                              *)
Done(op) == \E i \in 1 .. pc - 1 : Script[Stage][i] = op

Stamped ==
  \E i \in 1 .. pc - 1 :
    /\ Script[Stage][i] \in {"mark", "stamp"}
    /\ \A j \in i + 1 .. pc - 1 : Script[Stage][j] # "clear"

SoFar ==
  /\ outcome = "good" =>
       /\ \A f \in {"points", "summary"} : Done(f) => disk[Stage][f] = Good(run)
       /\ Stamped => disk[Stage]["pass"] = Good(run)
       /\ Done("clear") \/ Done("drop") => disk[Stage]["fail"] = Absent
       /\ mode = "reproduce" /\ Done("root") => disk[Stage]["root"] = Good(run)
  /\ outcome = "bad" /\ ~Ended =>
       Stage # "figures" /\ Done("evaluate") /\ (Done("check") => Stage = "fig08")
  /\ Stage \in {"fig12", "fig22"} /\ Done("clear") /\ ~Done("mark") =>
       disk[Stage]["pass"] = Absent
  /\ mode = "reproduce" /\ Stage = "figures" /\ outcome = "good" /\ pc > 1 =>
       \A k \in 1 .. at - 1 : drawn[plan[k]] = run

Underway ==
  /\ Running => SoFar
  /\ mode = "reproduce" => \A k \in 1 .. at - 1 : Fresh(plan[k], run)
  /\ mode = "returned" => \A k \in DOMAIN plan : Fresh(plan[k], run)

WorkflowInv == TypeOK /\ Numbered /\ Collected /\ Settled /\ Underway
------------------------------------------------------------------------------
(* What the proofs use of the scripts, found by looking at each of them.   *)
SoundScript(s) ==
  LET ops == Script[s] IN
  /\ Len(ops) \in 4 .. 7 /\ DOMAIN ops = 1 .. Len(ops)
  /\ \A f \in {"points", "summary"} : \E i \in DOMAIN ops : ops[i] = f
  /\ s \in Marked =>
       \E i \in DOMAIN ops : /\ ops[i] \in {"mark", "stamp"}
                             /\ \A j \in i + 1 .. Len(ops) : ops[j] # "clear"
  /\ \/ NeverFails(s)
     \/ \E i \in DOMAIN ops : ops[i] \in {"clear", "drop"}
  /\ s \in {"fig12", "fig22"} =>
       /\ \A i \in DOMAIN ops : ops[i] # "stamp" /\ ops[i] # "drop"
       /\ \A i \in DOMAIN ops : ops[i] \in {"points", "summary", "mark"} =>
            /\ \E j \in 1 .. i - 1 : ops[j] = "clear"
            /\ \A j \in 1 .. i - 1 : ops[j] # "mark"
       /\ \A i \in DOMAIN ops : ops[i] = "mark" =>
            \A f \in {"points", "summary"} : \E j \in 1 .. i - 1 : ops[j] = f
  /\ s = "fig22" => \E i \in DOMAIN ops : ops[i] = "root"
  /\ \A i \in DOMAIN ops : ops[i] = "root" =>
       /\ s = "fig22"
       /\ \A op \in {"points", "check"} : \E j \in 1 .. i - 1 : ops[j] = op
  /\ s \in {"fig23", "table4"} =>
       \A i \in DOMAIN ops : ops[i] = "points" => \E j \in 1 .. i - 1 : ops[j] = "check"
  /\ s = "figures" => ops[1] = "evaluate"
  /\ \A i \in DOMAIN ops : ops[i] = "evaluate" =>
       \A j \in 1 .. i - 1 : ops[j] \notin {"evaluate", "check"}
  /\ \A i \in DOMAIN ops : ops[i] = "check" =>
       \E j \in 1 .. i - 1 : ops[j] = "evaluate"

LEMMA Reads4 ==
  ASSUME NEW a, NEW b, NEW c, NEW d, NEW ops, ops = <<a, b, c, d>>
  PROVE  /\ Len(ops) = 4 /\ DOMAIN ops = 1 .. 4
         /\ ops[1] = a /\ ops[2] = b /\ ops[3] = c /\ ops[4] = d
         /\ \A i \in 1 .. 4 : i = 1 \/ i = 2 \/ i = 3 \/ i = 4
OBVIOUS

LEMMA Reads5 ==
  ASSUME NEW a, NEW b, NEW c, NEW d, NEW e, NEW ops, ops = <<a, b, c, d, e>>
  PROVE  /\ Len(ops) = 5 /\ DOMAIN ops = 1 .. 5
         /\ ops[1] = a /\ ops[2] = b /\ ops[3] = c /\ ops[4] = d /\ ops[5] = e
         /\ \A i \in 1 .. 5 : i = 1 \/ i = 2 \/ i = 3 \/ i = 4 \/ i = 5
OBVIOUS

LEMMA Reads6 ==
  ASSUME NEW a, NEW b, NEW c, NEW d, NEW e, NEW g, NEW ops, ops = <<a, b, c, d, e, g>>
  PROVE  /\ Len(ops) = 6 /\ DOMAIN ops = 1 .. 6
         /\ ops[1] = a /\ ops[2] = b /\ ops[3] = c /\ ops[4] = d /\ ops[5] = e
         /\ ops[6] = g
         /\ \A i \in 1 .. 6 : i = 1 \/ i = 2 \/ i = 3 \/ i = 4 \/ i = 5 \/ i = 6
OBVIOUS

LEMMA Reads7 ==
  ASSUME NEW a, NEW b, NEW c, NEW d, NEW e, NEW g, NEW h, NEW ops,
         ops = <<a, b, c, d, e, g, h>>
  PROVE  /\ Len(ops) = 7 /\ DOMAIN ops = 1 .. 7
         /\ ops[1] = a /\ ops[2] = b /\ ops[3] = c /\ ops[4] = d /\ ops[5] = e
         /\ ops[6] = g /\ ops[7] = h
         /\ \A i \in 1 .. 7 :
              i = 1 \/ i = 2 \/ i = 3 \/ i = 4 \/ i = 5 \/ i = 6 \/ i = 7
OBVIOUS

LEMMA ScriptsAreSound == \A s \in Stages : SoundScript(s)
<1>1. Stages = {"fig08", "fig09", "fig10", "fig12", "fig13", "fig15", "fig16",
               "fig17", "fig18_20", "fig21", "fig22", "fig23", "table4", "figures"}
  BY DEF Stages, Script
<1>2. SoundScript("fig08")
  <2> DEFINE ops == Script["fig08"]
  <2>1. ops = <<"evaluate", "points", "summary", "check", "plot", "stamp">>
    BY DEF Script, Fig08
  <2> HIDE DEF ops
  <2> QED BY <2>1, Reads6 DEF SoundScript, NeverFails, Marked, ops
<1>3. SoundScript("fig09")
  <2> DEFINE ops == Script["fig09"]
  <2>1. ops = <<"evaluate", "points", "summary", "mark", "drop">>
    BY DEF Script, Fig09
  <2> HIDE DEF ops
  <2> QED BY <2>1, Reads5 DEF SoundScript, NeverFails, Marked, ops
<1>4. SoundScript("fig10")
  <2> DEFINE ops == Script["fig10"]
  <2>1. ops = <<"evaluate", "points", "summary", "stamp">>
    BY DEF Script, Fig10
  <2> HIDE DEF ops
  <2> QED BY <2>1, Reads4 DEF SoundScript, NeverFails, Marked, ops
<1>5. SoundScript("fig12")
  <2> DEFINE ops == Script["fig12"]
  <2>1. ops = <<"clear", "evaluate", "points", "summary", "mark">>
    BY DEF Script, Fig12
  <2> HIDE DEF ops
  <2> QED BY <2>1, Reads5 DEF SoundScript, NeverFails, Marked, ops
<1>6. SoundScript("fig13")
  <2> DEFINE ops == Script["fig13"]
  <2>1. ops = <<"evaluate", "points", "summary", "check">>
    BY DEF Script, Fig13
  <2> HIDE DEF ops
  <2> QED BY <2>1, Reads4 DEF SoundScript, NeverFails, Marked, ops
<1>7. SoundScript("fig15")
  <2> DEFINE ops == Script["fig15"]
  <2>1. ops = <<"evaluate", "points", "check", "summary">>
    BY DEF Script, Fig15
  <2> HIDE DEF ops
  <2> QED BY <2>1, Reads4 DEF SoundScript, NeverFails, Marked, ops
<1>8. SoundScript("fig16")
  <2> DEFINE ops == Script["fig16"]
  <2>1. ops = <<"evaluate", "points", "screen", "summary", "check">>
    BY DEF Script, Fig16
  <2> HIDE DEF ops
  <2> QED BY <2>1, Reads5 DEF SoundScript, NeverFails, Marked, ops
<1>9. SoundScript("fig17")
  <2> DEFINE ops == Script["fig17"]
  <2>1. ops = <<"evaluate", "points", "summary", "check">>
    BY DEF Script, Fig17
  <2> HIDE DEF ops
  <2> QED BY <2>1, Reads4 DEF SoundScript, NeverFails, Marked, ops
<1>10. SoundScript("fig18_20")
  <2> DEFINE ops == Script["fig18_20"]
  <2>1. ops = <<"evaluate", "points", "summary", "drop", "mark">>
    BY DEF Script, Fig18_20
  <2> HIDE DEF ops
  <2> QED BY <2>1, Reads5 DEF SoundScript, NeverFails, Marked, ops
<1>11. SoundScript("fig21")
  <2> DEFINE ops == Script["fig21"]
  <2>1. ops = <<"evaluate", "points", "summary", "check">>
    BY DEF Script, Fig21
  <2> HIDE DEF ops
  <2> QED BY <2>1, Reads4 DEF SoundScript, NeverFails, Marked, ops
<1>12. SoundScript("fig22")
  <2> DEFINE ops == Script["fig22"]
  <2>1. ops = <<"evaluate", "clear", "points", "summary", "mark", "check", "root">>
    BY DEF Script, Fig22
  <2> HIDE DEF ops
  <2> QED BY <2>1, Reads7 DEF SoundScript, NeverFails, Marked, ops
<1>13. SoundScript("fig23")
  <2> DEFINE ops == Script["fig23"]
  <2>1. ops = <<"evaluate", "check", "points", "summary", "mark">>
    BY DEF Script, Fig23
  <2> HIDE DEF ops
  <2> QED BY <2>1, Reads5 DEF SoundScript, NeverFails, Marked, ops
<1>14. SoundScript("table4")
  <2> DEFINE ops == Script["table4"]
  <2>1. ops = <<"evaluate", "check", "points", "summary", "mark">>
    BY DEF Script, Table4
  <2> HIDE DEF ops
  <2> QED BY <2>1, Reads5 DEF SoundScript, NeverFails, Marked, ops
<1>15. SoundScript("figures")
  <2> DEFINE ops == Script["figures"]
  <2>1. ops = <<"evaluate", "points", "summary", "mark">>
    BY DEF Script, Figures
  <2> HIDE DEF ops
  <2> QED BY <2>1, Reads4 DEF SoundScript, NeverFails, Marked, ops
<1> QED BY <1>1, <1>2, <1>3, <1>4, <1>5, <1>6, <1>7, <1>8, <1>9, <1>10, <1>11, <1>12, <1>13, <1>14, <1>15
------------------------------------------------------------------------------
(* The plan and the stage under way.                                       *)
LEMMA PlanFacts ==
  ASSUME TypeOK
  PROVE  /\ plan \in Seq(Stages) /\ Len(plan) \in Nat \ {0}
         /\ DOMAIN plan = 1 .. Len(plan) /\ plan[Len(plan)] = "figures"
         /\ \A i, j \in DOMAIN plan : plan[i] = plan[j] => i = j
         /\ \A i \in DOMAIN plan : plan[i] \in Range(plan) /\ plan[i] \in Stages
         /\ \A s \in Range(plan) : \E i \in DOMAIN plan : plan[i] = s
         /\ at \in 1 .. Len(plan) /\ Stage = plan[at] /\ Stage \in Range(plan)
         /\ SoundScript(Stage)
         /\ MaxRuns \in Nat
<1>1. plan \in Plans
  BY DEF TypeOK
<1>2. /\ plan \in Seq(Stages) /\ plan # <<>> /\ plan[Len(plan)] = "figures"
      /\ \A i, j \in DOMAIN plan : plan[i] = plan[j] => i = j
  BY <1>1, WorkflowAssumption
<1>3. DOMAIN plan = 1 .. Len(plan) /\ Len(plan) \in Nat \ {0}
  BY <1>2
<1>4. /\ \A i \in DOMAIN plan : plan[i] \in Range(plan) /\ plan[i] \in Stages
      /\ \A s \in Range(plan) : \E i \in DOMAIN plan : plan[i] = s
  BY <1>2 DEF Range
<1>5. at \in DOMAIN plan /\ Stage = plan[at]
  BY DEF TypeOK, Stage
<1>6. SoundScript(Stage)
  BY <1>4, <1>5, ScriptsAreSound
<1> QED BY <1>2, <1>3, <1>4, <1>5, <1>6, WorkflowAssumption

(* What a step of a stage, or its death, may do to the files.              *)
Written(f, says) == disk'[Stage][f] = [run |-> run, says |-> says]
Kept(f) == disk'[Stage][f] = disk[Stage][f]

Touched ==
  /\ disk' \in [Range(plan) -> [Files -> Content \cup {Absent}]]
  /\ \A s \in Range(plan) \ {Stage} : disk'[s] = disk[s]
  /\ \A f \in {"points", "summary"} :
       Kept(f) \/ (Op = f /\ (Written(f, outcome) \/ Written(f, "torn")))
  /\ \/ Kept("pass")
     \/ Op \in {"mark", "stamp"} /\ (Written("pass", outcome) \/ Written("pass", "torn"))
     \/ Op \in {"clear", "drop"} /\ disk'[Stage]["pass"] = Absent
  /\ \/ Kept("fail")
     \/ disk'[Stage]["fail"] = Absent
     \/ Op = "mark" /\ outcome = "bad" /\ disk'[Stage]["fail"].run = run
  /\ Kept("plot") \/ disk'[Stage]["plot"].run = run
  /\ Kept("root") \/ (Op = "root" /\ disk'[Stage]["root"].run = run)
  /\ \/ drawn' = drawn
     \/ /\ Stage = "figures" /\ Op = "evaluate" /\ disk' = disk
        /\ drawn' = [s \in Range(plan) |-> disk[s]["points"].run]

LEMMA PutTouches ==
  ASSUME TypeOK, run \in Runs, NEW f \in Files, NEW says \in {"good", "bad", "torn"},
         Put(f, says)
  PROVE  /\ disk' \in [Range(plan) -> [Files -> Content \cup {Absent}]]
         /\ \A s \in Range(plan) \ {Stage} : disk'[s] = disk[s]
         /\ \A g \in Files \ {f} : Kept(g)
         /\ Written(f, says)
<1>1. Stage \in Range(plan)
  BY PlanFacts
<1>2. disk \in [Range(plan) -> [Files -> Content \cup {Absent}]]
  BY DEF TypeOK
<1>3. [run |-> run, says |-> says] \in Content
  BY DEF Content
<1> QED BY <1>1, <1>2, <1>3 DEF Put, Kept, Written

LEMMA DeleteTouches ==
  ASSUME TypeOK, NEW fs, Delete(fs)
  PROVE  /\ disk' \in [Range(plan) -> [Files -> Content \cup {Absent}]]
         /\ \A s \in Range(plan) \ {Stage} : disk'[s] = disk[s]
         /\ \A g \in Files \ fs : Kept(g)
         /\ \A g \in Files \cap fs : disk'[Stage][g] = Absent
<1>1. Stage \in Range(plan)
  BY PlanFacts
<1>2. disk \in [Range(plan) -> [Files -> Content \cup {Absent}]]
  BY DEF TypeOK
<1> QED BY <1>1, <1>2 DEF Delete, Kept

LEMMA InterruptTouches ==
  ASSUME TypeOK, run \in Runs, Interrupt, drawn' = drawn
  PROVE  Touched
<1>1. disk \in [Range(plan) -> [Files -> Content \cup {Absent}]]
  BY DEF TypeOK
<1>2. CASE UNCHANGED disk
  BY <1>1, <1>2 DEF Touched, Kept
<1>3. CASE \E f \in Target : Put(f, "torn")
  <2>1. PICK f \in Target : Put(f, "torn")
    BY <1>3
  <2>2. /\ f \in Files
        /\ f \in {"points", "summary"} => Op = f
        /\ f = "pass" => Op \in {"mark", "stamp"}
        /\ f = "fail" => Op = "mark" /\ outcome = "bad"
        /\ f = "root" => Op = "root"
    BY <2>1 DEF Target, Files, TypeOK
  <2>3. /\ disk' \in [Range(plan) -> [Files -> Content \cup {Absent}]]
        /\ \A s \in Range(plan) \ {Stage} : disk'[s] = disk[s]
        /\ \A g \in Files \ {f} : Kept(g)
        /\ Written(f, "torn")
    BY <2>1, <2>2, PutTouches
  <2> QED BY <2>2, <2>3, drawn' = drawn DEF Touched, Written, Files
<1> QED BY <1>2, <1>3 DEF Interrupt

LEMMA StageTouches ==
  ASSUME TypeOK, run \in Runs, Evaluate \/ Write \/ Mark \/ Unlink \/ Extra \/ Check \/ StageDies
  PROVE  Touched
<1>1. disk \in [Range(plan) -> [Files -> Content \cup {Absent}]]
      /\ outcome \in {"good", "bad"}
      /\ Files = {"points", "summary", "pass", "fail", "plot", "root"}
  BY DEF TypeOK, Files
<1>2. CASE Evaluate
  BY <1>1, <1>2 DEF Evaluate, Step, Touched, Kept
<1>3. CASE Write
  <2>1. PICK f \in {"points", "summary"} : Op = f /\ Put(f, outcome)
    BY <1>3 DEF Write, Step
  <2>2. drawn' = drawn
    BY <1>3 DEF Write
  <2> QED BY <1>1, <2>1, <2>2, PutTouches DEF Touched
<1>4. CASE Mark
  <2>1. drawn' = drawn
    BY <1>4 DEF Mark
  <2>2. PICK f \in {"pass", "fail"} :
          /\ Put(f, outcome) /\ Op \in {"mark", "stamp"}
          /\ f = "fail" => Op = "mark" /\ outcome = "bad"
    BY <1>1, <1>4 DEF Mark, Step
  <2>3. /\ disk' \in [Range(plan) -> [Files -> Content \cup {Absent}]]
        /\ \A s \in Range(plan) \ {Stage} : disk'[s] = disk[s]
        /\ \A g \in Files \ {f} : Kept(g)
        /\ Written(f, outcome)
    BY <1>1, <2>2, PutTouches
  <2> QED BY <1>1, <2>1, <2>2, <2>3 DEF Touched, Written
<1>5. CASE Unlink
  <2>1. drawn' = drawn
    BY <1>5 DEF Unlink
  <2>2. PICK fs \in SUBSET {"pass", "fail"} : Delete(fs) /\ Op \in {"clear", "drop"}
    <3>1. CASE Step("clear") /\ Delete({"pass", "fail"})
      BY <3>1 DEF Step
    <3>2. CASE Step("drop") /\ Delete(IF outcome = "good" THEN {"fail"} ELSE {"pass"})
      BY <3>2 DEF Step
    <3> QED BY <1>5, <3>1, <3>2 DEF Unlink
  <2>3. /\ disk' \in [Range(plan) -> [Files -> Content \cup {Absent}]]
        /\ \A s \in Range(plan) \ {Stage} : disk'[s] = disk[s]
        /\ \A g \in Files \ fs : Kept(g)
        /\ \A g \in Files \cap fs : disk'[Stage][g] = Absent
    BY <2>2, DeleteTouches
  <2> QED BY <1>1, <2>1, <2>2, <2>3 DEF Touched
<1>6. CASE Check
  BY <1>1, <1>6 DEF Check, Touched, Kept
<1>7. CASE StageDies
  BY <1>7, InterruptTouches DEF StageDies
<1>8. CASE Extra
  <2>1. drawn' = drawn
    BY <1>8 DEF Extra
  <2>2. CASE disk' = disk
    BY <1>1, <2>1, <2>2 DEF Touched, Kept
  <2>3. CASE disk' # disk
    <3>1. PICK f \in {"plot", "root"} : Op = f /\ Put(f, outcome)
      BY <1>8, <2>3 DEF Extra, Step
    <3>2. /\ disk' \in [Range(plan) -> [Files -> Content \cup {Absent}]]
          /\ \A s \in Range(plan) \ {Stage} : disk'[s] = disk[s]
          /\ \A g \in Files \ {f} : Kept(g)
          /\ Written(f, outcome)
      BY <1>1, <3>1, PutTouches
    <3> QED BY <1>1, <2>1, <3>1, <3>2 DEF Touched, Written
  <2> QED BY <2>2, <2>3
<1> QED BY <1>2, <1>3, <1>4, <1>5, <1>6, <1>7, <1>8

LEMMA RunIsNumbered ==
  ASSUME TypeOK, Numbered, Running
  PROVE  run \in Runs
<1>1. run \in 0 .. MaxRuns /\ alone \subseteq Runs /\ MaxRuns \in Nat
  BY WorkflowAssumption DEF TypeOK
<1>2. run # 0
  BY <1>1 DEF Numbered, Running, Runs
<1> QED BY <1>1, <1>2 DEF Runs

(* A step of a stage, or its death, keeps what is true of the result tree. *)
LEMMA SettledStep ==
  ASSUME WorkflowInv, Running, ~Ended, Touched,
         UNCHANGED <<plan, ledger, run, alone>>
  PROVE  Settled'
<1> DEFINE ops == Script[Stage]
<1>1. /\ TypeOK /\ Numbered /\ Collected /\ Settled /\ SoFar
      /\ mode = "reproduce" => \A k \in 1 .. at - 1 : Fresh(plan[k], run)
  BY DEF WorkflowInv, Underway
<1>2. /\ Len(plan) \in Nat \ {0} /\ DOMAIN plan = 1 .. Len(plan)
      /\ plan[Len(plan)] = "figures"
      /\ \A i, j \in DOMAIN plan : plan[i] = plan[j] => i = j
      /\ \A i \in DOMAIN plan : plan[i] \in Range(plan)
      /\ at \in 1 .. Len(plan) /\ Stage = plan[at] /\ Stage \in Range(plan)
      /\ SoundScript(Stage)
  BY <1>1, PlanFacts
<1>3. /\ plan' = plan /\ ledger' = ledger /\ run' = run /\ alone' = alone
      /\ \A s \in Range(plan) \ {Stage} : disk'[s] = disk[s]
  BY DEF Touched
<1>4. /\ pc \in DOMAIN ops /\ Op = ops[pc] /\ pc \in 1 .. Len(ops)
      /\ DOMAIN ops = 1 .. Len(ops) /\ Len(ops) \in 4 .. 7
  BY <1>1, <1>2 DEF TypeOK, Ended, Op, SoundScript
<1>5. /\ ledger \in [run : 0 .. MaxRuns, rows : Seq(BOOLEAN)]
      /\ MaxRuns \in Nat /\ run \in Runs /\ run \in Nat /\ ledger.run \in Nat
      /\ outcome \in {"good", "bad"} /\ Len(ledger.rows) \in Nat
      /\ DOMAIN ledger.rows = 1 .. Len(ledger.rows)
      /\ mode = "reproduce" \/ mode = "alone"
  BY <1>1, RunIsNumbered, WorkflowAssumption DEF TypeOK, Running, Runs
<1>6. ASSUME NEW s \in Range(plan), NEW f \in Files
      PROVE  disk'[s][f].run <= run
  <2>1. disk[s][f].run <= run
    BY <1>1 DEF Settled
  <2>2. CASE s # Stage
    BY <1>3, <2>1, <2>2
  <2>3. CASE s = Stage
    <3>1. \/ disk'[s][f] = disk[s][f] \/ disk'[s][f] = Absent
          \/ disk'[s][f].run = run
      BY <2>3 DEF Touched, Kept, Written, Files
    <3>2. Absent.run = 0
      BY DEF Absent
    <3> QED BY <1>5, <2>1, <3>1, <3>2
  <2> QED BY <2>2, <2>3
<1>7. ASSUME NEW f \in {"points", "summary"}
      PROVE  Kept(f) \/ disk'[Stage][f].run = run
  BY DEF Touched, Written
<1>14. ASSUME NEW k \in DOMAIN ledger.rows, k > 1, plan[k] = Stage
       PROVE  run # ledger.run
  <2>1. k = at
    <3>1. k \in 1 .. Len(plan)
      BY <1>1, <1>2, <1>5 DEF Collected
    <3> QED BY <1>2, <1>14, <3>1
  <2>2. CASE mode = "alone"
    BY <1>1, <2>2 DEF Numbered
  <2>3. CASE mode = "reproduce"
    <3>1. Len(rows) = at - 1 /\ (rows # <<>> => ledger.rows = rows)
      BY <1>1, <2>3 DEF Collected
    <3>2. rows # <<>>
      <4>1. Len(rows) # 0 /\ Len(<<>>) = 0
        BY <1>2, <1>14, <2>1, <3>1
      <4> QED BY <4>1
    <3> QED BY <1>2, <1>5, <1>14, <2>1, <3>1, <3>2
  <2> QED BY <1>5, <2>2, <2>3
<1>15. Rooted'
  <2> SUFFICES ASSUME NEW k \in DOMAIN ledger.rows, ledger.rows[k], k > 1,
                      plan[k] = "fig22", disk'[plan[k]]["points"].run = ledger.run
               PROVE  disk'[plan[k]]["root"] = Good(ledger.run)
    BY <1>3 DEF Rooted
  <2>1. disk[plan[k]]["points"].run = ledger.run =>
          disk[plan[k]]["root"] = Good(ledger.run)
    BY <1>1 DEF Settled, Rooted
  <2>2. plan[k] \in Range(plan)
    BY <1>1, <1>2, <1>5 DEF Collected
  <2>3. CASE plan[k] # Stage
    BY <1>3, <2>1, <2>2, <2>3
  <2>4. CASE plan[k] = Stage
    <3>1. run # ledger.run
      BY <1>14, <2>4
    <3>2. Kept("points")
      BY <1>7, <2>4, <3>1
    <3>3. CASE Kept("root")
      BY <2>1, <2>4, <3>2, <3>3 DEF Kept
    <3>4. CASE ~Kept("root")
      <4>1. Op = "root"
        BY <3>4 DEF Touched
      <4>2. Done("points") /\ Done("check")
        <5>1. \A op \in {"points", "check"} : \E j \in 1 .. pc - 1 : ops[j] = op
          <6>1. \A i \in DOMAIN ops : ops[i] = "root" =>
                  \A op \in {"points", "check"} : \E j \in 1 .. i - 1 : ops[j] = op
            BY <1>2 DEF SoundScript
          <6>2. ops[pc] = "root" /\ pc \in DOMAIN ops
            BY <1>4, <4>1
          <6> HIDE DEF ops
          <6> QED BY <6>1, <6>2
        <5> QED BY <5>1 DEF Done
      <4>3. outcome = "good"
        BY <1>1, <1>5, <2>4, <4>2 DEF SoFar
      <4>4. disk[Stage]["points"] = Good(run)
        BY <1>1, <4>2, <4>3 DEF SoFar
      <4> QED BY <2>4, <3>1, <3>2, <4>4 DEF Kept, Good
    <3> QED BY <3>3, <3>4
  <2> QED BY <2>3, <2>4
<1>8. LedgerMatchesDisk'
  <2> SUFFICES ASSUME NEW k \in DOMAIN ledger.rows, ledger.rows[k],
                      NEW f \in {"points", "summary"}
               PROVE  /\ disk'[plan[k]][f].run >= ledger.run
                      /\ k > 1 => disk'[plan[k]][f].run \in {ledger.run} \cup alone
    BY <1>3 DEF LedgerMatchesDisk
  <2>1. /\ disk[plan[k]][f].run >= ledger.run
        /\ k > 1 => disk[plan[k]][f].run \in {ledger.run} \cup alone
    BY <1>1 DEF Settled, LedgerMatchesDisk
  <2>2. k \in 1 .. Len(plan)
    BY <1>1, <1>2, <1>5 DEF Collected
  <2>3. CASE disk'[plan[k]][f] = disk[plan[k]][f]
    BY <2>1, <2>3
  <2>4. CASE disk'[plan[k]][f] # disk[plan[k]][f]
    <3>1. plan[k] = Stage /\ k = at /\ disk'[plan[k]][f].run = run
      BY <1>2, <1>3, <1>7, <2>2, <2>4 DEF Kept
    <3>2. run >= ledger.run
      BY <1>1, <1>5 DEF Numbered
    <3>3. k > 1 => mode = "alone"
      <4> SUFFICES ASSUME k > 1, mode = "reproduce" PROVE FALSE
        BY <1>5
      <4>1. Len(rows) = at - 1 /\ (rows # <<>> => ledger.rows = rows)
        BY <1>1 DEF Collected
      <4>2. rows # <<>>
        <5>1. Len(rows) # 0 /\ Len(<<>>) = 0
          BY <1>2, <3>1, <4>1
        <5> QED BY <5>1
      <4> QED BY <1>1, <1>2, <1>5, <3>1, <4>1, <4>2 DEF Collected
    <3>4. mode = "alone" => run \in alone
      BY <1>1 DEF Numbered
    <3> QED BY <3>1, <3>2, <3>3, <3>4
  <2> QED BY <2>3, <2>4
<1>9. ASSUME NEW s \in Range(plan), NeverFails(s) PROVE disk'[s]["fail"] = Absent
  <2>1. disk[s]["fail"] = Absent
    BY <1>1, <1>9 DEF Settled
  <2>2. CASE s # Stage
    BY <1>3, <2>1, <2>2
  <2>3. CASE s = Stage
    <3>1. ~(Op = "mark" /\ outcome = "bad")
      <4> SUFFICES ASSUME Op = "mark", outcome = "bad" PROVE FALSE
        OBVIOUS
      <4>1. Stage # "figures" /\ (Done("check") => Stage = "fig08")
        BY <1>1 DEF SoFar
      <4>2. \A i \in DOMAIN ops :
              ops[i] = "mark" => \E j \in 1 .. i - 1 : ops[j] = "check"
        BY <1>9, <2>3, <4>1 DEF NeverFails
      <4> HIDE DEF ops
      <4>3. ops[pc] = "mark" /\ pc \in DOMAIN ops
        BY <1>4
      <4>4. \E j \in 1 .. pc - 1 : ops[j] = "check"
        BY <4>2, <4>3
      <4>5. Done("check")
        BY <4>4 DEF Done, ops
      <4>6. \A i \in DOMAIN Fig08 : Fig08[i] # "mark"
        BY DEF Fig08
      <4>7. ops = Fig08
        BY <4>1, <4>5 DEF ops, Script
      <4> QED BY <4>3, <4>6, <4>7
    <3> QED BY <2>1, <2>3, <3>1 DEF Touched, Kept
  <2> QED BY <2>2, <2>3
<1>10. ASSUME NEW s \in Range(plan) \cap {"fig23", "table4"}
       PROVE  disk'[s]["points"].says # "bad"
  <2>1. disk[s]["points"].says # "bad"
    BY <1>1 DEF Settled
  <2>2. CASE disk'[s]["points"] = disk[s]["points"]
    BY <2>1, <2>2
  <2>3. CASE disk'[s]["points"] # disk[s]["points"]
    <3>1. /\ s = Stage /\ Op = "points"
          /\ Written("points", outcome) \/ Written("points", "torn")
      BY <1>3, <2>3 DEF Touched, Kept
    <3>2. \E j \in 1 .. pc - 1 : ops[j] = "check"
      <4>1. \A i \in DOMAIN ops :
              ops[i] = "points" => \E j \in 1 .. i - 1 : ops[j] = "check"
        BY <1>2, <3>1 DEF SoundScript
      <4> HIDE DEF ops
      <4>2. ops[pc] = "points" /\ pc \in DOMAIN ops
        BY <1>4, <3>1
      <4> QED BY <4>1, <4>2
    <3>3. Done("check") /\ Stage # "fig08"
      BY <3>1, <3>2 DEF Done
    <3>4. outcome # "bad"
      BY <1>1, <3>3 DEF SoFar
    <3> QED BY <3>1, <3>4 DEF Written
  <2> QED BY <2>2, <2>3
<1>11. ASSUME NEW s \in Range(plan) \cap {"fig12", "fig22"},
              disk'[s]["pass"].says = "good",
              NEW f \in {"points", "summary"}
       PROVE  disk'[s][f] = disk'[s]["pass"]
  <2>1. disk[s]["pass"].says = "good" => disk[s][f] = disk[s]["pass"]
    BY <1>1 DEF Settled, PassSpeaksForResults
  <2>2. CASE s # Stage
    BY <1>3, <1>11, <2>1, <2>2
  <2>3. CASE s = Stage
    <3>1. Absent.says # "good"
      BY DEF Absent
    <3>2. Op \in {"points", "summary", "mark"} => Done("clear") /\ ~Done("mark")
      <4>1. \A i \in DOMAIN ops : ops[i] \in {"points", "summary", "mark"} =>
              /\ \E j \in 1 .. i - 1 : ops[j] = "clear"
              /\ \A j \in 1 .. i - 1 : ops[j] # "mark"
        BY <1>2, <2>3 DEF SoundScript
      <4> HIDE DEF ops
      <4>2. Op \in {"points", "summary", "mark"} =>
              /\ \E j \in 1 .. pc - 1 : ops[j] = "clear"
              /\ \A j \in 1 .. pc - 1 : ops[j] # "mark"
        BY <1>4, <4>1
      <4> QED BY <4>2 DEF Done, ops
    <3>3. Done("clear") /\ ~Done("mark") => disk[Stage]["pass"] = Absent
      BY <1>1, <2>3 DEF SoFar
    <3>4. CASE Kept("pass")
      <4>1. Kept(f)
        BY <1>11, <2>3, <3>1, <3>2, <3>3, <3>4 DEF Touched, Kept
      <4> QED BY <1>11, <2>1, <2>3, <3>4, <4>1 DEF Kept
    <3>5. CASE ~Kept("pass")
      <4>1. Op \in {"mark", "stamp"} /\ Written("pass", outcome) /\ outcome = "good"
        BY <1>11, <2>3, <3>1, <3>5 DEF Touched, Written
      <4>2. Op = "mark"
        BY <1>2, <1>4, <2>3, <4>1 DEF SoundScript
      <4>3. Done(f)
        <5>1. \A i \in DOMAIN ops : ops[i] = "mark" =>
                \A g \in {"points", "summary"} : \E j \in 1 .. i - 1 : ops[j] = g
          BY <1>2, <2>3 DEF SoundScript
        <5> HIDE DEF ops
        <5>2. \E j \in 1 .. pc - 1 : ops[j] = f
          BY <1>4, <4>2, <5>1
        <5> QED BY <5>2 DEF Done, ops
      <4>4. disk[Stage][f] = Good(run)
        BY <1>1, <4>1, <4>3 DEF SoFar
      <4>5. Kept(f)
        BY <4>2 DEF Touched
      <4> QED BY <2>3, <4>1, <4>4, <4>5 DEF Kept, Written, Good
    <3> QED BY <3>4, <3>5
  <2> QED BY <2>2, <2>3
<1>12. PassSpeaksForResults'
  BY <1>3, <1>10, <1>11 DEF PassSpeaksForResults
<1>13. Drawn'
  <2> SUFFICES ASSUME Len(ledger.rows) = Len(plan), ledger.rows[Len(plan)],
                      NEW k \in 2 .. Len(plan) - 1,
                      disk'[plan[k]]["points"].run = ledger.run
               PROVE  drawn'[plan[k]] = ledger.run
    BY <1>3 DEF Drawn
  <2>1. k \in DOMAIN plan /\ plan[k] \in Range(plan)
    BY <1>2
  <2>2. disk[plan[k]]["points"].run = ledger.run => drawn[plan[k]] = ledger.run
    BY <1>1 DEF Settled, Drawn
  <2>3. mode = "reproduce" => at = 1
    <3> SUFFICES ASSUME mode = "reproduce", at # 1 PROVE FALSE
      OBVIOUS
    <3>1. Len(rows) = at - 1 /\ (rows # <<>> => ledger.rows = rows)
      BY <1>1 DEF Collected
    <3>2. rows # <<>>
      <4>1. Len(rows) # 0 /\ Len(<<>>) = 0
        BY <1>2, <3>1
      <4> QED BY <4>1
    <3> QED BY <1>2, <3>1, <3>2
  <2>4. disk'[plan[k]]["points"] = disk[plan[k]]["points"]
    <3>1. CASE mode = "reproduce"
      <4>1. plan[k] # Stage
        BY <1>2, <2>1, <2>3, <3>1
      <4> QED BY <1>3, <2>1, <4>1
    <3>2. CASE mode = "alone"
      <4>1. run # ledger.run
        BY <1>1, <3>2 DEF Numbered
      <4> QED BY <1>3, <1>7, <2>1, <4>1 DEF Kept
    <3> QED BY <1>5, <3>1, <3>2
  <2>5. drawn' = drawn \/ drawn'[plan[k]] = disk[plan[k]]["points"].run
    BY <2>1 DEF Touched
  <2> QED BY <2>2, <2>4, <2>5
<1> QED BY <1>3, <1>6, <1>8, <1>9, <1>10, <1>12, <1>13, <1>15
    DEF Settled, NeverFails

(* A step of a stage either ends it badly or does the next thing in its    *)
(* script.                                                                 *)
Halts == outcome' = "bad" /\ pc' = Len(Script[Stage]) + 1

Proceeds ==
  /\ pc' = pc + 1 /\ outcome' \in {"good", "bad"}
  /\ Op \notin {"evaluate", "check"} => outcome' = outcome
  /\ Op = "check" =>
       \/ outcome = "good" /\ outcome' = "good"
       \/ Stage = "fig08" /\ outcome' = "bad"
  /\ Op = "evaluate" /\ Stage = "figures" =>
       outcome' = "good" /\ drawn' = [s \in Range(plan) |-> disk[s]["points"].run]
  /\ \A f \in {"points", "summary"} : IF Op = f THEN Written(f, outcome) ELSE Kept(f)
  /\ Op \notin {"mark", "stamp", "clear", "drop"} => Kept("pass") /\ Kept("fail")
  /\ Op = "clear" => disk'[Stage]["pass"] = Absent
  /\ Op \in {"mark", "stamp"} /\ outcome = "good" =>
       Written("pass", "good") /\ Kept("fail")
  /\ Op = "drop" /\ outcome = "good" => Kept("pass")
  /\ Op \in {"clear", "drop"} /\ outcome = "good" => disk'[Stage]["fail"] = Absent
  /\ Op # "root" => Kept("root")
  /\ Op = "root" /\ mode = "reproduce" => Written("root", outcome)

StageStep == Evaluate \/ Write \/ Mark \/ Unlink \/ Extra \/ Check \/ StageDies

LEMMA StageEffects ==
  ASSUME TypeOK, run \in Runs, StageStep
  PROVE  /\ Running /\ ~Ended /\ Unmoved
         /\ Halts \/ Proceeds
<1>1. outcome \in {"good", "bad"} /\ Files = {"points", "summary", "pass", "fail", "plot", "root"}
  BY DEF TypeOK, Files
<1>2. CASE Evaluate
  <2>1. Running /\ ~Ended /\ Unmoved /\ Op = "evaluate"
    BY <1>2 DEF Evaluate, Step
  <2>2. CASE Halts
    BY <2>1, <2>2
  <2>3. CASE ~Halts
    <3>1. /\ pc' = pc + 1 /\ disk' = disk
          /\ outcome' \in (IF Stage = "figures" THEN {"good"} ELSE {"good", "bad"})
          /\ drawn' = IF Stage = "figures"
                      THEN [s \in Range(plan) |-> disk[s]["points"].run] ELSE drawn
      BY <1>2, <2>3 DEF Evaluate, Halts
    <3> QED BY <2>1, <3>1 DEF Proceeds, Kept
  <2> QED BY <2>2, <2>3
<1>3. CASE Write
  <2>1. PICK f \in {"points", "summary"} : Step(f) /\ Put(f, outcome)
    BY <1>3 DEF Write
  <2>2. /\ Running /\ ~Ended /\ Unmoved /\ Op = f
        /\ pc' = pc + 1 /\ drawn' = drawn /\ outcome' = outcome
    BY <1>3, <2>1 DEF Write, Step
  <2>3. Written(f, outcome) /\ \A g \in Files \ {f} : Kept(g)
    BY <1>1, <2>1, PutTouches
  <2> QED BY <1>1, <2>2, <2>3 DEF Proceeds
<1>4. CASE Mark
  <2>1. /\ Running /\ ~Ended /\ Unmoved /\ Op \in {"mark", "stamp"}
        /\ pc' = pc + 1 /\ drawn' = drawn /\ outcome' = outcome
    BY <1>4 DEF Mark, Step
  <2>2. PICK f \in {"pass", "fail"} :
          Put(f, outcome) /\ (outcome = "good" => f = "pass")
    BY <1>1, <1>4 DEF Mark
  <2>3. Written(f, outcome) /\ \A g \in Files \ {f} : Kept(g)
    BY <1>1, <2>2, PutTouches
  <2> QED BY <1>1, <2>1, <2>2, <2>3 DEF Proceeds
<1>5. CASE Unlink
  <2>1. /\ Running /\ ~Ended /\ Unmoved
        /\ pc' = pc + 1 /\ drawn' = drawn /\ outcome' = outcome
    BY <1>5 DEF Unlink, Step
  <2>2. PICK fs \in SUBSET {"pass", "fail"} :
          /\ Delete(fs)
          /\ \/ Op = "clear" /\ fs = {"pass", "fail"}
             \/ Op = "drop" /\ fs = (IF outcome = "good" THEN {"fail"} ELSE {"pass"})
    <3>1. CASE Step("clear") /\ Delete({"pass", "fail"})
      BY <3>1 DEF Step
    <3>2. CASE Step("drop") /\ Delete(IF outcome = "good" THEN {"fail"} ELSE {"pass"})
      BY <3>2 DEF Step
    <3> QED BY <1>5, <3>1, <3>2 DEF Unlink
  <2>3. /\ \A g \in Files \ fs : Kept(g)
        /\ \A g \in Files \cap fs : disk'[Stage][g] = Absent
    BY <2>2, DeleteTouches
  <2> QED BY <1>1, <2>1, <2>2, <2>3 DEF Proceeds
<1>6. CASE Check
  <2>1. /\ Running /\ ~Ended /\ Unmoved /\ Op \in {"check", "screen"}
        /\ disk' = disk /\ drawn' = drawn
    BY <1>6 DEF Check, Step
  <2>2. CASE Halts
    BY <2>1, <2>2
  <2>3. CASE ~Halts
    <3>1. /\ pc' = pc + 1
          /\ \/ (outcome = "good" \/ Op = "screen") /\ outcome' = outcome
             \/ Op = "check" /\ Stage = "fig08" /\ outcome' = "bad"
      BY <1>6, <2>1, <2>3 DEF Check, Halts, Unchecked
    <3> QED BY <1>1, <2>1, <3>1 DEF Proceeds, Kept
  <2> QED BY <2>2, <2>3
<1>7. CASE StageDies
  BY <1>7 DEF StageDies, Halts
<1>8. CASE Extra
  <2>1. /\ Running /\ ~Ended /\ Unmoved /\ Op \in {"plot", "root"}
        /\ pc' = pc + 1 /\ drawn' = drawn /\ outcome' = outcome
    BY <1>8 DEF Extra, Step
  <2>2. CASE disk' = disk /\ (Op = "root" => mode = "alone")
    BY <1>1, <2>1, <2>2 DEF Proceeds, Kept
  <2>3. CASE Put(Op, outcome)
    <3>1. Written(Op, outcome) /\ \A g \in Files \ {Op} : Kept(g)
      BY <1>1, <2>1, <2>3, PutTouches
    <3> QED BY <1>1, <2>1, <3>1 DEF Proceeds
  <2> QED BY <1>8, <2>2, <2>3 DEF Extra, Step
<1> QED BY <1>2, <1>3, <1>4, <1>5, <1>6, <1>7, <1>8 DEF StageStep

(* What the stage under way has done stays true of it at its next step.    *)
LEMMA SoFarStep ==
  ASSUME WorkflowInv, StageStep
  PROVE  SoFar'
<1> DEFINE ops == Script[Stage]
<1>1. /\ TypeOK /\ Numbered /\ Collected /\ Settled /\ (Running => SoFar)
      /\ mode = "reproduce" => \A k \in 1 .. at - 1 : Fresh(plan[k], run)
  BY DEF WorkflowInv, Underway
<1>2. /\ DOMAIN plan = 1 .. Len(plan) /\ Len(plan) \in Nat
      /\ \A i \in DOMAIN plan : plan[i] \in Range(plan)
      /\ at \in 1 .. Len(plan) /\ Stage \in Range(plan)
      /\ SoundScript(Stage)
  BY <1>1, PlanFacts
<1>3. run \in Runs
  <2>1. Running
    BY DEF StageStep, Evaluate, Write, Mark, Unlink, Extra, Check, StageDies, Step
  <2> QED BY <1>1, <2>1, RunIsNumbered
<1>4. Running /\ ~Ended /\ Unmoved /\ (Halts \/ Proceeds)
  BY <1>1, <1>3, StageEffects
<1>5. SoFar
  BY <1>1, <1>4
<1>6. /\ Stage' = Stage /\ ops' = ops /\ run' = run /\ mode' = mode /\ at' = at
      /\ plan' = plan
  BY <1>4 DEF Unmoved, Stage
<1>7. /\ pc \in DOMAIN ops /\ Op = ops[pc] /\ pc \in 1 .. Len(ops)
      /\ DOMAIN ops = 1 .. Len(ops) /\ Len(ops) \in 4 .. 7
      /\ outcome \in {"good", "bad"}
  BY <1>1, <1>2, <1>4 DEF TypeOK, Ended, Op, SoundScript
<1>8. CASE Halts
  <2>1. /\ outcome' = "bad" /\ Ended' /\ pc' = Len(ops) + 1 /\ ops' = ops
    BY <1>6, <1>7, <1>8 DEF Halts, Ended
  <2>2. Stage \in {"fig12", "fig22"} => Done("mark")'
    <3> SUFFICES ASSUME Stage \in {"fig12", "fig22"} PROVE Done("mark")'
      OBVIOUS
    <3>1. \E i \in DOMAIN ops : ops[i] = "mark"
      BY <1>2 DEF SoundScript, Marked
    <3>2. DOMAIN ops = 1 .. pc' - 1
      BY <1>7, <2>1
    <3> QED BY <1>6, <3>1, <3>2 DEF Done
  <2> QED BY <1>6, <2>1, <2>2 DEF SoFar
<1>9. CASE Proceeds
  <2>1. pc' = pc + 1 /\ pc' - 1 = pc /\ 1 .. pc' - 1 = 1 .. pc
    BY <1>7, <1>9 DEF Proceeds
  <2>2. ASSUME NEW op PROVE Done(op)' <=> Done(op) \/ Op = op
    <3>1. Done(op)' <=> \E i \in 1 .. pc : ops[i] = op
      BY <1>6, <2>1 DEF Done
    <3>2. \A i \in 1 .. pc : i \in 1 .. pc - 1 \/ i = pc
      BY <1>7
    <3> HIDE DEF ops
    <3>3. Done(op) <=> \E i \in 1 .. pc - 1 : ops[i] = op
      BY DEF Done, ops
    <3>4. \A i \in 1 .. pc - 1 : i \in 1 .. pc
      BY <1>7
    <3> QED BY <1>7, <3>1, <3>2, <3>3, <3>4
  <2>3. ~Ended' <=> pc # Len(ops)
    BY <1>6, <1>7, <2>1 DEF Ended
  <2>4. Op = "evaluate" => outcome = "good" /\ ~Done("check")
    <3> SUFFICES ASSUME Op = "evaluate" PROVE outcome = "good" /\ ~Done("check")
      OBVIOUS
    <3>1. \A i \in DOMAIN ops : ops[i] = "evaluate" =>
            \A j \in 1 .. i - 1 : ops[j] \notin {"evaluate", "check"}
      BY <1>2 DEF SoundScript
    <3>2. \A j \in 1 .. pc - 1 : ops[j] \notin {"evaluate", "check"}
      <4> HIDE DEF ops
      <4> QED BY <1>7, <3>1
    <3>3. ~Done("evaluate") /\ ~Done("check")
      BY <3>2 DEF Done
    <3> QED BY <1>4, <1>5, <1>7, <3>3 DEF SoFar
  <2>5. outcome' = "good" => outcome = "good"
    BY <1>9, <2>4 DEF Proceeds
  <2>6. ASSUME outcome' = "good", NEW f \in {"points", "summary"}, Done(f)'
        PROVE  disk'[Stage][f] = Good(run)
    <3>1. Done(f) => disk[Stage][f] = Good(run)
      BY <1>5, <2>5, <2>6 DEF SoFar
    <3>2. CASE Op = f
      BY <1>9, <2>5, <2>6, <3>2 DEF Proceeds, Written, Good
    <3>3. CASE Op # f
      BY <1>9, <2>2, <2>6, <3>1, <3>3 DEF Proceeds, Kept
    <3> QED BY <3>2, <3>3
  <2>7. ASSUME outcome' = "good", Stamped' PROVE disk'[Stage]["pass"] = Good(run)
    <3>1. PICK i \in 1 .. pc : /\ ops[i] \in {"mark", "stamp"}
                               /\ \A j \in i + 1 .. pc : ops[j] # "clear"
      BY <1>6, <2>1, <2>7 DEF Stamped
    <3>2. CASE i = pc
      BY <1>7, <1>9, <2>5, <2>7, <3>1, <3>2 DEF Proceeds, Written, Good
    <3>3. CASE i # pc
      <4>1. i \in 1 .. pc - 1 /\ pc \in i + 1 .. pc /\ i + 1 .. pc - 1 \subseteq i + 1 .. pc
        BY <1>7, <3>3
      <4>2. Stamped /\ Op # "clear"
        BY <1>7, <3>1, <4>1 DEF Stamped
      <4>3. disk[Stage]["pass"] = Good(run)
        BY <1>5, <2>5, <2>7, <4>2 DEF SoFar
      <4> QED BY <1>9, <2>5, <2>7, <4>2, <4>3 DEF Proceeds, Written, Kept, Good
    <3> QED BY <3>2, <3>3
  <2>8. ASSUME outcome' = "good", Done("clear")' \/ Done("drop")'
        PROVE  disk'[Stage]["fail"] = Absent
    <3>1. Done("clear") \/ Done("drop") => disk[Stage]["fail"] = Absent
      BY <1>5, <2>5, <2>8 DEF SoFar
    <3>2. CASE Op \in {"clear", "drop"}
      BY <1>9, <2>5, <2>8, <3>2 DEF Proceeds
    <3>3. CASE Op \notin {"clear", "drop"}
      <4>1. disk[Stage]["fail"] = Absent
        BY <2>2, <2>8, <3>1, <3>3
      <4> QED BY <1>9, <2>5, <2>8, <3>3, <4>1 DEF Proceeds, Kept
    <3> QED BY <3>2, <3>3
  <2>9. ASSUME outcome' = "bad", ~Ended'
        PROVE  /\ Stage # "figures" /\ Done("evaluate")'
               /\ Done("check")' => Stage = "fig08"
    <3>1. CASE Op = "evaluate"
      BY <1>9, <2>2, <2>4, <2>9, <3>1 DEF Proceeds
    <3>2. CASE Op = "check"
      <4>1. Stage = "fig08"
        BY <1>9, <2>9, <3>2 DEF Proceeds
      <4>2. \E j \in 1 .. pc - 1 : ops[j] = "evaluate"
        <5>1. \A i \in DOMAIN ops : ops[i] = "check" =>
                \E j \in 1 .. i - 1 : ops[j] = "evaluate"
          BY <1>2 DEF SoundScript
        <5>2. ops[pc] = "check" /\ pc \in DOMAIN ops
          BY <1>7, <3>2
        <5> HIDE DEF ops
        <5> QED BY <5>1, <5>2
      <4>3. Done("evaluate")
        BY <4>2 DEF Done
      <4> QED BY <2>2, <4>1, <4>3
    <3>3. CASE Op \notin {"evaluate", "check"}
      <4>1. outcome = "bad"
        BY <1>9, <2>9, <3>3 DEF Proceeds
      <4>2. Stage # "figures" /\ Done("evaluate") /\ (Done("check") => Stage = "fig08")
        BY <1>4, <1>5, <4>1 DEF SoFar
      <4> QED BY <2>2, <3>3, <4>2
    <3> QED BY <3>1, <3>2, <3>3
  <2>10. ASSUME Stage \in {"fig12", "fig22"}, Done("clear")', ~Done("mark")'
         PROVE  disk'[Stage]["pass"] = Absent
    <3>1. Op \notin {"stamp", "drop", "mark"}
      <4>1. \A i \in DOMAIN ops : ops[i] # "stamp" /\ ops[i] # "drop"
        BY <1>2, <2>10 DEF SoundScript
      <4>2. Op # "mark"
        BY <2>2, <2>10
      <4> HIDE DEF ops
      <4> QED BY <1>7, <4>1, <4>2
    <3>2. CASE Op = "clear"
      BY <1>9, <3>2 DEF Proceeds
    <3>3. CASE Op # "clear"
      <4>1. disk[Stage]["pass"] = Absent
        BY <1>4, <1>5, <2>2, <2>10, <3>3 DEF SoFar
      <4> QED BY <1>9, <3>1, <3>3, <4>1 DEF Proceeds, Kept
    <3> QED BY <3>2, <3>3
  <2>12. ASSUME outcome' = "good", mode = "reproduce", Done("root")'
         PROVE  disk'[Stage]["root"] = Good(run)
    <3>1. Done("root") => disk[Stage]["root"] = Good(run)
      BY <1>5, <2>5, <2>12 DEF SoFar
    <3>2. CASE Op = "root"
      BY <1>9, <2>5, <2>12, <3>2 DEF Proceeds, Written, Good
    <3>3. CASE Op # "root"
      BY <1>9, <2>2, <2>12, <3>1, <3>3 DEF Proceeds, Kept
    <3> QED BY <3>2, <3>3
  <2>11. ASSUME mode = "reproduce", Stage = "figures", outcome' = "good",
                NEW k \in 1 .. at - 1
         PROVE  drawn'[plan[k]] = run
    <3>1. k \in DOMAIN plan /\ plan[k] \in Range(plan)
      BY <1>2
    <3>2. disk[plan[k]]["points"].run = run
      BY <1>1, <2>11 DEF Fresh, Good
    <3>3. CASE Op = "evaluate"
      BY <1>9, <2>11, <3>1, <3>2, <3>3 DEF Proceeds
    <3>4. CASE Op # "evaluate"
      <4>1. pc > 1
        <5>1. ops[1] = "evaluate"
          BY <1>2, <2>11 DEF SoundScript
        <5> QED BY <1>7, <3>4, <5>1
      <4>2. drawn[plan[k]] = run
        BY <1>5, <2>5, <2>11, <4>1 DEF SoFar
      <4>3. drawn' = drawn
        BY <3>4, <1>4 DEF StageStep, Evaluate, Write, Mark, Unlink, Extra, Check, StageDies, Step
      <4> QED BY <4>2, <4>3
    <3> QED BY <3>3, <3>4
  <2> QED BY <1>6, <2>6, <2>7, <2>8, <2>9, <2>10, <2>11, <2>12 DEF SoFar
<1> QED BY <1>4, <1>8, <1>9

(* One step of a stage keeps the invariant.                                *)
LEMMA StageKeeps ==
  ASSUME WorkflowInv, StageStep
  PROVE  WorkflowInv'
<1>1. TypeOK /\ Numbered /\ Collected /\ Settled /\ Underway
  BY DEF WorkflowInv
<1>2. run \in Runs
  <2>1. Running
    BY DEF StageStep, Evaluate, Write, Mark, Unlink, Extra, Check, StageDies, Step
  <2> QED BY <1>1, <2>1, RunIsNumbered
<1>3. Running /\ ~Ended /\ Unmoved /\ (Halts \/ Proceeds)
  BY <1>1, <1>2, StageEffects
<1>4. Touched
  BY <1>1, <1>2, StageTouches DEF StageStep
<1>5. /\ plan' = plan /\ ledger' = ledger /\ rows' = rows /\ mode' = mode /\ at' = at
      /\ run' = run /\ alone' = alone /\ report' = report /\ Stage' = Stage
  BY <1>3 DEF Unmoved, Stage
<1>6. /\ Len(Script[Stage]) \in 4 .. 7
      /\ DOMAIN plan = 1 .. Len(plan) /\ Len(plan) \in Nat /\ at \in 1 .. Len(plan)
      /\ \A i, j \in DOMAIN plan : plan[i] = plan[j] => i = j
      /\ \A i \in DOMAIN plan : plan[i] \in Range(plan)
      /\ Stage = plan[at]
  BY <1>1, PlanFacts DEF SoundScript
<1>7. /\ pc' \in 1 .. 8 /\ outcome' \in {"good", "bad"}
      /\ pc' <= Len(Script[Stage]) + 1
  <2> DEFINE last == Len(Script[Stage])
  <2>1. pc \in 1 .. 8 /\ last \in 4 .. 7 /\ ~(pc > last)
    BY <1>1, <1>3, <1>6 DEF TypeOK, Ended
  <2>2. \/ outcome' = "bad" /\ pc' = last + 1
        \/ pc' = pc + 1 /\ outcome' \in {"good", "bad"}
    BY <1>3 DEF Halts, Proceeds
  <2> HIDE DEF last
  <2>3. pc' \in 1 .. 8 /\ outcome' \in {"good", "bad"} /\ pc' <= last + 1
    BY <2>1, <2>2
  <2> QED BY <2>3 DEF last
<1>8. drawn' \in [Range(plan) -> 0 .. MaxRuns]
  <2>1. CASE drawn' = drawn
    BY <1>1, <2>1 DEF TypeOK
  <2>2. CASE drawn' = [s \in Range(plan) |-> disk[s]["points"].run]
    <3>1. \A s \in Range(plan) : disk[s]["points"] \in Content \cup {Absent}
      BY <1>1 DEF TypeOK, Files
    <3>2. \A c \in Content \cup {Absent} : c.run \in 0 .. MaxRuns
      <4>1. MaxRuns \in Nat
        BY WorkflowAssumption
      <4> QED BY <4>1 DEF Content, Absent, Runs
    <3> QED BY <2>2, <3>1, <3>2
  <2> QED BY <1>4, <2>1, <2>2 DEF Touched
<1>9. TypeOK'
  BY <1>1, <1>4, <1>5, <1>7, <1>8 DEF TypeOK, Touched
<1>10. Numbered'
  BY <1>1, <1>5, <1>7 DEF Numbered
<1>11. Collected'
  BY <1>1, <1>5 DEF Collected
<1>12. Settled'
  BY <1>3, <1>4, <1>5, SettledStep
<1>13. Underway'
  <2>1. SoFar'
    BY SoFarStep
  <2>2. ASSUME mode = "reproduce", NEW k \in 1 .. at - 1 PROVE Fresh(plan[k], run)'
    <3>1. Fresh(plan[k], run)
      BY <1>1, <2>2 DEF Underway
    <3>2. plan[k] \in Range(plan) \ {Stage}
      BY <1>6
    <3>3. disk'[plan[k]] = disk[plan[k]]
      BY <1>4, <3>2 DEF Touched
    <3> QED BY <1>5, <3>1, <3>3 DEF Fresh
  <2>3. mode' # "returned"
    BY <1>3, <1>5 DEF Running
  <2> QED BY <1>5, <2>1, <2>2, <2>3 DEF Underway
<1> QED BY <1>9, <1>10, <1>11, <1>12, <1>13 DEF WorkflowInv

(* Whatever ends a command leaves the ledger's and the tree's invariants.  *)
LEMMA QuitKeeps ==
  ASSUME TypeOK, Quit,
         disk' \in [Range(plan) -> [Files -> Content \cup {Absent}]],
         drawn' = drawn, plan' = plan, run' = run, alone' = alone,
         ledger'.run <= run /\ ledger'.run \notin alone,
         ledger' \in [run : 0 .. MaxRuns, rows : Seq(BOOLEAN)],
         Len(ledger'.rows) <= Len(plan), Numbered, Settled',
         report' \in 0 .. MaxRuns
  PROVE  WorkflowInv'
<1>1. /\ mode' = "idle" /\ at' = 1 /\ pc' = 1 /\ outcome' = "good" /\ rows' = <<>>
  BY DEF Quit
<1>2. /\ 1 \in DOMAIN plan /\ Len(Script[plan[1]]) \in 4 .. 7
  <2>1. 1 \in DOMAIN plan /\ plan[1] \in Stages
    BY PlanFacts
  <2> QED BY <2>1, ScriptsAreSound DEF SoundScript
<1>3. TypeOK'
  BY <1>1, <1>2 DEF TypeOK
<1>4. Numbered'
  BY <1>1, <1>2 DEF Numbered, Stage
<1>5. Collected'
  BY <1>1 DEF Collected
<1>6. Underway'
  BY <1>1 DEF Underway, Running
<1> QED BY <1>3, <1>4, <1>5, <1>6 DEF WorkflowInv

LEMMA KilledKeeps ==
  ASSUME WorkflowInv, Killed
  PROVE  WorkflowInv'
<1>1. TypeOK /\ Numbered /\ Collected /\ Settled
  BY DEF WorkflowInv
<1>2. /\ Quit /\ plan' = plan /\ drawn' = drawn /\ ledger' = ledger /\ run' = run
      /\ alone' = alone /\ report' = report
      /\ IF Running /\ ~Ended THEN Interrupt ELSE disk' = disk
  BY DEF Killed
<1>3. /\ Settled'
      /\ disk' \in [Range(plan) -> [Files -> Content \cup {Absent}]]
  <2>1. CASE Running /\ ~Ended
    <3>1. run \in Runs
      BY <1>1, <2>1, RunIsNumbered
    <3>2. Touched
      BY <1>1, <1>2, <2>1, <3>1, InterruptTouches
    <3> QED BY <1>2, <2>1, <3>2, SettledStep DEF Touched
  <2>2. CASE disk' = disk
    BY <1>1, <1>2, <2>2 DEF Settled, TypeOK, LedgerMatchesDisk, NeverFails,
                            PassSpeaksForResults, Drawn, Rooted
  <2> QED BY <1>2, <2>1, <2>2
<1> QED BY <1>1, <1>2, <1>3, QuitKeeps DEF TypeOK, Numbered, Collected

(* A stage that ends well has left its points, its summary and its marker, *)
(* all good and of this run, and no FAIL.                                  *)
LEMMA EndedIsFresh ==
  ASSUME WorkflowInv, mode = "reproduce", Ended, outcome = "good"
  PROVE  Fresh(Stage, run)
<1> DEFINE ops == Script[Stage]
<1>1. /\ TypeOK /\ Numbered /\ Settled /\ SoFar
      /\ Stage \in Range(plan) /\ SoundScript(Stage)
  BY PlanFacts DEF WorkflowInv, Underway, Running
<1>2. pc - 1 = Len(ops) /\ DOMAIN ops = 1 .. pc - 1
  <2>1. Len(ops) \in 4 .. 7 /\ DOMAIN ops = 1 .. Len(ops)
    BY <1>1 DEF SoundScript
  <2>2. pc \in 1 .. 8 /\ pc <= Len(ops) + 1 /\ pc > Len(ops)
    BY <1>1 DEF TypeOK, Numbered, Ended
  <2> QED BY <2>1, <2>2
<1>3. \A f \in {"points", "summary"} : disk[Stage][f] = Good(run)
  <2>1. \A f \in {"points", "summary"} : Done(f)
    BY <1>1, <1>2 DEF SoundScript, Done
  <2> QED BY <1>1, <2>1 DEF SoFar
<1>4. Stage \in Marked => disk[Stage]["pass"] = Good(run)
  <2> SUFFICES ASSUME Stage \in Marked PROVE Stamped
    BY <1>1 DEF SoFar
  <2>1. \E i \in DOMAIN ops : /\ ops[i] \in {"mark", "stamp"}
                              /\ \A j \in i + 1 .. Len(ops) : ops[j] # "clear"
    BY <1>1 DEF SoundScript
  <2> QED BY <1>2, <2>1 DEF Stamped
<1>6. Stage = "fig22" /\ mode = "reproduce" => disk[Stage]["root"] = Good(run)
  <2> SUFFICES ASSUME Stage = "fig22" PROVE Done("root")
    BY <1>1 DEF SoFar
  <2>1. \E i \in DOMAIN ops : ops[i] = "root"
    BY <1>1 DEF SoundScript
  <2> QED BY <1>2, <2>1 DEF Done
<1>5. disk[Stage]["fail"] = Absent
  <2>1. CASE NeverFails(Stage)
    BY <1>1, <2>1 DEF Settled
  <2>2. CASE \E i \in DOMAIN ops : ops[i] \in {"clear", "drop"}
    <3>1. Done("clear") \/ Done("drop")
      BY <1>2, <2>2 DEF Done
    <3> QED BY <1>1, <3>1 DEF SoFar
  <2> QED BY <1>1, <2>1, <2>2 DEF SoundScript
<1> QED BY <1>3, <1>4, <1>5, <1>6 DEF Fresh

(* The workflow takes over from a stage: the row is in the ledger before   *)
(* anything else happens.                                                  *)
LEMMA StageReturnsKeeps ==
  ASSUME WorkflowInv, StageReturns
  PROVE  WorkflowInv'
<1> DEFINE held == Append(rows, outcome = "good")
<1>1. TypeOK /\ Numbered /\ Collected /\ Settled /\ Underway
  BY DEF WorkflowInv
<1>2. /\ mode = "reproduce" /\ Ended /\ ledger' = [run |-> run, rows |-> held]
      /\ plan' = plan /\ disk' = disk /\ drawn' = drawn /\ run' = run
      /\ alone' = alone /\ report' = report
  BY DEF StageReturns, WriteManifest
<1>3. /\ Len(plan) \in Nat \ {0} /\ DOMAIN plan = 1 .. Len(plan)
      /\ plan[Len(plan)] = "figures"
      /\ \A i, j \in DOMAIN plan : plan[i] = plan[j] => i = j
      /\ \A i \in DOMAIN plan : plan[i] \in Range(plan) /\ plan[i] \in Stages
      /\ at \in 1 .. Len(plan) /\ Stage = plan[at] /\ Stage \in Range(plan)
      /\ MaxRuns \in Nat
  BY <1>1, PlanFacts
<1>4. /\ run \in Runs /\ run \in Nat /\ run # 0 /\ run \notin alone /\ Running
      /\ Len(rows) = at - 1 /\ \A k \in DOMAIN rows : rows[k]
      /\ rows \in Seq(BOOLEAN)
  BY <1>1, <1>2, <1>3, RunIsNumbered DEF Numbered, Collected, Running, TypeOK, Runs
<1>5. /\ held \in Seq(BOOLEAN) /\ Len(held) = at /\ held # <<>>
      /\ DOMAIN held = 1 .. at /\ held[at] = (outcome = "good")
      /\ \A k \in 1 .. at - 1 : held[k] = rows[k]
  BY <1>3, <1>4
<1>6. \A k \in 1 .. at - 1 : held[k] /\ Fresh(plan[k], run)
  BY <1>1, <1>2, <1>4, <1>5 DEF Underway
<1>7. outcome = "good" => Fresh(Stage, run) /\ SoFar
  BY <1>1, <1>2, <1>4, EndedIsFresh DEF Underway
<1>8. \A k \in DOMAIN held : held[k] => Fresh(plan[k], run)
  <2> SUFFICES ASSUME NEW k \in DOMAIN held, held[k] PROVE Fresh(plan[k], run)
    OBVIOUS
  <2>1. CASE k = at
    BY <1>3, <1>5, <1>7, <2>1
  <2>2. CASE k # at
    BY <1>3, <1>5, <1>6, <2>2
  <2> QED BY <2>1, <2>2
<1> HIDE DEF held
<1>9. Settled'
  <2>1. LedgerMatchesDisk'
    BY <1>2, <1>4, <1>8 DEF LedgerMatchesDisk, Fresh, Good
  <2>2. Drawn'
    <3> SUFFICES ASSUME Len(held) = Len(plan), held[Len(plan)],
                        NEW k \in 2 .. Len(plan) - 1
                 PROVE  drawn[plan[k]] = run
      BY <1>2 DEF Drawn
    <3>1. at = Len(plan) /\ Stage = "figures" /\ outcome = "good" /\ pc > 1
      <4> DEFINE last == Len(Script[Stage])
      <4>1. last \in 4 .. 7 /\ pc \in 1 .. 8
        BY <1>1, PlanFacts DEF SoundScript, TypeOK
      <4>2. pc > last
        BY <1>2 DEF Ended
      <4> HIDE DEF last
      <4>3. pc > 1
        BY <4>1, <4>2
      <4>4. at = Len(plan)
        BY <1>5
      <4> QED BY <1>3, <1>5, <4>3, <4>4
    <3>2. k \in 1 .. at - 1
      BY <1>3, <3>1
    <3> QED BY <1>2, <1>7, <3>1, <3>2 DEF SoFar
  <2>3. Rooted'
    BY <1>2, <1>8 DEF Rooted, Fresh
  <2> QED BY <1>1, <1>2, <2>1, <2>2, <2>3 DEF Settled, NeverFails, PassSpeaksForResults
<1>10. CASE outcome = "bad" /\ Quit
  <2>1. /\ ledger'.run = run /\ ledger'.rows = held
        /\ ledger' \in [run : 0 .. MaxRuns, rows : Seq(BOOLEAN)]
    BY <1>1, <1>2, <1>5 DEF TypeOK
  <2> QED BY <1>1, <1>2, <1>3, <1>4, <1>5, <1>9, <1>10, <2>1, QuitKeeps DEF TypeOK
<1>11. CASE /\ outcome = "good" /\ rows' = held /\ outcome' = outcome
            /\ \/ at < Len(plan) /\ at' = at + 1 /\ pc' = 1 /\ mode' = mode
               \/ at = Len(plan) /\ mode' = "returned" /\ at' = at /\ pc' = pc
  <2>1. at' \in DOMAIN plan /\ plan[at'] \in Stages /\ pc' \in 1 .. 8
    <3>1. at' \in DOMAIN plan
      <4>1. at' = at \/ (at < Len(plan) /\ at' = at + 1)
        BY <1>11
      <4> QED BY <1>3, <4>1
    <3>2. pc' \in 1 .. 8
      <4>1. pc \in 1 .. 8
        BY <1>1 DEF TypeOK
      <4> QED BY <1>11, <4>1
    <3> QED BY <1>3, <3>1, <3>2
  <2>2. TypeOK'
    BY <1>1, <1>2, <1>5, <1>11, <2>1 DEF TypeOK
  <2>3. Numbered'
    <3>1. pc' <= Len(Script[plan[at']]) + 1
      <4>1. CASE pc' = 1
        <5>1. Len(Script[plan[at']]) \in 4 .. 7
          BY <2>1, ScriptsAreSound DEF SoundScript
        <5> QED BY <4>1, <5>1
      <4>2. CASE pc' = pc /\ at' = at
        BY <1>1, <1>3, <4>2 DEF Numbered
      <4> QED BY <1>11, <4>1, <4>2
    <3>2. ledger'.run = run /\ mode' \in {"reproduce", "returned"}
      BY <1>2, <1>11
    <3>3. (\A a \in alone : a <= run) /\ run <= run
      BY <1>1, <1>4 DEF Numbered
    <3> QED BY <1>2, <1>4, <3>1, <3>2, <3>3 DEF Numbered, Stage
  <2>4. Collected'
    <3>1. /\ ledger' = [run |-> run', rows |-> rows'] /\ rows' = held
          /\ ledger'.rows = held /\ plan' = plan
      BY <1>2, <1>11
    <3>2. \A k \in DOMAIN held : held[k]
      <4>1. held[at] /\ \A k \in 1 .. at - 1 : held[k]
        BY <1>5, <1>6, <1>11
      <4>2. \A k \in 1 .. at : k \in 1 .. at - 1 \/ k = at
        BY <1>3
      <4> QED BY <1>5, <4>1, <4>2
    <3>3. at <= Len(plan)
      BY <1>3
    <3>4. /\ mode' = "reproduce" => at = at' - 1
          /\ mode' = "returned" => at = Len(plan)
      <4>1. mode # "returned"
        BY <1>2
      <4>2. \/ at' = at + 1 /\ mode' = mode
            \/ at = Len(plan) /\ mode' = "returned"
        BY <1>11
      <4>3. at' = at + 1 => at = at' - 1
        BY <1>3
      <4> QED BY <4>1, <4>2, <4>3
    <3> QED BY <1>5, <3>1, <3>2, <3>3, <3>4 DEF Collected
  <2>5. Underway'
    <3>1. ASSUME mode' = "reproduce" PROVE SoFar' /\ at' = at + 1
      <4>1. pc' = 1 /\ at' = at + 1 /\ outcome' = "good"
        BY <1>2, <1>11, <3>1
      <4>2. \A op : ~Done(op)'
        BY <4>1 DEF Done
      <4>3. ~Stamped'
        BY <4>1 DEF Stamped
      <4> QED BY <4>1, <4>2, <4>3 DEF SoFar
    <3>2. \A k \in 1 .. at : Fresh(plan[k], run)
      BY <1>5, <1>6, <1>8, <1>11
    <3>3. Running' => mode' = "reproduce"
      BY <1>2, <1>11 DEF Running
    <3>4. \A k : Fresh(plan[k], run)' <=> Fresh(plan[k], run)
      BY <1>2 DEF Fresh
    <3>5. mode' = "returned" => DOMAIN plan' = 1 .. at
      BY <1>2, <1>3, <1>11
    <3>6. mode' = "reproduce" => 1 .. at' - 1 = 1 .. at
      BY <1>3, <3>1
    <3> QED BY <3>1, <3>2, <3>3, <3>4, <3>5, <3>6 DEF Underway
  <2> QED BY <1>9, <2>2, <2>3, <2>4, <2>5 DEF WorkflowInv
<1> QED BY <1>10, <1>11 DEF StageReturns, held

LEMMA BeginKeeps ==
  ASSUME WorkflowInv, StartWorkflow \/ StartAlone
  PROVE  WorkflowInv'
<1>1. TypeOK /\ Numbered /\ Collected /\ Settled /\ Underway
  BY DEF WorkflowInv
<1>2. PICK k \in DOMAIN plan :
        \/ Begin("reproduce", 1) /\ alone' = alone /\ k = 1
        \/ Begin("alone", k) /\ alone' = alone \cup {run + 1}
  <2>1. 1 \in DOMAIN plan
    BY <1>1, PlanFacts
  <2> QED BY <2>1 DEF StartWorkflow, StartAlone
<1>3. /\ run < MaxRuns /\ at' = k /\ pc' = 1 /\ outcome' = "good" /\ run' = run + 1
      /\ rows' = <<>> /\ plan' = plan /\ disk' = disk /\ drawn' = drawn
      /\ ledger' = ledger /\ report' = report
      /\ \/ mode' = "reproduce" /\ alone' = alone /\ k = 1
         \/ mode' = "alone" /\ alone' = alone \cup {run + 1}
  BY <1>2 DEF Begin
<1>4. /\ run \in 0 .. MaxRuns /\ MaxRuns \in Nat /\ alone \subseteq Runs
      /\ ledger.run \in 0 .. MaxRuns
      /\ \A a \in alone : a \in Nat /\ a <= run
      /\ plan[k] \in Stages
  BY <1>1, PlanFacts DEF TypeOK, Numbered, Runs
<1>5. run + 1 \in Runs /\ run + 1 \in 0 .. MaxRuns /\ run + 1 # 0
  BY <1>3, <1>4 DEF Runs
<1>6. TypeOK'
  BY <1>1, <1>3, <1>4, <1>5 DEF TypeOK
<1>7. Numbered'
  <2>1. pc' <= Len(Script[plan[k]]) + 1
    <3>1. Len(Script[plan[k]]) \in 4 .. 7
      BY <1>4, ScriptsAreSound DEF SoundScript
    <3> QED BY <1>3, <3>1
  <2>2. ledger'.run <= run' /\ ledger'.run \notin alone'
    BY <1>1, <1>3, <1>4 DEF Numbered
  <2>3. \A a \in alone' : a <= run'
    BY <1>3, <1>4
  <2>4. mode' = "reproduce" => run' \notin alone'
    BY <1>3, <1>4
  <2> QED BY <1>3, <1>5, <2>1, <2>2, <2>3, <2>4 DEF Numbered, Stage
<1>8. Collected'
  BY <1>1, <1>3 DEF Collected
<1>9. Settled'
  <2>1. \A s \in Range(plan), f \in Files : disk[s][f].run <= run + 1
    <3>1. \A c \in Content \cup {Absent} : c.run \in Nat
      BY <1>4 DEF Content, Absent, Runs
    <3>2. \A s \in Range(plan), f \in Files : disk[s][f] \in Content \cup {Absent}
      BY <1>1 DEF TypeOK
    <3>3. \A s \in Range(plan), f \in Files : disk[s][f].run <= run
      BY <1>1 DEF Settled
    <3> QED BY <1>4, <3>1, <3>2, <3>3
  <2>2. LedgerMatchesDisk'
    <3>1. \A k1 \in DOMAIN ledger.rows : ledger.rows[k1] =>
            \A f \in {"points", "summary"} :
              /\ disk[plan[k1]][f].run >= ledger.run
              /\ k1 > 1 => disk[plan[k1]][f].run \in {ledger.run} \cup alone'
      BY <1>1, <1>3 DEF Settled, LedgerMatchesDisk
    <3> QED BY <1>3, <3>1 DEF LedgerMatchesDisk
  <2> QED BY <1>1, <1>3, <2>1, <2>2 DEF Settled, NeverFails, PassSpeaksForResults, Drawn, Rooted
<1>10. Underway'
  <2>1. SoFar'
    <3>1. \A op : ~Done(op)'
      BY <1>3 DEF Done
    <3>2. ~Stamped'
      BY <1>3 DEF Stamped
    <3> QED BY <1>3, <3>1, <3>2 DEF SoFar
  <2>2. mode' # "returned" /\ (mode' = "reproduce" => 1 .. at' - 1 = {})
    BY <1>3
  <2> QED BY <2>1, <2>2 DEF Underway
<1> QED BY <1>6, <1>7, <1>8, <1>9, <1>10 DEF WorkflowInv

(* The verifier writes the summary of fig15 again, with the run and the    *)
(* verdict of its points.                                                  *)
LEMMA VerifyPassesKeeps ==
  ASSUME WorkflowInv, VerifyPasses
  PROVE  WorkflowInv'
<1>1. TypeOK /\ Numbered /\ Collected /\ Settled
  BY DEF WorkflowInv
<1>2. /\ Quit /\ plan' = plan /\ drawn' = drawn /\ ledger' = ledger /\ run' = run
      /\ alone' = alone /\ report' = ledger.run
      /\ disk' = IF "fig15" \in Range(plan)
                 THEN [disk EXCEPT !["fig15"]["summary"] = disk["fig15"]["points"]]
                 ELSE disk
  BY DEF VerifyPasses
<1>3. /\ disk \in [Range(plan) -> [Files -> Content \cup {Absent}]]
      /\ ledger \in [run : 0 .. MaxRuns, rows : Seq(BOOLEAN)]
      /\ Files = {"points", "summary", "pass", "fail", "plot", "root"}
  BY <1>1 DEF TypeOK, Files
<1>4. /\ disk' \in [Range(plan) -> [Files -> Content \cup {Absent}]]
      /\ \A s \in Range(plan), f \in Files \ {"summary"} : disk'[s][f] = disk[s][f]
      /\ \A s \in Range(plan) :
           disk'[s]["summary"] = disk[s][IF s = "fig15" THEN "points" ELSE "summary"]
  BY <1>2, <1>3
<1>5. Settled'
  <2>1. \A s \in Range(plan), f \in Files : disk'[s][f].run <= run
    BY <1>1, <1>3, <1>4 DEF Settled
  <2>2. LedgerMatchesDisk'
    <3> SUFFICES ASSUME NEW k \in DOMAIN ledger.rows, ledger.rows[k],
                        NEW f \in {"points", "summary"}
                 PROVE  /\ disk'[plan[k]][f].run >= ledger.run
                        /\ k > 1 => disk'[plan[k]][f].run \in {ledger.run} \cup alone
      BY <1>2 DEF LedgerMatchesDisk
    <3>1. plan[k] \in Range(plan)
      BY <1>1, <1>3, PlanFacts DEF Collected
    <3>2. PICK g \in {"points", "summary"} : disk'[plan[k]][f] = disk[plan[k]][g]
      BY <1>3, <1>4, <3>1
    <3> QED BY <1>1, <3>2 DEF Settled, LedgerMatchesDisk
  <2>3. PassSpeaksForResults'
    BY <1>1, <1>2, <1>3, <1>4 DEF Settled, PassSpeaksForResults
  <2>4. Drawn'
    <3>1. \A k \in 2 .. Len(plan) - 1 : plan[k] \in Range(plan)
      BY <1>1, PlanFacts
    <3> QED BY <1>1, <1>2, <1>3, <1>4, <3>1 DEF Settled, Drawn
  <2>5. Rooted'
    <3>1. \A k \in DOMAIN ledger.rows : plan[k] \in Range(plan)
      BY <1>1, <1>3, PlanFacts DEF Collected
    <3> QED BY <1>1, <1>2, <1>3, <1>4, <3>1 DEF Settled, Rooted
  <2>6. \A s \in Range(plan) :
          /\ disk'[s]["fail"] = disk[s]["fail"]
          /\ disk'[s]["points"] = disk[s]["points"]
    BY <1>3, <1>4
  <2>7. /\ \A s \in Range(plan) : NeverFails(s) => disk'[s]["fail"] = Absent
        /\ \A s \in Range(plan) \cap {"fig23", "table4"} :
             disk'[s]["points"].says # "bad"
    BY <1>1, <2>6 DEF Settled
  <2> QED BY <1>2, <2>1, <2>2, <2>3, <2>4, <2>5, <2>7 DEF Settled, NeverFails
<1>6. ledger.run \in 0 .. MaxRuns
  BY <1>3
<1> QED BY <1>1, <1>2, <1>3, <1>4, <1>5, <1>6, QuitKeeps DEF Numbered, Collected
------------------------------------------------------------------------------
LEMMA InitKeeps == Init => WorkflowInv
<1> SUFFICES ASSUME Init PROVE WorkflowInv
  OBVIOUS
<1>1. /\ plan \in Plans /\ disk = [s \in Range(plan) |-> [f \in Files |-> Absent]]
      /\ drawn = [s \in Range(plan) |-> 0] /\ ledger = [run |-> 0, rows |-> <<>>]
      /\ rows = <<>> /\ mode = "idle" /\ at = 1 /\ pc = 1 /\ outcome = "good"
      /\ run = 0 /\ alone = {} /\ report = 0
  BY DEF Init
<1>2. plan \in Seq(Stages) /\ plan # <<>> /\ MaxRuns \in Nat
  BY <1>1, WorkflowAssumption
<1>3. Len(plan) \in Nat \ {0} /\ DOMAIN plan = 1 .. Len(plan)
  BY <1>2
<1>4. TypeOK
  BY <1>1, <1>2, <1>3 DEF TypeOK
<1>5. Numbered
  <2>1. Len(Script[Stage]) \in 4 .. 7
    BY <1>4, PlanFacts DEF SoundScript
  <2>2. 1 <= Len(Script[Stage]) + 1
    BY <2>1
  <2> QED BY <1>1, <2>2 DEF Numbered
<1>6. Collected
  BY <1>1, <1>3 DEF Collected
<1>7. Settled
  <2>1. \A s \in Range(plan), f \in Files : disk[s][f] = Absent
    BY <1>1
  <2>2. Absent.run = 0 /\ Absent.says = "nothing"
    BY DEF Absent
  <2>3. LedgerMatchesDisk
    BY <1>1 DEF LedgerMatchesDisk
  <2>4. Drawn
    BY <1>1, <1>3 DEF Drawn
  <2>5. Rooted
    BY <1>1 DEF Rooted
  <2> QED BY <1>1, <2>1, <2>2, <2>3, <2>4, <2>5 DEF Settled, PassSpeaksForResults, Files
<1>8. Underway
  BY <1>1 DEF Underway, Running
<1> QED BY <1>4, <1>5, <1>6, <1>7, <1>8 DEF WorkflowInv

LEMMA NextKeeps == WorkflowInv /\ [Next]_vars => WorkflowInv'
<1> SUFFICES ASSUME WorkflowInv, [Next]_vars PROVE WorkflowInv'
  OBVIOUS
<1>1. TypeOK /\ Numbered /\ Collected /\ Settled /\ Underway
  BY DEF WorkflowInv
<1>2. ledger \in [run : 0 .. MaxRuns, rows : Seq(BOOLEAN)]
  BY <1>1 DEF TypeOK
<1>3. CASE StartWorkflow \/ StartAlone
  BY <1>3, BeginKeeps
<1>4. CASE StageStep
  BY <1>4, StageKeeps
<1>5. CASE Killed
  BY <1>5, KilledKeeps
<1>6. CASE StageReturns
  BY <1>6, StageReturnsKeeps
<1>7. CASE AloneReturns \/ VerifyFails
  <2>1. /\ Quit
        /\ UNCHANGED <<plan, disk, drawn, ledger, run, alone, report>>
    BY <1>7 DEF AloneReturns, VerifyFails
  <2>2. Settled'
    BY <1>1, <2>1 DEF Settled, LedgerMatchesDisk, NeverFails, PassSpeaksForResults, Drawn,
                       Rooted
  <2> QED BY <1>1, <1>2, <2>1, <2>2, QuitKeeps DEF TypeOK, Numbered, Collected
<1>8. CASE StartVerify
  <2>1. mode' = "verify"
        /\ UNCHANGED <<plan, disk, drawn, ledger, rows, at, pc, outcome, run, alone,
                       report>>
    BY <1>8 DEF StartVerify
  <2>2. TypeOK' /\ Numbered' /\ Collected' /\ Underway'
    BY <1>1, <2>1 DEF TypeOK, Numbered, Collected, Underway, Running, Stage
  <2>3. Settled'
    BY <1>1, <2>1 DEF Settled, LedgerMatchesDisk, NeverFails, PassSpeaksForResults, Drawn,
                       Rooted
  <2> QED BY <2>2, <2>3 DEF WorkflowInv
<1>9. CASE VerifyPasses
  BY <1>9, VerifyPassesKeeps
<1>10. CASE UNCHANGED vars
  <2>1. TypeOK' /\ Numbered' /\ Collected'
    BY <1>1, <1>10 DEF vars, TypeOK, Numbered, Collected, Stage
  <2>2. Settled'
    BY <1>1, <1>10 DEF vars, Settled, LedgerMatchesDisk, NeverFails,
                       PassSpeaksForResults, Drawn, Rooted
  <2>3. Underway'
    BY <1>1, <1>10 DEF vars, Underway, Running, SoFar, Stage, Done, Stamped, Ended,
                       Fresh
  <2> QED BY <2>1, <2>2, <2>3 DEF WorkflowInv
<1> QED BY <1>3, <1>4, <1>5, <1>6, <1>7, <1>8, <1>9, <1>10 DEF Next, StageStep

(* The inductive invariant of the workflow: the numbering of the runs, the *)
(* rows a running workflow has collected, what is true of the result tree  *)
(* whatever is under way, and what the stage and the run under way have    *)
(* already done.                                                           *)
THEOREM WorkflowInvariant == Spec => []WorkflowInv
BY InitKeeps, NextKeeps, PTL DEF Spec

(* A ledger row that says a stage passed is never older than the results   *)
(* it speaks of were written: no stage's results are of an earlier run     *)
(* than the ledger, and apart from the first stage they are of the         *)
(* ledger's own run or of a stage run alone later.                         *)
THEOREM LedgerIsNeverAhead == Spec => []LedgerMatchesDisk
<1>1. WorkflowInv => LedgerMatchesDisk
  BY DEF WorkflowInv, Settled
<1> QED BY <1>1, WorkflowInvariant, PTL

(* The PASS of fig12 and those of fig22's version directories stand for    *)
(* the results beside them, and the PASS of a stage that checks first      *)
(* never stands beside results that failed, whatever died in between.      *)
THEOREM MarkersAreHonest == Spec => []PassSpeaksForResults
<1>1. WorkflowInv => PassSpeaksForResults
  BY DEF WorkflowInv, Settled
<1> QED BY <1>1, WorkflowInvariant, PTL

(* A workflow run that returns 0 leaves a tree the verifier accepts,       *)
(* whatever was killed, failed or was run alone in that tree before,       *)
(* exactly when no stage run alone has left an image there.                *)
THEOREM RerunsRecover == Spec => []RerunRecovers
<1>1. WorkflowInv => RerunRecovers
  <2> DEFINE bare == \A s \in Range(plan) : disk[s]["plot"] = Absent
  <2> SUFFICES ASSUME WorkflowInv, mode = "returned" PROVE MustPass <=> bare
    BY DEF RerunRecovers
  <2>1. TypeOK /\ Collected /\ \A k \in DOMAIN plan : Fresh(plan[k], run)
    BY DEF WorkflowInv, Underway
  <2>2. /\ \A s \in Range(plan) : \E i \in DOMAIN plan : plan[i] = s
        /\ plan[Len(plan)] = "figures" /\ Len(plan) \in DOMAIN plan
        /\ Len(plan) \in Nat \ {0} /\ plan \in Seq(Stages)
    BY <2>1, PlanFacts
  <2>3. \A s \in Range(plan) : Fresh(s, run)
    BY <2>1, <2>2
  <2>4. LedgerClosed
    <3>1. Len(rows) = Len(plan) /\ \A k \in DOMAIN rows : rows[k]
      BY <2>1 DEF Collected
    <3>2. rows # <<>>
      <4>1. Len(rows) # 0 /\ Len(<<>>) = 0
        BY <2>2, <3>1
      <4> QED BY <4>1
    <3>3. ledger.rows = rows
      BY <2>1, <3>2 DEF Collected
    <3> QED BY <3>1, <3>3 DEF LedgerClosed
  <2>5. (\A s \in Range(plan) : Accepted(s)) <=> bare
    BY <2>3 DEF Fresh, Good, Accepted
  <2>6. FiguresListed
    BY <2>1, <2>2 DEF Fresh, Good, FiguresListed
  <2> QED BY <2>4, <2>5, <2>6 DEF MustPass, CouldPass
<1> QED BY <1>1, WorkflowInvariant, PTL

(* In a tree the verifier accepts, the root PASS of fig22 is of the same   *)
(* run as the results below it, unless fig22 was run alone since.          *)
THEOREM RootPassIsNotStale == Spec => []RootPassIsOfTheRun
<1>1. WorkflowInv => RootPassIsOfTheRun
  <2> SUFFICES ASSUME WorkflowInv, CouldPass, NEW k \in 2 .. Len(plan),
                      plan[k] = "fig22", disk["fig22"]["points"].run \notin alone
               PROVE  disk["fig22"]["root"] = disk["fig22"]["pass"]
    BY DEF RootPassIsOfTheRun
  <2>1. /\ TypeOK /\ LedgerMatchesDisk /\ Rooted /\ PassSpeaksForResults
        /\ Len(ledger.rows) = Len(plan) /\ \A j \in DOMAIN ledger.rows : ledger.rows[j]
        /\ \A s \in Range(plan) : Accepted(s)
    BY DEF WorkflowInv, Settled, CouldPass, LedgerClosed
  <2>2. /\ Len(plan) \in Nat \ {0} /\ ledger.rows \in Seq(BOOLEAN)
        /\ k \in DOMAIN plan /\ "fig22" \in Range(plan)
    <3>1. Len(plan) \in Nat \ {0} /\ DOMAIN plan = 1 .. Len(plan)
      BY <2>1, PlanFacts
    <3>2. k \in DOMAIN plan
      BY <3>1
    <3> QED BY <2>1, <3>1, <3>2, PlanFacts DEF TypeOK
  <2>3. k \in DOMAIN ledger.rows /\ k > 1
    BY <2>1, <2>2
  <2>4. disk["fig22"]["points"].run = ledger.run
    BY <2>1, <2>3 DEF LedgerMatchesDisk
  <2>5. disk["fig22"]["root"] = Good(ledger.run)
    BY <2>1, <2>3, <2>4 DEF Rooted
  <2>6. disk["fig22"]["pass"].says = "good"
    BY <2>1, <2>2 DEF Accepted, Marked
  <2>7. disk["fig22"]["points"] = disk["fig22"]["pass"]
    BY <2>1, <2>2, <2>6 DEF PassSpeaksForResults
  <2>8. disk["fig22"]["pass"] \in Content \cup {Absent}
    BY <2>1, <2>2 DEF TypeOK, Files
  <2>9. disk["fig22"]["pass"] = [run |-> disk["fig22"]["pass"].run,
                                 says |-> disk["fig22"]["pass"].says]
    BY <2>8 DEF Content, Absent
  <2> QED BY <2>4, <2>5, <2>6, <2>7, <2>9 DEF Good
<1> QED BY <1>1, WorkflowInvariant, PTL

(* What the verifier accepts is the work of the run in the ledger, but for *)
(* the first stage and for stages run alone, and the figures show it.      *)
THEOREM VerifiedTreeIsOneRun == Spec => []VerifiedIsOneRun
<1>1. WorkflowInv => VerifiedIsOneRun
  <2> SUFFICES ASSUME WorkflowInv, CouldPass, NEW k \in 2 .. Len(plan)
               PROVE  /\ disk[plan[k]]["points"].run \in {ledger.run} \cup alone
                      /\ plan[k] # "figures"
                         /\ drawn[plan[k]] # disk[plan[k]]["points"].run
                           => disk[plan[k]]["points"].run \in alone
    BY DEF VerifiedIsOneRun
  <2>1. /\ TypeOK /\ LedgerMatchesDisk /\ Drawn
        /\ Len(ledger.rows) = Len(plan) /\ \A j \in DOMAIN ledger.rows : ledger.rows[j]
    BY DEF WorkflowInv, Settled, CouldPass, LedgerClosed
  <2>2. /\ Len(plan) \in Nat \ {0} /\ plan[Len(plan)] = "figures"
        /\ ledger.rows \in Seq(BOOLEAN)
    BY <2>1, PlanFacts DEF TypeOK
  <2>3. k \in DOMAIN ledger.rows /\ k > 1 /\ Len(plan) \in DOMAIN ledger.rows
    BY <2>1, <2>2
  <2>4. disk[plan[k]]["points"].run \in {ledger.run} \cup alone
    BY <2>1, <2>3 DEF LedgerMatchesDisk
  <2>5. ASSUME plan[k] # "figures", drawn[plan[k]] # disk[plan[k]]["points"].run
        PROVE  disk[plan[k]]["points"].run \in alone
    <3>1. k \in 2 .. Len(plan) - 1
      BY <2>2, <2>5
    <3>2. disk[plan[k]]["points"].run = ledger.run => drawn[plan[k]] = ledger.run
      BY <2>1, <2>3, <3>1 DEF Drawn
    <3> QED BY <2>4, <2>5, <3>2
  <2> QED BY <2>4, <2>5
<1> QED BY <1>1, WorkflowInvariant, PTL
=============================================================================
