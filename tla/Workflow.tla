------------------------------- MODULE Workflow -------------------------------
(***************************************************************************)
(* The artifact workflow: ae/workflow.py runs the stages one after the     *)
(* other as child processes and keeps a ledger, run_manifest.csv; each     *)
(* stage (ae/fig*.py, table4.py, plot_all.py) writes its points, a summary *)
(* and a marker in an order of its own; ae/verification.py accepts or      *)
(* rejects what it finds on disk, at the end of a run or at any time       *)
(* later.  A stage can also be run alone into the same result tree.  Runs  *)
(* and stages may die at any step, and the next run finds what they left.  *)
(***************************************************************************)
EXTENDS Naturals, Sequences, Functions

CONSTANTS
  Plans,           \* the stage lists a result tree may be built from
  MaxRuns          \* bound: commands started in one result tree

(* What a stage does, in order.  "evaluate" computes every point in        *)
(* memory, "screen" is a check a bad result may pass, "mark" writes PASS   *)
(* or FAIL, "stamp" writes one file that says which, "drop" removes the    *)
(* opposite marker and "clear" removes both.  "plot" draws the one image   *)
(* a stage may put beside its results and "root" writes the PASS of fig22  *)
(* above its version directories.  A stage that computes both model        *)
(* versions keeps a directory for each; the model follows one of them.     *)
Fig08 == <<"evaluate", "points", "summary", "check", "plot", "stamp">>
(* Wrong form of Fig09: a FAIL of an earlier run stays beside the PASS.    *)
Fig09Keeps == <<"evaluate", "points", "summary", "mark">>

Fig09 == <<"evaluate", "points", "summary", "mark", "drop">>

Fig10 == <<"evaluate", "points", "summary", "stamp">>
Fig12 == <<"clear", "evaluate", "points", "summary", "mark">>
Fig13 == <<"evaluate", "points", "summary", "check">>
Fig15 == <<"evaluate", "points", "check", "summary">>
Fig16 == <<"evaluate", "points", "screen", "summary", "check">>
Fig17 == <<"evaluate", "points", "summary", "check">>
Fig18_20 == <<"evaluate", "points", "summary", "drop", "mark">>
Fig21 == <<"evaluate", "points", "summary", "check">>

(* Wrong form of Fig22: the markers of an earlier run are left in place.   *)
Fig22Keeps == <<"evaluate", "points", "summary", "mark", "check", "root">>
(* Wrong form of Fig22: the root PASS comes first.                         *)
Fig22RootFirst == <<"evaluate", "root", "clear", "points", "summary", "mark">>

Fig22 == <<"evaluate", "clear", "points", "summary", "mark", "check", "root">>
Fig23 == <<"evaluate", "check", "points", "summary", "mark">>
Table4 == <<"evaluate", "check", "points", "summary", "mark">>
Figures == <<"evaluate", "points", "summary", "mark">>

Script ==
  [fig08 |-> Fig08, fig09 |-> Fig09, fig10 |-> Fig10, fig12 |-> Fig12,
   fig13 |-> Fig13, fig15 |-> Fig15, fig16 |-> Fig16, fig17 |-> Fig17,
   fig18_20 |-> Fig18_20, fig21 |-> Fig21, fig22 |-> Fig22, fig23 |-> Fig23, table4 |-> Table4,
   figures |-> Figures]

Stages == DOMAIN Script

(* The figures come last, as in the list of the reproduce command.         *)
ASSUME WorkflowAssumption ==
  /\ \A p \in Plans :
       /\ p \in Seq(Stages) /\ p # <<>> /\ p[Len(p)] = "figures"
       /\ \A i, j \in DOMAIN p : p[i] = p[j] => i = j
  /\ MaxRuns \in Nat \ {0}

Runs == 1 .. MaxRuns

(* Every stage's contract names points and a summary; these also name a    *)
(* marker, and these reject a summary with a FAIL row.                     *)
Marked        == {"fig08", "fig09", "fig10", "fig12", "fig18_20", "fig22",
                  "fig23", "table4", "figures"}
SelfReporting == {"fig09", "fig12", "fig13", "fig16", "fig18_20", "fig22"}

VARIABLES
  plan,            \* the stages of this result tree, in order
  disk,            \* stage -> kind of file -> who wrote it and what it says
  drawn,           \* stage -> the run whose points the figures show
  ledger,          \* run_manifest.csv
  rows,            \* the ledger rows the workflow process holds
  mode,            \* the command under way
  at, pc,          \* its stage and the step of that stage's script
  outcome,         \* what the stage computed
  run,             \* commands started so far
  alone,           \* those of them that ran one stage outside the workflow
  report           \* the ledger verification_summary.json speaks of

vars == <<plan, disk, drawn, ledger, rows, mode, at, pc, outcome, run, alone,
          report>>

Absent  == [run |-> 0, says |-> "nothing"]
Files   == {"points", "summary", "pass", "fail", "plot", "root"}
Content == [run : Runs, says : {"good", "bad", "torn"}]

Stage == plan[at]
Op    == Script[Stage][pc]
Ended == pc > Len(Script[Stage])

Init ==
  /\ plan \in Plans
  /\ disk = [s \in Range(plan) |-> [f \in Files |-> Absent]]
  /\ drawn = [s \in Range(plan) |-> 0]
  /\ ledger = [run |-> 0, rows |-> <<>>]
  /\ rows = <<>>
  /\ mode = "idle" /\ at = 1 /\ pc = 1 /\ outcome = "good"
  /\ run = 0 /\ alone = {} /\ report = 0
------------------------------------------------------------------------------
Begin(m, k) ==
  /\ mode = "idle" /\ run < MaxRuns
  /\ mode' = m /\ at' = k /\ pc' = 1 /\ outcome' = "good"
  /\ run' = run + 1 /\ rows' = <<>>
  /\ UNCHANGED <<plan, disk, drawn, ledger, report>>

(* "reproduce": the rows are collected anew, the ledger is left as it is.  *)
StartWorkflow == Begin("reproduce", 1) /\ UNCHANGED alone

(* python -m ae.figXX, or the plot command, on the same result tree.       *)
StartAlone ==
  \E k \in DOMAIN plan :
    Begin("alone", k) /\ alone' = alone \cup {run + 1}

(* The command ends, and with it what its process held.                    *)
Quit == mode' = "idle" /\ at' = 1 /\ pc' = 1 /\ outcome' = "good" /\ rows' = <<>>

Running == mode \in {"reproduce", "alone"}

Put(f, says) ==
  disk' = [disk EXCEPT ![Stage][f] = [run |-> run, says |-> says]]

Delete(fs) ==
  disk' = [disk EXCEPT ![Stage] =
             [f \in Files |-> IF f \in fs THEN Absent ELSE disk[Stage][f]]]

Step(op) == Running /\ ~Ended /\ Op = op

Unmoved == UNCHANGED <<plan, ledger, rows, mode, at, run, alone, report>>

(* All points are computed before any is written; one that fails ends the  *)
(* stage.  The figures are drawn from the points on disk.                  *)
Evaluate ==
  /\ Step("evaluate")
  /\ \/ outcome' \in (IF Stage = "figures" THEN {"good"} ELSE {"good", "bad"})
        /\ pc' = pc + 1
     \/ outcome' = "bad" /\ pc' = Len(Script[Stage]) + 1
  /\ drawn' = IF Stage = "figures"
              THEN [s \in Range(plan) |-> disk[s]["points"].run] ELSE drawn
  /\ UNCHANGED disk /\ Unmoved

Write ==
  /\ \E f \in {"points", "summary"} : Step(f) /\ Put(f, outcome)
  /\ pc' = pc + 1
  /\ UNCHANGED <<drawn, outcome>> /\ Unmoved

Mark ==
  /\ \/ Step("mark") /\ Put(IF outcome = "good" THEN "pass" ELSE "fail", outcome)
     \/ Step("stamp") /\ Put("pass", outcome)
  /\ pc' = pc + 1
  /\ UNCHANGED <<drawn, outcome>> /\ Unmoved

Unlink ==
  /\ \/ Step("clear") /\ Delete({"pass", "fail"})
     \/ Step("drop") /\ Delete(IF outcome = "good" THEN {"fail"} ELSE {"pass"})
  /\ pc' = pc + 1
  /\ UNCHANGED <<drawn, outcome>> /\ Unmoved

(* Only the workflow always asks for --no-plot, and a stage run alone may  *)
(* compute one model version, which has no root PASS.                      *)
Extra ==
  /\ \/ Step("plot") /\ mode = "alone" /\ Put("plot", outcome)
     \/ Step("plot") /\ UNCHANGED disk
     \/ Step("root") /\ Put("root", outcome)
     \/ Step("root") /\ mode = "alone" /\ UNCHANGED disk
  /\ pc' = pc + 1
  /\ UNCHANGED <<drawn, outcome>> /\ Unmoved

(* fig08 run alone with --no-verify goes on unchecked and says so in its   *)
(* stamp.                                                                  *)
Unchecked == mode = "alone" /\ Stage = "fig08" /\ Op = "check"

Check ==
  /\ Step("check") \/ Step("screen")
  /\ \/ (outcome = "good" \/ Op = "screen") /\ pc' = pc + 1 /\ UNCHANGED outcome
     \/ outcome = "bad" /\ pc' = Len(Script[Stage]) + 1 /\ UNCHANGED outcome
     \/ Unchecked /\ pc' = pc + 1 /\ outcome' = "bad"
  /\ UNCHANGED <<disk, drawn>> /\ Unmoved

(* The stage process dies, with the file it was writing half written or    *)
(* not begun; the workflow sees a nonzero return code.                     *)
Target == CASE Op \in {"points", "summary", "root"} -> {Op}
            [] Op = "plot" /\ mode = "alone" -> {"plot"}
            [] Op = "stamp" -> {"pass"}
            [] Op = "mark" -> {IF outcome = "good" THEN "pass" ELSE "fail"}
            [] OTHER -> {}

Interrupt == UNCHANGED disk \/ \E f \in Target : Put(f, "torn")

StageDies ==
  /\ Running /\ ~Ended
  /\ Interrupt
  /\ outcome' = "bad" /\ pc' = Len(Script[Stage]) + 1
  /\ UNCHANGED drawn /\ Unmoved

(* The whole command dies.                                                 *)
Killed ==
  /\ mode # "idle"
  /\ IF Running /\ ~Ended THEN Interrupt ELSE UNCHANGED disk
  /\ Quit
  /\ UNCHANGED <<plan, drawn, ledger, run, alone, report>>

(* Wrong form of WriteManifest: the ledger is written once, at the end.    *)
WriteManifestAtEnd(held) ==
  ledger' = IF at = Len(plan) \/ outcome = "bad"
            THEN [run |-> run, rows |-> held] ELSE ledger

(* _write_manifest: written aside and moved into place.                    *)
WriteManifest(held) == ledger' = [run |-> run, rows |-> held]

(* The stage process returned: its row is kept, the ledger replaced, and   *)
(* the workflow goes on, stops, or hands over to the verifier.             *)
StageReturns ==
  /\ mode = "reproduce" /\ Ended
  /\ LET held == Append(rows, outcome = "good") IN
       /\ WriteManifest(held)
       /\ \/ /\ outcome = "good" /\ rows' = held
             /\ \/ at < Len(plan) /\ at' = at + 1 /\ pc' = 1 /\ UNCHANGED mode
                \/ at = Len(plan) /\ mode' = "returned" /\ UNCHANGED <<at, pc>>
             /\ UNCHANGED outcome
          \/ outcome = "bad" /\ Quit
  /\ UNCHANGED <<plan, disk, drawn, run, alone, report>>

AloneReturns ==
  /\ mode = "alone" /\ Ended /\ Quit
  /\ UNCHANGED <<plan, disk, drawn, ledger, run, alone, report>>
------------------------------------------------------------------------------
(* Wrong form of LedgerClosed: every row passed, but some may be missing.  *)
LedgerPassed == ledger.rows # <<>> /\ \A k \in DOMAIN ledger.rows : ledger.rows[k]

(* verify_workflow_manifest: exactly the stages, in order, all passed.     *)
LedgerClosed ==
  /\ Len(ledger.rows) = Len(plan)
  /\ \A k \in DOMAIN ledger.rows : ledger.rows[k]

(* verify_stage_outputs and verify_fig15, for one stage: every file of its *)
(* contract, no other file, and markers that say PASS.                     *)
Accepted(s) ==
  /\ \A f \in {"points", "summary"} \ (IF s = "figures" THEN {"points"} ELSE {}) :
       disk[s][f].says \in {"good", "bad"}
  /\ s \in SelfReporting => disk[s]["summary"].says = "good"
  /\ s \in Marked => disk[s]["pass"].says = "good"
  /\ s = "fig22" => disk[s]["root"].says = "good"
  /\ disk[s]["fail"] = Absent /\ disk[s]["plot"] = Absent
  /\ s = "fig15" => disk[s]["points"].says = "good"

(* The manifest of the figures holds the sizes of the images, which other  *)
(* images may happen to have.                                              *)
FiguresListed ==
  /\ disk["figures"]["points"].says = "good"
  /\ disk["figures"]["points"].run = disk["figures"]["summary"].run

CouldPass == LedgerClosed /\ \A s \in Range(plan) : Accepted(s)
MustPass  == CouldPass /\ FiguresListed

(* The verify command, on whatever is there.                               *)
StartVerify ==
  /\ mode = "idle" /\ mode' = "verify"
  /\ UNCHANGED <<plan, disk, drawn, ledger, rows, at, pc, outcome, run, alone,
                 report>>

Verifying == mode \in {"verify", "returned"}

(* verify_fig15 writes its drift summary again from the points.            *)
VerifyPasses ==
  /\ Verifying /\ CouldPass
  /\ disk' = IF "fig15" \in Range(plan)
             THEN [disk EXCEPT !["fig15"]["summary"] = disk["fig15"]["points"]]
             ELSE disk
  /\ Quit /\ report' = ledger.run
  /\ UNCHANGED <<plan, drawn, ledger, run, alone>>

VerifyFails ==
  /\ Verifying /\ ~MustPass /\ Quit
  /\ UNCHANGED <<plan, disk, drawn, ledger, run, alone, report>>

Next ==
  \/ StartWorkflow \/ StartAlone
  \/ Evaluate \/ Write \/ Mark \/ Unlink \/ Extra \/ Check
  \/ StageDies \/ Killed \/ StageReturns \/ AloneReturns
  \/ StartVerify \/ VerifyPasses \/ VerifyFails

Spec == Init /\ [][Next]_vars
------------------------------------------------------------------------------
TypeOK ==
  /\ plan \in Plans
  /\ disk \in [Range(plan) -> [Files -> Content \cup {Absent}]]
  /\ drawn \in [Range(plan) -> 0 .. MaxRuns]
  /\ ledger \in [run : 0 .. MaxRuns, rows : Seq(BOOLEAN)]
  /\ rows \in Seq(BOOLEAN)
  /\ mode \in {"idle", "reproduce", "alone", "returned", "verify"}
  /\ at \in DOMAIN plan /\ pc \in 1 .. 8
  /\ outcome \in {"good", "bad"}
  /\ run \in 0 .. MaxRuns /\ alone \subseteq Runs /\ report \in 0 .. MaxRuns

(* The ledger and the results: a stage the ledger says passed has results  *)
(* of that run or a later one, never of an earlier run; and only the first *)
(* stage can have been overtaken by a later workflow run, whose first row  *)
(* is not written yet.                                                     *)
LedgerMatchesDisk ==
  \A k \in DOMAIN ledger.rows :
    ledger.rows[k] =>
      \A f \in {"points", "summary"} :
        LET by == disk[plan[k]][f].run IN
        /\ by >= ledger.run
        /\ k > 1 => by \in {ledger.run} \cup alone

(* Where a stage removes its markers before it writes, no PASS is left     *)
(* beside anything but the good results it was written for: that of fig12  *)
(* and those of fig22's version directories.  A stage that checks before   *)
(* it writes never leaves a PASS beside results that failed.               *)
PassSpeaksForResults ==
  \A s \in Range(plan) :
    disk[s]["pass"].says = "good" =>
      /\ s \in {"fig12", "fig22"} =>
           \A f \in {"points", "summary"} : disk[s][f] = disk[s]["pass"]
      /\ s \in {"fig23", "table4"} => disk[s]["points"].says # "bad"

(* No stage clears the root PASS of fig22, so it may stand beside results  *)
(* of a later run.  In a tree the verifier accepts it does not: it is of   *)
(* the run of the PASS below it, unless fig22 was run alone since.         *)
RootPassIsOfTheRun ==
  CouldPass =>
    \A k \in 2 .. Len(plan) :
      plan[k] = "fig22" =>
        \/ disk["fig22"]["points"].run \in alone
        \/ disk["fig22"]["root"] = disk["fig22"]["pass"]

(* A workflow run that returns 0 leaves a tree the verifier accepts,       *)
(* whatever failed, was killed or was run alone before, but for one thing: *)
(* an image that a stage run alone drew there, which no run removes.       *)
RerunRecovers ==
  mode = "returned" => (MustPass <=> \A s \in Range(plan) : disk[s]["plot"] = Absent)

(* What the verifier accepts is one run's work: apart from the first stage *)
(* and from stages run alone, all results are of the run in the ledger and *)
(* the figures show those results.                                         *)
VerifiedIsOneRun ==
  CouldPass =>
    \A k \in 2 .. Len(plan) :
      LET s == plan[k] IN
      /\ disk[s]["points"].run \in {ledger.run} \cup alone
      /\ s # "figures" /\ drawn[s] # disk[s]["points"].run
           => disk[s]["points"].run \in alone
=============================================================================
