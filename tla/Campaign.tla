------------------------------ MODULE Campaign ------------------------------
(***************************************************************************)
(* The experiment harness (tests/finops-eval/harness): a campaign of       *)
(* rounds, each of which deploys one scenario's pod, lets it mature,       *)
(* classifies what the analyzer said about it, and removes the pod.  The   *)
(* results are in per_run.csv, from which the same command resumes a       *)
(* campaign that was interrupted or killed; summary.csv aggregates them.   *)
(*                                                                         *)
(* Exceptions take Python's paths: Ctrl-C is a KeyboardInterrupt wherever  *)
(* the harness is, `finally` runs on every way out of run_one, and what is *)
(* raised inside it replaces what was on its way.                          *)
(***************************************************************************)
EXTENDS Naturals, FiniteSets

CONSTANTS
    Scenarios,
    Positive,       \* those with label "positive"
    Repetitions,    \* reps
    MaxSessions,    \* bound of the sessions: runs of the command
    MaxInterrupts,  \* bound of the Ctrl-C
    MaxBlinds,      \* bound of the kubectl get that fail
    MaxKills        \* bound of the kills of the harness

ASSUME ScenariosAssumption == Positive \subseteq Scenarios
ASSUME CampaignBounds ==
    /\ Repetitions \in Nat \ {0}
    /\ MaxSessions \in Nat /\ MaxInterrupts \in Nat
    /\ MaxBlinds \in Nat /\ MaxKills \in Nat

VARIABLES
    file,       \* per_run.csv: set of [round, attempt, status, notified]
    summary,    \* summary.csv: the four counts of each scenario
    pods,       \* scenarios whose pod is in the namespace
    pc,
    resumed,    \* not args.no_resume
    pending,    \* rounds of the schedule that main has not come to
    completed,  \* as read at the start
    runs,       \* the list of main: set of [rec, text]; text = read from the CSV
    round,      \* of run_one
    deployed,   \* of run_one
    outcome,    \* what run_one returns or raises: [status, notified]
    attempts,   \* verification only: number of the rounds begun, to tell records apart
    sessions, interrupts, blinds, kills

disk == <<file, summary>>
local == <<resumed, pending, completed, runs>>
bounds == <<sessions, interrupts, blinds, kills>>
vars == <<disk, pods, pc, local, round, deployed, outcome, bounds, attempts>>

Rounds == Scenarios \X (1..Repetitions)
Nowhere == <<>>
Pending == [status |-> "running", notified |-> FALSE]
Error == [status |-> "error", notified |-> FALSE]
Interrupt == [status |-> "interrupt", notified |-> FALSE]
Results == [status : {"valid", "invalid"}, notified : BOOLEAN]

-----------------------------------------------------------------------------
\* bool(run.get("notified")): a string is true, "False" too.
AsBool(run) == run.text \/ run.rec.notified

\* classify_run, as aggregate_scenario calls it.
Classify(s, notified) ==
    IF s \in Positive THEN IF notified THEN "TP" ELSE "FN"
                      ELSE IF notified THEN "FP" ELSE "TN"

Classes == {"TP", "FN", "FP", "TN"}

AggregateAllFinished(R) ==
    [s \in Scenarios |-> [c \in Classes |->
        Cardinality({r \in R : /\ r.rec.round[1] = s
                               /\ r.rec.status \in {"valid", "invalid"}
                               /\ Classify(s, AsBool(r)) = c})]]

\* Only valid runs are counted.
Aggregate(R) ==
    [s \in Scenarios |-> [c \in Classes |->
        Cardinality({r \in R : /\ r.rec.round[1] = s
                               /\ r.rec.status = "valid"
                               /\ Classify(s, AsBool(r)) = c})]]

NoSummary == Aggregate({})

Init ==
    /\ file = {}
    /\ summary = NoSummary
    /\ pods = {}
    /\ pc = "down"
    /\ resumed = FALSE
    /\ pending = {} /\ completed = {} /\ runs = {}
    /\ round = Nowhere
    /\ deployed = FALSE
    /\ outcome = Pending
    /\ attempts = 0 /\ sessions = 0 /\ interrupts = 0 /\ blinds = 0 /\ kills = 0

-----------------------------------------------------------------------------
Started(resume, done) ==
    /\ pc \in {"down", "finished"}
    /\ sessions < MaxSessions
    /\ sessions' = sessions + 1
    /\ resumed' = resume
    /\ runs' = IF resume THEN {[rec |-> r, text |-> TRUE] : r \in file} ELSE {}
    /\ completed' = {r.rec.round : r \in {q \in runs' : q.rec.status \in done}}
    /\ pending' = Rounds
    /\ pc' = "next"
    /\ UNCHANGED <<disk, pods, round, deployed, outcome, attempts, interrupts, blinds, kills>>

StartRepeatingInvalid(resume) == Started(resume, {"valid"})

\* The command, with or without --no-resume.
Start(resume) == Started(resume, {"valid", "invalid"})

\* The schedule is shuffled: any round that is left may be the next one.
Skip ==
    /\ pc = "next"
    /\ \E r \in pending \cap completed : pending' = pending \ {r}
    /\ UNCHANGED <<disk, pods, pc, resumed, completed, runs, round, deployed, outcome, bounds,
                   attempts>>

Begin ==
    /\ pc = "next"
    /\ \E r \in pending \ completed :
          /\ round' = r
          /\ pending' = pending \ {r}
    /\ attempts' = attempts + 1
    /\ deployed' = FALSE
    /\ outcome' = Pending
    /\ pc' = "prepare"
    /\ UNCHANGED <<disk, pods, resumed, completed, runs, bounds>>

\* wait_namespace_empty asks kubectl, and takes its failure for an empty answer.
SeemsEmpty ==
    \/ pods = {} /\ UNCHANGED blinds
    \/ pods # {} /\ blinds < MaxBlinds /\ blinds' = blinds + 1

PrepareWithoutWaiting ==
    /\ pc = "prepare"
    /\ pc' = "apply"
    /\ UNCHANGED <<disk, pods, local, round, deployed, outcome, bounds, attempts>>

\* reset_experiment, wait_namespace_empty, the counters before.
Prepare ==
    /\ pc = "prepare"
    /\ SeemsEmpty
    /\ pc' = "apply"
    /\ UNCHANGED <<disk, pods, local, round, deployed, outcome, attempts, sessions, interrupts,
                   kills>>

\* apply_scenario: the pod is there before the harness knows it.
Apply ==
    /\ pc = "apply"
    /\ pods' = pods \cup {round[1]}
    /\ pc' = "applied"
    /\ UNCHANGED <<disk, local, round, deployed, outcome, bounds, attempts>>

Applied ==
    /\ pc = "applied"
    /\ deployed' = TRUE
    /\ pc' = "measure"
    /\ UNCHANGED <<disk, pods, local, round, outcome, bounds, attempts>>

\* Readiness, maturation, polling, and the verdict.
Measure ==
    /\ pc = "measure"
    /\ outcome' \in Results
    /\ pc' = "delete"
    /\ UNCHANGED <<disk, pods, local, round, deployed, bounds, attempts>>

InTry == pc \in {"prepare", "apply", "applied", "measure"}

\* Whatever is called raises: a request, kubectl, a wait that gives up.
Raise ==
    /\ InTry
    /\ outcome' = Error
    /\ pc' = "delete"
    /\ UNCHANGED <<disk, pods, local, round, deployed, bounds, attempts>>

\* finally: delete_scenario, which hides the failure of kubectl.
Delete ==
    /\ pc = "delete"
    /\ \/ pods' = IF deployed THEN pods \ {round[1]} ELSE pods
       \/ pods' = pods
    /\ pc' = "wait"
    /\ UNCHANGED <<disk, local, round, deployed, outcome, bounds, attempts>>

\* wait_namespace_empty: raises, whatever the outcome was, if a pod stays.
Wait ==
    /\ pc = "wait"
    /\ \/ SeemsEmpty /\ outcome' = outcome
       \/ pods # {} /\ outcome' = Error /\ UNCHANGED blinds
    /\ pc' = IF outcome'.status = "interrupt" THEN "stop" ELSE "record"
    /\ UNCHANGED <<disk, pods, local, round, deployed, attempts, sessions, interrupts, kills>>

\* main puts the record in the place of an earlier one of the round.
NewRun == [rec |-> [round |-> round, attempt |-> attempts,
                    status |-> outcome.status, notified |-> outcome.notified],
           text |-> FALSE]

Recorded(R) ==
    /\ pc = "record"
    /\ runs' = R
    /\ pc' = "write"
    /\ UNCHANGED <<disk, pods, resumed, pending, completed, round, deployed, outcome, bounds,
                   attempts>>

RecordAppends == Recorded(runs \cup {NewRun})
RecordUnlessError == Recorded(IF outcome = Error THEN runs ELSE runs \cup {NewRun})

Record == Recorded({r \in runs : r.rec.round # round} \cup {NewRun})

-----------------------------------------------------------------------------
\* write_outputs: per_run.csv is replaced, then summary.csv is written.  It is
\* called after each round, when the campaign stops, and at its end.
WriteRuns ==
    /\ \/ pc \in {"write", "stop"}
       \/ pc = "next" /\ pending = {}
    /\ file' = {r.rec : r \in runs}
    /\ pc' = CASE pc = "write" -> "written" [] pc = "stop" -> "stopped" [] pc = "next" -> "ended"
    /\ UNCHANGED <<summary, pods, local, round, deployed, outcome, bounds, attempts>>

WriteSummary ==
    /\ pc \in {"written", "stopped", "ended"}
    /\ summary' = Aggregate(runs)
    /\ pc' = CASE pc = "written" -> "next" [] pc = "stopped" -> "down" [] pc = "ended" -> "finished"
    /\ UNCHANGED <<file, pods, local, round, deployed, outcome, bounds, attempts>>

-----------------------------------------------------------------------------
\* Ctrl-C in run_one; in its finally it cuts the rest of the finally off.
CtrlC ==
    /\ InTry \/ pc \in {"delete", "wait"}
    /\ interrupts < MaxInterrupts
    /\ interrupts' = interrupts + 1
    /\ outcome' = Interrupt
    /\ pc' = IF InTry THEN "delete" ELSE "stop"
    /\ UNCHANGED <<disk, pods, local, round, deployed, attempts, sessions, blinds, kills>>

\* The harness dies; a Ctrl-C outside of run_one does the same.
Kill ==
    /\ pc \notin {"down", "finished"}
    /\ kills < MaxKills
    /\ kills' = kills + 1
    /\ pc' = "down"
    /\ UNCHANGED <<disk, pods, local, round, deployed, outcome, attempts, sessions, interrupts,
                   blinds>>

\* A pod that was left behind goes: a deletion that nobody waited for any longer completes, or
\* somebody deletes it.
LeftoverGoes ==
    /\ \E s \in pods :
          /\ pc \in {"apply", "applied", "measure", "delete"} => s # round[1]
          /\ pods' = pods \ {s}
    /\ UNCHANGED <<disk, pc, local, round, deployed, outcome, bounds, attempts>>

Next ==
    \/ \E resume \in BOOLEAN : Start(resume)
    \/ Skip
    \/ Begin
    \/ Prepare
    \/ Apply
    \/ Applied
    \/ Measure
    \/ Raise
    \/ Delete
    \/ Wait
    \/ Record
    \/ WriteRuns
    \/ WriteSummary
    \/ CtrlC
    \/ Kill
    \/ LeftoverGoes

Spec == Init /\ [][Next]_vars
-----------------------------------------------------------------------------
RunRecord == [round : Rounds, attempt : Nat, status : {"valid", "invalid", "error"},
              notified : BOOLEAN]

(***************************************************************************)
(* Type invariant.                                                         *)
(***************************************************************************)
TypeOK ==
    /\ file \subseteq RunRecord
    /\ summary \in [Scenarios -> [Classes -> Nat]]
    /\ pods \subseteq Scenarios
    /\ pc \in {"down", "next", "prepare", "apply", "applied", "measure", "delete", "wait",
               "record", "write", "written", "stop", "stopped", "ended", "finished"}
    /\ resumed \in BOOLEAN
    /\ pending \subseteq Rounds /\ completed \subseteq Rounds
    /\ runs \subseteq [rec : RunRecord, text : BOOLEAN]
    /\ round \in Rounds \cup {Nowhere}
    /\ deployed \in BOOLEAN
    /\ outcome \in Results \cup {Pending, Error, Interrupt}
    /\ attempts \in Nat /\ sessions \in 0..MaxSessions /\ interrupts \in 0..MaxInterrupts
    /\ blinds \in 0..MaxBlinds /\ kills \in 0..MaxKills

(***************************************************************************)
(* However often the campaign is interrupted, killed and resumed, a round  *)
(* has at most one record (run.py:226).                                    *)
(***************************************************************************)
OneRecord == \A a, b \in file : a.round = b.round => a = b

(***************************************************************************)
(* A result is never lost and never measured again: what is valid or       *)
(* invalid stays in the file as it is, through every stop and resumption   *)
(* (run.py:211-215; TEST_SETUP.md:46).  Only --no-resume starts over.      *)
(***************************************************************************)
ResultsKept ==
    [][resumed => \A r \in file : r.status \in {"valid", "invalid"} => r \in file']_vars

(***************************************************************************)
(* A campaign that came to its end has a record of every round, whatever   *)
(* was raised in the rounds (run.py:217-229).                              *)
(***************************************************************************)
FinishedIsComplete == pc = "finished" => {r.round : r \in file} = Rounds

(***************************************************************************)
(* Nothing but the scenario is deployed while it is measured               *)
(* (deploy.py:33-39), after leftovers of interrupted, killed and failed    *)
(* rounds too.  It takes a kubectl get that fails to deceive the harness.  *)
(***************************************************************************)
IsolatedUnlessBlind == pc = "measure" /\ blinds = 0 => pods = {round[1]}

Counted(s, c, R) ==
    Cardinality({r \in R : /\ r.round[1] = s /\ r.status = "valid"
                           /\ Classify(s, r.notified) = c})

(***************************************************************************)
(* The final summary counts the valid rounds and no others, each in one    *)
(* class, and each in its class if the campaign was not resumed            *)
(* (stats.py:25-28).                                                       *)
(***************************************************************************)
SummaryOfValidRuns ==
    pc = "finished" =>
        \A s \in Scenarios :
            /\ summary[s]["TP"] + summary[s]["FN"] + summary[s]["FP"] + summary[s]["TN"]
                 = Cardinality({r \in file : r.round[1] = s /\ r.status = "valid"})
            /\ (\A r \in runs : ~ r.text)
                 => \A c \in Classes : summary[s][c] = Counted(s, c, file)

(***************************************************************************)
(* summary.csv says of each class what per_run.csv says (TEST_SETUP.md:44: *)
(* "negativo nao notificado, TN").  Violated after a resumption: the       *)
(* string "False" of the CSV is true, so every earlier TN is an FP and     *)
(* every earlier FN a TP (run.py:175, stats.py:28).                        *)
(***************************************************************************)
SummaryAgrees ==
    pc = "finished" =>
        \A s \in Scenarios : \A c \in Classes : summary[s][c] = Counted(s, c, file)
=============================================================================
