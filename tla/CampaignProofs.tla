--------------------------- MODULE CampaignProofs ---------------------------
(***************************************************************************)
(* Proofs about module Campaign, for all scenarios, repetitions and        *)
(* bounds.                                                                 *)
(***************************************************************************)
EXTENDS Campaign, FiniteSetTheorems, TLAPS

\* run_one is on its way: its round is begun and has no record yet.
InRound == InTry \/ pc \in {"delete", "wait", "record"}

\* A record that decides its round: main reads its round as completed.
Decided(r) == r.status \in {"valid", "invalid"}

-----------------------------------------------------------------------------
(***************************************************************************)
(* Type correctness.  TypeOK is inductive with what each place of the      *)
(* program knows: a round that is running is one of the schedule, what     *)
(* run_one leaves its try with is a verdict or an exception, and it comes  *)
(* to the place of the record with anything but the interrupt.             *)
(***************************************************************************)
PlacesOK ==
    /\ InRound => round \in Rounds
    /\ pc \in {"delete", "wait"} => outcome \in Results \cup {Error, Interrupt}
    /\ pc = "record" => outcome \in Results \cup {Error}

\* The lists and the file are finite: the counts of the summary are numbers.
FiniteOK == IsFiniteSet(runs) /\ IsFiniteSet(file)

TypeInv == TypeOK /\ PlacesOK /\ FiniteOK

\* What the actions leave alone, in the tuples the model names.
USE DEF disk, local, bounds, InTry, InRound, Decided

LEMMA InitialSummary == NoSummary \in [Scenarios -> [Classes -> Nat]]
<1>1. \A s \in Scenarios, c \in Classes :
        {r \in {} : r.rec.round[1] = s /\ r.rec.status = "valid"
                    /\ Classify(s, AsBool(r)) = c} = {}
    OBVIOUS
<1>2. Cardinality({}) = 0
    BY FS_EmptySet
<1> QED
    BY <1>1, <1>2 DEF NoSummary, Aggregate

LEMMA SummaryType ==
    ASSUME NEW R, IsFiniteSet(R)
    PROVE  Aggregate(R) \in [Scenarios -> [Classes -> Nat]]
<1>1. ASSUME NEW s \in Scenarios, NEW c \in Classes
      PROVE  Cardinality({r \in R : r.rec.round[1] = s /\ r.rec.status = "valid"
                                    /\ Classify(s, AsBool(r)) = c}) \in Nat
    <2> DEFINE T == {r \in R : r.rec.round[1] = s /\ r.rec.status = "valid"
                               /\ Classify(s, AsBool(r)) = c}
    <2>1. T \subseteq R
        OBVIOUS
    <2>2. IsFiniteSet(T)
        BY <2>1, FS_Subset
    <2> QED
        BY <2>2, FS_CardinalityType
<1> QED
    BY <1>1 DEF Aggregate

(***************************************************************************)
(* A run of the list made from a record of the file, and back.             *)
(***************************************************************************)
LEMMA RecordsOfRuns ==
    ASSUME NEW R, R \subseteq [rec : RunRecord, text : BOOLEAN], IsFiniteSet(R)
    PROVE  /\ {r.rec : r \in R} \subseteq RunRecord
           /\ IsFiniteSet({r.rec : r \in R})
<1>1. {r.rec : r \in R} \subseteq RunRecord
    OBVIOUS
<1> DEFINE f == [r \in R |-> r.rec]
           T == {r.rec : r \in R}
<1>2. f \in Surjection(R, T)
    BY DEF Surjection
<1>3. IsFiniteSet(T)
    BY <1>2, FS_Surjection
<1> QED
    BY <1>1, <1>3

LEMMA TypeInit == Init => TypeInv
<1> SUFFICES ASSUME Init
             PROVE  TypeInv
    OBVIOUS
<1>1. TypeOK
    <2>1. summary \in [Scenarios -> [Classes -> Nat]]
        BY InitialSummary DEF Init
    <2>2. sessions \in 0..MaxSessions /\ interrupts \in 0..MaxInterrupts
              /\ blinds \in 0..MaxBlinds /\ kills \in 0..MaxKills
        BY CampaignBounds DEF Init
    <2> QED
        BY <2>1, <2>2 DEF Init, TypeOK
<1>2. PlacesOK
    BY DEF Init, PlacesOK
<1>3. FiniteOK
    BY FS_EmptySet DEF Init, FiniteOK
<1> QED
    BY <1>1, <1>2, <1>3 DEF TypeInv

LEMMA TypeStep == TypeInv /\ [Next]_vars => TypeInv'
<1> SUFFICES ASSUME TypeInv, [Next]_vars
             PROVE  TypeInv'
    OBVIOUS
<1> USE CampaignBounds DEF TypeInv
<1>1. ASSUME NEW resume \in BOOLEAN, Start(resume)
      PROVE  TypeInv'
    <2> DEFINE R == {[rec |-> r, text |-> TRUE] : r \in file}
    <2>1. R \subseteq [rec : RunRecord, text : BOOLEAN]
        <3>1. file \subseteq RunRecord
            BY DEF TypeOK
        <3>2. ASSUME NEW r \in file
              PROVE  [rec |-> r, text |-> TRUE] \in [rec : RunRecord, text : BOOLEAN]
            BY <3>1
        <3> QED
            BY <3>2
    <2>2. IsFiniteSet(R)
        <3> DEFINE f == [r \in file |-> [rec |-> r, text |-> TRUE]]
        <3>1. f \in Surjection(file, R)
            BY DEF Surjection
        <3> QED
            BY <3>1, FS_Surjection DEF FiniteOK
    <2>3. /\ runs' \subseteq [rec : RunRecord, text : BOOLEAN]
          /\ IsFiniteSet(runs')
        BY <1>1, <2>1, <2>2, FS_EmptySet DEF Start, Started
    <2>4. completed' \subseteq Rounds
        BY <1>1, <2>3 DEF Start, Started, RunRecord
    <2>5. TypeOK'
        BY <1>1, <2>3, <2>4 DEF Start, Started, TypeOK
    <2> QED
        BY <1>1, <2>3, <2>5 DEF Start, Started, PlacesOK, FiniteOK
<1>2. CASE Skip
    BY <1>2 DEF Skip, TypeOK, PlacesOK, FiniteOK
<1>3. CASE Begin
    <2>1. round' \in Rounds /\ pending' \subseteq Rounds
        BY <1>3 DEF Begin, TypeOK
    <2>2. attempts' \in Nat
        BY <1>3 DEF Begin, TypeOK
    <2>3. TypeOK'
        BY <1>3, <2>1, <2>2 DEF Begin, TypeOK
    <2> QED
        BY <1>3, <2>1, <2>3 DEF Begin, PlacesOK, FiniteOK
<1>4. CASE Prepare
    BY <1>4 DEF Prepare, SeemsEmpty, TypeOK, PlacesOK, FiniteOK
<1>5. CASE Apply
    BY <1>5 DEF Apply, TypeOK, PlacesOK, FiniteOK, Rounds
<1>6. CASE Applied
    BY <1>6 DEF Applied, TypeOK, PlacesOK, FiniteOK
<1>7. CASE Measure
    BY <1>7 DEF Measure, TypeOK, PlacesOK, FiniteOK
<1>8. CASE Raise
    BY <1>8 DEF Raise, TypeOK, PlacesOK, FiniteOK
<1>9. CASE Delete
    BY <1>9 DEF Delete, TypeOK, PlacesOK, FiniteOK
<1>10. CASE Wait
    <2>1. outcome' \in Results \cup {Error, Interrupt} /\ pc' \in {"stop", "record"}
        BY <1>10 DEF Wait, PlacesOK
    <2>2. outcome'.status = "interrupt" <=> outcome' = Interrupt
        BY <2>1 DEF Results, Error, Interrupt
    <2>3. blinds' \in 0..MaxBlinds
        BY <1>10 DEF Wait, SeemsEmpty, TypeOK
    <2>4. TypeOK'
        BY <1>10, <2>1, <2>3 DEF Wait, TypeOK
    <2>5. pc' = "record" => outcome' \in Results \cup {Error}
        BY <1>10, <2>1, <2>2 DEF Wait
    <2> QED
        BY <1>10, <2>1, <2>4, <2>5 DEF Wait, PlacesOK, FiniteOK
<1>11. CASE Record
    <2>1. NewRun \in [rec : RunRecord, text : BOOLEAN]
        <3>1. round \in Rounds /\ attempts \in Nat
            BY <1>11 DEF Record, Recorded, TypeOK, PlacesOK
        <3>2. outcome \in Results \cup {Error}
            BY <1>11 DEF Record, Recorded, PlacesOK
        <3>3. outcome.status \in {"valid", "invalid", "error"} /\ outcome.notified \in BOOLEAN
            <4>1. CASE outcome \in Results
                BY <4>1 DEF Results
            <4>2. CASE outcome = Error
                BY <4>2 DEF Error
            <4> QED
                BY <3>2, <4>1, <4>2
        <3> QED
            BY <3>1, <3>3 DEF NewRun, RunRecord
    <2> DEFINE others == {r \in runs : r.rec.round # round}
    <2>2. IsFiniteSet(others)
        BY FS_Subset DEF FiniteOK
    <2>3. IsFiniteSet(runs')
        BY <1>11, <2>2, FS_AddElement DEF Record, Recorded
    <2>4. runs' \subseteq [rec : RunRecord, text : BOOLEAN]
        BY <1>11, <2>1 DEF Record, Recorded, TypeOK
    <2>5. TypeOK'
        BY <1>11, <2>4 DEF Record, Recorded, TypeOK
    <2> QED
        BY <1>11, <2>3, <2>5 DEF Record, Recorded, PlacesOK, FiniteOK
<1>12. CASE WriteRuns
    <2>1. file' \subseteq RunRecord /\ IsFiniteSet(file')
        BY <1>12, RecordsOfRuns DEF WriteRuns, TypeOK, FiniteOK
    <2>2. pc' \in {"written", "stopped", "ended"}
        BY <1>12 DEF WriteRuns
    <2>3. TypeOK'
        BY <1>12, <2>1, <2>2 DEF WriteRuns, TypeOK
    <2> QED
        BY <1>12, <2>1, <2>2, <2>3 DEF WriteRuns, PlacesOK, FiniteOK
<1>13. CASE WriteSummary
    <2>1. summary' \in [Scenarios -> [Classes -> Nat]]
        BY <1>13, SummaryType DEF WriteSummary, FiniteOK
    <2>2. pc' \in {"next", "down", "finished"}
        BY <1>13 DEF WriteSummary
    <2>3. TypeOK'
        BY <1>13, <2>1, <2>2 DEF WriteSummary, TypeOK
    <2> QED
        BY <1>13, <2>2, <2>3 DEF WriteSummary, PlacesOK, FiniteOK
<1>14. CASE CtrlC
    BY <1>14 DEF CtrlC, TypeOK, PlacesOK, FiniteOK
<1>15. CASE Kill
    BY <1>15 DEF Kill, TypeOK, PlacesOK, FiniteOK
<1>16. CASE LeftoverGoes
    BY <1>16 DEF LeftoverGoes, TypeOK, PlacesOK, FiniteOK
<1>17. CASE UNCHANGED vars
    BY <1>17 DEF vars, TypeOK, PlacesOK, FiniteOK
<1> QED
    BY <1>1, <1>2, <1>3, <1>4, <1>5, <1>6, <1>7, <1>8, <1>9, <1>10, <1>11, <1>12, <1>13,
       <1>14, <1>15, <1>16, <1>17 DEF Next

(***************************************************************************)
(* The harness, its files and the cluster keep their types, what run_one   *)
(* holds agrees with the place it is at, and the lists and the file stay   *)
(* finite.                                                                 *)
(***************************************************************************)
THEOREM TypeCorrect == Spec => [](TypeOK /\ PlacesOK /\ FiniteOK)
    BY TypeInit, TypeStep, PTL DEF Spec, TypeInv

-----------------------------------------------------------------------------
(***************************************************************************)
(* The list of main has one run of a round, as the file has one record.    *)
(***************************************************************************)
OneRun == \A a, b \in runs : a.rec.round = b.rec.round => a = b

(***************************************************************************)
(* What the list has decided is not measured again: such a round is one    *)
(* that the start found completed, or one that main has passed; it is not  *)
(* the round that is running.                                              *)
(***************************************************************************)
DecidedIsPast ==
    /\ InRound => round \notin pending
    /\ \A r \in runs : Decided(r.rec) =>
          /\ r.rec.round \in pending => r.rec.round \in completed
          /\ InRound => r.rec.round # round

(***************************************************************************)
(* In a campaign that was resumed, the list has every result of the file:  *)
(* writing the list over the file loses none.                              *)
(***************************************************************************)
Carried ==
    resumed /\ pc \notin {"down", "finished"} =>
        \A f \in file : Decided(f) => \E r \in runs : r.rec = f

(***************************************************************************)
(* Until the campaign is stopped, each round is still pending, or is the   *)
(* one that is running, or has a run in the list.  A round that is skipped *)
(* is completed, and has one.                                              *)
(***************************************************************************)
Passed == {r.rec.round : r \in runs}

Accounted ==
    /\ pc \notin {"down", "finished"} => completed \subseteq Passed
    /\ pc \notin {"down", "finished", "stop", "stopped"} =>
          \A x \in Rounds : x \in pending \/ x \in Passed \/ (InRound /\ x = round)
    /\ pc = "ended" => pending = {}

(***************************************************************************)
(* From the time the file is written to the next round, it is the list;    *)
(* when the campaign has ended the summary is the list's.                  *)
(***************************************************************************)
Written ==
    /\ pc \in {"written", "stopped", "ended", "finished"} => file = {r.rec : r \in runs}
    /\ pc = "finished" => summary = Aggregate(runs)

(***************************************************************************)
(* Unless kubectl failed, the namespace is empty when the scenario is      *)
(* applied, and has its pod alone from then on.                            *)
(***************************************************************************)
Isolated ==
    blinds = 0 =>
        /\ pc = "apply" => pods = {}
        /\ pc \in {"applied", "measure"} => pods = {round[1]}

IInv ==
    /\ TypeInv
    /\ OneRun /\ OneRecord
    /\ DecidedIsPast /\ Carried
    /\ Accounted /\ FinishedIsComplete
    /\ Written
    /\ Isolated

-----------------------------------------------------------------------------
\* The steps of the inductive invariant, conjunct by conjunct.

(***************************************************************************)
(* A round has one run in the list and one record in the file: Record      *)
(* removes the run whose place the new one takes.                          *)
(***************************************************************************)
LEMMA UniqueStep ==
    ASSUME TypeInv, OneRun, OneRecord, [Next]_vars
    PROVE  OneRun' /\ OneRecord'
<1>1. ASSUME NEW resume \in BOOLEAN, Start(resume)
      PROVE  OneRun' /\ OneRecord'
    <2>1. UNCHANGED file
        BY <1>1 DEF Start, Started
    <2>2. \A a \in runs' : a.rec \in file /\ a = [rec |-> a.rec, text |-> TRUE]
        BY <1>1 DEF Start, Started
    <2> QED
        BY <2>1, <2>2 DEF OneRun, OneRecord
<1>2. CASE Skip
    BY <1>2 DEF Skip, OneRun, OneRecord
<1>3. CASE Begin
    BY <1>3 DEF Begin, OneRun, OneRecord
<1>4. CASE Prepare
    BY <1>4 DEF Prepare, SeemsEmpty, OneRun, OneRecord
<1>5. CASE Apply
    BY <1>5 DEF Apply, OneRun, OneRecord
<1>6. CASE Applied
    BY <1>6 DEF Applied, OneRun, OneRecord
<1>7. CASE Measure
    BY <1>7 DEF Measure, OneRun, OneRecord
<1>8. CASE Raise
    BY <1>8 DEF Raise, OneRun, OneRecord
<1>9. CASE Delete
    BY <1>9 DEF Delete, OneRun, OneRecord
<1>10. CASE Wait
    BY <1>10 DEF Wait, SeemsEmpty, OneRun, OneRecord
<1>11. CASE Record
    <2> DEFINE others == {r \in runs : r.rec.round # round}
    <2>1. runs' = others \cup {NewRun} /\ UNCHANGED file
        BY <1>11 DEF Record, Recorded
    <2>2. \A r \in others : r \in runs /\ r.rec.round # round
        OBVIOUS
    <2>3. NewRun.rec.round = round
        BY DEF NewRun
    <2> QED
        BY <2>1, <2>2, <2>3 DEF OneRun, OneRecord
<1>12. CASE WriteRuns
    BY <1>12 DEF WriteRuns, OneRun, OneRecord
<1>13. CASE WriteSummary
    BY <1>13 DEF WriteSummary, OneRun, OneRecord
<1>14. CASE CtrlC
    BY <1>14 DEF CtrlC, OneRun, OneRecord
<1>15. CASE Kill
    BY <1>15 DEF Kill, OneRun, OneRecord
<1>16. CASE LeftoverGoes
    BY <1>16 DEF LeftoverGoes, OneRun, OneRecord
<1>17. CASE UNCHANGED vars
    BY <1>17 DEF vars, OneRun, OneRecord
<1> QED
    BY <1>1, <1>2, <1>3, <1>4, <1>5, <1>6, <1>7, <1>8, <1>9,
       <1>10, <1>11, <1>12, <1>13, <1>14, <1>15, <1>16, <1>17 DEF Next

(***************************************************************************)
(* What is decided is behind the schedule.                                 *)
(***************************************************************************)
LEMMA PastStep ==
    ASSUME TypeInv, DecidedIsPast, [Next]_vars
    PROVE  DecidedIsPast'
<1>1. ASSUME NEW resume \in BOOLEAN, Start(resume)
      PROVE  DecidedIsPast'
    BY <1>1 DEF Start, Started, DecidedIsPast
<1>2. CASE Skip
    BY <1>2 DEF Skip, DecidedIsPast
<1>3. CASE Begin
    BY <1>3 DEF Begin, DecidedIsPast
<1>4. CASE Prepare
    BY <1>4 DEF Prepare, SeemsEmpty, DecidedIsPast
<1>5. CASE Apply
    BY <1>5 DEF Apply, DecidedIsPast
<1>6. CASE Applied
    BY <1>6 DEF Applied, DecidedIsPast
<1>7. CASE Measure
    BY <1>7 DEF Measure, DecidedIsPast
<1>8. CASE Raise
    BY <1>8 DEF Raise, DecidedIsPast
<1>9. CASE Delete
    BY <1>9 DEF Delete, DecidedIsPast
<1>10. CASE Wait
    BY <1>10 DEF Wait, SeemsEmpty, DecidedIsPast
<1>11. CASE Record
    <2>1. runs' \subseteq runs \cup {NewRun} /\ UNCHANGED <<pending, completed>> /\ pc' = "write"
        BY <1>11 DEF Record, Recorded
    <2>2. NewRun.rec.round = round /\ round \notin pending
        BY <1>11 DEF Record, Recorded, NewRun, DecidedIsPast
    <2> QED
        BY <2>1, <2>2 DEF DecidedIsPast
<1>12. CASE WriteRuns
    BY <1>12 DEF WriteRuns, DecidedIsPast
<1>13. CASE WriteSummary
    BY <1>13 DEF WriteSummary, DecidedIsPast
<1>14. CASE CtrlC
    BY <1>14 DEF CtrlC, DecidedIsPast
<1>15. CASE Kill
    BY <1>15 DEF Kill, DecidedIsPast
<1>16. CASE LeftoverGoes
    BY <1>16 DEF LeftoverGoes, DecidedIsPast
<1>17. CASE UNCHANGED vars
    BY <1>17 DEF vars, DecidedIsPast
<1> QED
    BY <1>1, <1>2, <1>3, <1>4, <1>5, <1>6, <1>7, <1>8, <1>9,
       <1>10, <1>11, <1>12, <1>13, <1>14, <1>15, <1>16, <1>17 DEF Next

(***************************************************************************)
(* Only Record takes a run from the list, and the run is undecided.        *)
(***************************************************************************)
LEMMA CarriedStep ==
    ASSUME TypeInv, DecidedIsPast, Carried, [Next]_vars
    PROVE  Carried'
<1>1. ASSUME NEW resume \in BOOLEAN, Start(resume)
      PROVE  Carried'
    <2>1. UNCHANGED file /\ resumed' = resume
        BY <1>1 DEF Start, Started
    <2>2. ASSUME resume, NEW f \in file
          PROVE  [rec |-> f, text |-> TRUE] \in runs'
        BY <1>1, <2>2 DEF Start, Started
    <2>3. ASSUME resume, NEW f \in file
          PROVE  \E r \in runs' : r.rec = f
        BY <2>2, <2>3
    <2> QED
        BY <2>1, <2>3 DEF Carried
<1>2. CASE Skip
    BY <1>2 DEF Skip, Carried
<1>3. CASE Begin
    BY <1>3 DEF Begin, Carried
<1>4. CASE Prepare
    BY <1>4 DEF Prepare, SeemsEmpty, Carried
<1>5. CASE Apply
    BY <1>5 DEF Apply, Carried
<1>6. CASE Applied
    BY <1>6 DEF Applied, Carried
<1>7. CASE Measure
    BY <1>7 DEF Measure, Carried
<1>8. CASE Raise
    BY <1>8 DEF Raise, Carried
<1>9. CASE Delete
    BY <1>9 DEF Delete, Carried
<1>10. CASE Wait
    BY <1>10 DEF Wait, SeemsEmpty, Carried
<1>11. CASE Record
    <2>1. UNCHANGED <<file, resumed>> /\ pc = "record"
        BY <1>11 DEF Record, Recorded
    <2>2. ASSUME NEW r \in runs, Decided(r.rec)
          PROVE  r \in runs'
        <3>1. r.rec.round # round
            BY <2>1, <2>2 DEF DecidedIsPast
        <3> QED
            BY <1>11, <3>1 DEF Record, Recorded
    <2> QED
        BY <2>1, <2>2 DEF Carried
<1>12. CASE WriteRuns
    BY <1>12 DEF WriteRuns, Carried
<1>13. CASE WriteSummary
    BY <1>13 DEF WriteSummary, Carried
<1>14. CASE CtrlC
    BY <1>14 DEF CtrlC, Carried
<1>15. CASE Kill
    BY <1>15 DEF Kill, Carried
<1>16. CASE LeftoverGoes
    BY <1>16 DEF LeftoverGoes, Carried
<1>17. CASE UNCHANGED vars
    BY <1>17 DEF vars, Carried
<1> QED
    BY <1>1, <1>2, <1>3, <1>4, <1>5, <1>6, <1>7, <1>8, <1>9,
       <1>10, <1>11, <1>12, <1>13, <1>14, <1>15, <1>16, <1>17 DEF Next

(***************************************************************************)
(* No round gets lost between the schedule, run_one and the list.          *)
(***************************************************************************)
LEMMA AccountedStep ==
    ASSUME TypeInv, Accounted, FinishedIsComplete, Written, [Next]_vars
    PROVE  Accounted' /\ FinishedIsComplete'
<1>1. ASSUME NEW resume \in BOOLEAN, Start(resume)
      PROVE  Accounted' /\ FinishedIsComplete'
    BY <1>1 DEF Start, Started, Accounted, FinishedIsComplete, Passed
<1>2. CASE Skip
    BY <1>2 DEF Skip, Accounted, FinishedIsComplete, Passed
<1>3. CASE Begin
    BY <1>3 DEF Begin, Accounted, FinishedIsComplete, Passed
<1>4. CASE Prepare
    BY <1>4 DEF Prepare, SeemsEmpty, Accounted, FinishedIsComplete, Passed
<1>5. CASE Apply
    BY <1>5 DEF Apply, Accounted, FinishedIsComplete, Passed
<1>6. CASE Applied
    BY <1>6 DEF Applied, Accounted, FinishedIsComplete, Passed
<1>7. CASE Measure
    BY <1>7 DEF Measure, Accounted, FinishedIsComplete, Passed
<1>8. CASE Raise
    BY <1>8 DEF Raise, Accounted, FinishedIsComplete, Passed
<1>9. CASE Delete
    BY <1>9 DEF Delete, Accounted, FinishedIsComplete, Passed
<1>10. CASE Wait
    BY <1>10 DEF Wait, SeemsEmpty, Accounted, FinishedIsComplete, Passed
<1>11. CASE Record
    <2>1. UNCHANGED <<pending, completed>> /\ pc = "record" /\ pc' = "write"
        BY <1>11 DEF Record, Recorded
    <2>2. NewRun \in runs' /\ NewRun.rec.round = round
        BY <1>11 DEF Record, Recorded, NewRun
    <2>3. \A r \in runs : r \in runs' \/ r.rec.round = round
        BY <1>11 DEF Record, Recorded
    <2>4. round \in Passed' /\ Passed \subseteq Passed'
        BY <2>2, <2>3 DEF Passed
    <2>5. /\ completed \subseteq Passed
          /\ \A x \in Rounds : x \in pending \/ x \in Passed \/ x = round
        BY <2>1 DEF Accounted
    <2>6. Accounted'
        BY <2>1, <2>4, <2>5 DEF Accounted
    <2>7. FinishedIsComplete'
        BY <2>1 DEF FinishedIsComplete
    <2> QED
        BY <2>6, <2>7
<1>12. CASE WriteRuns
    BY <1>12 DEF WriteRuns, Accounted, FinishedIsComplete, Passed
<1>13. CASE WriteSummary
    <2>1. Accounted'
        BY <1>13 DEF WriteSummary, Accounted, Passed
    <2>2. CASE pc = "ended"
        <3>1. \A x \in Rounds : x \in Passed
            BY <2>2 DEF Accounted
        <3>2. file = {r.rec : r \in runs}
            BY <2>2 DEF Written
        <3>3. Rounds \subseteq {r.round : r \in file}
            BY <3>1, <3>2 DEF Passed
        <3>4. {r.round : r \in file} \subseteq Rounds
            BY DEF TypeInv, TypeOK, RunRecord
        <3> QED
            BY <1>13, <2>1, <3>3, <3>4 DEF WriteSummary, FinishedIsComplete
    <2>3. CASE pc # "ended"
        BY <1>13, <2>1, <2>3 DEF WriteSummary, FinishedIsComplete
    <2> QED
        BY <2>2, <2>3
<1>14. CASE CtrlC
    BY <1>14 DEF CtrlC, Accounted, FinishedIsComplete, Passed
<1>15. CASE Kill
    BY <1>15 DEF Kill, Accounted, FinishedIsComplete, Passed
<1>16. CASE LeftoverGoes
    BY <1>16 DEF LeftoverGoes, Accounted, FinishedIsComplete, Passed
<1>17. CASE UNCHANGED vars
    BY <1>17 DEF vars, Accounted, FinishedIsComplete, Passed
<1> QED
    BY <1>1, <1>2, <1>3, <1>4, <1>5, <1>6, <1>7, <1>8, <1>9,
       <1>10, <1>11, <1>12, <1>13, <1>14, <1>15, <1>16, <1>17 DEF Next

(***************************************************************************)
(* The list changes in rounds only, the file in WriteRuns only.            *)
(***************************************************************************)
LEMMA WrittenStep ==
    ASSUME TypeInv, Written, [Next]_vars
    PROVE  Written'
<1>1. ASSUME NEW resume \in BOOLEAN, Start(resume)
      PROVE  Written'
    BY <1>1 DEF Start, Started, Written
<1>2. CASE Skip
    BY <1>2 DEF Skip, Written
<1>3. CASE Begin
    BY <1>3 DEF Begin, Written
<1>4. CASE Prepare
    BY <1>4 DEF Prepare, SeemsEmpty, Written
<1>5. CASE Apply
    BY <1>5 DEF Apply, Written
<1>6. CASE Applied
    BY <1>6 DEF Applied, Written
<1>7. CASE Measure
    BY <1>7 DEF Measure, Written
<1>8. CASE Raise
    BY <1>8 DEF Raise, Written
<1>9. CASE Delete
    BY <1>9 DEF Delete, Written
<1>10. CASE Wait
    BY <1>10 DEF Wait, SeemsEmpty, Written
<1>11. CASE Record
    BY <1>11 DEF Record, Recorded, Written
<1>12. CASE WriteRuns
    BY <1>12 DEF WriteRuns, Written
<1>13. CASE WriteSummary
    BY <1>13 DEF WriteSummary, Written
<1>14. CASE CtrlC
    BY <1>14 DEF CtrlC, Written
<1>15. CASE Kill
    BY <1>15 DEF Kill, Written
<1>16. CASE LeftoverGoes
    BY <1>16 DEF LeftoverGoes, Written
<1>17. CASE UNCHANGED vars
    BY <1>17 DEF vars, Written
<1> QED
    BY <1>1, <1>2, <1>3, <1>4, <1>5, <1>6, <1>7, <1>8, <1>9,
       <1>10, <1>11, <1>12, <1>13, <1>14, <1>15, <1>16, <1>17 DEF Next

(***************************************************************************)
(* Unless kubectl fails, Prepare waits for the empty namespace.            *)
(***************************************************************************)
LEMMA IsolatedStep ==
    ASSUME TypeInv, Isolated, [Next]_vars
    PROVE  Isolated'
<1>1. ASSUME NEW resume \in BOOLEAN, Start(resume)
      PROVE  Isolated'
    BY <1>1 DEF Start, Started, Isolated
<1>2. CASE Skip
    BY <1>2 DEF Skip, Isolated
<1>3. CASE Begin
    BY <1>3 DEF Begin, Isolated
<1>4. CASE Prepare
    <2>1. blinds \in Nat
        BY CampaignBounds DEF TypeInv, TypeOK
    <2>2. blinds' = 0 => pods = {}
        BY <1>4, <2>1 DEF Prepare, SeemsEmpty
    <2> QED
        BY <1>4, <2>2 DEF Prepare, Isolated
<1>5. CASE Apply
    BY <1>5 DEF Apply, Isolated
<1>6. CASE Applied
    BY <1>6 DEF Applied, Isolated
<1>7. CASE Measure
    BY <1>7 DEF Measure, Isolated
<1>8. CASE Raise
    BY <1>8 DEF Raise, Isolated
<1>9. CASE Delete
    BY <1>9 DEF Delete, Isolated
<1>10. CASE Wait
    BY <1>10 DEF Wait, SeemsEmpty, Isolated
<1>11. CASE Record
    BY <1>11 DEF Record, Recorded, Isolated
<1>12. CASE WriteRuns
    BY <1>12 DEF WriteRuns, Isolated
<1>13. CASE WriteSummary
    BY <1>13 DEF WriteSummary, Isolated
<1>14. CASE CtrlC
    BY <1>14 DEF CtrlC, Isolated
<1>15. CASE Kill
    BY <1>15 DEF Kill, Isolated
<1>16. CASE LeftoverGoes
    BY <1>16 DEF LeftoverGoes, Isolated
<1>17. CASE UNCHANGED vars
    BY <1>17 DEF vars, Isolated
<1> QED
    BY <1>1, <1>2, <1>3, <1>4, <1>5, <1>6, <1>7, <1>8, <1>9,
       <1>10, <1>11, <1>12, <1>13, <1>14, <1>15, <1>16, <1>17 DEF Next
-----------------------------------------------------------------------------
LEMMA InductiveInit == Init => IInv
<1> SUFFICES ASSUME Init
             PROVE  IInv
    OBVIOUS
<1>1. TypeInv
    BY TypeInit
<1>2. Accounted /\ FinishedIsComplete /\ Written /\ Carried
    BY DEF Init, Accounted, FinishedIsComplete, Written, Carried
<1>3. OneRun /\ OneRecord /\ DecidedIsPast /\ Isolated
    BY DEF Init, OneRun, OneRecord, DecidedIsPast, Isolated
<1> QED
    BY <1>1, <1>2, <1>3 DEF IInv

LEMMA InductiveStep == IInv /\ [Next]_vars => IInv'
<1> SUFFICES ASSUME IInv, [Next]_vars
             PROVE  IInv'
    OBVIOUS
<1>1. TypeInv'
    BY TypeStep DEF IInv
<1>2. OneRun' /\ OneRecord'
    BY UniqueStep DEF IInv
<1>3. DecidedIsPast'
    BY PastStep DEF IInv
<1>4. Carried'
    BY CarriedStep DEF IInv
<1>5. Accounted' /\ FinishedIsComplete'
    BY AccountedStep DEF IInv
<1>6. Written'
    BY WrittenStep DEF IInv
<1>7. Isolated'
    BY IsolatedStep DEF IInv
<1> QED
    BY <1>1, <1>2, <1>3, <1>4, <1>5, <1>6, <1>7 DEF IInv

LEMMA Inductive == Spec => []IInv
    BY InductiveInit, InductiveStep, PTL DEF Spec

(***************************************************************************)
(* However often the campaign is stopped, killed and resumed, per_run.csv  *)
(* has at most one record of a round (run.py:226).                         *)
(***************************************************************************)
THEOREM RecordsAreUnique == Spec => []OneRecord
<1>1. IInv => OneRecord
    BY DEF IInv
<1> QED
    BY <1>1, Inductive, PTL

(***************************************************************************)
(* A campaign that came to its end has a record of every round of the      *)
(* schedule, whatever was raised in the rounds (run.py:217-229).           *)
(***************************************************************************)
THEOREM EveryRoundRecorded == Spec => []FinishedIsComplete
<1>1. IInv => FinishedIsComplete
    BY DEF IInv
<1> QED
    BY <1>1, Inductive, PTL

(***************************************************************************)
(* Unless a kubectl get failed, nothing but the scenario is deployed while *)
(* it is measured (deploy.py:33-39).                                       *)
(***************************************************************************)
THEOREM MeasuredAlone == Spec => []IsolatedUnlessBlind
<1>1. IInv => IsolatedUnlessBlind
    BY DEF IInv, Isolated, IsolatedUnlessBlind
<1> QED
    BY <1>1, Inductive, PTL

(***************************************************************************)
(* What a campaign has decided stays in the file as it is, as long as it   *)
(* is resumed and not started over (run.py:211-215).                       *)
(***************************************************************************)
LEMMA KeptStep ==
    ASSUME IInv, [Next]_vars, resumed, NEW f \in file, f.status \in {"valid", "invalid"}
    PROVE  f \in file'
<1>1. CASE WriteRuns
    <2>1. pc \notin {"down", "finished"} /\ file' = {r.rec : r \in runs}
        BY <1>1 DEF WriteRuns
    <2>2. \E r \in runs : r.rec = f
        BY <2>1 DEF IInv, Carried
    <2> QED
        BY <2>1, <2>2
<1>2. CASE ~ WriteRuns
    <2>1. UNCHANGED file
        BY <1>2 DEF Next, vars, Start, Started, Skip, Begin, Prepare, Apply, Applied, Measure,
                    Raise, Delete, Wait, Record, Recorded, WriteSummary, CtrlC, Kill,
                    LeftoverGoes
    <2> QED
        BY <2>1
<1> QED
    BY <1>1, <1>2

(***************************************************************************)
(* No step of the harness, of the cluster or of an operator loses or       *)
(* changes a finished record of per_run.csv, except a start that was told  *)
(* not to resume (run.py:211-215).                                         *)
(***************************************************************************)
THEOREM ResultsAreKept == Spec => ResultsKept
<1>1. IInv /\ [Next]_vars
        => [resumed => \A r \in file : r.status \in {"valid", "invalid"} => r \in file']_vars
    BY KeptStep
<1> QED
    BY <1>1, Inductive, PTL DEF Spec, ResultsKept

-----------------------------------------------------------------------------
(***************************************************************************)
(* The summary.  The four classes of a scenario part its valid runs, so    *)
(* their counts add up; and as many runs of a kind are in the list as      *)
(* records of the kind are in the file, because no two runs share one.     *)
(***************************************************************************)
ValidRuns(s, R) == {r \in R : r.rec.round[1] = s /\ r.rec.status = "valid"}
InClass(s, c, R) == {r \in R : /\ r.rec.round[1] = s
                               /\ r.rec.status = "valid"
                               /\ Classify(s, AsBool(r)) = c}

LEMMA DisjointUnion ==
    ASSUME NEW S, IsFiniteSet(S), NEW U, IsFiniteSet(U), S \cap U = {}
    PROVE  /\ IsFiniteSet(S \cup U)
           /\ Cardinality(S \cup U) = Cardinality(S) + Cardinality(U)
           /\ Cardinality(S) \in Nat /\ Cardinality(U) \in Nat
<1>1. Cardinality(S) \in Nat /\ Cardinality(U) \in Nat
    BY FS_CardinalityType
<1>2. /\ IsFiniteSet(S \cup U)
      /\ Cardinality(S \cup U) = Cardinality(S) + Cardinality(U) - Cardinality(S \cap U)
    BY FS_Union
<1>3. Cardinality(S \cap U) = 0
    BY FS_EmptySet
<1> QED
    BY <1>1, <1>2, <1>3

LEMMA CountsAddUp ==
    ASSUME NEW R, IsFiniteSet(R), NEW s \in Scenarios
    PROVE  LET a == Aggregate(R)[s] IN
           a["TP"] + a["FN"] + a["FP"] + a["TN"] = Cardinality(ValidRuns(s, R))
<1> DEFINE T == InClass(s, "TP", R)
           F == InClass(s, "FN", R)
           P == InClass(s, "FP", R)
           N == InClass(s, "TN", R)
<1>1. /\ IsFiniteSet(T) /\ IsFiniteSet(F) /\ IsFiniteSet(P) /\ IsFiniteSet(N)
    <2>1. /\ T \in SUBSET R /\ F \in SUBSET R /\ P \in SUBSET R /\ N \in SUBSET R
        BY DEF InClass
    <2> QED
        BY <2>1, FS_Subset
<1>2. /\ T \cap F = {} /\ (T \cup F) \cap P = {} /\ (T \cup F \cup P) \cap N = {}
    BY DEF InClass
<1>3. T \cup F \cup P \cup N = ValidRuns(s, R)
    BY DEF InClass, ValidRuns, Classify
<1> HIDE DEF T, F, P, N
<1>5. IsFiniteSet(T \cup F) /\ Cardinality(T \cup F) = Cardinality(T) + Cardinality(F)
    BY <1>1, <1>2, DisjointUnion
<1>6. /\ IsFiniteSet(T \cup F \cup P)
      /\ Cardinality(T \cup F \cup P) = Cardinality(T \cup F) + Cardinality(P)
    BY <1>1, <1>2, <1>5, DisjointUnion
<1>7. Cardinality(T \cup F \cup P \cup N) = Cardinality(T \cup F \cup P) + Cardinality(N)
    BY <1>1, <1>2, <1>6, DisjointUnion
<1>8. Cardinality(ValidRuns(s, R))
        = Cardinality(T) + Cardinality(F) + Cardinality(P) + Cardinality(N)
    BY <1>3, <1>5, <1>6, <1>7
<1>9. /\ Aggregate(R)[s]["TP"] = Cardinality(T) /\ Aggregate(R)[s]["FN"] = Cardinality(F)
      /\ Aggregate(R)[s]["FP"] = Cardinality(P) /\ Aggregate(R)[s]["TN"] = Cardinality(N)
    BY DEF Aggregate, Classes, InClass, T, F, P, N
<1> QED
    BY <1>8, <1>9

LEMMA AsManyRecords ==
    ASSUME OneRun, NEW S \in SUBSET runs, IsFiniteSet(S)
    PROVE  Cardinality({r.rec : r \in S}) = Cardinality(S)
<1> DEFINE T == {r.rec : r \in S}
           f == [r \in S |-> r.rec]
<1>1. f \in Surjection(S, T)
    BY DEF Surjection
<1>2. \A a, b \in S : f[a] = f[b] => a = b
    BY DEF OneRun
<1>3. f \in Bijection(S, T)
    BY <1>1, <1>2 DEF Bijection, Injection, IsInjective, Surjection
<1> QED
    BY <1>3, FS_Bijection DEF ExistsBijection

(***************************************************************************)
(* The final summary counts the valid rounds and no others, each in one    *)
(* class, and each in its own class if no run was read back from the file  *)
(* (stats.py:25-28).                                                       *)
(***************************************************************************)
LEMMA SummaryFromInvariant == IInv => SummaryOfValidRuns
<1> SUFFICES ASSUME IInv, pc = "finished", NEW s \in Scenarios
             PROVE  /\ summary[s]["TP"] + summary[s]["FN"] + summary[s]["FP"] + summary[s]["TN"]
                         = Cardinality({r \in file : r.round[1] = s /\ r.status = "valid"})
                    /\ (\A r \in runs : ~ r.text)
                         => \A c \in Classes : summary[s][c] = Counted(s, c, file)
    BY DEF SummaryOfValidRuns
<1>1. OneRun /\ IsFiniteSet(runs) /\ runs \subseteq [rec : RunRecord, text : BOOLEAN]
    BY DEF IInv, TypeInv, TypeOK, FiniteOK
<1>2. file = {r.rec : r \in runs} /\ summary = Aggregate(runs)
    BY DEF IInv, Written
<1>3. summary[s]["TP"] + summary[s]["FN"] + summary[s]["FP"] + summary[s]["TN"]
         = Cardinality({r \in file : r.round[1] = s /\ r.status = "valid"})
    <2> DEFINE V == ValidRuns(s, runs)
    <2>1. V \in SUBSET runs /\ IsFiniteSet(V)
        BY <1>1, FS_Subset DEF ValidRuns
    <2>2. {r \in file : r.round[1] = s /\ r.status = "valid"} = {r.rec : r \in V}
        BY <1>2 DEF ValidRuns
    <2>3. Cardinality({r.rec : r \in V}) = Cardinality(V)
        BY <1>1, <2>1, AsManyRecords
    <2> QED
        BY <1>1, <1>2, <2>2, <2>3, CountsAddUp
<1>4. ASSUME \A r \in runs : ~ r.text, NEW c \in Classes
      PROVE  summary[s][c] = Counted(s, c, file)
    <2> DEFINE V == InClass(s, c, runs)
    <2>1. V \in SUBSET runs /\ IsFiniteSet(V)
        BY <1>1, FS_Subset DEF InClass
    <2>2. \A r \in runs : AsBool(r) = r.rec.notified
        BY <1>1, <1>4 DEF AsBool, RunRecord
    <2>3. V = {r \in runs : /\ r.rec.round[1] = s /\ r.rec.status = "valid"
                            /\ Classify(s, r.rec.notified) = c}
        BY <2>2 DEF InClass
    <2>4. {r \in file : /\ r.round[1] = s /\ r.status = "valid"
                        /\ Classify(s, r.notified) = c} = {r.rec : r \in V}
        BY <1>2, <2>3
    <2>5. Cardinality({r.rec : r \in V}) = Cardinality(V)
        BY <1>1, <2>1, AsManyRecords
    <2>6. summary[s][c] = Cardinality(V)
        BY <1>2 DEF Aggregate, InClass
    <2> QED
        BY <2>4, <2>5, <2>6 DEF Counted
<1> QED
    BY <1>3, <1>4

(***************************************************************************)
(* summary.csv counts each valid round once, and in the class that it was  *)
(* measured in if the campaign was not resumed.                            *)
(***************************************************************************)
THEOREM SummaryCountsValidRuns == Spec => []SummaryOfValidRuns
    BY Inductive, SummaryFromInvariant, PTL
=============================================================================
