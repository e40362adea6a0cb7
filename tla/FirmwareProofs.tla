--------------------------- MODULE FirmwareProofs ---------------------------
(***************************************************************************)
(* Theorems about Firmware, for any number of images, analyses and faults: *)
(* a type invariant that relates the goroutine of an analysis to its task  *)
(* in the analyzer, and over it one layer for the row of an image and one  *)
(* for its alert.                                                          *)
(***************************************************************************)
EXTENDS Firmware, TLAPS

\* How far goroutine, task and answer of an analysis can be apart.
Phases ==
    \A j \in Jobs :
        /\ pc[j] \in {"idle", "send"} => task[j] = "none"
        /\ task[j] \in {"none", "queued", "running"} => reply[j] = "none"
        /\ task[j] = "update" => reply[j] = "report"
        /\ pc[j] \in {"store", "alert", "insert"} => reply[j] = "report"
        /\ pc[j] \in {"alert", "insert"} => Suspicious(j)
        /\ pc[j] # "idle" => status[image[j]] # "none"
        /\ reply[j] = "report" => result[j] # "none"

\* Nothing is known of an image before its row is inserted.
RowFirst ==
    \A f \in Images :
        /\ upload[f] \in {"none", "placing", "inserting"} => status[f] = "none"
        /\ status[f] = "none" => report[f] = "none" /\ f \notin alerted

TypeInv == TypeOK /\ Phases /\ RowFirst

(* Nothing has been uploaded: the types and phases hold.                   *)
LEMMA InitTypeInv == Init => TypeInv
BY FirmwareAssumption DEF Init, TypeInv, TypeOK, Phases, RowFirst, Entropies

(* Every statement, message and crash keeps types and phases.              *)
LEMMA NextTypeInv == TypeInv /\ [Next]_vars => TypeInv'
<1> SUFFICES ASSUME TypeInv, [Next]_vars PROVE TypeInv'
  OBVIOUS
<1> USE FirmwareAssumption
    DEF TypeInv, TypeOK, Phases, RowFirst, Suspicious, Entropies, files, results, jobs,
        service, alerts, ghost
<1>1. ASSUME NEW f \in Images, UploadFirmware(f) PROVE TypeInv'
  <2>1. CASE WriteTempFile(f)
    BY <2>1 DEF WriteTempFile
  <2>2. CASE StoreInS3(f) \/ StoreLocally(f)
    BY <2>2 DEF StoreInS3, StoreLocally
  <2>3. CASE InsertFirmware(f)
    BY <2>3 DEF InsertFirmware
  <2>4. CASE InsertFirmwareFails(f)
    BY <2>4 DEF InsertFirmwareFails, Fault
  <2>5. QED
    BY <1>1, <2>1, <2>2, <2>3, <2>4 DEF UploadFirmware
<1>2. ASSUME NEW j \in Jobs, NEW f \in Images, AnalyzeFirmware(j, f) PROVE TypeInv'
  BY <1>2 DEF AnalyzeFirmware, Goto, Fault
<1>3. ASSUME NEW j \in Jobs, Analysis(j) PROVE TypeInv'
  <2>1. CASE Post(j) \/ PostFails(j)
    BY <2>1 DEF Post, PostFails, Goto
  <2>2. CASE Receive(j)
    BY <2>2 DEF Receive, Goto
  <2>3. CASE GiveUp(j)
    BY <2>3 DEF GiveUp, Goto
  <2>4. CASE StoreResult(j)
    BY <2>4 DEF StoreResult, Goto, Fault
  <2>5. CASE SelectDuplicates(j) \/ InsertAlert(j)
    BY <2>5 DEF SelectDuplicates, InsertAlert, Goto, Fault, Suspicious
  <2>6. CASE StoreFailed(j)
    BY <2>6 DEF StoreFailed, Goto, Fault
  <2>7. QED
    BY <1>3, <2>1, <2>2, <2>3, <2>4, <2>5, <2>6 DEF Analysis
<1>4. ASSUME NEW j \in Jobs, Analyzer(j) PROVE TypeInv'
  <2>1. CASE RegisteredFirmware(j)
    BY <2>1 DEF RegisteredFirmware
  <2>2. CASE RegistryRefuses(j)
    BY <2>2 DEF RegistryRefuses, Fault
  <2>3. CASE Respond(j) \/ RespondFails(j)
    BY <2>3 DEF Respond, RespondFails
  <2>4. CASE UpdateDatabase(j)
    BY <2>4 DEF UpdateDatabase, Fault
  <2>5. QED
    BY <1>4, <2>1, <2>2, <2>3, <2>4 DEF Analyzer
<1>5. CASE BackendCrash
  BY <1>5 DEF BackendCrash, Fault
<1>6. CASE AnalyzerCrash
  BY <1>6 DEF AnalyzerCrash, Fault
<1>7. ASSUME NEW d \in Devices, AlertSettled(d) PROVE TypeInv'
  BY <1>7 DEF AlertSettled
<1>8. CASE UNCHANGED vars
  BY <1>8 DEF vars
<1>9. QED
  BY <1>1, <1>2, <1>3, <1>4, <1>5, <1>6, <1>7, <1>8 DEF Next

(* The type invariant holds in every reachable state.                      *)
LEMMA TypeInvHolds == Spec => []TypeInv
<1>1. QED
  BY InitTypeInv, NextTypeInv, PTL DEF Spec

(* Type correctness of the rows, the goroutines and the analyzer's tasks.  *)
THEOREM TypeCorrect == Spec => []TypeOK
<1>1. TypeInv => TypeOK
  BY DEF TypeInv
<1>2. QED
  BY <1>1, TypeInvHolds, PTL

-----------------------------------------------------------------------------
(* The row of an image. *)

\* Two analyses that may still write one row are known to contend for it.
Contention ==
    \A j, k \in Jobs :
        (j # k /\ Active(j) /\ Active(k) /\ image[j] = image[k]) => image[j] \in contended

\* Where the report of an answer is.
AnswerIsKept ==
    \A j \in Jobs :
        reply[j] = "report" =>
            task[j] = "update" \/ image[j] \in unwritten \/ report[image[j]] # "none"

\* The goroutine that still has to write the score finds its own report.
AnswerIsRow ==
    \A j \in Jobs :
        (reply[j] = "report" /\ pc[j] # "done" /\ task[j] = "done"
            /\ image[j] \notin contended \cup unwritten) => report[image[j]] = result[j]

\* An analysis of image f is about to write its report.
Updating(f) == \E j \in Jobs : image[j] = f /\ task[j] = "update"

CompleteHasReport ==
    \A f \in Images :
        (status[f] = "complete" /\ f \notin unwritten) => report[f] # "none" \/ Updating(f)

ScoreIsReport ==
    \A f \in Images :
        f \in contended \cup unwritten \/ score[f] = report[f] \/ Updating(f)

RowInv == Contention /\ AnswerIsKept /\ AnswerIsRow /\ CompleteHasReport /\ ScoreIsReport

(* No job has started: the row invariant holds.                            *)
LEMMA InitRowInv == Init => RowInv
BY DEF Init, RowInv, Contention, AnswerIsKept, AnswerIsRow, CompleteHasReport, ScoreIsReport,
       Active

(* Every step keeps the row invariant: a write by the goroutine finds the  *)
(* report of its own answer, and a write by the analyzer brings both.      *)
LEMMA NextRowInv == TypeInv /\ RowInv /\ [Next]_vars => RowInv'
<1> SUFFICES ASSUME TypeInv, RowInv, [Next]_vars PROVE RowInv'
  OBVIOUS
<1> USE FirmwareAssumption DEF TypeInv, TypeOK, Phases, RowFirst, Entropies, RowInv, Contention,
    AnswerIsKept, AnswerIsRow, CompleteHasReport, ScoreIsReport, Updating, Active,
    files, results, jobs, service, alerts, ghost
<1>1. ASSUME NEW f \in Images, UploadFirmware(f) PROVE RowInv'
  BY <1>1 DEF UploadFirmware, WriteTempFile, StoreInS3, StoreLocally, InsertFirmware,
              InsertFirmwareFails
<1>2. ASSUME NEW j \in Jobs, NEW f \in Images, AnalyzeFirmware(j, f) PROVE RowInv'
  BY <1>2 DEF AnalyzeFirmware, Goto
<1>3. ASSUME NEW j \in Jobs, Post(j) \/ PostFails(j) PROVE RowInv'
  BY <1>3 DEF Post, PostFails, Goto
<1>4. ASSUME NEW j \in Jobs, Receive(j) PROVE RowInv'
  BY <1>4 DEF Receive, Goto
<1>5. ASSUME NEW j \in Jobs, GiveUp(j) PROVE RowInv'
  BY <1>5 DEF GiveUp, Goto
<1>6. ASSUME NEW j \in Jobs, StoreResult(j) PROVE RowInv'
  BY <1>6 DEF StoreResult, Goto
<1>7. ASSUME NEW j \in Jobs, SelectDuplicates(j) \/ InsertAlert(j) PROVE RowInv'
  BY <1>7 DEF SelectDuplicates, InsertAlert, Goto
<1>8. ASSUME NEW j \in Jobs, StoreFailed(j) PROVE RowInv'
  BY <1>8 DEF StoreFailed, Goto
<1>9. ASSUME NEW j \in Jobs, RegisteredFirmware(j) PROVE RowInv'
  BY <1>9 DEF RegisteredFirmware
<1>10. ASSUME NEW j \in Jobs, RegistryRefuses(j) PROVE RowInv'
  BY <1>10 DEF RegistryRefuses
<1>11. ASSUME NEW j \in Jobs, Respond(j) \/ RespondFails(j) PROVE RowInv'
  BY <1>11 DEF Respond, RespondFails
<1>12. ASSUME NEW j \in Jobs, UpdateDatabase(j) PROVE RowInv'
  BY <1>12 DEF UpdateDatabase
<1>13. CASE BackendCrash
  BY <1>13 DEF BackendCrash
<1>14. CASE AnalyzerCrash
  BY <1>14 DEF AnalyzerCrash
<1>15. ASSUME NEW d \in Devices, AlertSettled(d) PROVE RowInv'
  BY <1>15 DEF AlertSettled
<1>16. CASE UNCHANGED vars
  BY <1>16 DEF vars
<1>17. QED
  BY <1>1, <1>2, <1>3, <1>4, <1>5, <1>6, <1>7, <1>8, <1>9, <1>10, <1>11, <1>12, <1>13,
     <1>14, <1>15, <1>16 DEF Next, Analysis, Analyzer

(* The two services agree on the row of an image, whatever is late, lost   *)
(* or repeated.                                                            *)
THEOREM ServicesAgree == Spec => []ReportMatchesRow
<1>1. RowInv => ReportMatchesRow
  BY DEF RowInv, CompleteHasReport, ScoreIsReport, ReportMatchesRow, Updating, Quiet, Active
<1>2. QED
  BY <1>1, InitTypeInv, NextTypeInv, InitRowInv, NextRowInv, PTL DEF Spec

-----------------------------------------------------------------------------
(* The alert of an image. *)

\* A goroutine that does not wait for a task any more has said so.
DeafIsKnown ==
    \A j \in Jobs :
        (pc[j] \in {"fail", "done"} /\ task[j] \in {"queued", "running"})
            => image[j] \in unheard

\* The alert of image f was raised, dropped for another one of its device, or
\* given up.
Raised(f) ==
    \/ f \in alerted \cup unheard
    \/ f \in covered /\ \E g \in alerted : owner[g] = owner[f]

\* An alert that makes duplicates of others was raised for its device.
RecentIsRaised == \A d \in recent : \E g \in alerted : owner[g] = d

\* A goroutine that is through with a suspicious answer has raised the alert.
ThroughIsAlerted ==
    \A j \in Jobs :
        (reply[j] = "report" /\ Suspicious(j) /\ pc[j] \in {"fail", "done"})
            => Raised(image[j])

\* An analysis of image f will raise the alert.
Alerting(f) ==
    \E j \in Jobs : /\ image[j] = f /\ pc[j] \in {"wait", "store", "alert", "insert"}
                    /\ reply[j] = "report" /\ Suspicious(j)

ReportIsAlerted ==
    \A f \in Dense :
        (report[f] = "measured" /\ owner[f] # NoDevice) => Raised(f) \/ Alerting(f)

AlertInv == RecentIsRaised /\ DeafIsKnown /\ ThroughIsAlerted /\ ReportIsAlerted

(* There is no report yet: the alert invariant holds.                      *)
LEMMA InitAlertInv == Init => AlertInv
BY FirmwareAssumption DEF Init, AlertInv, RecentIsRaised, DeafIsKnown, ThroughIsAlerted,
   ReportIsAlerted

(* Every step keeps the alert invariant: who stops listening is recorded,  *)
(* and who listens to the end raises the alert.                            *)
LEMMA NextAlertInv == TypeInv /\ AlertInv /\ [Next]_vars => AlertInv'
<1> SUFFICES ASSUME TypeInv, AlertInv, [Next]_vars PROVE AlertInv'
  OBVIOUS
<1> USE FirmwareAssumption DEF TypeInv, TypeOK, Phases, RowFirst, Entropies, AlertInv,
    RecentIsRaised, DeafIsKnown, ThroughIsAlerted, ReportIsAlerted, Raised, Alerting,
    Suspicious,
    files, results, jobs, service, alerts, ghost
<1>1. ASSUME NEW f \in Images, UploadFirmware(f) PROVE AlertInv'
  BY <1>1 DEF UploadFirmware, WriteTempFile, StoreInS3, StoreLocally, InsertFirmware,
              InsertFirmwareFails
<1>2. ASSUME NEW j \in Jobs, NEW f \in Images, AnalyzeFirmware(j, f) PROVE AlertInv'
  BY <1>2 DEF AnalyzeFirmware, Goto
<1>3. ASSUME NEW j \in Jobs, Post(j) \/ PostFails(j) PROVE AlertInv'
  BY <1>3 DEF Post, PostFails, Goto
<1>4. ASSUME NEW j \in Jobs, Receive(j) PROVE AlertInv'
  BY <1>4 DEF Receive, Goto
<1>5. ASSUME NEW j \in Jobs, GiveUp(j) PROVE AlertInv'
  BY <1>5 DEF GiveUp, Goto
<1>6. ASSUME NEW j \in Jobs, StoreResult(j) PROVE AlertInv'
  BY <1>6 DEF StoreResult, Goto
<1>7. ASSUME NEW j \in Jobs, SelectDuplicates(j) \/ InsertAlert(j) PROVE AlertInv'
  BY <1>7 DEF SelectDuplicates, InsertAlert, Goto
<1>8. ASSUME NEW j \in Jobs, StoreFailed(j) PROVE AlertInv'
  BY <1>8 DEF StoreFailed, Goto
<1>9. ASSUME NEW j \in Jobs, RegisteredFirmware(j) PROVE AlertInv'
  BY <1>9 DEF RegisteredFirmware
<1>10. ASSUME NEW j \in Jobs, RegistryRefuses(j) PROVE AlertInv'
  BY <1>10 DEF RegistryRefuses
<1>11. ASSUME NEW j \in Jobs, Respond(j) \/ RespondFails(j) PROVE AlertInv'
  BY <1>11 DEF Respond, RespondFails
<1>12. ASSUME NEW j \in Jobs, UpdateDatabase(j) PROVE AlertInv'
  BY <1>12 DEF UpdateDatabase
<1>13. CASE BackendCrash
  BY <1>13 DEF BackendCrash
<1>14. CASE AnalyzerCrash
  BY <1>14 DEF AnalyzerCrash
<1>15. ASSUME NEW d \in Devices, AlertSettled(d) PROVE AlertInv'
  BY <1>15 DEF AlertSettled
<1>16. CASE UNCHANGED vars
  BY <1>16 DEF vars
<1>17. QED
  BY <1>1, <1>2, <1>3, <1>4, <1>5, <1>6, <1>7, <1>8, <1>9, <1>10, <1>11, <1>12, <1>13,
     <1>14, <1>15, <1>16 DEF Next, Analysis, Analyzer

(* A suspicious report that the database holds about an image of a device  *)
(* has raised an alert, or another image of the device had, unless the     *)
(* backend had stopped listening or could not raise it.                    *)
THEOREM SuspicionIsRaised == Spec => []SuspiciousIsAlerted
<1>1. AlertInv => SuspiciousIsAlerted
  BY FirmwareAssumption
     DEF AlertInv, ReportIsAlerted, Raised, Alerting, SuspiciousIsAlerted, Quiet, Active
<1>2. QED
  BY <1>1, InitTypeInv, NextTypeInv, InitAlertInv, NextAlertInv, PTL DEF Spec
=============================================================================
