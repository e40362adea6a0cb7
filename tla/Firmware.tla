------------------------------ MODULE Firmware ------------------------------
(***************************************************************************)
(* Firmware images: upload and analysis by the backend                     *)
(* (backend/api/firmware.go) and the analyzer service it calls over HTTP   *)
(* (firmware-analyzer/main.py).                                            *)
(*                                                                         *)
(* Both services write the row of an image.  The backend marks it pending, *)
(* posts the request and, when the answer comes within 120 seconds, writes *)
(* the status and the entropy score; otherwise it marks the row as failed. *)
(* The analyzer writes the whole report in a background task that runs     *)
(* after its answer has been sent, whether anybody received that or not.   *)
(*                                                                         *)
(* An action is one SQL statement, one message or one operation on files,  *)
(* with the code up to the next one.  Of the report only the entropy is    *)
(* kept: "measured", or "zero" when the analysis of the file raised.       *)
(***************************************************************************)
EXTENDS Naturals, FiniteSets

CONSTANTS
    Images,     \* rows of firmware: bounds the number of uploads
    NoDevice,   \* the NULL of firmware.device_id
    Jobs,       \* calls of AnalyzeFirmwareHandler
    Devices,
    Dense,      \* images whose entropy, once measured, is suspicious
    UseS3,      \* whether S3_ENDPOINT and its key are configured
    MaxFaults   \* bounds failed statements and crashes

ASSUME FirmwareAssumption ==
    /\ Dense \subseteq Images
    /\ NoDevice \notin Devices
    /\ UseS3 \in BOOLEAN
    /\ MaxFaults \in Nat

VARIABLES
    upload,      \* where the upload of each image is
    path,        \* where its file is
    owner,       \* firmware.device_id
    status,      \* firmware.analysis_status, "none" before the INSERT
    score,       \* firmware.entropy_score, "none" for NULL
    report,      \* the entropy in firmware.analysis_report
    alerted,     \* images an alert of type firmware_entropy was inserted for
    recent,      \* devices with such an alert, unacknowledged and of the last
                 \* 24 hours
    pc,          \* where the goroutine of each job is
    image,       \* the image it is about
    task,        \* the analyzer's handler and background task for it
    reply,       \* the analyzer's answer
    result,      \* the entropy in that answer
    faults,      \* failed statements and crashes so far
    contended,   \* images that two jobs worked on at once (history)
    unwritten,   \* images the analyzer failed to write a report of (history)
    unsettled,   \* images a job failed to write the outcome of (history)
    unheard,     \* images a job stopped listening about, or failed to raise
                 \* the alert of (history)
    covered      \* images whose alert was dropped as a duplicate (history)

files   == <<upload, path, owner>>
results == <<score, report>>
jobs    == <<pc, image>>
service == <<task, reply, result>>
alerts  == <<alerted, recent, covered>>
ghost   == <<contended, unwritten, unsettled, unheard>>
vars    == <<files, status, results, alerts, jobs, service, faults, ghost>>

Entropies == {"none", "zero", "measured"}

TypeOK ==
    /\ upload \in [Images -> {"none", "placing", "inserting", "done", "refused"}]
    /\ path \in [Images -> {"none", "temp", "local", "s3"}]
    /\ status \in [Images -> {"none", "pending", "complete", "failed"}]
    /\ score \in [Images -> Entropies]
    /\ report \in [Images -> Entropies]
    /\ owner \in [Images -> Devices \cup {NoDevice}]
    /\ alerted \in SUBSET Images /\ covered \in SUBSET Images
    /\ recent \in SUBSET Devices
    /\ pc \in [Jobs -> {"idle", "send", "wait", "store", "alert", "insert", "fail", "done"}]
    /\ image \in [Jobs -> Images]
    /\ task \in [Jobs -> {"none", "queued", "running", "update", "done"}]
    /\ reply \in [Jobs -> {"none", "report", "error"}]
    /\ result \in [Jobs -> Entropies]
    /\ faults \in 0..MaxFaults
    /\ contended \in SUBSET Images /\ unwritten \in SUBSET Images
    /\ unsettled \in SUBSET Images /\ unheard \in SUBSET Images

Init ==
    /\ upload = [f \in Images |-> "none"]
    /\ path = [f \in Images |-> "none"]
    /\ status = [f \in Images |-> "none"]
    /\ score = [f \in Images |-> "none"]
    /\ report = [f \in Images |-> "none"]
    /\ owner = [f \in Images |-> NoDevice]
    /\ alerted = {} /\ covered = {} /\ recent = {}
    /\ pc = [j \in Jobs |-> "idle"]
    /\ image \in {[j \in Jobs |-> f] : f \in Images}
    /\ task = [j \in Jobs |-> "none"]
    /\ reply = [j \in Jobs |-> "none"]
    /\ result = [j \in Jobs |-> "none"]
    /\ faults = 0
    /\ contended = {} /\ unwritten = {} /\ unsettled = {} /\ unheard = {}

Fault ==
    /\ faults < MaxFaults
    /\ faults' = faults + 1

Goto(j, from, to) ==
    /\ pc[j] = from
    /\ pc' = [pc EXCEPT ![j] = to]

\* A job that may still write the row of its image, here or in the analyzer.
Active(j) ==
    pc[j] \notin {"idle", "done"} \/ task[j] \in {"queued", "running", "update"}

-----------------------------------------------------------------------------
(* UploadFirmwareHandler. *)

\* The file passes validation and is copied to a temporary file; an error on
\* the way removes that file again.
WriteTempFile(f) ==
    /\ upload[f] = "none"
    /\ upload' = [upload EXCEPT ![f] = "placing"]
    /\ path' = [path EXCEPT ![f] = "temp"]
    /\ UNCHANGED <<owner, status, results, alerts, jobs, service, faults, ghost>>

\* FPutObject succeeds; the temporary file is removed.
StoreInS3(f) ==
    /\ UseS3
    /\ upload[f] = "placing"
    /\ upload' = [upload EXCEPT ![f] = "inserting"]
    /\ path' = [path EXCEPT ![f] = "s3"]
    /\ UNCHANGED <<owner, status, results, alerts, jobs, service, faults, ghost>>

\* Without S3, or when it fails: the file is renamed, or stays where it is.
StoreLocally(f) ==
    /\ upload[f] = "placing"
    /\ upload' = [upload EXCEPT ![f] = "inserting"]
    /\ \E p \in {"local", "temp"} : path' = [path EXCEPT ![f] = p]
    /\ UNCHANGED <<owner, status, results, alerts, jobs, service, faults, ghost>>

\* The row is inserted; the form may name a device.
InsertFirmware(f) ==
    /\ upload[f] = "inserting"
    /\ upload' = [upload EXCEPT ![f] = "done"]
    /\ status' = [status EXCEPT ![f] = "pending"]
    /\ \E d \in Devices \cup {NoDevice} : owner' = [owner EXCEPT ![f] = d]
    /\ UNCHANGED <<path, results, alerts, jobs, service, faults, ghost>>

\* The INSERT reports an error, after which the row may be there all the
\* same; the file is left behind.
InsertFirmwareFails(f) ==
    /\ upload[f] = "inserting"
    /\ Fault
    /\ upload' = [upload EXCEPT ![f] = "refused"]
    /\ \E s \in {"none", "pending"} : status' = [status EXCEPT ![f] = s]
    /\ \E d \in Devices \cup {NoDevice} : owner' = [owner EXCEPT ![f] = d]
    /\ UNCHANGED <<path, results, alerts, jobs, service, ghost>>

-----------------------------------------------------------------------------
(* AnalyzeFirmwareHandler and the goroutine it starts. *)

\* Lines 98-112: the columns that the SELECT reads never change.  If marking
\* the row fails, the error is dropped.
AnalyzeFirmware(j, f) ==
    /\ status[f] # "none"
    /\ Goto(j, "idle", "send")
    /\ image' = [image EXCEPT ![j] = f]
    /\ \/ status' = [status EXCEPT ![f] = "pending"] /\ UNCHANGED faults
       \/ Fault /\ UNCHANGED status
    /\ contended' = IF \E k \in Jobs : Active(k) /\ image[k] = f
                    THEN contended \cup {f} ELSE contended
    /\ UNCHANGED <<files, results, alerts, service, unwritten, unsettled, unheard>>

\* The request reaches the analyzer.
Post(j) ==
    /\ Goto(j, "send", "wait")
    /\ task' = [task EXCEPT ![j] = "queued"]
    /\ UNCHANGED <<files, status, results, alerts, image, reply, result, faults, ghost>>

\* Lines 127-132 and 141-146: it does not.
PostFails(j) ==
    /\ Goto(j, "send", "fail")
    /\ UNCHANGED <<files, status, results, alerts, image, service, faults, ghost>>

\* Lines 149-167: an answer with a report, or with an error status.
Receive(j) ==
    /\ reply[j] # "none"
    /\ Goto(j, "wait", IF reply[j] = "report" THEN "store" ELSE "fail")
    /\ UNCHANGED <<files, status, results, alerts, image, service, faults, ghost>>

\* Mutant: a client without a timeout, which waits for an answer.
MutGiveUp(j) ==
    /\ reply[j] # "none"
    /\ Goto(j, "wait", "fail")
    /\ unheard' = unheard \cup {image[j]}
    /\ UNCHANGED <<files, status, results, alerts, image, service, faults, contended,
                   unwritten, unsettled>>

\* Lines 136, 141-146 and 163-167: 120 seconds have passed, the connection
\* is gone, or the body cannot be decoded.
GiveUp(j) ==
    /\ Goto(j, "wait", "fail")
    /\ unheard' = unheard \cup {image[j]}
    /\ UNCHANGED <<files, status, results, alerts, image, service, faults, contended,
                   unwritten, unsettled>>

\* result.Report.Entropy.Suspicious && f.DeviceID.Valid.
Suspicious(j) ==
    result[j] = "measured" /\ image[j] \in Dense /\ owner[image[j]] # NoDevice

\* Mutant: the goroutine returns when the UPDATE has failed.
MutStoreResult(j) ==
    /\ \/ /\ Goto(j, "store", IF Suspicious(j) THEN "alert" ELSE "done")
          /\ status' = [status EXCEPT ![image[j]] = "complete"]
          /\ score' = [score EXCEPT ![image[j]] = result[j]]
          /\ UNCHANGED <<faults, unsettled>>
       \/ /\ Goto(j, "store", "done")
          /\ Fault /\ unsettled' = unsettled \cup {image[j]} /\ UNCHANGED <<status, score>>
    /\ UNCHANGED <<files, report, alerts, image, service, contended, unwritten, unheard>>

\* Lines 173-176: status and score are written; an error is only logged.
StoreResult(j) ==
    /\ Goto(j, "store", IF Suspicious(j) THEN "alert" ELSE "done")
    /\ \/ /\ status' = [status EXCEPT ![image[j]] = "complete"]
          /\ score' = [score EXCEPT ![image[j]] = result[j]]
          /\ UNCHANGED <<faults, unsettled>>
       \/ Fault /\ unsettled' = unsettled \cup {image[j]} /\ UNCHANGED <<status, score>>
    /\ UNCHANGED <<files, report, alerts, image, service, contended, unwritten, unheard>>

\* CreateAlert, lines 40-48: an alert of this type is dropped while the device
\* has an unacknowledged one of the last 24 hours; if the SELECT fails it is not.
SelectDuplicates(j) ==
    /\ \/ /\ owner[image[j]] \in recent
          /\ Goto(j, "alert", "done")
          /\ covered' = covered \cup {image[j]} /\ UNCHANGED faults
       \/ /\ Goto(j, "alert", "insert")
          /\ \/ owner[image[j]] \notin recent /\ UNCHANGED faults
             \/ Fault
          /\ UNCHANGED covered
    /\ UNCHANGED <<files, status, results, alerted, recent, image, service, ghost>>

\* Lines 55-62, and firmware.go:178-185, which drops the error.
InsertAlert(j) ==
    /\ Goto(j, "insert", "done")
    /\ \/ /\ alerted' = alerted \cup {image[j]}
          /\ recent' = recent \cup {owner[image[j]]}
          /\ UNCHANGED <<faults, unheard>>
       \/ Fault /\ unheard' = unheard \cup {image[j]} /\ UNCHANGED <<alerted, recent>>
    /\ UNCHANGED <<files, status, results, covered, image, service, contended, unwritten,
                   unsettled>>

\* The alert of device d is acknowledged, or 24 hours old.
AlertSettled(d) ==
    /\ d \in recent
    /\ recent' = recent \ {d}
    /\ UNCHANGED <<files, status, results, alerted, covered, jobs, service, faults, ghost>>

\* Lines 130, 144, 151 and 165; the error of the UPDATE is dropped.
StoreFailed(j) ==
    /\ Goto(j, "fail", "done")
    /\ \/ status' = [status EXCEPT ![image[j]] = "failed"] /\ UNCHANGED <<faults, unsettled>>
       \/ Fault /\ unsettled' = unsettled \cup {image[j]} /\ UNCHANGED status
    /\ UNCHANGED <<files, results, alerts, image, service, contended, unwritten, unheard>>

-----------------------------------------------------------------------------
(* The analyzer: analyze_firmware and update_database. *)

\* analyze_firmware is a coroutine that never awaits, so one request at a
\* time runs and the others queue behind it.
LoopFree == \A k \in Jobs : task[k] # "running"

\* registered_firmware finds the file under FIRMWARE_ROOT.
RegisteredFirmware(j) ==
    /\ LoopFree
    /\ task[j] = "queued"
    /\ path[image[j]] = "local"
    /\ task' = [task EXCEPT ![j] = "running"]
    /\ UNCHANGED <<files, status, results, alerts, jobs, reply, result, faults, ghost>>

\* registered_firmware raises: the file is in S3 or outside the root (400),
\* or the query failed (503).
RegistryRefuses(j) ==
    /\ LoopFree
    /\ task[j] = "queued"
    /\ \/ path[image[j]] # "local" /\ UNCHANGED faults
       \/ Fault
    /\ task' = [task EXCEPT ![j] = "done"]
    /\ reply' = [reply EXCEPT ![j] = "error"]
    /\ UNCHANGED <<files, status, results, alerts, jobs, result, ghost>>

\* The four analyses end, each of them perhaps by an exception that is
\* logged; the answer is sent and the background task starts.
Respond(j) ==
    /\ task[j] = "running"
    /\ task' = [task EXCEPT ![j] = "update"]
    /\ reply' = [reply EXCEPT ![j] = "report"]
    /\ \E e \in {"zero", "measured"} : result' = [result EXCEPT ![j] = e]
    /\ UNCHANGED <<files, status, results, alerts, jobs, faults, ghost>>

\* The report cannot be built from their results: the handler raises, the
\* answer is a 500, and there is no background task.
RespondFails(j) ==
    /\ task[j] = "running"
    /\ task' = [task EXCEPT ![j] = "done"]
    /\ reply' = [reply EXCEPT ![j] = "error"]
    /\ UNCHANGED <<files, status, results, alerts, jobs, result, faults, ghost>>

\* Mutant: the score is not among the columns written.
MutUpdateDatabase(j) ==
    /\ task[j] = "update"
    /\ task' = [task EXCEPT ![j] = "done"]
    /\ \/ /\ status' = [status EXCEPT ![image[j]] = "complete"]
          /\ report' = [report EXCEPT ![image[j]] = result[j]]
          /\ UNCHANGED <<score, faults, unwritten>>
       \/ Fault /\ unwritten' = unwritten \cup {image[j]} /\ UNCHANGED <<status, results>>
    /\ UNCHANGED <<files, alerts, jobs, reply, result, contended, unsettled, unheard>>

\* update_database; an error is logged and the report is lost.
UpdateDatabase(j) ==
    /\ task[j] = "update"
    /\ task' = [task EXCEPT ![j] = "done"]
    /\ \/ /\ status' = [status EXCEPT ![image[j]] = "complete"]
          /\ score' = [score EXCEPT ![image[j]] = result[j]]
          /\ report' = [report EXCEPT ![image[j]] = result[j]]
          /\ UNCHANGED <<faults, unwritten>>
       \/ Fault /\ unwritten' = unwritten \cup {image[j]} /\ UNCHANGED <<status, results>>
    /\ UNCHANGED <<files, alerts, jobs, reply, result, contended, unsettled, unheard>>

-----------------------------------------------------------------------------
(* Crashes. *)

\* Backend processes die with the goroutines of some jobs and the uploads of
\* some images.
BackendCrash ==
    /\ Fault
    /\ \E js \in SUBSET {j \in Jobs : pc[j] \notin {"idle", "done"}},
          fs \in SUBSET {f \in Images : upload[f] \in {"placing", "inserting"}} :
          /\ pc' = [j \in Jobs |-> IF j \in js THEN "done" ELSE pc[j]]
          /\ upload' = [f \in Images |-> IF f \in fs THEN "refused" ELSE upload[f]]
          /\ unsettled' = unsettled \cup {image[j] : j \in js}
          /\ unheard' = unheard \cup {image[j] : j \in js}
    /\ UNCHANGED <<path, owner, status, results, alerts, image, service, contended, unwritten>>

\* The analyzer dies: requests in its queue get no answer.
AnalyzerCrash ==
    /\ Fault
    /\ task' = [j \in Jobs |-> IF task[j] = "none" THEN "none" ELSE "done"]
    /\ unwritten' = unwritten \cup {image[j] : j \in {k \in Jobs : task[k] = "update"}}
    /\ UNCHANGED <<files, status, results, alerts, jobs, reply, result, contended,
                   unsettled, unheard>>

-----------------------------------------------------------------------------
UploadFirmware(f) == WriteTempFile(f) \/ StoreInS3(f) \/ StoreLocally(f)
                     \/ InsertFirmware(f) \/ InsertFirmwareFails(f)
Analysis(j) == Post(j) \/ PostFails(j) \/ Receive(j) \/ GiveUp(j) \/ StoreResult(j)
               \/ SelectDuplicates(j) \/ InsertAlert(j) \/ StoreFailed(j)
Analyzer(j) == RegisteredFirmware(j) \/ RegistryRefuses(j) \/ Respond(j) \/ RespondFails(j)
               \/ UpdateDatabase(j)

Next ==
    \/ \E f \in Images : UploadFirmware(f) \/ \E j \in Jobs : AnalyzeFirmware(j, f)
    \/ \E j \in Jobs : Analysis(j) \/ Analyzer(j)
    \/ \E d \in Devices : AlertSettled(d)
    \/ BackendCrash \/ AnalyzerCrash

Spec == Init /\ [][Next]_vars

(***************************************************************************)
(* Fairness: the goroutine of a job is scheduled, PostgreSQL answers it    *)
(* and its HTTP client gives up after 120 seconds.  Nothing is assumed of  *)
(* the analyzer, which may hang.                                           *)
(***************************************************************************)
FairSpec == Spec /\ \A j \in Jobs : WF_vars(Analysis(j))

-----------------------------------------------------------------------------
(* Properties. *)

Quiet(f) == \A j \in Jobs : image[j] = f => ~Active(j)

(* The two services agree on the row of an image: once nobody works on it, *)
(* a row that says 'complete' (firmware.go:173, main.py:130-142) holds a   *)
(* report, and the entropy score of that same report, unless the analyzer  *)
(* failed to write its report or two analyses of the image overlapped.     *)
(* No timeout and no late answer is enough to mix two results.             *)
ReportMatchesRow ==
    \A f \in Images :
        (Quiet(f) /\ status[f] = "complete" /\ f \notin unwritten) =>
            report[f] # "none" /\ (score[f] = report[f] \/ f \in contended)

(* A suspicious image does not go unnoticed: when the database holds a     *)
(* report that says so of an image of a device, its alert has been raised  *)
(* (firmware.go:178-185), or dropped because another image of that very    *)
(* device had raised one - unless the backend had stopped listening for    *)
(* that answer, or raising the alert failed.  An image that was uploaded   *)
(* without a device is never alerted.                                      *)
SuspiciousIsAlerted ==
    \A f \in Dense :
        (Quiet(f) /\ report[f] = "measured" /\ owner[f] # NoDevice) =>
            \/ f \in alerted \cup unheard
            \/ f \in covered /\ \E g \in alerted : owner[g] = owner[f]

(* An analysis ends (firmware.go:169-172: rows once "stayed stuck in       *)
(* 'pending' forever"): a row that is pending with an analysis under way   *)
(* leaves that status even if the analyzer hangs or dies, unless the       *)
(* statement that writes the outcome fails or the backend dies.            *)
AnalysisEnds ==
    \A f \in Images :
        (status[f] = "pending" /\ \E j \in Jobs : image[j] = f /\ pc[j] # "idle") ~>
            (status[f] # "pending" \/ f \in unsettled)
=============================================================================
