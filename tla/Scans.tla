------------------------------- MODULE Scans -------------------------------
(***************************************************************************)
(* Device scans (backend/api/scans.go, backend/scanner/nmap.go): the row   *)
(* of a scan, the goroutine that runs it, the worker pool that bounds      *)
(* nmap, the findings it stores, and the risk score that is recomputed     *)
(* afterwards (backend/risk/scorer.go) - and also after a vulnerability is *)
(* resolved (backend/api/vulnerabilities.go), in a goroutine of its own.   *)
(* The retention purge and the firmware analysis change rows the score is  *)
(* computed from as well, and rescore nothing.                             *)
(*                                                                         *)
(* An action is one SQL statement, or one call to the network, together    *)
(* with the code up to the next one.  A statement may fail: its error is   *)
(* logged, if that, and the goroutine goes on.  Findings are the exposures *)
(* that the protocol, TLS and credential tests report; each stores one     *)
(* vulnerability, identified by the scan and the finding, and they are     *)
(* stored in any order.  The alerts they raise are rows of another table   *)
(* that no action here reads.                                              *)
(*                                                                         *)
(* The risk score is a sum over factors and is kept as the set of them:    *)
(* the kinds of the open vulnerabilities and the entropy of the latest     *)
(* firmware.  Two factors are left out.  The counts of CVEs and of KEV     *)
(* matches are always 0, because nothing writes cve_id and is_kev.  The    *)
(* days since the last scan grow by themselves: of the score as it was     *)
(* written, that term is out of date the next day.                         *)
(***************************************************************************)
EXTENDS Naturals, FiniteSets

CONSTANTS
    ScanIds,      \* rows of scans: bounds the number of scans triggered
    Resolvers,    \* requests to ResolveVulnerabilityHandler, and their goroutines
    Devices,
    Findings,
    PoolSize,     \* capacity of scanWorkerPool, 20
    MaxFaults     \* bounds failed statements, panics and restarts

ASSUME ScansAssumption ==
    /\ IsFiniteSet(ScanIds) /\ ScanIds # {}
    /\ ScanIds \cap Resolvers = {}
    /\ Devices # {}
    /\ "entropy" \notin Findings
    /\ PoolSize \in Nat \ {0}
    /\ MaxFaults \in Nat

VARIABLES
    row,         \* scans.status, "none" before the INSERT, "purged" after the DELETE
    device,      \* the device of a scan
    of,          \* the scan of the vulnerability that a request resolves
    pc,          \* where each goroutine is
    pool,        \* the scans that hold a slot of scanWorkerPool
    todo,        \* findings a scan has still to store
    open,        \* unresolved vulnerabilities: pairs of a scan and a finding
    entropic,    \* devices whose latest firmware has an entropy above 7.2
    factors,     \* what BuildRiskFactors has read for each goroutine
    score,       \* devices.risk_score, as the factors it is the sum of
    faults,      \* failed statements, panics and restarts so far
    lost,        \* scans whose final status was not written: the statement
                 \* failed or the process ended (history)
    dirty,       \* goroutines that read the factors before the rows changed,
                 \* or could not read them all (history)
    excused      \* devices with a change that no later update took in (history)

scanVars == <<row, device, of, pool, todo, lost>>
riskVars == <<open, entropic, factors, score, dirty, excused>>
vars     == <<scanVars, riskVars, pc, faults>>

Goroutines == ScanIds \cup Resolvers
Terminal   == {"skipped", "failed", "complete"}
Factors    == Findings \cup {"entropy"}
Labels     == {"idle", "safelist", "acquire", "nmap", "failed", "findings", "ssh",
               "results", "lookup", "risk_read", "risk_entropy", "risk_write", "done"}

TypeOK ==
    /\ row \in [ScanIds -> {"none", "running", "purged"} \cup Terminal]
    /\ device \in [ScanIds -> Devices]
    /\ of \in [Resolvers -> ScanIds]
    /\ pc \in [Goroutines -> Labels]
    /\ pool \in SUBSET ScanIds
    /\ todo \in [ScanIds -> SUBSET Findings]
    /\ open \in SUBSET (ScanIds \X Findings)
    /\ entropic \in SUBSET Devices
    /\ factors \in [Goroutines -> SUBSET Factors]
    /\ score \in [Devices -> SUBSET Factors]
    /\ faults \in 0..MaxFaults
    /\ lost \in SUBSET ScanIds
    /\ dirty \in SUBSET Goroutines
    /\ excused \in SUBSET Devices

Init ==
    /\ row = [s \in ScanIds |-> "none"]
    /\ device = [s \in ScanIds |-> CHOOSE d \in Devices : TRUE]
    /\ of = [u \in Resolvers |-> CHOOSE s \in ScanIds : TRUE]
    /\ pc = [g \in Goroutines |-> "idle"]
    /\ pool = {}
    /\ todo = [s \in ScanIds |-> {}]
    /\ open = {}
    /\ entropic = {}
    /\ factors = [g \in Goroutines |-> {}]
    /\ score = [d \in Devices |-> {}]
    /\ faults = 0
    /\ lost = {}
    /\ dirty = {}
    /\ excused = {}

-----------------------------------------------------------------------------
Goto(g, from, to) ==
    /\ pc[g] = from
    /\ pc' = [pc EXCEPT ![g] = to]

\* A statement fails, or something panics.
Fault ==
    /\ faults < MaxFaults
    /\ faults' = faults + 1

\* The device that goroutine g works on.
DeviceOf(g) == IF g \in ScanIds THEN device[g] ELSE device[of[g]]

\* The two halves of BuildRiskFactors of device d: the kinds of its open
\* vulnerabilities, lines 136-176, and its firmware, lines 186-192.
OpenKinds(d) ==
    {f \in Findings : \E s \in ScanIds : device[s] = d /\ <<s, f>> \in open}
Entropy(d) == IF d \in entropic THEN {"entropy"} ELSE {}

CurrentFactors(d) == OpenKinds(d) \cup Entropy(d)

\* The goroutines that have read a factor of device d which now changes.
Readers(d, labels) == {g \in Goroutines : DeviceOf(g) = d /\ pc[g] \in labels}
KindsChange(d)     == dirty' = dirty \cup Readers(d, {"risk_entropy", "risk_write"})
EntropyChanges(d)  == dirty' = dirty \cup Readers(d, {"risk_write"})

\* The final UPDATE of scan s, and where its goroutine goes from there; if it
\* fails that is only logged, and of a purged row it changes nothing.
UpdateStatus(s, from, status, to) ==
    /\ Goto(s, from, to)
    /\ \/ /\ row' = [row EXCEPT ![s] = IF @ = "purged" THEN @ ELSE status]
          /\ UNCHANGED <<faults, lost>>
       \/ Fault /\ lost' = lost \cup {s} /\ UNCHANGED row

-----------------------------------------------------------------------------
\* TriggerDeviceScanHandler: the row is inserted and the goroutine started.
\* The SELECT before it fails without an effect.
TriggerDeviceScan(s, d) ==
    /\ row[s] = "none"
    /\ Goto(s, "idle", "safelist")
    /\ row' = [row EXCEPT ![s] = "running"]
    /\ device' = [device EXCEPT ![s] = d]
    /\ UNCHANGED <<of, pool, todo, lost, riskVars, faults>>

\* The INSERT takes effect but reports an error: no goroutine is started.
TriggerReplyLost(s, d) ==
    /\ row[s] = "none"
    /\ Fault
    /\ row' = [row EXCEPT ![s] = "running"]
    /\ device' = [device EXCEPT ![s] = d]
    /\ lost' = lost \cup {s}
    /\ UNCHANGED <<of, pool, todo, riskVars, pc>>

\* runDeviceScan, lines 172-178: IsSafelisted finds the device.  What the
\* safelist holds is modelled in Discovery; here it may answer either way.
SkipSafelisted(s) ==
    /\ UpdateStatus(s, "safelist", "skipped", "done")
    /\ UNCHANGED <<device, of, pool, todo, riskVars>>

\* IsSafelisted finds nothing.
NotSafelisted(s) ==
    /\ Goto(s, "safelist", "acquire")
    /\ UNCHANGED <<scanVars, riskVars, faults>>

\* DeepScan refuses the address before it asks for a worker.
InvalidTarget(s) ==
    /\ Goto(s, "acquire", "failed")
    /\ UNCHANGED <<scanVars, riskVars, faults>>

\* acquireWorker: the send blocks while the channel is full.
AcquireWorker(s) ==
    /\ Cardinality(pool) < PoolSize
    /\ Goto(s, "acquire", "nmap")
    /\ pool' = pool \cup {s}
    /\ UNCHANGED <<row, device, of, todo, lost, riskVars, faults>>

\* DeepScan returns a result and releases its worker; the ports and the
\* device's names are stored, and the protocol and TLS tests, whose calls to
\* the network all have deadlines, find some exposures.
NmapReturns(s) ==
    /\ Goto(s, "nmap", "findings")
    /\ pool' = pool \ {s}
    /\ \E found \in SUBSET Findings : todo' = [todo EXCEPT ![s] = found]
    /\ UNCHANGED <<row, device, of, lost, riskVars, faults>>

\* Mutant: the worker is released only after a result.
MutNmapFailsKeepsWorker(s) ==
    /\ Goto(s, "nmap", "failed")
    /\ UNCHANGED <<scanVars, riskVars, faults>>

\* DeepScan returns an error: nmap failed, was killed after 90 seconds, or
\* wrote something that is not XML.
NmapFails(s) ==
    /\ Goto(s, "nmap", "failed")
    /\ pool' = pool \ {s}
    /\ UNCHANGED <<row, device, of, todo, lost, riskVars, faults>>

\* Mutant: the error is returned without a word in the database.
MutStatusFailedSilent(s) ==
    /\ Goto(s, "failed", "done")
    /\ UNCHANGED <<scanVars, riskVars, faults>>

\* Lines 184-185.
StatusFailed(s) ==
    /\ UpdateStatus(s, "failed", "failed", "done")
    /\ UNCHANGED <<device, of, pool, todo, riskVars>>

\* Lines 217-225, 240-242, 304-306: the vulnerability of one finding is
\* inserted.  The INSERT may fail, and does when its scan has been purged;
\* that is logged at most.
StoreFinding(s, f) ==
    /\ f \in todo[s]
    /\ pc[s] \in {"findings", "results"}
    /\ Goto(s, pc[s], pc[s])
    /\ todo' = [todo EXCEPT ![s] = @ \ {f}]
    /\ \/ /\ row[s] # "purged"
          /\ open' = open \cup {<<s, f>>}
          /\ KindsChange(device[s])
          /\ UNCHANGED faults
       \/ row[s] = "purged" /\ UNCHANGED <<open, dirty, faults>>
       \/ Fault /\ UNCHANGED <<open, dirty>>
    /\ UNCHANGED <<row, device, of, pool, lost, entropic, factors, score, excused>>

\* Lines 283-287: port 22 is open and TestSSHCreds dials it.
DialSSH(s) ==
    /\ todo[s] = {}
    /\ Goto(s, "findings", "ssh")
    /\ UNCHANGED <<scanVars, riskVars, faults>>

\* It returns, the HTTP and Telnet tests run, and some logins were accepted.
SSHReturns(s) ==
    /\ Goto(s, "ssh", "results")
    /\ \E found \in SUBSET Findings : todo' = [todo EXCEPT ![s] = found]
    /\ UNCHANGED <<row, device, of, pool, lost, riskVars, faults>>

\* Line 265.
StatusComplete(s) ==
    /\ todo[s] = {}
    /\ pc[s] \in {"findings", "results"}
    /\ UpdateStatus(s, pc[s], "complete", "risk_read")
    /\ UNCHANGED <<device, of, pool, todo, riskVars>>

\* A panic on the way through the scanners: the deferred calls release the
\* worker and mark the scan as failed.
Panic(s) ==
    /\ pc[s] \in {"nmap", "findings", "ssh", "results"}
    /\ Fault
    /\ Goto(s, pc[s], "done")
    /\ pool' = pool \ {s}
    /\ todo' = [todo EXCEPT ![s] = {}]
    /\ \/ row' = [row EXCEPT ![s] = IF @ = "purged" THEN @ ELSE "failed"] /\ UNCHANGED lost
       \/ lost' = lost \cup {s} /\ UNCHANGED row
    /\ excused' = IF pc[s] = "nmap" THEN excused ELSE excused \cup {device[s]}
    /\ UNCHANGED <<device, of, open, entropic, factors, score, dirty>>

-----------------------------------------------------------------------------
(* A resolution, and UpdateDeviceRiskScore, in the goroutine of a scan or  *)
(* of a resolution.                                                        *)

\* Mutant: the score is not recomputed after a resolution.
MutResolveVulnerability(u, s, f) ==
    /\ <<s, f>> \in open
    /\ open' = open \ {<<s, f>>}
    /\ of' = [of EXCEPT ![u] = s]
    /\ KindsChange(device[s])
    /\ Goto(u, "idle", "done")
    /\ UNCHANGED <<row, device, pool, todo, lost, entropic, factors, score, excused, faults>>

\* ResolveVulnerabilityHandler: the row is marked.  If the UPDATE took effect
\* but reported an error the handler answers 500 and returns.
ResolveVulnerability(u, s, f) ==
    /\ <<s, f>> \in open
    /\ open' = open \ {<<s, f>>}
    /\ of' = [of EXCEPT ![u] = s]
    /\ KindsChange(device[s])
    /\ \/ Goto(u, "idle", "lookup") /\ UNCHANGED <<excused, faults>>
       \/ Goto(u, "idle", "done") /\ Fault /\ excused' = excused \cup {device[s]}
    /\ UNCHANGED <<row, device, pool, todo, lost, entropic, factors, score>>

\* Lines 99-101: the device of the row is looked up and the goroutine started;
\* if the row is gone or the SELECT fails, nothing is started and nobody told.
LookUpDevice(u) ==
    /\ \/ /\ row[of[u]] # "purged"
          /\ Goto(u, "lookup", "risk_read")
          /\ UNCHANGED <<excused, faults>>
       \/ /\ Goto(u, "lookup", "done")
          /\ \/ row[of[u]] = "purged" /\ UNCHANGED faults
             \/ Fault
          /\ excused' = excused \cup {DeviceOf(u)}
    /\ UNCHANGED <<scanVars, open, entropic, factors, score, dirty>>

\* The titles of the open vulnerabilities are read.
ReadTitles(g) ==
    /\ Goto(g, "risk_read", "risk_entropy")
    /\ factors' = [factors EXCEPT ![g] = OpenKinds(DeviceOf(g))]
    /\ UNCHANGED <<scanVars, open, entropic, score, dirty, excused, faults>>

\* The entropy is read; an error of this SELECT is dropped and counts as none.
ReadEntropy(g) ==
    /\ Goto(g, "risk_entropy", "risk_write")
    /\ \/ /\ factors' = [factors EXCEPT ![g] = @ \cup Entropy(DeviceOf(g))]
          /\ UNCHANGED <<dirty, faults>>
       \/ Fault /\ dirty' = dirty \cup {g} /\ UNCHANGED factors
    /\ UNCHANGED <<scanVars, open, entropic, score, excused>>

\* Lines 217-223: the score is written.  It settles what the goroutine has
\* read, and nothing that happened since.
WriteRiskScore(g) ==
    /\ Goto(g, "risk_write", "done")
    /\ score' = [score EXCEPT ![DeviceOf(g)] = factors[g]]
    /\ factors' = [factors EXCEPT ![g] = {}]
    /\ dirty' = dirty \ {g}
    /\ excused' = IF g \in dirty THEN excused \cup {DeviceOf(g)}
                  ELSE excused \ {DeviceOf(g)}
    /\ UNCHANGED <<scanVars, open, entropic, faults>>

\* The SELECT of the titles or the UPDATE fails: the score is left as it is.
RiskUpdateFails(g) ==
    /\ pc[g] \in {"risk_read", "risk_write"}
    /\ Goto(g, pc[g], "done")
    /\ Fault
    /\ factors' = [factors EXCEPT ![g] = {}]
    /\ dirty' = dirty \ {g}
    /\ excused' = excused \cup {DeviceOf(g)}
    /\ UNCHANGED <<scanVars, open, entropic, score>>

-----------------------------------------------------------------------------
(* The other writers of the tables, and the process. *)

\* An upload or an analysis changes which firmware of device d is the latest,
\* or its entropy (firmware.go:173); the score is not recomputed.
FirmwareChange(d) ==
    /\ entropic' = IF d \in entropic THEN entropic \ {d} ELSE entropic \cup {d}
    /\ EntropyChanges(d)
    /\ excused' = excused \cup {d}
    /\ UNCHANGED <<scanVars, open, factors, score, pc, faults>>

\* The retention purge deletes a scan that started long ago, and the foreign
\* key deletes its vulnerabilities with it, resolved or not.  Such a scan has
\* ended, or waits for an SSH server that says nothing.
PurgeScan(s) ==
    /\ row[s] \notin {"none", "purged"}
    /\ pc[s] \in {"idle", "done", "ssh"}
    /\ row' = [row EXCEPT ![s] = "purged"]
    /\ open' = {v \in open : v[1] # s}
    /\ KindsChange(device[s])
    /\ excused' = excused \cup {device[s]}
    /\ UNCHANGED <<device, of, pool, todo, lost, entropic, factors, score, pc, faults>>

\* The goroutines that die with the process, and those among them that have
\* changed the vulnerabilities of their device and not yet its score.
Alive     == {g \in Goroutines : pc[g] \notin {"idle", "done"}}
Pending   == {"findings", "ssh", "results", "lookup", "risk_read", "risk_entropy",
              "risk_write"}
Rescoring == {g \in Goroutines : pc[g] \in Pending}

\* The process ends and the next one starts.  A shutdown waits for requests
\* and for the background jobs of the WaitGroup (main.go:193-208), not for
\* scans, and the next process does not look at rows left 'running': for a
\* scan it is no different from a crash.
Restart ==
    /\ Fault
    /\ pc' = [g \in Goroutines |-> IF g \in Alive THEN "done" ELSE pc[g]]
    /\ pool' = {}
    /\ todo' = [s \in ScanIds |-> {}]
    /\ factors' = [g \in Goroutines |-> {}]
    /\ lost' = lost \cup {s \in ScanIds : s \in Alive /\ row[s] = "running"}
    /\ dirty' = {}
    /\ excused' = excused \cup {DeviceOf(g) : g \in Rescoring}
    /\ UNCHANGED <<row, device, of, open, entropic, score>>

-----------------------------------------------------------------------------
DeepScan(s) == InvalidTarget(s) \/ AcquireWorker(s) \/ NmapReturns(s) \/ NmapFails(s)

runDeviceScan(s) ==
    \/ SkipSafelisted(s) \/ NotSafelisted(s) \/ DeepScan(s) \/ StatusFailed(s)
    \/ (\E f \in Findings : StoreFinding(s, f))
    \/ DialSSH(s) \/ SSHReturns(s) \/ StatusComplete(s) \/ Panic(s)

UpdateDeviceRiskScore(g) ==
    ReadTitles(g) \/ ReadEntropy(g) \/ WriteRiskScore(g) \/ RiskUpdateFails(g)

Next ==
    \/ \E s \in ScanIds, d \in Devices : TriggerDeviceScan(s, d) \/ TriggerReplyLost(s, d)
    \/ \E s \in ScanIds : runDeviceScan(s) \/ PurgeScan(s)
    \/ \E g \in Goroutines : UpdateDeviceRiskScore(g)
    \/ \E u \in Resolvers, s \in ScanIds, f \in Findings : ResolveVulnerability(u, s, f)
    \/ \E u \in Resolvers : LookUpDevice(u)
    \/ \E d \in Devices : FirmwareChange(d)
    \/ Restart

Spec == Init /\ [][Next]_vars

(***************************************************************************)
(* Fairness: goroutines are scheduled, PostgreSQL answers, nmap ends       *)
(* because its context does, the protocol, TLS, HTTP and Telnet tests end  *)
(* because their connections have deadlines, and the runtime serves        *)
(* senders that wait on a full channel in turn (strong fairness of         *)
(* AcquireWorker).  The SSH test is not fair: the Timeout of               *)
(* ssh.ClientConfig (credentials.go:93-96) bounds the TCP connect alone,   *)
(* so a server that accepts and stays silent holds the goroutine for as    *)
(* long as it likes.                                                       *)
(***************************************************************************)
FairSpec ==
    /\ Spec
    /\ \A s \in ScanIds :
          WF_vars(pc[s] # "ssh" /\ runDeviceScan(s)) /\ SF_vars(AcquireWorker(s))
    /\ \A u \in Resolvers : WF_vars(LookUpDevice(u))
    /\ \A g \in Goroutines : WF_vars(UpdateDeviceRiskScore(g))

-----------------------------------------------------------------------------
(* Properties. *)

(* Every slot of the pool is held by a scan that is inside nmap, and by no *)
(* other: a failure, a panic and a timeout all give it back, so that no    *)
(* more than PoolSize nmap processes run and no slot is ever leaked.       *)
WorkersAccounted ==
    /\ pool = {s \in ScanIds : pc[s] = "nmap"}
    /\ Cardinality(pool) <= PoolSize

(* A scan whose status says it is running reaches a final status or is     *)
(* purged, however many others compete for workers, unless the statement   *)
(* that writes the status fails, the process ends first, or the device's   *)
(* SSH server never answers: that is the one call a scan can hang in.      *)
EveryScanEnds ==
    \A s \in ScanIds :
        \/ row[s] = "running" ~> (row[s] \in Terminal \cup {"purged"} \/ s \in lost)
        \/ <>[](pc[s] = "ssh")

\* Nobody is about to change or rescore device d.
Quiet(d) == \A g \in Goroutines : DeviceOf(g) = d => pc[g] \in {"idle", "done"}

(* The ways a risk score can be wrong: once nobody works on a device its   *)
(* score is that of its open vulnerabilities and its firmware, unless the  *)
(* last complete update of it was followed by one that failed, died or was *)
(* never started, by one that wrote factors which had changed since they   *)
(* were read or lacked the entropy, by a purge, or by a firmware change.   *)
ScoreExplained ==
    \A d \in Devices : (Quiet(d) /\ d \notin excused) => score[d] = CurrentFactors(d)
=============================================================================
