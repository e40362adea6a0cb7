---------------------------- MODULE ScansProofs ----------------------------
(***************************************************************************)
(* Theorems about Scans, for any number of scans, devices, findings,       *)
(* workers and faults: the worker pool is accounted for, and a risk score  *)
(* is wrong only for the reasons that ScoreExplained names.                *)
(***************************************************************************)
EXTENDS Scans, FiniteSetTheorems, TLAPS

(* Nothing has started: the state is well typed.                           *)
LEMMA InitTypeOK == Init => TypeOK
BY ScansAssumption DEF Init, TypeOK, Labels, Terminal, Goroutines, Factors

(* The device of a goroutine is a device, and what is read for it factors. *)
LEMMA ReadsTyped ==
  ASSUME TypeOK, NEW g \in Goroutines
  PROVE  /\ DeviceOf(g) \in Devices
         /\ OpenKinds(DeviceOf(g)) \in SUBSET Factors
         /\ Entropy(DeviceOf(g)) \in SUBSET Factors
BY ScansAssumption DEF TypeOK, DeviceOf, OpenKinds, Entropy, Factors, Goroutines

(* Every step of a scan, a resolution or the process keeps the types.      *)
LEMMA NextTypeOK == TypeOK /\ [Next]_vars => TypeOK'
<1> SUFFICES ASSUME TypeOK, [Next]_vars PROVE TypeOK'
  OBVIOUS
<1> USE ScansAssumption DEF TypeOK, Goroutines, Labels, Terminal, scanVars, riskVars
<1>1. ASSUME NEW s \in ScanIds, NEW d \in Devices, TriggerDeviceScan(s, d) PROVE TypeOK'
  BY <1>1 DEF TriggerDeviceScan, Goto
<1>2. ASSUME NEW s \in ScanIds, NEW d \in Devices, TriggerReplyLost(s, d) PROVE TypeOK'
  BY <1>2 DEF TriggerReplyLost, Fault
<1>3. ASSUME NEW s \in ScanIds, SkipSafelisted(s) PROVE TypeOK'
  BY <1>3 DEF SkipSafelisted, UpdateStatus, Goto, Fault
<1>4. ASSUME NEW s \in ScanIds, NotSafelisted(s) PROVE TypeOK'
  BY <1>4 DEF NotSafelisted, Goto
<1>5. ASSUME NEW s \in ScanIds, InvalidTarget(s) PROVE TypeOK'
  BY <1>5 DEF InvalidTarget, Goto
<1>6. ASSUME NEW s \in ScanIds, AcquireWorker(s) PROVE TypeOK'
  BY <1>6 DEF AcquireWorker, Goto
<1>7. ASSUME NEW s \in ScanIds, NmapReturns(s) PROVE TypeOK'
  BY <1>7 DEF NmapReturns, Goto
<1>8. ASSUME NEW s \in ScanIds, NmapFails(s) PROVE TypeOK'
  BY <1>8 DEF NmapFails, Goto
<1>9. ASSUME NEW s \in ScanIds, StatusFailed(s) PROVE TypeOK'
  BY <1>9 DEF StatusFailed, UpdateStatus, Goto, Fault
<1>10. ASSUME NEW s \in ScanIds, NEW f \in Findings, StoreFinding(s, f) PROVE TypeOK'
  BY <1>10 DEF StoreFinding, KindsChange, Readers, Goto, Fault
<1>11. ASSUME NEW s \in ScanIds, DialSSH(s) PROVE TypeOK'
  BY <1>11 DEF DialSSH, Goto
<1>12. ASSUME NEW s \in ScanIds, SSHReturns(s) PROVE TypeOK'
  BY <1>12 DEF SSHReturns, Goto
<1>13. ASSUME NEW s \in ScanIds, StatusComplete(s) PROVE TypeOK'
  BY <1>13 DEF StatusComplete, UpdateStatus, Goto, Fault
<1>14. ASSUME NEW s \in ScanIds, Panic(s) PROVE TypeOK'
  BY <1>14 DEF Panic, Goto, Fault
<1>15. ASSUME NEW s \in ScanIds, PurgeScan(s) PROVE TypeOK'
  BY <1>15 DEF PurgeScan, KindsChange, Readers
<1>16. ASSUME NEW g \in Goroutines, ReadTitles(g) PROVE TypeOK'
  BY <1>16, ReadsTyped DEF ReadTitles, Goto
<1>17. ASSUME NEW g \in Goroutines, ReadEntropy(g) PROVE TypeOK'
  <2>1. factors[g] \cup Entropy(DeviceOf(g)) \in SUBSET Factors
    BY ReadsTyped
  <2>2. factors' \in [Goroutines -> SUBSET Factors]
    BY <1>17, <2>1 DEF ReadEntropy
  <2>3. QED
    BY <1>17, <2>2 DEF ReadEntropy, Goto, Fault
<1>18. ASSUME NEW g \in Goroutines, WriteRiskScore(g) PROVE TypeOK'
  BY <1>18, ReadsTyped DEF WriteRiskScore, Goto
<1>19. ASSUME NEW g \in Goroutines, RiskUpdateFails(g) PROVE TypeOK'
  BY <1>19, ReadsTyped DEF RiskUpdateFails, Goto, Fault
<1>20. ASSUME NEW u \in Resolvers, NEW s \in ScanIds, NEW f \in Findings,
              ResolveVulnerability(u, s, f)
       PROVE  TypeOK'
  BY <1>20 DEF ResolveVulnerability, KindsChange, Readers, Goto, Fault
<1>21. ASSUME NEW u \in Resolvers, LookUpDevice(u) PROVE TypeOK'
  BY <1>21, ReadsTyped DEF LookUpDevice, Goto, Fault
<1>22. ASSUME NEW d \in Devices, FirmwareChange(d) PROVE TypeOK'
  BY <1>22 DEF FirmwareChange, EntropyChanges, Readers
<1>23. CASE Restart
  BY <1>23, ReadsTyped DEF Restart, Fault, Alive, Rescoring
<1>24. CASE UNCHANGED vars
  BY <1>24 DEF vars, scanVars, riskVars
<1>25. QED
  BY <1>1, <1>2, <1>3, <1>4, <1>5, <1>6, <1>7, <1>8, <1>9, <1>10, <1>11, <1>12, <1>13,
     <1>14, <1>15, <1>16, <1>17, <1>18, <1>19, <1>20, <1>21, <1>22, <1>23, <1>24
     DEF Next, runDeviceScan, DeepScan, UpdateDeviceRiskScore

(* Every reachable state is well typed.                                    *)
THEOREM TypeCorrect == Spec => []TypeOK
<1>1. QED
  BY InitTypeOK, NextTypeOK, PTL DEF Spec

-----------------------------------------------------------------------------
(* The worker pool. *)

(* Taking a slot that is free stays within the capacity.                   *)
LEMMA SlotTaken ==
  ASSUME TypeOK, NEW s \in ScanIds, Cardinality(pool) < PoolSize
  PROVE  Cardinality(pool \cup {s}) <= PoolSize
<1>1. IsFiniteSet(pool)
  BY ScansAssumption, FS_Subset DEF TypeOK
<1>2. /\ Cardinality(pool) \in Nat
      /\ Cardinality(pool \cup {s}) \in {Cardinality(pool), Cardinality(pool) + 1}
  BY <1>1, FS_AddElement, FS_CardinalityType
<1>3. QED
  BY <1>2, ScansAssumption

(* Giving a slot back stays within the capacity.                           *)
LEMMA SlotGiven ==
  ASSUME TypeOK, NEW s, Cardinality(pool) <= PoolSize
  PROVE  Cardinality(pool \ {s}) <= PoolSize
<1>1. IsFiniteSet(pool)
  BY ScansAssumption, FS_Subset DEF TypeOK
<1>2. /\ Cardinality(pool) \in Nat
      /\ Cardinality(pool \ {s}) \in {Cardinality(pool), Cardinality(pool) - 1}
  BY <1>1, FS_RemoveElement, FS_CardinalityType
<1>3. QED
  BY <1>2, ScansAssumption

(* Before the first scan the pool is empty.                                *)
LEMMA InitWorkers == Init => WorkersAccounted
BY ScansAssumption, FS_EmptySet DEF Init, WorkersAccounted, Goroutines

(* Every way into and out of nmap moves its slot with it.                  *)
LEMMA NextWorkers == TypeOK /\ WorkersAccounted /\ [Next]_vars => WorkersAccounted'
<1> SUFFICES ASSUME TypeOK, WorkersAccounted, [Next]_vars PROVE WorkersAccounted'
  OBVIOUS
<1> USE ScansAssumption DEF WorkersAccounted, TypeOK, Goroutines, scanVars, riskVars
<1>1. ASSUME NEW s \in ScanIds, NEW d \in Devices, TriggerDeviceScan(s, d)
       PROVE  WorkersAccounted'
  BY <1>1 DEF TriggerDeviceScan, Goto
<1>2. ASSUME NEW s \in ScanIds, NEW d \in Devices, TriggerReplyLost(s, d)
       PROVE  WorkersAccounted'
  BY <1>2 DEF TriggerReplyLost, Fault
<1>3. ASSUME NEW s \in ScanIds, SkipSafelisted(s) PROVE WorkersAccounted'
  BY <1>3 DEF SkipSafelisted, UpdateStatus, Goto, Fault
<1>4. ASSUME NEW s \in ScanIds, NotSafelisted(s) PROVE WorkersAccounted'
  BY <1>4 DEF NotSafelisted, Goto
<1>5. ASSUME NEW s \in ScanIds, InvalidTarget(s) PROVE WorkersAccounted'
  BY <1>5 DEF InvalidTarget, Goto
<1>6. ASSUME NEW s \in ScanIds, AcquireWorker(s) PROVE WorkersAccounted'
  <2>1. Cardinality(pool') <= PoolSize
    BY <1>6, SlotTaken DEF AcquireWorker
  <2>2. pool' = {t \in ScanIds : pc'[t] = "nmap"}
    BY <1>6 DEF AcquireWorker, Goto
  <2>3. QED
    BY <2>1, <2>2
<1>7. ASSUME NEW s \in ScanIds, NmapReturns(s) PROVE WorkersAccounted'
  <2>1. Cardinality(pool') <= PoolSize
    BY <1>7, SlotGiven DEF NmapReturns
  <2>2. pool' = {t \in ScanIds : pc'[t] = "nmap"}
    BY <1>7 DEF NmapReturns, Goto
  <2>3. QED
    BY <2>1, <2>2
<1>8. ASSUME NEW s \in ScanIds, NmapFails(s) PROVE WorkersAccounted'
  <2>1. Cardinality(pool') <= PoolSize
    BY <1>8, SlotGiven DEF NmapFails
  <2>2. pool' = {t \in ScanIds : pc'[t] = "nmap"}
    BY <1>8 DEF NmapFails, Goto
  <2>3. QED
    BY <2>1, <2>2
<1>9. ASSUME NEW s \in ScanIds, StatusFailed(s) PROVE WorkersAccounted'
  BY <1>9 DEF StatusFailed, UpdateStatus, Goto, Fault
<1>10. ASSUME NEW s \in ScanIds, NEW f \in Findings, StoreFinding(s, f)
       PROVE  WorkersAccounted'
  BY <1>10 DEF StoreFinding, KindsChange, Readers, Goto, Fault
<1>11. ASSUME NEW s \in ScanIds, DialSSH(s) PROVE WorkersAccounted'
  BY <1>11 DEF DialSSH, Goto
<1>12. ASSUME NEW s \in ScanIds, SSHReturns(s) PROVE WorkersAccounted'
  BY <1>12 DEF SSHReturns, Goto
<1>13. ASSUME NEW s \in ScanIds, StatusComplete(s) PROVE WorkersAccounted'
  BY <1>13 DEF StatusComplete, UpdateStatus, Goto, Fault
<1>14. ASSUME NEW s \in ScanIds, Panic(s) PROVE WorkersAccounted'
  <2>1. Cardinality(pool') <= PoolSize
    BY <1>14, SlotGiven DEF Panic
  <2>2. pool' = {t \in ScanIds : pc'[t] = "nmap"}
    BY <1>14 DEF Panic, Goto, Fault
  <2>3. QED
    BY <2>1, <2>2
<1>15. ASSUME NEW s \in ScanIds, PurgeScan(s) PROVE WorkersAccounted'
  BY <1>15 DEF PurgeScan, KindsChange, Readers
<1>16. ASSUME NEW g \in Goroutines, ReadTitles(g) PROVE WorkersAccounted'
  BY <1>16 DEF ReadTitles, Goto
<1>17. ASSUME NEW g \in Goroutines, ReadEntropy(g) PROVE WorkersAccounted'
  BY <1>17 DEF ReadEntropy, Goto, Fault
<1>18. ASSUME NEW g \in Goroutines, WriteRiskScore(g) PROVE WorkersAccounted'
  BY <1>18 DEF WriteRiskScore, Goto
<1>19. ASSUME NEW g \in Goroutines, RiskUpdateFails(g) PROVE WorkersAccounted'
  BY <1>19 DEF RiskUpdateFails, Goto, Fault
<1>20. ASSUME NEW u \in Resolvers, NEW s \in ScanIds, NEW f \in Findings,
              ResolveVulnerability(u, s, f)
       PROVE  WorkersAccounted'
  BY <1>20 DEF ResolveVulnerability, KindsChange, Readers, Goto, Fault
<1>21. ASSUME NEW u \in Resolvers, LookUpDevice(u) PROVE WorkersAccounted'
  BY <1>21 DEF LookUpDevice, Goto, Fault
<1>22. ASSUME NEW d \in Devices, FirmwareChange(d) PROVE WorkersAccounted'
  BY <1>22 DEF FirmwareChange, EntropyChanges, Readers
<1>23. CASE Restart
  BY <1>23, FS_EmptySet DEF Restart, Alive
<1>24. CASE UNCHANGED vars
  BY <1>24 DEF vars, scanVars, riskVars
<1>25. QED
  BY <1>1, <1>2, <1>3, <1>4, <1>5, <1>6, <1>7, <1>8, <1>9, <1>10, <1>11, <1>12, <1>13,
     <1>14, <1>15, <1>16, <1>17, <1>18, <1>19, <1>20, <1>21, <1>22, <1>23, <1>24
     DEF Next, runDeviceScan, DeepScan, UpdateDeviceRiskScore

(* No failure, panic or timeout leaks a worker, and no more than PoolSize  *)
(* nmap processes run, whatever the number of scans.                       *)
THEOREM WorkersNeverLeak == Spec => []WorkersAccounted
<1>1. QED
  BY InitWorkers, NextWorkers, TypeCorrect, PTL DEF Spec

-----------------------------------------------------------------------------
(* The risk score. *)

\* Vulnerabilities and running goroutines belong to scans that have a row.
HasRow ==
    /\ \A s \in ScanIds : pc[s] # "idle" => row[s] # "none"
    /\ \A u \in Resolvers : pc[u] # "idle" => row[of[u]] # "none"
    /\ \A s \in ScanIds, f \in Findings : <<s, f>> \in open => row[s] # "none"

\* A score that is not that of the rows has an excuse, or somebody who is
\* about to write it again.
WrongScorePending ==
    \A d \in Devices :
        (d \notin excused /\ score[d] # CurrentFactors(d)) =>
            \E g \in Goroutines : DeviceOf(g) = d /\ pc[g] \in Pending

\* What a goroutine has read is still so, unless it was told otherwise.
FreshReads ==
    \A g \in Goroutines \ dirty :
        /\ pc[g] = "risk_entropy" => factors[g] = OpenKinds(DeviceOf(g))
        /\ pc[g] = "risk_write" => factors[g] = CurrentFactors(DeviceOf(g))

ScoreInv == WrongScorePending /\ FreshReads

(* Nothing has a row, and nothing needs one.                               *)
LEMMA InitHasRow == Init => HasRow
BY DEF Init, HasRow, Goroutines

(* A row is inserted before its goroutine starts and before anything       *)
(* refers to it, and is never again "none".                                *)
LEMMA NextHasRow == TypeOK /\ HasRow /\ [Next]_vars => HasRow'
<1> SUFFICES ASSUME TypeOK, HasRow, [Next]_vars PROVE HasRow'
  OBVIOUS
<1> USE ScansAssumption DEF TypeOK, HasRow, Goroutines, Terminal, scanVars, riskVars
<1>1. ASSUME NEW s \in ScanIds, NEW d \in Devices, TriggerDeviceScan(s, d) PROVE HasRow'
  BY <1>1 DEF TriggerDeviceScan, Goto
<1>2. ASSUME NEW s \in ScanIds, NEW d \in Devices, TriggerReplyLost(s, d) PROVE HasRow'
  BY <1>2 DEF TriggerReplyLost, Fault
<1>3. ASSUME NEW s \in ScanIds, SkipSafelisted(s) PROVE HasRow'
  BY <1>3 DEF SkipSafelisted, UpdateStatus, Goto, Fault
<1>4. ASSUME NEW s \in ScanIds, NotSafelisted(s) PROVE HasRow'
  BY <1>4 DEF NotSafelisted, Goto
<1>5. ASSUME NEW s \in ScanIds, InvalidTarget(s) PROVE HasRow'
  BY <1>5 DEF InvalidTarget, Goto
<1>6. ASSUME NEW s \in ScanIds, AcquireWorker(s) PROVE HasRow'
  BY <1>6 DEF AcquireWorker, Goto
<1>7. ASSUME NEW s \in ScanIds, NmapReturns(s) PROVE HasRow'
  BY <1>7 DEF NmapReturns, Goto
<1>8. ASSUME NEW s \in ScanIds, NmapFails(s) PROVE HasRow'
  BY <1>8 DEF NmapFails, Goto
<1>9. ASSUME NEW s \in ScanIds, StatusFailed(s) PROVE HasRow'
  BY <1>9 DEF StatusFailed, UpdateStatus, Goto, Fault
<1>10. ASSUME NEW s \in ScanIds, NEW f \in Findings, StoreFinding(s, f) PROVE HasRow'
  BY <1>10 DEF StoreFinding, KindsChange, Readers, Goto, Fault
<1>11. ASSUME NEW s \in ScanIds, DialSSH(s) PROVE HasRow'
  BY <1>11 DEF DialSSH, Goto
<1>12. ASSUME NEW s \in ScanIds, SSHReturns(s) PROVE HasRow'
  BY <1>12 DEF SSHReturns, Goto
<1>13. ASSUME NEW s \in ScanIds, StatusComplete(s) PROVE HasRow'
  BY <1>13 DEF StatusComplete, UpdateStatus, Goto, Fault
<1>14. ASSUME NEW s \in ScanIds, Panic(s) PROVE HasRow'
  BY <1>14 DEF Panic, Goto, Fault
<1>15. ASSUME NEW s \in ScanIds, PurgeScan(s) PROVE HasRow'
  BY <1>15 DEF PurgeScan, KindsChange, Readers
<1>16. ASSUME NEW g \in Goroutines, ReadTitles(g) PROVE HasRow'
  BY <1>16 DEF ReadTitles, Goto
<1>17. ASSUME NEW g \in Goroutines, ReadEntropy(g) PROVE HasRow'
  BY <1>17 DEF ReadEntropy, Goto, Fault
<1>18. ASSUME NEW g \in Goroutines, WriteRiskScore(g) PROVE HasRow'
  BY <1>18 DEF WriteRiskScore, Goto
<1>19. ASSUME NEW g \in Goroutines, RiskUpdateFails(g) PROVE HasRow'
  BY <1>19 DEF RiskUpdateFails, Goto, Fault
<1>20. ASSUME NEW u \in Resolvers, NEW s \in ScanIds, NEW f \in Findings,
              ResolveVulnerability(u, s, f)
       PROVE  HasRow'
  BY <1>20 DEF ResolveVulnerability, KindsChange, Readers, Goto, Fault
<1>21. ASSUME NEW u \in Resolvers, LookUpDevice(u) PROVE HasRow'
  BY <1>21 DEF LookUpDevice, Goto, Fault
<1>22. ASSUME NEW d \in Devices, FirmwareChange(d) PROVE HasRow'
  BY <1>22 DEF FirmwareChange, EntropyChanges, Readers
<1>23. CASE Restart
  BY <1>23 DEF Restart, Fault, Alive, Rescoring
<1>24. CASE UNCHANGED vars
  BY <1>24 DEF vars, scanVars, riskVars
<1>25. QED
  BY <1>1, <1>2, <1>3, <1>4, <1>5, <1>6, <1>7, <1>8, <1>9, <1>10, <1>11, <1>12, <1>13,
     <1>14, <1>15, <1>16, <1>17, <1>18, <1>19, <1>20, <1>21, <1>22, <1>23, <1>24
     DEF Next, runDeviceScan, DeepScan, UpdateDeviceRiskScore

(* Without vulnerabilities every score is right.                           *)
LEMMA InitScoreInv == Init => ScoreInv
BY ScansAssumption DEF Init, ScoreInv, WrongScorePending, FreshReads, CurrentFactors, OpenKinds,
   Entropy, Goroutines

(* A step that changes no row the score is computed from, and no score,    *)
(* starts no read, and whose goroutine stays on the way to the rescoring   *)
(* or leaves an excuse.                                                    *)
LEMMA StepKeepsScore ==
  ASSUME ScoreInv, UNCHANGED <<device, of, open, entropic, score>>, excused \subseteq excused',
         \A g \in Goroutines : pc[g] \in Pending => pc'[g] \in Pending \/ DeviceOf(g) \in excused',
         \A g \in Goroutines : pc'[g] \in {"risk_entropy", "risk_write"} =>
             pc'[g] = pc[g] /\ factors'[g] = factors[g] /\ (g \in dirty => g \in dirty')
  PROVE  ScoreInv'
<1>1. /\ \A g \in Goroutines : DeviceOf(g)' = DeviceOf(g)
      /\ \A d \in Devices : CurrentFactors(d)' = CurrentFactors(d)
  BY DEF DeviceOf, CurrentFactors, OpenKinds, Entropy
<1>2. \A g \in Goroutines : /\ OpenKinds(DeviceOf(g))' = OpenKinds(DeviceOf(g))
                            /\ CurrentFactors(DeviceOf(g))' = CurrentFactors(DeviceOf(g))
  BY DEF DeviceOf, CurrentFactors, OpenKinds, Entropy
<1>3. WrongScorePending'
  BY <1>1 DEF ScoreInv, WrongScorePending
<1>4. FreshReads'
  BY <1>2 DEF ScoreInv, FreshReads
<1>5. QED
  BY <1>3, <1>4 DEF ScoreInv

(* A step that changes the rows of device d tells those who have read them *)
(* and leaves an excuse, or somebody who will rescore it.                  *)
LEMMA RowChangeKeepsScore ==
  ASSUME TypeOK, ScoreInv, NEW d \in Devices,
         UNCHANGED <<device, factors, score>>, excused \subseteq excused', dirty \subseteq dirty',
         \A d0 \in Devices \ {d} : /\ OpenKinds(d0)' = OpenKinds(d0)
                                   /\ CurrentFactors(d0)' = CurrentFactors(d0),
         \A g \in Goroutines :
             pc[g] \in Pending => pc'[g] \in Pending /\ DeviceOf(g)' = DeviceOf(g),
         \A g \in Goroutines : pc'[g] \in {"risk_entropy", "risk_write"} => pc'[g] = pc[g],
         d \in excused' \/ \E g \in Goroutines : DeviceOf(g)' = d /\ pc'[g] \in Pending,
         \A g \in Goroutines \ dirty' :
             /\ pc[g] = "risk_write" => DeviceOf(g) # d
             /\ pc[g] = "risk_entropy" => DeviceOf(g) # d \/ OpenKinds(d)' = OpenKinds(d)
  PROVE  ScoreInv'
<1>1. WrongScorePending'
  <2> SUFFICES ASSUME NEW d0 \in Devices, d0 \notin excused', score'[d0] # CurrentFactors(d0)'
               PROVE  \E g \in Goroutines : DeviceOf(g)' = d0 /\ pc'[g] \in Pending
    BY DEF WrongScorePending
  <2>1. CASE d0 = d
    BY <2>1
  <2>2. CASE d0 # d
    BY <2>2 DEF ScoreInv, WrongScorePending
  <2>3. QED
    BY <2>1, <2>2
<1>2. FreshReads'
  <2> SUFFICES ASSUME NEW g \in Goroutines, g \notin dirty',
                      pc'[g] \in {"risk_entropy", "risk_write"}
               PROVE  /\ pc'[g] = "risk_entropy" => factors'[g] = OpenKinds(DeviceOf(g))'
                      /\ pc'[g] = "risk_write" => factors'[g] = CurrentFactors(DeviceOf(g))'
    BY DEF FreshReads
  <2>1. pc'[g] = pc[g] /\ DeviceOf(g)' = DeviceOf(g) /\ DeviceOf(g) \in Devices
    BY ReadsTyped DEF Pending
  <2>2. ASSUME NEW d0 \in Devices, DeviceOf(g)' = d0, DeviceOf(g) = d0
        PROVE  /\ pc'[g] = "risk_entropy" => factors'[g] = OpenKinds(DeviceOf(g))'
               /\ pc'[g] = "risk_write" => factors'[g] = CurrentFactors(DeviceOf(g))'
    <3>1. /\ pc[g] = "risk_entropy" => factors[g] = OpenKinds(d0)
          /\ pc[g] = "risk_write" => factors[g] = CurrentFactors(d0)
      BY <2>2 DEF ScoreInv, FreshReads
    <3>2. /\ pc[g] = "risk_entropy" => OpenKinds(d0)' = OpenKinds(d0)
          /\ pc[g] = "risk_write" => CurrentFactors(d0)' = CurrentFactors(d0)
      BY <2>2
    <3>3. QED
      BY <3>1, <3>2, <2>1, <2>2
  <2>3. QED
    BY <2>1, <2>2
<1>3. QED
  BY <1>1, <1>2 DEF ScoreInv

(* A new scan takes the place of no device that anything refers to.        *)
LEMMA TriggerKeepsScore ==
  ASSUME TypeOK, HasRow, ScoreInv, NEW s \in ScanIds, NEW d \in Devices, row[s] = "none",
         device' = [device EXCEPT ![s] = d], UNCHANGED <<of, riskVars>>,
         pc' \in {pc, [pc EXCEPT ![s] = "safelist"]}
  PROVE  ScoreInv'
<1> USE ScansAssumption DEF TypeOK, Goroutines
<1>1. /\ pc[s] = "idle"
      /\ \A g \in Goroutines : pc[g] # "idle" => DeviceOf(g)' = DeviceOf(g)
  BY DEF HasRow, DeviceOf
<1>2. \A d0 \in Devices : OpenKinds(d0)' = OpenKinds(d0)
  BY DEF HasRow, OpenKinds, riskVars
<1>3. \A d0 \in Devices : CurrentFactors(d0)' = CurrentFactors(d0)
  BY <1>2 DEF CurrentFactors, Entropy, riskVars
<1>4. \A g \in Goroutines : pc'[g] # pc[g] => pc'[g] = "safelist" /\ pc[g] = "idle"
  BY <1>1
<1>5. WrongScorePending'
  <2> SUFFICES ASSUME NEW d0 \in Devices, d0 \notin excused', score'[d0] # CurrentFactors(d0)'
               PROVE  \E g \in Goroutines : DeviceOf(g)' = d0 /\ pc'[g] \in Pending
    BY DEF WrongScorePending
  <2>1. PICK g \in Goroutines : DeviceOf(g) = d0 /\ pc[g] \in Pending
    BY <1>3 DEF ScoreInv, WrongScorePending, riskVars
  <2>2. pc[g] # "idle" /\ pc'[g] = pc[g]
    BY <2>1, <1>4 DEF Pending
  <2>3. QED
    BY <2>1, <2>2, <1>1
<1>6. FreshReads'
  <2> SUFFICES ASSUME NEW g \in Goroutines, g \notin dirty',
                      pc'[g] \in {"risk_entropy", "risk_write"}
               PROVE  /\ pc'[g] = "risk_entropy" => factors'[g] = OpenKinds(DeviceOf(g))'
                      /\ pc'[g] = "risk_write" => factors'[g] = CurrentFactors(DeviceOf(g))'
    BY DEF FreshReads
  <2>1. pc'[g] = pc[g] /\ DeviceOf(g)' = DeviceOf(g) /\ DeviceOf(g) \in Devices
    BY <1>1, <1>4, ReadsTyped
  <2>2. /\ OpenKinds(DeviceOf(g))' = OpenKinds(DeviceOf(g))
        /\ CurrentFactors(DeviceOf(g))' = CurrentFactors(DeviceOf(g))
    <3>1. ASSUME NEW d0 \in Devices, DeviceOf(g)' = d0, DeviceOf(g) = d0
          PROVE  /\ OpenKinds(DeviceOf(g))' = OpenKinds(DeviceOf(g))
                 /\ CurrentFactors(DeviceOf(g))' = CurrentFactors(DeviceOf(g))
      BY <3>1, <1>2, <1>3
    <3>2. QED
      BY <3>1, <2>1
  <2>3. QED
    BY <2>1, <2>2 DEF ScoreInv, FreshReads, riskVars
<1>7. QED
  BY <1>5, <1>6 DEF ScoreInv

(* Whoever changes a row the score is computed from goes on to rescore the *)
(* device, or leaves an excuse behind; and whoever has read the rows is    *)
(* marked when they change.                                                *)
LEMMA NextScoreInv == TypeOK /\ HasRow /\ ScoreInv /\ [Next]_vars => ScoreInv'
<1> SUFFICES ASSUME TypeOK, HasRow, ScoreInv, [Next]_vars PROVE ScoreInv'
  OBVIOUS
<1> USE ScansAssumption DEF TypeOK, Goroutines, scanVars, riskVars
<1>1. ASSUME NEW s \in ScanIds, NEW d \in Devices, TriggerDeviceScan(s, d) PROVE ScoreInv'
  BY <1>1, TriggerKeepsScore DEF TriggerDeviceScan, Goto
<1>2. ASSUME NEW s \in ScanIds, NEW d \in Devices, TriggerReplyLost(s, d) PROVE ScoreInv'
  BY <1>2, TriggerKeepsScore DEF TriggerReplyLost, Fault
<1>3. ASSUME NEW s \in ScanIds, SkipSafelisted(s) PROVE ScoreInv'
  BY <1>3, StepKeepsScore DEF SkipSafelisted, UpdateStatus, Goto, Fault, Pending
<1>4. ASSUME NEW s \in ScanIds, NotSafelisted(s) PROVE ScoreInv'
  BY <1>4, StepKeepsScore DEF NotSafelisted, Goto, Pending
<1>5. ASSUME NEW s \in ScanIds, InvalidTarget(s) PROVE ScoreInv'
  BY <1>5, StepKeepsScore DEF InvalidTarget, Goto, Pending
<1>6. ASSUME NEW s \in ScanIds, AcquireWorker(s) PROVE ScoreInv'
  BY <1>6, StepKeepsScore DEF AcquireWorker, Goto, Pending
<1>7. ASSUME NEW s \in ScanIds, NmapReturns(s) PROVE ScoreInv'
  BY <1>7, StepKeepsScore DEF NmapReturns, Goto, Pending
<1>8. ASSUME NEW s \in ScanIds, NmapFails(s) PROVE ScoreInv'
  BY <1>8, StepKeepsScore DEF NmapFails, Goto, Pending
<1>9. ASSUME NEW s \in ScanIds, StatusFailed(s) PROVE ScoreInv'
  BY <1>9, StepKeepsScore DEF StatusFailed, UpdateStatus, Goto, Fault, Pending
<1>10. ASSUME NEW s \in ScanIds, NEW f \in Findings, StoreFinding(s, f) PROVE ScoreInv'
  <2>1. CASE open' = open /\ dirty' = dirty
    BY <1>10, <2>1, StepKeepsScore DEF StoreFinding, Goto
  <2>2. CASE open' = open \cup {<<s, f>>} /\ KindsChange(device[s])
    <3>1. /\ pc' = pc /\ pc[s] \in Pending /\ device[s] \in Devices
          /\ \A g \in Goroutines : DeviceOf(g)' = DeviceOf(g)
          /\ DeviceOf(s) = device[s]
      BY <1>10 DEF StoreFinding, Goto, Pending, DeviceOf
    <3>2. \A d0 \in Devices \ {device[s]} : /\ OpenKinds(d0)' = OpenKinds(d0)
                                            /\ CurrentFactors(d0)' = CurrentFactors(d0)
      BY <1>10, <2>2 DEF StoreFinding, OpenKinds, CurrentFactors, Entropy
    <3>3. \A g \in Goroutines \ dirty' :
            pc[g] \in {"risk_entropy", "risk_write"} => DeviceOf(g) # device[s]
      BY <2>2 DEF KindsChange, Readers
    <3>4. dirty \subseteq dirty'
      BY <2>2 DEF KindsChange
    <3>5. UNCHANGED <<device, factors, score, excused>>
      BY <1>10 DEF StoreFinding
    <3>6. QED
      BY <3>1, <3>2, <3>3, <3>4, <3>5, RowChangeKeepsScore
  <2>3. QED
    BY <1>10, <2>1, <2>2 DEF StoreFinding
<1>11. ASSUME NEW s \in ScanIds, DialSSH(s) PROVE ScoreInv'
  BY <1>11, StepKeepsScore DEF DialSSH, Goto, Pending
<1>12. ASSUME NEW s \in ScanIds, SSHReturns(s) PROVE ScoreInv'
  BY <1>12, StepKeepsScore DEF SSHReturns, Goto, Pending
<1>13. ASSUME NEW s \in ScanIds, StatusComplete(s) PROVE ScoreInv'
  BY <1>13, StepKeepsScore DEF StatusComplete, UpdateStatus, Goto, Fault, Pending
<1>14. ASSUME NEW s \in ScanIds, Panic(s) PROVE ScoreInv'
  <2>1. \A g \in Goroutines : pc[g] \in Pending => pc'[g] \in Pending \/ DeviceOf(g) \in excused'
    BY <1>14 DEF Panic, Goto, Pending, DeviceOf
  <2>2. QED
    BY <1>14, <2>1, StepKeepsScore DEF Panic, Goto
<1>15. ASSUME NEW s \in ScanIds, PurgeScan(s) PROVE ScoreInv'
  <2>1. /\ pc' = pc /\ device[s] \in Devices /\ device[s] \in excused'
        /\ \A g \in Goroutines : DeviceOf(g)' = DeviceOf(g)
        /\ UNCHANGED <<device, factors, score>> /\ excused \subseteq excused'
    BY <1>15 DEF PurgeScan, DeviceOf
  <2>2. \A d0 \in Devices \ {device[s]} : /\ OpenKinds(d0)' = OpenKinds(d0)
                                          /\ CurrentFactors(d0)' = CurrentFactors(d0)
    <3>1. \A t \in ScanIds, e \in Findings :
            device[t] # device[s] => (<<t, e>> \in open' <=> <<t, e>> \in open)
      BY <1>15 DEF PurgeScan
    <3>2. QED
      BY <1>15, <2>1, <3>1 DEF PurgeScan, OpenKinds, CurrentFactors, Entropy
  <2>3. \A g \in Goroutines \ dirty' :
          pc[g] \in {"risk_entropy", "risk_write"} => DeviceOf(g) # device[s]
    BY <1>15 DEF PurgeScan, KindsChange, Readers
  <2>4. dirty \subseteq dirty'
    BY <1>15 DEF PurgeScan, KindsChange
  <2>5. QED
    BY <2>1, <2>2, <2>3, <2>4, RowChangeKeepsScore
<1>16. ASSUME NEW g \in Goroutines, ReadTitles(g) PROVE ScoreInv'
  <2>1. /\ UNCHANGED <<device, of, open, entropic>>
        /\ \A h \in Goroutines \ {g} : pc'[h] = pc[h] /\ factors'[h] = factors[h]
    BY <1>16 DEF ReadTitles, Goto
  <2>2. /\ \A h \in Goroutines : DeviceOf(h)' = DeviceOf(h)
        /\ \A d \in Devices : CurrentFactors(d)' = CurrentFactors(d)
    BY <2>1 DEF DeviceOf, CurrentFactors, OpenKinds, Entropy
  <2>3. \A h \in Goroutines : /\ OpenKinds(DeviceOf(h))' = OpenKinds(DeviceOf(h))
                              /\ CurrentFactors(DeviceOf(h))' = CurrentFactors(DeviceOf(h))
    BY <2>1 DEF DeviceOf, CurrentFactors, OpenKinds, Entropy
  <2>4. WrongScorePending'
    BY <1>16, <2>1, <2>2 DEF ReadTitles, Goto, WrongScorePending, ScoreInv, Pending
  <2>5. pc'[g] = "risk_entropy" /\ factors'[g] = OpenKinds(DeviceOf(g)) /\ dirty' = dirty
    BY <1>16 DEF ReadTitles, Goto
  <2>6. FreshReads'
    BY <2>1, <2>3, <2>5 DEF FreshReads, ScoreInv
  <2>7. QED
    BY <2>4, <2>6 DEF ScoreInv
<1>17. ASSUME NEW g \in Goroutines, ReadEntropy(g) PROVE ScoreInv'
  <2>1. /\ UNCHANGED <<device, of, open, entropic>>
        /\ \A h \in Goroutines \ {g} : pc'[h] = pc[h] /\ factors'[h] = factors[h]
    BY <1>17 DEF ReadEntropy, Goto
  <2>2. /\ \A h \in Goroutines : DeviceOf(h)' = DeviceOf(h)
        /\ \A d \in Devices : CurrentFactors(d)' = CurrentFactors(d)
    BY <2>1 DEF DeviceOf, CurrentFactors, OpenKinds, Entropy
  <2>3. \A h \in Goroutines : /\ OpenKinds(DeviceOf(h))' = OpenKinds(DeviceOf(h))
                              /\ CurrentFactors(DeviceOf(h))' = CurrentFactors(DeviceOf(h))
    BY <2>1 DEF DeviceOf, CurrentFactors, OpenKinds, Entropy
  <2>4. WrongScorePending'
    BY <1>17, <2>1, <2>2 DEF ReadEntropy, Goto, WrongScorePending, ScoreInv, Pending
  <2>5. /\ pc[g] = "risk_entropy" /\ pc'[g] = "risk_write" /\ dirty \subseteq dirty'
        /\ g \notin dirty' => factors'[g] = factors[g] \cup Entropy(DeviceOf(g))
    BY <1>17 DEF ReadEntropy, Goto
  <2>6. g \notin dirty' => factors'[g] = CurrentFactors(DeviceOf(g))
    BY <2>5 DEF FreshReads, ScoreInv, CurrentFactors
  <2>7. FreshReads'
    BY <2>1, <2>3, <2>5, <2>6 DEF FreshReads, ScoreInv
  <2>8. QED
    BY <2>4, <2>7 DEF ScoreInv
<1>18. ASSUME NEW g \in Goroutines, WriteRiskScore(g) PROVE ScoreInv'
  <2>1. /\ UNCHANGED <<device, of, open, entropic>>
        /\ \A h \in Goroutines \ {g} : pc'[h] = pc[h] /\ factors'[h] = factors[h]
    BY <1>18 DEF WriteRiskScore, Goto
  <2>2. /\ \A h \in Goroutines : DeviceOf(h)' = DeviceOf(h)
        /\ \A d \in Devices : CurrentFactors(d)' = CurrentFactors(d)
    BY <2>1 DEF DeviceOf, CurrentFactors, OpenKinds, Entropy
  <2>3. \A h \in Goroutines : /\ OpenKinds(DeviceOf(h))' = OpenKinds(DeviceOf(h))
                              /\ CurrentFactors(DeviceOf(h))' = CurrentFactors(DeviceOf(h))
    BY <2>1 DEF DeviceOf, CurrentFactors, OpenKinds, Entropy
  <2>4. /\ pc[g] = "risk_write" /\ pc'[g] = "done" /\ DeviceOf(g) \in Devices
        /\ score'[DeviceOf(g)] = factors[g] /\ dirty' = dirty \ {g}
        /\ DeviceOf(g) \notin excused' => g \notin dirty
        /\ \A d \in Devices \ {DeviceOf(g)} :
              score'[d] = score[d] /\ (d \notin excused' => d \notin excused)
    BY <1>18, ReadsTyped DEF WriteRiskScore, Goto
  <2>5. DeviceOf(g) \notin excused' => score'[DeviceOf(g)] = CurrentFactors(DeviceOf(g))
    BY <2>4 DEF ScoreInv, FreshReads
  <2>6. WrongScorePending'
    <3> SUFFICES ASSUME NEW d \in Devices, d \notin excused', score'[d] # CurrentFactors(d)'
                 PROVE  \E h \in Goroutines : DeviceOf(h)' = d /\ pc'[h] \in Pending
      BY DEF WrongScorePending
    <3>1. d # DeviceOf(g)
      BY <2>2, <2>5
    <3>2. PICK h \in Goroutines : DeviceOf(h) = d /\ pc[h] \in Pending
      BY <2>2, <2>4, <3>1 DEF ScoreInv, WrongScorePending
    <3>3. QED
      BY <3>1, <3>2, <2>1, <2>2
  <2>7. FreshReads'
    BY <2>1, <2>3, <2>4 DEF FreshReads, ScoreInv
  <2>8. QED
    BY <2>6, <2>7 DEF ScoreInv
<1>19. ASSUME NEW g \in Goroutines, RiskUpdateFails(g) PROVE ScoreInv'
  BY <1>19, StepKeepsScore DEF RiskUpdateFails, Goto
<1>20. ASSUME NEW u \in Resolvers, NEW s \in ScanIds, NEW f \in Findings,
              ResolveVulnerability(u, s, f)
       PROVE  ScoreInv'
  <2>1. /\ device' = device /\ of' = [of EXCEPT ![u] = s] /\ device[s] \in Devices
        /\ pc[u] = "idle" /\ \A g \in Goroutines \ {u} : pc'[g] = pc[g]
        /\ \/ pc'[u] = "lookup"
           \/ pc'[u] = "done" /\ device[s] \in excused'
        /\ UNCHANGED <<factors, score, entropic>> /\ excused \subseteq excused'
    BY <1>20 DEF ResolveVulnerability, Goto
  <2>2. /\ \A g \in Goroutines \ {u} : DeviceOf(g)' = DeviceOf(g)
        /\ DeviceOf(u)' = device[s]
    BY <2>1 DEF DeviceOf
  <2>3. \A d0 \in Devices \ {device[s]} : /\ OpenKinds(d0)' = OpenKinds(d0)
                                          /\ CurrentFactors(d0)' = CurrentFactors(d0)
    <3>1. \A t \in ScanIds, e \in Findings :
            device[t] # device[s] => (<<t, e>> \in open' <=> <<t, e>> \in open)
      BY <1>20 DEF ResolveVulnerability
    <3>2. QED
      BY <2>1, <3>1 DEF OpenKinds, CurrentFactors, Entropy
  <2>4. \A g \in Goroutines \ dirty' :
          pc[g] \in {"risk_entropy", "risk_write"} => DeviceOf(g) # device[s]
    BY <1>20 DEF ResolveVulnerability, KindsChange, Readers
  <2>5. dirty \subseteq dirty'
    BY <1>20 DEF ResolveVulnerability, KindsChange
  <2>6. \A g \in Goroutines :
          /\ pc[g] \in Pending => pc'[g] \in Pending /\ DeviceOf(g)' = DeviceOf(g)
          /\ pc'[g] \in {"risk_entropy", "risk_write"} => pc'[g] = pc[g]
    BY <2>1, <2>2 DEF Pending
  <2>7. \/ device[s] \in excused'
        \/ \E g \in Goroutines : DeviceOf(g)' = device[s] /\ pc'[g] \in Pending
    BY <2>1, <2>2 DEF Pending
  <2>8. QED
    BY <2>1, <2>3, <2>4, <2>5, <2>6, <2>7, RowChangeKeepsScore
<1>21. ASSUME NEW u \in Resolvers, LookUpDevice(u) PROVE ScoreInv'
  BY <1>21, StepKeepsScore DEF LookUpDevice, Goto, Pending
<1>22. ASSUME NEW d \in Devices, FirmwareChange(d) PROVE ScoreInv'
  <2>1. /\ pc' = pc /\ d \in excused'
        /\ \A g \in Goroutines : DeviceOf(g)' = DeviceOf(g)
        /\ UNCHANGED <<device, factors, score>> /\ excused \subseteq excused'
    BY <1>22 DEF FirmwareChange, DeviceOf
  <2>2. \A d0 \in Devices : OpenKinds(d0)' = OpenKinds(d0)
    BY <1>22 DEF FirmwareChange, OpenKinds
  <2>3. \A d0 \in Devices \ {d} : CurrentFactors(d0)' = CurrentFactors(d0)
    BY <1>22, <2>2 DEF FirmwareChange, CurrentFactors, Entropy
  <2>4. \A g \in Goroutines \ dirty' : pc[g] = "risk_write" => DeviceOf(g) # d
    BY <1>22 DEF FirmwareChange, EntropyChanges, Readers
  <2>5. dirty \subseteq dirty'
    BY <1>22 DEF FirmwareChange, EntropyChanges
  <2>6. QED
    BY <2>1, <2>2, <2>3, <2>4, <2>5, RowChangeKeepsScore
<1>23. CASE Restart
  <2>1. \A g \in Goroutines : /\ pc[g] \in Pending => DeviceOf(g) \in excused'
                              /\ pc'[g] \notin {"risk_entropy", "risk_write"}
    BY <1>23 DEF Restart, Alive, Rescoring, Pending
  <2>2. UNCHANGED <<device, of, open, entropic, score>> /\ excused \subseteq excused'
    BY <1>23 DEF Restart
  <2>3. QED
    BY <2>1, <2>2, StepKeepsScore
<1>24. CASE UNCHANGED vars
  BY <1>24, StepKeepsScore DEF vars
<1>25. QED
  BY <1>1, <1>2, <1>3, <1>4, <1>5, <1>6, <1>7, <1>8, <1>9, <1>10, <1>11, <1>12, <1>13,
     <1>14, <1>15, <1>16, <1>17, <1>18, <1>19, <1>20, <1>21, <1>22, <1>23, <1>24
     DEF Next, runDeviceScan, DeepScan, UpdateDeviceRiskScore

(* For any number of scans, resolutions, purges and firmware changes: once *)
(* nobody works on a device, its score is that of its open vulnerabilities *)
(* and its firmware, or one of the listed things happened after the last   *)
(* complete update.                                                        *)
THEOREM WrongScoresAreExplained == Spec => []ScoreExplained
<1>1. Spec => []ScoreInv
  BY InitScoreInv, NextScoreInv, InitHasRow, NextHasRow, TypeCorrect, PTL DEF Spec
<1>2. ScoreInv => ScoreExplained
  BY DEF ScoreInv, WrongScorePending, ScoreExplained, Quiet, Pending
<1>3. QED
  BY <1>1, <1>2, PTL
=============================================================================
