---------------------------- MODULE BackendProofs ----------------------------
(***************************************************************************)
(* Theorems about the goroutines of the backend process.                   *)
(*                                                                         *)
(* The process and its jobs (Jobs), for any number of requests and of      *)
(* periodic jobs, any pool of at least two connections, and any number of  *)
(* rows, retries and outages.                                              *)
(*                                                                         *)
(* The KEV catalogues (KevCatalogue), for any set of replicas and any      *)
(* number of failed reads and writes.                                      *)
(*                                                                         *)
(* The tests of a scan (Assessment), for any set of scans, of open ports   *)
(* and of credentials, any limits of the testers, and any number of        *)
(* statements that fail.                                                   *)
(***************************************************************************)
EXTENDS Jobs, KevCatalogue, Assessment, FiniteSetTheorems, TLAPS

-----------------------------------------------------------------------------
(* The process and its jobs. *)

\* Only the alert monitor holds a result open, and it asks for a connection
\* of its own only for a row.
RowsOfMonitor ==
    /\ \A g \in Goroutines : pc[g] \in {"rows", "want2", "use2"} => g = "alerts"
    /\ pc["alerts"] \in {"want2", "use2"} => rows > 0

\* After a drain in time no request is left, and none comes.
RequestsDrained ==
    main \in {"waiting", "exited"} /\ ~overdue => \A q \in Requests : pc[q] = "none"

ProcessInv == TypeOK /\ RowsOfMonitor /\ RequestsDrained /\ WorkFinished

(* A process that has not started anything satisfies the invariant.        *)
LEMMA InitProcessInv == Init => ProcessInv
<1> SUFFICES ASSUME Init PROVE ProcessInv
  OBVIOUS
<1>1. TypeOK
  <2>1. 0 \in 0..MaxRows /\ 0 \in 0..MaxRetries /\ 0 \in 0..MaxOutages /\ 1 \in 1..3
    BY PoolAssumption
  <2>2. QED
    BY <2>1 DEF Init, TypeOK, Bodies
<1>2. "alerts" \in Goroutines
  BY DEF Goroutines, Jobs, Workers
<1>3. QED
  BY <1>1, <1>2 DEF Init, ProcessInv, RowsOfMonitor, RequestsDrained,
     WorkFinished, Running

(* No step of the jobs, the requests, the database, the feed or main       *)
(* breaks the invariant.                                                   *)
LEMMA NextProcessInv == ProcessInv /\ [Next]_vars => ProcessInv'
<1> SUFFICES ASSUME ProcessInv, [Next]_vars PROVE ProcessInv'
  OBVIOUS
<1>a. /\ {"alerts", "monitor", "scan"} \subseteq Goroutines
      /\ Workers \subseteq Goroutines /\ Periodic \subseteq Goroutines
      /\ Requests \subseteq Goroutines
      /\ "alerts" \notin Requests /\ "monitor" \notin Requests /\ "scan" \notin Requests
      /\ \A w \in Workers : w \notin Requests
      /\ \A g \in Periodic : g # "alerts" /\ g \notin Requests
  BY RolesAssumption DEF Goroutines, Jobs, Workers, Loose
<1>b. ASSUME UNCHANGED <<stopped, main, job, mon, env, hist>>,
             Running, pc' \in [Goroutines -> {"none", "idle", "want", "use", "rows", "want2",
                                             "use2", "done"}],
             RowsOfMonitor', RequestsDrained'
      PROVE  ProcessInv'
  BY <1>b DEF ProcessInv, TypeOK, WorkFinished, Running,
     job, mon, env, hist
<1>1. CASE UNCHANGED vars
  BY <1>1 DEF vars, job, mon, env, hist, ProcessInv, TypeOK, RowsOfMonitor,
     RequestsDrained, WorkFinished, Running
<1>2. ASSUME NEW g \in Goroutines, Acquire(g) \/ Wake(g) \/ EndRound(g) \/ Stop(g)
      PROVE  ProcessInv'
  <2>1. /\ g # "alerts" \/ pc'["alerts"] = "done"
        /\ g \in Requests => pc[g] # "none"
        /\ \E to \in {"want", "use", "idle", "done"} : pc' = [pc EXCEPT ![g] = to]
        /\ Running /\ UNCHANGED <<main, stopped, job, mon, env, hist>>
    BY <1>a, <1>2 DEF Acquire, Wake, EndRound, Stop, Goto, ProcessInv, TypeOK
  <2>2. RowsOfMonitor'
    BY <1>a, <2>1 DEF ProcessInv, TypeOK, RowsOfMonitor, job
  <2>3. RequestsDrained'
    BY <1>a, <2>1 DEF ProcessInv, TypeOK, RequestsDrained, hist
  <2>4. QED
    BY <1>b, <2>1, <2>2, <2>3 DEF ProcessInv, TypeOK
<1>3. CASE MonitorTick \/ QueryRows \/ NextRow \/ AcquireSecond \/ AlertCreated
  <2>1. /\ Running /\ UNCHANGED <<main, stopped, mon, env, hist>>
        /\ \E to \in {"idle", "want", "rows", "want2", "use2"} :
               /\ pc' = [pc EXCEPT !["alerts"] = to]
               /\ to \in {"want2", "use2"} => rows > 0 /\ rows' = rows
        /\ check' \in 1..3 /\ rows' \in 0..MaxRows
    <3> USE <1>a, PoolAssumption DEF ProcessInv, TypeOK, RowsOfMonitor, job, Goto
    <3>1. CASE MonitorTick
      BY <3>1 DEF MonitorTick
    <3>2. ASSUME NEW from, NextCheck(from)
          PROVE  /\ \E to \in {"idle", "want"} : pc' = [pc EXCEPT !["alerts"] = to]
                 /\ check' \in 1..3 /\ rows' \in 0..MaxRows
      <4>1. check' \in 1..3 /\ rows' \in 0..MaxRows
        BY <3>2 DEF NextCheck
      <4>2. (IF check = 3 THEN "idle" ELSE "want") \in {"idle", "want"}
        OBVIOUS
      <4>3. QED
        BY <3>2, <4>1, <4>2 DEF NextCheck
    <3>3. CASE QueryRows
      BY <3>2, <3>3 DEF QueryRows
    <3>4. CASE NextRow
      BY <3>2, <3>4 DEF NextRow
    <3>5. CASE AcquireSecond
      BY <3>5 DEF AcquireSecond
    <3>6. CASE AlertCreated
      BY <3>6 DEF AlertCreated
    <3>7. QED
      BY <1>3, <3>1, <3>3, <3>4, <3>5, <3>6
  <2>2. RowsOfMonitor'
    BY <1>a, <2>1 DEF ProcessInv, TypeOK, RowsOfMonitor
  <2>3. RequestsDrained'
    BY <1>a, <2>1 DEF ProcessInv, TypeOK, RequestsDrained, hist
  <2>4. QED
    BY <1>a, <2>1, <2>2, <2>3 DEF ProcessInv, TypeOK, WorkFinished,
       Running, mon, env, hist
<1>4. ASSUME NEW q \in Requests, Arrive(q) \/ Answer(q) PROVE ProcessInv'
  <2>1. /\ Running /\ UNCHANGED <<main, stopped, job, mon, env, hist>>
        /\ pc' \in [Goroutines -> {"none", "idle", "want", "use", "rows", "want2", "use2",
                                   "done"}]
        /\ \A g \in Goroutines : pc'[g] = pc[g] \/ pc'[g] \in {"none", "want"}
        /\ main = "serving" \/ \A p \in Requests : pc'[p] \in {pc[p], "none"}
    <3>1. CASE Arrive(q)
      BY <1>a, <3>1 DEF Arrive, Goto, Running, ProcessInv, TypeOK
    <3>2. CASE Answer(q)
      BY <1>a, <3>2 DEF Answer, Goto, ProcessInv, TypeOK
    <3>3. QED
      BY <1>4, <3>1, <3>2
  <2>2. RowsOfMonitor'
    BY <1>a, <2>1 DEF ProcessInv, TypeOK, RowsOfMonitor, job
  <2>3. RequestsDrained'
    BY <1>a, <2>1 DEF ProcessInv, TypeOK, RequestsDrained, hist
  <2>4. QED
    BY <1>b, <2>1, <2>2, <2>3
<1>5. CASE EndScan
  <2>1. /\ Running /\ UNCHANGED <<main, stopped, job, mon, env, hist>>
        /\ pc' = [pc EXCEPT !["scan"] = "none"]
    BY <1>5 DEF EndScan, Goto
  <2>2. RowsOfMonitor' /\ RequestsDrained'
    BY <1>a, <2>1 DEF ProcessInv, TypeOK, RowsOfMonitor, RequestsDrained, job, hist
  <2>3. QED
    BY <1>a, <1>b, <2>1, <2>2 DEF ProcessInv, TypeOK
<1>6. CASE Ping
  <2>1. /\ Running /\ UNCHANGED <<main, stopped, job, env, hist>>
        /\ \E to \in {"idle", "want"} : pc' = [pc EXCEPT !["monitor"] = to]
        /\ healthy' \in BOOLEAN /\ retries' \in 0..MaxRetries
    <3>1. Running /\ UNCHANGED <<main, stopped, job, env, hist>>
      BY <1>6 DEF Ping
    <3>2. \/ Goto("monitor", "use", "idle") /\ healthy' = TRUE /\ retries' = 0
          \/ /\ Goto("monitor", "use", "want") /\ healthy' = healthy
             /\ retries < MaxRetries /\ retries' = retries + 1
          \/ Goto("monitor", "use", "idle") /\ healthy' = FALSE /\ retries' = 0
      BY <1>6 DEF Ping
    <3>3. healthy' \in BOOLEAN
      BY <3>2 DEF ProcessInv, TypeOK
    <3>4. retries' \in 0..MaxRetries
      BY <3>2, PoolAssumption DEF ProcessInv, TypeOK
    <3>5. \E to \in {"idle", "want"} : pc' = [pc EXCEPT !["monitor"] = to]
      BY <3>2 DEF Goto
    <3>6. QED
      BY <3>1, <3>3, <3>4, <3>5
  <2>2. RowsOfMonitor' /\ RequestsDrained'
    BY <1>a, <2>1 DEF ProcessInv, TypeOK, RowsOfMonitor, RequestsDrained, job, hist
  <2>3. QED
    BY <1>a, <2>1, <2>2 DEF ProcessInv, TypeOK, WorkFinished,
       Running, job, env, hist
<1>7. CASE DatabaseChange
  <2>1. /\ Running /\ UNCHANGED <<main, stopped, pc, job, mon, hist>>
        /\ dbUp' \in BOOLEAN /\ outages' \in 0..MaxOutages
    BY <1>7, PoolAssumption DEF DatabaseChange, ProcessInv, TypeOK
  <2>2. QED
    BY <2>1 DEF ProcessInv, TypeOK, RowsOfMonitor, RequestsDrained,
       WorkFinished, Running, job, mon, hist
<1>9. CASE Serve
  <2>1. /\ main = "starting" /\ main' = "serving" /\ UNCHANGED <<stopped, job, mon, env, hist>>
    BY <1>9 DEF Serve
  <2>2. pc' \in [Goroutines -> {"none", "idle", "want", "done"}]
    <3>1. PICK first \in [Periodic -> {"idle", "want", "done"}] :
              pc' = [g \in Goroutines |-> CASE g \in {"alerts", "monitor"} -> "idle"
                                            [] g \in Periodic -> first[g]
                                            [] OTHER -> "none"]
      BY <1>9 DEF Serve, StartJobs
    <3>2. \A g \in Goroutines : (CASE g \in {"alerts", "monitor"} -> "idle"
                                  [] g \in Periodic -> first[g]
                                  [] OTHER -> "none") \in {"none", "idle", "want", "done"}
      OBVIOUS
    <3>3. QED
      BY <3>1, <3>2
  <2>3. QED
    BY <1>a, <2>1, <2>2 DEF ProcessInv, TypeOK, RowsOfMonitor, RequestsDrained,
       WorkFinished, Running, job, mon, env, hist
<1>10. CASE Fatal \/ Signal
  BY <1>10 DEF Fatal, Signal, ProcessInv, TypeOK, RowsOfMonitor, RequestsDrained,
     WorkFinished, Running, job, mon, env, hist
<1>11. CASE Drained \/ DrainTimeout
  BY <1>11 DEF Drained, DrainTimeout, ProcessInv, TypeOK, RowsOfMonitor, RequestsDrained,
     WorkFinished, Running, job, mon, env, hist
<1>12. CASE Exit
  <2>1. /\ main = "waiting" /\ main' = "exited" /\ overdue' = overdue
        /\ UNCHANGED <<stopped, pc, job, mon, env>>
        /\ cut' = {g \in Goroutines : pc[g] \notin {"none", "idle", "done"}}
        /\ \A w \in Workers : pc[w] = "done"
    BY <1>12 DEF Exit
  <2>2. WorkFinished'
    BY <2>1 DEF ProcessInv, RequestsDrained, WorkFinished
  <2>3. QED
    BY <2>1, <2>2 DEF ProcessInv, TypeOK, RowsOfMonitor, RequestsDrained,
       Running, job, mon, env
<1>13. QED
  BY <1>1, <1>2, <1>3, <1>4, <1>5, <1>6, <1>7, <1>9, <1>10, <1>11, <1>12 DEF Next

(* The invariant that the theorems about the process rest on.              *)
LEMMA ProcessInvHolds == Spec => []ProcessInv
<1>1. QED
  BY InitProcessInv, NextProcessInv, PTL DEF Spec

(* Main waits for the right jobs in the right order: a process that has    *)
(* exited has cut no work of a job in the wait group, and no request       *)
(* unless the drain took longer than its time-out.                         *)
THEOREM ExitCutsNoWork == Spec => []WorkFinished
<1>1. QED
  BY ProcessInvHolds, PTL DEF ProcessInv

(* The goroutine that waits for a second connection is alone with that, so *)
(* that two connections are enough, for any number of goroutines: there is *)
(* a free one, or somebody who will give one back without waiting.         *)
THEOREM PoolIsNeverWedged == Spec => []PoolNotWedged
<1>1. ProcessInv => PoolNotWedged
  <2> SUFFICES ASSUME ProcessInv, \A g \in Goroutines : pc[g] \notin {"use", "rows", "use2"}
               PROVE  Free
    BY DEF PoolNotWedged
  <2>1. Held \subseteq {<<"alerts", 1>>}
    BY DEF Held, ProcessInv, RowsOfMonitor
  <2>2. /\ IsFiniteSet({<<"alerts", 1>>}) /\ Cardinality({<<"alerts", 1>>}) = 1
    BY FS_Singleton
  <2>3. Cardinality(Held) \in Nat /\ Cardinality(Held) <= 1
    BY <2>1, <2>2, FS_Subset, FS_CardinalityType
  <2>4. QED
    BY <2>3, PoolAssumption DEF Free
<1>2. QED
  BY <1>1, ProcessInvHolds, PTL

-----------------------------------------------------------------------------
(* The KEV catalogues of the replicas. *)

\* A file without entries has been spoilt or is being written, and a process
\* that is about to read a file that is not there has not been fed.
FileExplained ==
    /\ cache \in {"json", "bad"} => blame # {} \/ \E s \in Replicas : updater[s] = "write"
    /\ mixed # {} => blame # {}
    /\ \A r \in Replicas : updater[r] = "load" /\ cache = "missing" => r \in unfed

KevInv == KevTypeOK /\ FileExplained /\ EmptyIsExplained

(* No step of a replica breaks the invariant.                              *)
LEMMA NextKevInv == KevInv /\ [KevNext]_kevVars => KevInv'
<1> SUFFICES ASSUME KevInv, [KevNext]_kevVars PROVE KevInv'
  OBVIOUS
<1> USE DEF KevInv
<1>1. CASE UNCHANGED kevVars
  BY <1>1 DEF kevVars, KevTypeOK, FileExplained, EmptyIsExplained
<1>a. ASSUME Mishap PROVE mishaps' \in 0..MaxMishaps /\ blame' # {}
                          /\ blame' \in SUBSET {"feed", "clash", "mishap"}
  BY <1>a, MishapsAssumption DEF Mishap, KevTypeOK
<1>2. ASSUME NEW r \in Replicas, StartKEVUpdater(r) \/ Tick(r) PROVE KevInv'
  <2>1. /\ updater' = [updater EXCEPT ![r] = "fetch"] /\ updater[r] \in {"down", "wait"}
        /\ UNCHANGED <<memory, cache, mixed, mishaps, blame, unfed>>
    BY <1>2 DEF StartKEVUpdater, Tick, Move, file, past
  <2>2. QED
    BY <2>1 DEF KevTypeOK, FileExplained, EmptyIsExplained
<1>3. ASSUME NEW r \in Replicas, FetchFails(r) PROVE KevInv'
  <2>1. /\ \E to \in {"load", "wait"} : updater' = [updater EXCEPT ![r] = to]
        /\ updater[r] = "fetch"
        /\ unfed' = IF cache = "missing" THEN unfed \cup {r} ELSE unfed
        /\ UNCHANGED <<memory, cache, mixed, mishaps, blame>>
    BY <1>3 DEF FetchFails, Move, AfterFailure, file
  <2>2. KevTypeOK'
    BY <2>1 DEF KevTypeOK
  <2>3. FileExplained'
    BY <2>1 DEF KevTypeOK, FileExplained
  <2>4. QED
    BY <2>1, <2>2, <2>3 DEF EmptyIsExplained
<1>4. ASSUME NEW r \in Replicas, Truncate(r) PROVE KevInv'
  <2>1. /\ updater' = [updater EXCEPT ![r] = "write"] /\ cache' = "bad"
        /\ mixed' = IF Writing(r) = {} THEN mixed ELSE mixed \cup Writing(r) \cup {r}
        /\ blame' = IF Writing(r) = {} THEN blame ELSE blame \cup {"clash"}
        /\ UNCHANGED <<memory, mishaps, unfed>>
    BY <1>4 DEF Truncate, Move
  <2>2. KevTypeOK'
    BY <2>1 DEF KevTypeOK, Bodies, Writing
  <2>3. updater'[r] = "write"
    BY <2>1 DEF KevTypeOK
  <2>4. FileExplained'
    BY <2>1, <2>3 DEF FileExplained
  <2>5. QED
    BY <2>1, <2>2, <2>4 DEF EmptyIsExplained
<1>5. ASSUME NEW r \in Replicas, FetchKEV(r) PROVE KevInv'
  <2>1. PICK body \in Bodies :
            /\ cache' \in {body} \cup (IF r \in mixed THEN {"bad"} ELSE {})
            /\ blame' = IF body = "entries" THEN blame ELSE blame \cup {"feed"}
    BY <1>5 DEF FetchKEV
  <2>2. /\ updater' = [updater EXCEPT ![r] = "load"] /\ mixed' = mixed \ {r}
        /\ UNCHANGED <<memory, mishaps, unfed>>
    BY <1>5 DEF FetchKEV, Move
  <2>3. KevTypeOK'
    BY <2>1, <2>2 DEF KevTypeOK, Bodies
  <2>4. FileExplained'
    BY <2>1, <2>2 DEF FileExplained, Bodies
  <2>5. QED
    BY <2>1, <2>2, <2>3, <2>4 DEF EmptyIsExplained
<1>6. ASSUME NEW r \in Replicas, WriteFails(r) PROVE KevInv'
  <2>1. /\ \E to \in {"load", "wait"} : updater' = [updater EXCEPT ![r] = to]
        /\ cache' = "bad" /\ mixed' = mixed \ {r} /\ UNCHANGED <<memory, unfed>> /\ Mishap
    BY <1>6 DEF WriteFails, Move, AfterFailure
  <2>2. QED
    BY <1>a, <2>1 DEF KevTypeOK, Bodies, FileExplained, EmptyIsExplained
<1>7. ASSUME NEW r \in Replicas, LoadKEV(r) PROVE KevInv'
  <2>1. /\ updater[r] = "load" /\ updater' = [updater EXCEPT ![r] = "wait"]
        /\ Loaded(r, Catalogue(cache))
        /\ blame' = IF Writing(r) = {} THEN blame ELSE blame \cup {"clash"}
        /\ UNCHANGED <<cache, mixed, mishaps, unfed>>
    BY <1>7 DEF LoadKEV, Move, file
  <2>2. PICK c \in {"empty", "entries"} :
            /\ memory' = [memory EXCEPT ![r] = c]
            /\ c = "empty" => cache # "entries" \/ memory[r] = "empty"
    BY <2>1 DEF Loaded, Catalogue, Starting, KevTypeOK, Bodies
  <2>3. KevTypeOK'
    BY <2>1, <2>2 DEF KevTypeOK
  <2>4. FileExplained'
    BY <2>1 DEF KevTypeOK, FileExplained
  <2>5. c = "empty" => blame' # {} \/ r \in unfed
    <3>1. CASE memory[r] = "empty"
      BY <2>1, <3>1 DEF EmptyIsExplained
    <3>2. CASE cache \in {"json", "bad"}
      BY <2>1, <3>2 DEF FileExplained, Writing
    <3>3. CASE cache = "missing"
      BY <2>1, <3>3 DEF FileExplained
    <3>4. QED
      BY <2>2, <3>1, <3>2, <3>3 DEF KevTypeOK, Bodies
  <2>6. EmptyIsExplained'
    BY <2>1, <2>2, <2>5 DEF EmptyIsExplained, KevTypeOK
  <2>7. QED
    BY <2>3, <2>4, <2>6
<1>8. ASSUME NEW r \in Replicas, ReadFails(r) PROVE KevInv'
  <2>1. /\ updater' = [updater EXCEPT ![r] = "wait"] /\ Mishap /\ Loaded(r, "error")
        /\ UNCHANGED <<cache, mixed, unfed>>
    BY <1>8 DEF ReadFails, Move, file
  <2>2. memory' \in [Replicas -> {"none", "empty", "entries"}]
    BY <2>1 DEF Loaded, KevTypeOK
  <2>3. KevTypeOK'
    BY <1>a, <2>1, <2>2 DEF KevTypeOK
  <2>4. QED
    BY <1>a, <2>1, <2>3 DEF KevTypeOK, FileExplained, EmptyIsExplained
<1>9. ASSUME NEW r \in Replicas, Die(r) PROVE KevInv'
  <2>1. /\ updater' = [updater EXCEPT ![r] = "down"] /\ memory' = [memory EXCEPT ![r] = "none"]
        /\ mixed' = mixed \ {r} /\ unfed' = unfed \ {r} /\ cache' = cache
        /\ IF updater[r] = "write" THEN Mishap ELSE UNCHANGED <<mishaps, blame>>
    BY <1>9 DEF Die
  <2>2. /\ mishaps' \in 0..MaxMishaps /\ blame' \in SUBSET {"feed", "clash", "mishap"}
        /\ blame # {} => blame' # {}
        /\ updater[r] = "write" => blame' # {}
    BY <1>a, <2>1 DEF KevTypeOK
  <2>3. KevTypeOK'
    BY <2>1, <2>2 DEF KevTypeOK
  <2>4. FileExplained'
    BY <2>1, <2>2 DEF KevTypeOK, FileExplained
  <2>5. EmptyIsExplained'
    BY <2>1, <2>2 DEF KevTypeOK, EmptyIsExplained
  <2>6. QED
    BY <2>3, <2>4, <2>5
<1>10. QED
  BY <1>1, <1>2, <1>3, <1>4, <1>5, <1>6, <1>7, <1>8, <1>9 DEF KevNext

(* The invariant that the theorems about the catalogues rest on.           *)
LEMMA KevInvHolds == KevSpec => []KevInv
<1>1. KevInit => KevInv
  <2>1. 0 \in 0..MaxMishaps
    BY MishapsAssumption
  <2>2. QED
    BY <2>1 DEF KevInit, KevInv, KevTypeOK, FileExplained, EmptyIsExplained, Bodies
<1>2. QED
  BY <1>1, NextKevInv, PTL DEF KevSpec

(* However many replicas share the file, one that runs without entries     *)
(* found neither a feed nor a file, or the file has been spoilt: by the    *)
(* feed, by a failed read or write, or by two that used it at once.        *)
THEOREM EmptyCatalogueIsExplained == KevSpec => []EmptyIsExplained
<1>1. QED
  BY KevInvHolds, PTL DEF KevInv

(* A running process loses its catalogue only to a document that parses:   *)
(* no failed fetch or read, and no torn file, empties it.                  *)
THEOREM CatalogueOutlivesBadDownloads == KevSpec => CatalogueKept
<1>1. KevInv /\ [KevNext]_kevVars =>
          [\A r \in Replicas :
               memory[r] = "entries" /\ memory'[r] = "empty" => cache = "json"]_kevVars
  <2> SUFFICES ASSUME KevInv, KevNext, NEW r \in Replicas,
                      memory[r] = "entries", memory'[r] = "empty"
               PROVE  cache = "json"
    OBVIOUS
  <2>1. memory' # memory
    OBVIOUS
  <2>2. PICK s \in Replicas : LoadKEV(s) \/ ReadFails(s) \/ Die(s)
    BY <2>1 DEF KevNext, StartKEVUpdater, Tick, FetchFails, Truncate, FetchKEV, WriteFails
  <2>3. PICK c : memory' = [memory EXCEPT ![s] = c]
    BY <2>2 DEF LoadKEV, ReadFails, Die, Loaded
  <2>4. s = r /\ memory'[r] = c
    BY <2>3 DEF KevInv, KevTypeOK
  <2>5. CASE LoadKEV(r)
    BY <2>5 DEF LoadKEV, Loaded, Catalogue, Starting, KevInv, KevTypeOK
  <2>6. CASE ReadFails(r)
    BY <2>6 DEF ReadFails, Loaded, Starting, KevInv, KevTypeOK
  <2>7. CASE Die(r)
    BY <2>7 DEF Die, KevInv, KevTypeOK
  <2>8. QED
    BY <2>2, <2>4, <2>5, <2>6, <2>7
<1>2. QED
  BY <1>1, KevInvHolds, PTL DEF KevSpec, CatalogueKept

-----------------------------------------------------------------------------
(* The assessment of a device. *)

Stages == {"idle", "protocols", "findings", "load", "results", "done"} \cup Methods

\* The stages of a scan up to the trials of method m, and those before them.
Upto(m) ==
    {"idle", "protocols", "findings", "load"}
    \cup {n \in Methods : n = m \/ n = "ssh" \/ m = "telnet"}
Before(m) == Upto(m) \ {m}

\* What may be taken for a login by method m has happened.
Explained(m) ==
    \/ <<m, "login">> \in replies
    \/ m = "http" /\ <<m, "page">> \in replies
    \/ m = "telnet" /\ replies \cap {<<m, "locked">>, <<m, "noise">>} # {}

\* Of the trials that met a locked device each was one pair of its method.
TrialsCounted ==
    \A s \in Scans, m \in Methods :
        /\ stage[s] \in Before(m) => late[s][m] = 0
        /\ stage[s] = m => late[s][m] < pair[s]

\* A method that has met the message of a lockout is over, unless it is Telnet.
LockoutEndsMethod ==
    loud => \A s \in Scans, m \in Methods \ {"telnet"} :
                late[s][m] <= 1 /\ (stage[s] \in Upto(m) => late[s][m] = 0)

\* A login that a tester reports has an explanation, before and after it is
\* stored.
ResultsExplained ==
    \A s \in Scans, m \in Methods : result[s][m] = "found" => Explained(m)

\* What the trials of a scan saw is in its results, and stays there.
SeenIsResult ==
    \A s \in Scans, m \in Methods :
        m \in saw[s] => result[s][m] = "found" /\ stage[s] \notin Upto(m)

TrialInv ==
    AssessTypeOK /\ TrialsCounted /\ LockoutEndsMethod /\ ResultsExplained /\ LoginsExplained
    /\ SeenIsResult

(* The cap of a method is no larger than the cap of all of them.           *)
LEMMA LimitBounded == ASSUME NEW m \in Methods PROVE Limit(m) \in Nat /\ Limit(m) <= PairCap
<1>1. ASSUME NEW a \in Nat, NEW b \in Nat PROVE Min({a, b}) \in Nat
  <2>1. \E x \in {a, b} : \A y \in {a, b} : x <= y
    OBVIOUS
  <2>2. QED
    BY <2>1 DEF Min
<1>2. ASSUME NEW a \in Nat, NEW b \in Nat, NEW c \in Nat
      PROVE  Min({a, b, c}) \in Nat /\ Min({a, b, c}) <= b
  <2>1. \E x \in {a, b, c} : \A y \in {a, b, c} : x <= y
    OBVIOUS
  <2>2. QED
    BY <2>1 DEF Min
<1>3. MaxPairs[m] \in Nat /\ PairCap \in Nat /\ Min({ListSize, FileCap}) \in Nat
  BY <1>1, AssessmentAssumption
<1>4. QED
  BY <1>2, <1>3 DEF Limit

(* What the two statements that follow a finding leave behind, whether or  *)
(* not they fail.                                                          *)
LEMMA StoreEffect ==
    ASSUME AssessTypeOK, NEW s \in Scans, NEW kinds \in SUBSET Kinds, NEW types,
           Store(s, kinds, types), resolved' = resolved
    PROVE  /\ vulns \subseteq vulns' /\ alerts \subseteq alerts' /\ failed \subseteq failed'
           /\ \A t, k : <<t, k>> \in vulns' => <<t, k>> \in vulns \/ (t = s /\ k \in kinds)
           /\ failed' \subseteq failed \cup {s}
           /\ s \notin failed' => (\A k \in kinds : <<s, k>> \in vulns') /\ types \subseteq alerts'
           /\ vulns' \in SUBSET (Scans \X Kinds) /\ resolved' \in SUBSET vulns'
           /\ failed' \in SUBSET Scans /\ Cardinality(failed') <= MaxFaults
<1>1. vulns' = vulns \/ vulns' = vulns \cup ({s} \X kinds)
  BY DEF Store
<1>2. vulns' \in SUBSET (Scans \X Kinds) /\ resolved' \in SUBSET vulns'
  BY <1>1 DEF AssessTypeOK
<1>3. failed' \in SUBSET Scans /\ Cardinality(failed') <= MaxFaults
  BY DEF Store, AssessTypeOK
<1>4. QED
  BY <1>1, <1>2, <1>3 DEF Store

(* What a tester makes of a reply: a verdict of which a login is explained *)
(* by the reply, and which ends the method if the reply is that of a       *)
(* device that announces its lockout.                                      *)
LEMMA VerdictOfReply ==
    ASSUME NEW m \in Methods, NEW reply \in Answers(m)
    PROVE  /\ reply \in Replies
           /\ Verdict(m, reply) \in {"none", "nothing", "found", "locked"}
           /\ locked /\ loud /\ m # "telnet" => Verdict(m, reply) # "none"
           /\ Verdict(m, reply) = "found" => \/ reply = "login"
                                             \/ m = "http" /\ reply = "page"
                                             \/ m = "telnet" /\ reply \in {"locked", "noise"}
<1>1. reply \in Replies /\ (locked /\ loud /\ m # "telnet" => reply = "locked")
  <2>1. CASE locked /\ loud
    BY <2>1 DEF Answers, Replies
  <2>2. CASE locked /\ ~loud
    BY <2>2 DEF Answers, Replies
  <2>3. CASE ~locked
    <3>1. Answers(m) = {"login", "refused", "error"} \cup
                  (CASE m = "ssh" -> {} [] m = "http" -> {"page", "locked"}
                     [] m = "telnet" -> {"noise", "silent"})
      BY <2>3 DEF Answers
    <3>2. CASE m = "ssh"
      BY <3>1, <3>2, <2>3 DEF Replies
    <3>3. CASE m = "http"
      BY <3>1, <3>3, <2>3 DEF Replies
    <3>4. CASE m = "telnet"
      BY <3>1, <3>4, <2>3 DEF Replies
    <3>5. QED
      BY <3>2, <3>3, <3>4 DEF Methods
  <2>4. QED
    BY <2>1, <2>2, <2>3
<1>2. Verdict(m, reply) \in {"none", "nothing", "found", "locked"}
  BY DEF Verdict
<1>3. locked /\ loud /\ m # "telnet" => Verdict(m, reply) # "none"
  BY <1>1 DEF Verdict
<1>4. Verdict(m, reply) = "found" => \/ reply = "login"
                                     \/ m = "http" /\ reply = "page"
                                     \/ m = "telnet" /\ reply \in {"locked", "noise"}
  BY DEF Verdict
<1>5. QED
  BY <1>1, <1>2, <1>3, <1>4
(* Where the stages stand relative to the trials of a method.              *)
LEMMA StageOrder ==
    ASSUME NEW m \in Methods
    PROVE  /\ "results" \notin Upto(m) /\ "done" \notin Upto(m)
           /\ {"idle", "protocols", "findings", "load"} \subseteq Before(m)
           /\ m \in Upto(m) /\ Following(m) \in Stages /\ Following(m) \notin Upto(m)
           /\ \A n \in Methods : Following(m) \in Upto(n) => m \in Before(n)
BY DEF Upto, Before, Following, Methods, Stages

(* Before the first scan the invariant of the trials holds.                *)
LEMMA InitTrialInv == AssessInit => TrialInv
<1> SUFFICES ASSUME AssessInit PROVE TrialInv
  OBVIOUS
<1> USE DEF AssessInit
<1>1. AssessTypeOK
  <2>1. Cardinality(failed) <= MaxFaults /\ 1 \in 1..(PairCap + 1) /\ 0 \in 0..PairCap
    BY FS_EmptySet, AssessmentAssumption
  <2>2. locked \in BOOLEAN /\ tagged \in BOOLEAN
    OBVIOUS
  <2>3. QED
    BY <2>1, <2>2 DEF AssessTypeOK
<1>2. TrialsCounted /\ LockoutEndsMethod
  BY DEF TrialsCounted, LockoutEndsMethod
<1>3. ResultsExplained /\ LoginsExplained /\ SeenIsResult
  BY DEF ResultsExplained, LoginsExplained, SeenIsResult
<1>4. QED
  BY <1>1, <1>2, <1>3 DEF TrialInv

(* A step of a scan outside its trials disturbs nothing that the trials    *)
(* have left, provided that it keeps the types, sees no login and stores   *)
(* only logins that are explained.                                         *)
LEMMA OutsideTrials ==
    ASSUME TrialInv, AssessTypeOK', NEW s \in Scans, NEW to \in Stages,
           stage' = [stage EXCEPT ![s] = to],
           to = stage[s] \/ \A m \in Methods : to \in Upto(m) => stage[s] \in Before(m),
           UNCHANGED <<loud, late, pair, result, replies>>,
           \A t \in Scans : saw'[t] \cap Methods \subseteq saw[t],
           LoginsExplained'
    PROVE  TrialInv'
<1>1. \A t \in Scans : stage'[t] = IF t = s THEN to ELSE stage[t]
  BY DEF TrialInv, AssessTypeOK
<1>2. \A t \in Scans, m \in Methods : stage'[t] \in Upto(m) =>
          stage[t] \in Upto(m) /\ (stage[t] \in Before(m) \/ stage'[t] = stage[t])
  BY <1>1 DEF Before
<1>3. TrialsCounted'
  <2> SUFFICES ASSUME NEW t \in Scans, NEW m \in Methods
               PROVE  /\ stage'[t] \in Before(m) => late[t][m] = 0
                      /\ stage'[t] = m => late[t][m] < pair[t]
    BY DEF TrialsCounted
  <2>1. pair[t] \in Nat /\ pair[t] >= 1
    BY AssessmentAssumption DEF TrialInv, AssessTypeOK
  <2>2. QED
    BY <1>2, <2>1, StageOrder DEF TrialInv, TrialsCounted, Before
<1>4. LockoutEndsMethod'
  BY <1>2 DEF TrialInv, LockoutEndsMethod
<1>5. ResultsExplained'
  BY DEF TrialInv, ResultsExplained, Explained
<1>6. SeenIsResult'
  BY <1>2 DEF TrialInv, SeenIsResult
<1>7. QED
  BY <1>3, <1>4, <1>5, <1>6 DEF TrialInv

(* The probes find protocols.                                              *)
LEMMA ProbesFindProtocols ==
    ASSUME NEW open, NEW behaviour PROVE DetectProtocols(open, behaviour) \subseteq Protocols
<1> DEFINE Connected == UNION {Detect(p, behaviour[p]) : p \in open}
<1> DEFINE Listed == IF open \cap {8443, 8883} # {} THEN {"TLS-service"} ELSE {}
<1>1. ASSUME NEW p \in open PROVE Detect(p, behaviour[p]) \subseteq Protocols
  BY DEF Detect, Protocols
<1>2. Connected \subseteq Protocols
  BY <1>1
<1>3. Listed \subseteq Protocols
  BY DEF Protocols
<1>4. DetectProtocols(open, behaviour) = Connected \cup Listed
  BY DEF DetectProtocols
<1> HIDE DEF Connected, Listed
<1>5. QED
  BY <1>2, <1>3, <1>4

(* The kinds of findings are different names.                              *)
LEMMA KindsDiffer ==
    /\ Protocols \cap Methods = {} /\ Protocols \subseteq Kinds /\ Methods \subseteq Kinds
    /\ "Weak TLS" \in Kinds /\ "Weak TLS" \notin Methods /\ "Weak TLS" \notin Protocols
BY DEF Protocols, Methods, Kinds

(* One turn of the loop of a tester: where the pair, the result and the    *)
(* scan are afterwards, and why.                                           *)
LEMMA TryEffect ==
    ASSUME AssessTypeOK, NEW s \in Scans, NEW m \in Methods, Try(s, m)
    PROVE  \E reply \in Replies, verdict \in {"none", "nothing", "found", "locked"} :
               /\ stage[s] = m /\ pair[s] <= PairCap
               /\ locked /\ loud /\ m # "telnet" => verdict # "none"
               /\ verdict = "found" => \/ reply = "login"
                                       \/ m = "http" /\ reply = "page"
                                       \/ m = "telnet" /\ reply \in {"locked", "noise"}
               /\ replies' = IF verdict = "found" THEN replies \cup {<<m, reply>>} ELSE replies
               /\ result' = [result EXCEPT ![s][m] = verdict]
               /\ IF verdict = "none"
                  THEN /\ pair' = [pair EXCEPT ![s] = @ + 1]
                       /\ UNCHANGED <<stage, saw>>
                  ELSE /\ pair' = [pair EXCEPT ![s] = 1]
                       /\ stage' = [stage EXCEPT ![s] = Following(m)]
                       /\ saw' = IF verdict = "found" THEN [saw EXCEPT ![s] = @ \cup {m}] ELSE saw
               /\ late' = IF locked THEN [late EXCEPT ![s][m] = @ + 1] ELSE late
               /\ locked' \in BOOLEAN
               /\ UNCHANGED <<ports, loud, vulns, resolved, alerts, tagged, purged, todo, row,
                              failed>>
<1>1. PICK reply \in Answers(m) :
          LET verdict == Verdict(m, reply)
          IN  /\ replies' = IF verdict = "found" THEN replies \cup {<<m, reply>>} ELSE replies
              /\ result' = [result EXCEPT ![s][m] = verdict]
              /\ IF verdict = "none"
                 THEN /\ pair' = [pair EXCEPT ![s] = @ + 1]
                      /\ UNCHANGED <<stage, saw>>
                 ELSE /\ pair' = [pair EXCEPT ![s] = 1]
                      /\ stage' = [stage EXCEPT ![s] = Following(m)]
                      /\ saw' = IF verdict = "found" THEN [saw EXCEPT ![s] = @ \cup {m}] ELSE saw
              /\ locked' \in (IF reply = "refused" THEN {locked, TRUE} ELSE {locked})
  BY DEF Try
<1>2. stage[s] = m /\ pair[s] <= PairCap
  BY LimitBounded, AssessmentAssumption DEF Try, AssessTypeOK
<1>3. locked' \in BOOLEAN
  BY <1>1 DEF AssessTypeOK
<1>4. /\ late' = IF locked THEN [late EXCEPT ![s][m] = @ + 1] ELSE late
      /\ UNCHANGED <<ports, loud, vulns, resolved, alerts, tagged, purged, todo, row, failed>>
  BY DEF Try, device, tables
<1>5. QED
  BY <1>1, <1>2, <1>3, <1>4, VerdictOfReply

(* Probes, trials, statements, resolutions and purges preserve the         *)
(* invariant of the trials.                                                *)
LEMMA NextTrialInv == TrialInv /\ [AssessNext]_assessVars => TrialInv'
<1> SUFFICES ASSUME TrialInv, [AssessNext]_assessVars PROVE TrialInv'
  OBVIOUS
<1> USE AssessmentAssumption
<1>a. AssessTypeOK
  BY DEF TrialInv
<1>1. CASE UNCHANGED assessVars
  BY <1>1 DEF assessVars, TrialInv, AssessTypeOK, TrialsCounted, LockoutEndsMethod,
     ResultsExplained, LoginsExplained, SeenIsResult, Explained
<1>2. ASSUME NEW s \in Scans, PortsListed(s) \/ LoadCredentials(s) \/ EndResults(s)
      PROVE  TrialInv'
  <2>1. PICK to \in {"protocols", "ssh", "done"} :
            /\ stage' = [stage EXCEPT ![s] = to]
            /\ to = "protocols" => stage[s] = "idle"
            /\ to = "ssh" => stage[s] = "load"
    BY <1>2 DEF PortsListed, LoadCredentials, EndResults, Advance
  <2>2. UNCHANGED <<ports, loud, vulns, resolved, alerts, tagged, purged, locked, todo, pair,
                    result, row, replies, saw, late, failed>>
    BY <1>2 DEF PortsListed, LoadCredentials, EndResults, device, tables
  <2>3. to \in Stages /\ \A m \in Methods : to \in Upto(m) => stage[s] \in Before(m)
    BY <2>1, StageOrder DEF Stages, Methods, Upto, Before
  <2>4. AssessTypeOK'
    BY <1>a, <2>1, <2>2, <2>3 DEF AssessTypeOK, Stages
  <2>5. LoginsExplained'
    BY <2>2 DEF TrialInv, LoginsExplained
  <2>6. QED
    BY <2>1, <2>2, <2>3, <2>4, <2>5, OutsideTrials
<1>3. ASSUME NEW s \in Scans, ProbeProtocols(s) PROVE TrialInv'
  <2>1. PICK found \in SUBSET Protocols :
            todo' = [todo EXCEPT ![s] = found] /\ saw' = [saw EXCEPT ![s] = found]
    BY <1>3, ProbesFindProtocols DEF ProbeProtocols
  <2>2. /\ stage[s] = "protocols" /\ stage' = [stage EXCEPT ![s] = "findings"]
        /\ UNCHANGED <<ports, loud, vulns, resolved, alerts, tagged, purged, locked, pair,
                       result, row, replies, late, failed>>
    BY <1>3 DEF ProbeProtocols, Advance, device, tables
  <2>3. AssessTypeOK'
    BY <1>a, <2>1, <2>2, KindsDiffer DEF AssessTypeOK
  <2>4. LoginsExplained'
    BY <2>2 DEF TrialInv, LoginsExplained
  <2>5. \A t \in Scans : saw'[t] \cap Methods \subseteq saw[t]
    BY <1>a, <2>1, KindsDiffer DEF AssessTypeOK
  <2>6. QED
    BY <2>2, <2>3, <2>4, <2>5, StageOrder, OutsideTrials DEF Stages
<1>4. ASSUME NEW s \in Scans, NEW f \in Protocols, StoreFinding(s, f) PROVE TrialInv'
  <2>1. Store(s, {f}, {AlertType(f)})
    BY <1>4 DEF StoreFinding
  <2>2. /\ stage[s] = "findings" /\ stage' = [stage EXCEPT ![s] = "findings"]
        /\ todo' = [todo EXCEPT ![s] = @ \ {f}]
        /\ UNCHANGED <<ports, loud, locked, pair, result, row, resolved, tagged, purged, replies,
                       saw, late>>
    BY <1>4 DEF StoreFinding, Advance, device
  <2>e. /\ \A t, k : <<t, k>> \in vulns' => <<t, k>> \in vulns \/ k = f
        /\ vulns' \in SUBSET (Scans \X Kinds) /\ resolved' \in SUBSET vulns'
        /\ failed' \in SUBSET Scans /\ Cardinality(failed') <= MaxFaults
    BY <1>a, <2>1, <2>2, StoreEffect, KindsDiffer
  <2>3. AssessTypeOK'
    BY <1>a, <2>2, <2>e DEF AssessTypeOK
  <2>4. LoginsExplained'
    <3>1. f \notin Methods
      BY KindsDiffer
    <3>2. QED
      BY <2>2, <2>e, <3>1 DEF TrialInv, LoginsExplained
  <2>5. QED
    BY <2>2, <2>3, <2>4, OutsideTrials DEF Stages
<1>5. ASSUME NEW s \in Scans, ProbeTLS(s) PROVE TrialInv'
  <2>a. PICK kinds \in SUBSET {"Weak TLS"} :
            saw' = [saw EXCEPT ![s] = @ \cup kinds] /\ \E types : Store(s, kinds, types)
    BY <1>5 DEF ProbeTLS
  <2>1. PICK types : saw' = [saw EXCEPT ![s] = @ \cup kinds] /\ Store(s, kinds, types)
    BY <2>a
  <2>2. /\ stage[s] = "findings" /\ stage' = [stage EXCEPT ![s] = "load"]
        /\ UNCHANGED <<ports, loud, locked, todo, pair, result, row, resolved, tagged, purged,
                       replies, late>>
    BY <1>5 DEF ProbeTLS, Advance, device
  <2>e. /\ \A t, k : <<t, k>> \in vulns' => <<t, k>> \in vulns \/ k = "Weak TLS"
        /\ vulns' \in SUBSET (Scans \X Kinds) /\ resolved' \in SUBSET vulns'
        /\ failed' \in SUBSET Scans /\ Cardinality(failed') <= MaxFaults
    <3>1. kinds \in SUBSET Kinds
      BY KindsDiffer
    <3>2. QED
      BY <1>a, <2>1, <2>2, <3>1, StoreEffect
  <2>3. AssessTypeOK'
    BY <1>a, <2>1, <2>2, <2>e, KindsDiffer DEF AssessTypeOK
  <2>4. LoginsExplained'
    BY <2>2, <2>e, KindsDiffer DEF TrialInv, LoginsExplained
  <2>5. \A t \in Scans : saw'[t] \cap Methods \subseteq saw[t]
    BY <1>a, <2>1, KindsDiffer DEF AssessTypeOK
  <2>6. QED
    BY <2>2, <2>3, <2>4, <2>5, StageOrder, OutsideTrials DEF Stages
<1>6. ASSUME NEW s \in Scans, StoreResult(s) PROVE TrialInv'
  <2> DEFINE m == Order[row[s]]
  <2>1. row[s] \in 1..3 /\ m \in Methods
    BY <1>6, <1>a DEF StoreResult, AssessTypeOK, Order, Methods
  <2>2. PICK types : Store(s, IF result[s][m] = "found" THEN {m} ELSE {}, types)
    BY <1>6 DEF StoreResult
  <2>3. PICK to \in {"results", "done"} : stage' = [stage EXCEPT ![s] = to]
    BY <1>6 DEF StoreResult, Advance
  <2>4. /\ tagged' \in (IF result[s][m] = "found" THEN {tagged, TRUE} ELSE {tagged})
        /\ row' = [row EXCEPT ![s] = @ + 1]
        /\ UNCHANGED <<ports, loud, locked, todo, pair, result, resolved, purged, replies, saw,
                       late>>
    BY <1>6 DEF StoreResult, device
  <2>e. /\ \A t, k : <<t, k>> \in vulns' => <<t, k>> \in vulns
                                             \/ (k = m /\ result[s][m] = "found")
        /\ vulns' \in SUBSET (Scans \X Kinds) /\ resolved' \in SUBSET vulns'
        /\ failed' \in SUBSET Scans /\ Cardinality(failed') <= MaxFaults
    <3>1. (IF result[s][m] = "found" THEN {m} ELSE {}) \in SUBSET Kinds
      BY <2>1, KindsDiffer
    <3>2. QED
      BY <1>a, <2>2, <2>4, <3>1, StoreEffect
  <2>5. AssessTypeOK'
    <3>1. tagged' \in BOOLEAN
      BY <1>a, <2>4 DEF AssessTypeOK
    <3>2. QED
      BY <1>a, <2>1, <2>3, <2>4, <2>e, <3>1 DEF AssessTypeOK
  <2>6. LoginsExplained'
    <3>1. ASSUME NEW t \in Scans, NEW n \in Methods, <<t, n>> \in vulns' PROVE Explained(n)
      <4>1. <<t, n>> \in vulns \/ (n = m /\ result[s][m] = "found")
        BY <2>e, <3>1
      <4>2. QED
        BY <4>1, <2>1 DEF TrialInv, LoginsExplained, ResultsExplained, Explained
    <3>2. QED
      BY <2>4, <3>1 DEF LoginsExplained, Explained
  <2>7. QED
    BY <2>3, <2>4, <2>5, <2>6, StageOrder, OutsideTrials DEF Stages
<1>7. ASSUME NEW s \in Scans, NEW m \in Methods, Try(s, m) PROVE TrialInv'
  <2>1. PICK reply \in Replies, verdict \in {"none", "nothing", "found", "locked"} :
            /\ stage[s] = m /\ pair[s] <= PairCap
            /\ locked /\ loud /\ m # "telnet" => verdict # "none"
            /\ verdict = "found" => \/ reply = "login"
                                    \/ m = "http" /\ reply = "page"
                                    \/ m = "telnet" /\ reply \in {"locked", "noise"}
            /\ replies' = IF verdict = "found" THEN replies \cup {<<m, reply>>} ELSE replies
            /\ result' = [result EXCEPT ![s][m] = verdict]
            /\ IF verdict = "none"
               THEN /\ pair' = [pair EXCEPT ![s] = @ + 1]
                    /\ UNCHANGED <<stage, saw>>
               ELSE /\ pair' = [pair EXCEPT ![s] = 1]
                    /\ stage' = [stage EXCEPT ![s] = Following(m)]
                    /\ saw' = IF verdict = "found" THEN [saw EXCEPT ![s] = @ \cup {m}] ELSE saw
            /\ late' = IF locked THEN [late EXCEPT ![s][m] = @ + 1] ELSE late
            /\ locked' \in BOOLEAN
            /\ UNCHANGED <<ports, loud, vulns, resolved, alerts, tagged, purged, todo, row,
                           failed>>
    BY <1>7, <1>a, TryEffect
  <2>2. /\ pair[s] \in Nat /\ pair[s] >= 1 /\ late[s][m] \in Nat /\ late[s][m] < pair[s]
        /\ late[s][m] + 1 \in 0..PairCap
    BY <1>a, <2>1 DEF TrialInv, TrialsCounted, AssessTypeOK
  <2>3. /\ \A t \in Scans, n \in Methods : <<t, n>> # <<s, m>> =>
               late'[t][n] = late[t][n] /\ result'[t][n] = result[t][n]
        /\ late'[s][m] = IF locked THEN late[s][m] + 1 ELSE late[s][m]
        /\ result'[s][m] = verdict
    BY <1>a, <2>1 DEF AssessTypeOK
  <2>4. /\ \A t \in Scans : t # s => /\ stage'[t] = stage[t] /\ saw'[t] = saw[t]
                                     /\ pair'[t] = pair[t]
        /\ verdict = "none" => /\ stage'[s] = m /\ pair'[s] = pair[s] + 1
                               /\ saw'[s] = saw[s]
        /\ verdict # "none" => /\ stage'[s] = Following(m) /\ pair'[s] = 1
                               /\ saw'[s] \in {saw[s], saw[s] \cup {m}}
                               /\ verdict # "found" => saw'[s] = saw[s]
    BY <1>a, <2>1 DEF AssessTypeOK
  <2>5. AssessTypeOK'
    <3>1. /\ result' \in [Scans -> [Methods -> {"none", "nothing", "found", "locked"}]]
          /\ late' \in [Scans -> [Methods -> 0..PairCap]]
      BY <1>a, <2>1, <2>2 DEF AssessTypeOK
    <3>2. /\ stage' \in [Scans -> Stages] /\ pair' \in [Scans -> 1..(PairCap + 1)]
          /\ saw' \in [Scans -> SUBSET Kinds]
      <4>1. stage \in [Scans -> Stages] /\ Following(m) \in Stages
        BY <1>a, StageOrder DEF AssessTypeOK, Stages
      <4>2. stage' \in [Scans -> Stages]
        BY <2>1, <4>1
      <4>3. pair' \in [Scans -> 1..(PairCap + 1)]
        <5>1. \E next \in 1..(PairCap + 1) : pair' = [pair EXCEPT ![s] = next]
          <6>1. pair[s] + 1 \in 1..(PairCap + 1) /\ 1 \in 1..(PairCap + 1)
            BY <2>1, <2>2
          <6>2. QED
            BY <2>1, <6>1
        <5>2. QED
          BY <1>a, <5>1 DEF AssessTypeOK
      <4>4. m \in Kinds
        BY KindsDiffer
      <4>5. saw' \in [Scans -> SUBSET Kinds]
        BY <1>a, <2>1, <4>4 DEF AssessTypeOK
      <4>6. QED
        BY <4>2, <4>3, <4>5
    <3>3. replies' \in SUBSET (Methods \X Replies)
      BY <1>a, <2>1 DEF AssessTypeOK
    <3>4. QED
      BY <1>a, <2>1, <3>1, <3>2, <3>3 DEF AssessTypeOK, Stages
  <2>6. TrialsCounted'
    <3> SUFFICES ASSUME NEW t \in Scans, NEW n \in Methods
                 PROVE  /\ stage'[t] \in Before(n) => late'[t][n] = 0
                        /\ stage'[t] = n => late'[t][n] < pair'[t]
      BY DEF TrialsCounted
    <3>1. CASE t # s
      BY <2>3, <2>4, <3>1 DEF TrialInv, TrialsCounted
    <3>2. CASE t = s /\ verdict = "none"
      BY <2>1, <2>2, <2>3, <2>4, <3>2 DEF TrialInv, TrialsCounted, Before
    <3>3. CASE t = s /\ verdict # "none"
      <4>1. stage'[s] = Following(m) /\ pair'[s] = 1
        BY <2>4, <3>3
      <4>2. stage'[s] \in Upto(n) => stage[s] \in Before(n) /\ n # m
        BY <2>1, <4>1, StageOrder DEF Before
      <4>3. stage'[s] \in Upto(n) => late'[s][n] = 0
        BY <2>3, <4>2 DEF TrialInv, TrialsCounted
      <4>4. QED
        BY <3>3, <4>1, <4>3, StageOrder DEF Before
    <3>4. QED
      BY <3>1, <3>2, <3>3
  <2>7. LockoutEndsMethod'
    <3> SUFFICES ASSUME loud, NEW t \in Scans, NEW n \in Methods \ {"telnet"}
                 PROVE  late'[t][n] <= 1 /\ (stage'[t] \in Upto(n) => late'[t][n] = 0)
      BY <2>1 DEF LockoutEndsMethod
    <3>1. /\ late[t][n] <= 1 /\ (stage[t] \in Upto(n) => late[t][n] = 0)
          /\ m # "telnet" => late[s][m] = 0
      BY <2>1, StageOrder DEF TrialInv, LockoutEndsMethod
    <3>2. stage'[t] \in Upto(n) => stage[t] \in Upto(n)
      BY <2>1, <2>4, StageOrder DEF Before
    <3>3. CASE <<t, n>> # <<s, m>>
      BY <2>3, <3>1, <3>2, <3>3
    <3>4. CASE t = s /\ n = m
      BY <2>1, <2>3, <2>4, <3>1, <3>4, StageOrder
    <3>5. QED
      BY <3>3, <3>4
  <2>8. replies \subseteq replies' /\ (verdict = "found" => <<m, reply>> \in replies')
    BY <2>1
  <2>9. ResultsExplained'
    <3> SUFFICES ASSUME NEW t \in Scans, NEW n \in Methods, result'[t][n] = "found"
                 PROVE  Explained(n)'
      BY DEF ResultsExplained
    <3>1. CASE <<t, n>> # <<s, m>>
      BY <2>3, <2>8, <3>1 DEF TrialInv, ResultsExplained, Explained
    <3>2. CASE t = s /\ n = m
      BY <2>1, <2>3, <2>8, <3>2 DEF Explained
    <3>3. QED
      BY <3>1, <3>2
  <2>10. LoginsExplained'
    BY <2>1, <2>8 DEF TrialInv, LoginsExplained
  <2>11. SeenIsResult'
    <3> SUFFICES ASSUME NEW t \in Scans, NEW n \in Methods, n \in saw'[t]
                 PROVE  result'[t][n] = "found" /\ stage'[t] \notin Upto(n)
      BY DEF SeenIsResult
    <3>1. CASE t # s
      BY <2>3, <2>4, <3>1 DEF TrialInv, SeenIsResult
    <3>2. CASE t = s /\ n = m
      <4>1. m \notin saw[s]
        BY <2>1, StageOrder DEF TrialInv, SeenIsResult
      <4>2. QED
        BY <2>1, <2>3, <2>4, <3>2, <4>1, StageOrder
    <3>3. CASE t = s /\ n # m
      <4>1. n \in saw[s]
        BY <2>4, <3>3
      <4>2. QED
        BY <2>1, <2>3, <2>4, <3>3, <4>1, StageOrder DEF TrialInv, SeenIsResult, Before
    <3>4. QED
      BY <3>1, <3>2, <3>3
  <2>12. QED
    BY <2>5, <2>6, <2>7, <2>9, <2>10, <2>11 DEF TrialInv
<1>8. ASSUME NEW s \in Scans, NEW m \in Methods, EndMethod(s, m) PROVE TrialInv'
  <2>1. PICK verdict \in {"nothing", "none"} : result' = [result EXCEPT ![s][m] = verdict]
    BY <1>8 DEF EndMethod
  <2>2. /\ stage[s] = m /\ stage' = [stage EXCEPT ![s] = Following(m)]
        /\ pair' = [pair EXCEPT ![s] = 1]
        /\ UNCHANGED <<ports, loud, vulns, resolved, alerts, tagged, purged, locked, todo, row,
                       replies, saw, late, failed>>
    BY <1>8 DEF EndMethod, Advance, device, tables
  <2>3. AssessTypeOK'
    <3>1. stage \in [Scans -> Stages] /\ Following(m) \in Stages
      BY <1>a, StageOrder DEF AssessTypeOK, Stages
    <3>2. stage' \in [Scans -> Stages]
      BY <2>2, <3>1
    <3>3. QED
      BY <1>a, <2>1, <2>2, <3>2 DEF AssessTypeOK, Stages
  <2>4. \A t \in Scans : /\ stage'[t] = IF t = s THEN Following(m) ELSE stage[t]
                         /\ pair'[t] = IF t = s THEN 1 ELSE pair[t]
    BY <1>a, <2>2 DEF AssessTypeOK
  <2>5. \A t \in Scans, n \in Methods :
            result'[t][n] = IF t = s /\ n = m THEN verdict ELSE result[t][n]
    BY <1>a, <2>1 DEF AssessTypeOK
  <2>6. \A t \in Scans, n \in Methods : stage'[t] \in Upto(n) =>
            stage[t] \in Upto(n) /\ (t = s => n # m /\ stage[s] \in Before(n))
    BY <2>2, <2>4, StageOrder DEF Before
  <2>7. TrialsCounted'
    <3> SUFFICES ASSUME NEW t \in Scans, NEW n \in Methods
                 PROVE  /\ stage'[t] \in Before(n) => late[t][n] = 0
                        /\ stage'[t] = n => late[t][n] < pair'[t]
      BY <2>2 DEF TrialsCounted
    <3>1. CASE t # s
      BY <2>4, <3>1 DEF TrialInv, TrialsCounted
    <3>2. CASE t = s
      BY <2>4, <2>6, <3>2, StageOrder DEF TrialInv, TrialsCounted, Before
    <3>3. QED
      BY <3>1, <3>2
  <2>8. LockoutEndsMethod'
    BY <2>2, <2>6 DEF TrialInv, LockoutEndsMethod
  <2>9. ResultsExplained' /\ LoginsExplained'
    BY <2>2, <2>5 DEF TrialInv, ResultsExplained, LoginsExplained, Explained
  <2>10. SeenIsResult'
    <3>1. m \notin saw[s]
      BY <2>2, StageOrder DEF TrialInv, SeenIsResult
    <3>2. QED
      BY <2>2, <2>5, <2>6, <3>1 DEF TrialInv, SeenIsResult
  <2>11. QED
    BY <2>3, <2>7, <2>8, <2>9, <2>10 DEF TrialInv
<1>9. ASSUME NEW v \in Scans \X Kinds, Resolve(v) PROVE TrialInv'
  <2>1. /\ v \in vulns /\ resolved' = resolved \cup {v}
        /\ UNCHANGED <<ports, loud, locked, stage, todo, pair, result, row, vulns, alerts, tagged,
                       purged, replies, saw, late, failed>>
    BY <1>9 DEF Resolve, device
  <2>2. AssessTypeOK'
    BY <1>a, <2>1 DEF AssessTypeOK
  <2>3. QED
    BY <2>1, <2>2 DEF TrialInv, TrialsCounted, LockoutEndsMethod, ResultsExplained,
       LoginsExplained, SeenIsResult, Explained
<1>10. ASSUME NEW s \in Scans, PurgeScan(s) PROVE TrialInv'
  <2>1. /\ purged' = purged \cup {s}
        /\ vulns' = vulns \ ({s} \X Kinds) /\ resolved' = resolved \ ({s} \X Kinds)
        /\ UNCHANGED <<ports, loud, locked, stage, todo, pair, result, row, alerts, tagged,
                       replies, saw, late, failed>>
    BY <1>10 DEF PurgeScan, device
  <2>2. AssessTypeOK'
    <3>1. /\ vulns' \in SUBSET (Scans \X Kinds) /\ resolved' \in SUBSET vulns'
          /\ purged' \subseteq Scans
      BY <1>a, <2>1 DEF AssessTypeOK
    <3>2. QED
      BY <1>a, <2>1, <3>1 DEF AssessTypeOK
  <2>3. vulns' \subseteq vulns
    BY <2>1
  <2>4. QED
    BY <2>1, <2>2, <2>3 DEF TrialInv, TrialsCounted, LockoutEndsMethod, ResultsExplained,
       LoginsExplained, SeenIsResult, Explained
<1>11. QED
  BY <1>1, <1>2, <1>3, <1>4, <1>5, <1>6, <1>7, <1>8, <1>9, <1>10 DEF AssessNext

(* The invariant that the theorems about the trials rest on.               *)
LEMMA TrialInvHolds == AssessSpec => []TrialInv
<1>1. QED
  BY InitTrialInv, NextTrialInv, PTL DEF AssessSpec

(* The SSH and HTTP testers stop at the message of a lockout: a device     *)
(* that has locked its accounts and says so is tried at most once more by  *)
(* each of them in each scan, for any number of scans, pairs and ports.    *)
THEOREM LockoutIsRespected == AssessSpec => []LockoutHalts
<1>1. TrialInv => LockoutHalts
  BY DEF TrialInv, LockoutEndsMethod, LockoutHalts
<1>2. QED
  BY <1>1, TrialInvHolds, PTL

(* Default credentials are only reported of a device that has let the      *)
(* method in, or has answered in one of the ways that it takes for that.   *)
THEOREM LoginsAreExplained == AssessSpec => []LoginsExplained
<1>1. QED
  BY TrialInvHolds, PTL DEF TrialInv

\* A finding of a scan is in the tables, with its alert.
Stored(s, k) ==
    /\ <<s, k>> \in vulns
    /\ k \in Methods => "default_creds" \in alerts
    /\ k \in Protocols => AlertType(k) \in alerts

\* A login found by a method after one that was locked out.
PastLockout(s, k) == \E i, j \in 1..3 : i < j /\ result[s][Order[i]] = "locked" /\ Order[j] = k

\* What the probes found is stored, or still to be stored.
ProbesStored(s) ==
    /\ \A k \in saw[s] \ Methods : k \in todo[s] \/ Stored(s, k)
    /\ stage[s] \notin {"idle", "protocols", "findings"} => todo[s] = {}

\* The loop over the results has met no lockout so far, and has stored the
\* logins it has met.
ResultsStored(s) ==
    /\ stage[s] \notin {"results", "done"} => row[s] = 1
    /\ stage[s] = "results" =>
           \A i \in 1..3 : i < row[s] =>
               /\ result[s][Order[i]] # "locked"
               /\ result[s][Order[i]] = "found" => Stored(s, Order[i])
    /\ stage[s] = "done" => \A k \in saw[s] : Stored(s, k) \/ PastLockout(s, k)

ReportInv ==
    \A s \in Scans \ (failed \cup purged) : ProbesStored(s) /\ ResultsStored(s)
(* The order of the methods.                                               *)
LEMMA OrderOfMethods ==
    /\ Order[1] = "ssh" /\ Order[2] = "http" /\ Order[3] = "telnet"
    /\ \A k \in Methods : \E i \in 1..3 : Order[i] = k
    /\ \A i \in 1..3 : Order[i] \in Methods
BY DEF Order, Methods

(* A step of another scan, a resolution or a purge takes nothing from what *)
(* a scan has stored.                                                      *)
LEMMA ReportOfOthersKept ==
    ASSUME NEW t \in Scans, ProbesStored(t), ResultsStored(t),
           stage'[t] = stage[t], saw'[t] = saw[t], todo'[t] = todo[t], row'[t] = row[t],
           result'[t] = result[t], alerts \subseteq alerts',
           \A k : <<t, k>> \in vulns => <<t, k>> \in vulns'
    PROVE  ProbesStored(t)' /\ ResultsStored(t)'
<1>1. \A k : Stored(t, k) => Stored(t, k)'
  BY DEF Stored
<1>2. \A k : PastLockout(t, k) => PastLockout(t, k)'
  BY DEF PastLockout
<1>3. QED
  BY <1>1, <1>2 DEF ProbesStored, ResultsStored

(* Before the first scan there is nothing to report.                       *)
LEMMA InitReportInv == AssessInit => ReportInv
BY DEF AssessInit, ReportInv, ProbesStored, ResultsStored

(* No step of a scan leaves a finding behind unless a statement fails, the *)
(* scan is purged, or the loop over the results ends at a lockout.         *)
LEMMA NextReportInv == TrialInv /\ ReportInv /\ [AssessNext]_assessVars => ReportInv'
<1> SUFFICES ASSUME TrialInv, ReportInv, [AssessNext]_assessVars PROVE ReportInv'
  OBVIOUS
<1>a. AssessTypeOK /\ SeenIsResult
  BY DEF TrialInv
<1>b. ASSUME NEW s \in Scans, failed \subseteq failed', purged \subseteq purged',
             \A t \in Scans \ {s} :
                 /\ stage'[t] = stage[t] /\ saw'[t] = saw[t] /\ todo'[t] = todo[t]
                 /\ row'[t] = row[t] /\ result'[t] = result[t]
                 /\ \A k : <<t, k>> \in vulns => <<t, k>> \in vulns',
             alerts \subseteq alerts',
             s \notin failed' \cup purged' /\ ProbesStored(s) /\ ResultsStored(s)
                 => ProbesStored(s)' /\ ResultsStored(s)'
      PROVE  ReportInv'
  <2> SUFFICES ASSUME NEW t \in Scans \ (failed' \cup purged')
               PROVE  ProbesStored(t)' /\ ResultsStored(t)'
    BY DEF ReportInv
  <2>1. t \in Scans /\ ProbesStored(t) /\ ResultsStored(t)
    BY <1>b DEF ReportInv
  <2>2. CASE t = s
    BY <1>b, <2>1, <2>2
  <2>3. CASE t # s
    BY <1>b, <2>1, <2>3, ReportOfOthersKept
  <2>4. QED
    BY <2>2, <2>3
<1>1. CASE UNCHANGED assessVars
  <2>1. ASSUME NEW t \in Scans, ProbesStored(t), ResultsStored(t)
        PROVE  ProbesStored(t)' /\ ResultsStored(t)'
    BY <1>1, <2>1, ReportOfOthersKept DEF assessVars
  <2>2. QED
    BY <1>1, <2>1 DEF assessVars, ReportInv
<1>2. ASSUME NEW s \in Scans, PortsListed(s) \/ LoadCredentials(s) \/ EndResults(s)
      PROVE  ReportInv'
  <2>1. /\ \/ stage[s] = "idle" /\ stage' = [stage EXCEPT ![s] = "protocols"]
           \/ stage[s] = "load" /\ stage' = [stage EXCEPT ![s] = "ssh"]
           \/ stage[s] = "load" /\ stage' = [stage EXCEPT ![s] = "done"]
           \/ row[s] = 4 /\ stage[s] = "results" /\ stage' = [stage EXCEPT ![s] = "done"]
        /\ UNCHANGED <<ports, loud, vulns, resolved, alerts, tagged, purged, locked, todo, pair,
                       result, row, replies, saw, late, failed>>
    BY <1>2 DEF PortsListed, LoadCredentials, EndResults, Advance, device, tables
  <2>2. \A t \in Scans : t # s => stage'[t] = stage[t]
    BY <1>a, <2>1 DEF AssessTypeOK
  <2>3. ASSUME ProbesStored(s), ResultsStored(s) PROVE ProbesStored(s)' /\ ResultsStored(s)'
    <3>1. \A k : Stored(s, k)' <=> Stored(s, k)
      BY <2>1 DEF Stored
    <3>2. stage'[s] = "done" => \A k \in saw[s] : Stored(s, k)
      <4> SUFFICES ASSUME stage'[s] = "done", NEW k \in saw[s] PROVE Stored(s, k)
        OBVIOUS
      <4>1. \/ stage[s] = "load"
            \/ stage[s] = "results" /\ row[s] = 4
        BY <1>a, <2>1 DEF AssessTypeOK
      <4>2. CASE k \notin Methods
        BY <2>3, <4>1, <4>2 DEF ProbesStored
      <4>3. CASE k \in Methods
        <5>1. stage[s] = "results" /\ row[s] = 4 /\ result[s][k] = "found"
          BY <1>a, <4>1, <4>3, StageOrder DEF SeenIsResult, Before
        <5>2. PICK i \in 1..3 : Order[i] = k
          BY <4>3, OrderOfMethods
        <5>3. QED
          BY <2>3, <5>1, <5>2 DEF ResultsStored
      <4>4. QED
        BY <4>2, <4>3
    <3>3. stage'[s] \in {"protocols", "ssh", "done"} /\ (stage'[s] # "protocols" => todo[s] = {})
          /\ (stage'[s] # "done" => row[s] = 1)
      BY <1>a, <2>1, <2>3 DEF AssessTypeOK, ProbesStored, ResultsStored
    <3>4. QED
      BY <2>1, <2>3, <3>1, <3>2, <3>3 DEF ProbesStored, ResultsStored
  <2>4. QED
    BY <1>b, <2>1, <2>2, <2>3
<1>3. ASSUME NEW s \in Scans, ProbeProtocols(s) PROVE ReportInv'
  <2>1. PICK found \in SUBSET Protocols :
            todo' = [todo EXCEPT ![s] = found] /\ saw' = [saw EXCEPT ![s] = found]
    BY <1>3, ProbesFindProtocols DEF ProbeProtocols
  <2>2. /\ stage[s] = "protocols" /\ stage' = [stage EXCEPT ![s] = "findings"]
        /\ UNCHANGED <<ports, loud, vulns, resolved, alerts, tagged, purged, locked, pair,
                       result, row, replies, late, failed>>
    BY <1>3 DEF ProbeProtocols, Advance, device, tables
  <2>3. /\ \A t \in Scans : t # s => /\ stage'[t] = stage[t] /\ saw'[t] = saw[t]
                                     /\ todo'[t] = todo[t]
        /\ stage'[s] = "findings" /\ saw'[s] = found /\ todo'[s] = found
    BY <1>a, <2>1, <2>2 DEF AssessTypeOK
  <2>4. ASSUME ProbesStored(s), ResultsStored(s) PROVE ProbesStored(s)' /\ ResultsStored(s)'
    BY <2>2, <2>3, <2>4 DEF ProbesStored, ResultsStored
  <2>5. QED
    BY <1>b, <2>2, <2>3, <2>4
<1>4. ASSUME NEW s \in Scans, NEW f \in Protocols, StoreFinding(s, f) PROVE ReportInv'
  <2>1. Store(s, {f}, {AlertType(f)})
    BY <1>4 DEF StoreFinding
  <2>2. /\ stage[s] = "findings" /\ stage' = [stage EXCEPT ![s] = "findings"]
        /\ todo' = [todo EXCEPT ![s] = @ \ {f}]
        /\ UNCHANGED <<ports, loud, locked, pair, result, row, resolved, tagged, purged, replies,
                       saw, late>>
    BY <1>4 DEF StoreFinding, Advance, device
  <2>3. /\ vulns \subseteq vulns' /\ alerts \subseteq alerts' /\ failed \subseteq failed'
        /\ s \notin failed' => <<s, f>> \in vulns' /\ AlertType(f) \in alerts'
    <3>1. {f} \in SUBSET Kinds /\ resolved' = resolved
      BY <2>2, KindsDiffer
    <3>2. /\ vulns \subseteq vulns' /\ alerts \subseteq alerts' /\ failed \subseteq failed'
          /\ s \notin failed' => /\ \A k \in {f} : <<s, k>> \in vulns'
                                 /\ {AlertType(f)} \subseteq alerts'
      BY <1>a, <2>1, <3>1, StoreEffect
    <3>3. QED
      BY <3>2
  <2>4. /\ \A t \in Scans : t # s => stage'[t] = stage[t] /\ todo'[t] = todo[t]
        /\ stage'[s] = "findings" /\ todo'[s] = todo[s] \ {f}
    BY <1>a, <2>2 DEF AssessTypeOK
  <2>5. ASSUME s \notin failed', ProbesStored(s), ResultsStored(s)
        PROVE  ProbesStored(s)' /\ ResultsStored(s)'
    <3>1. \A k : Stored(s, k) => Stored(s, k)'
      BY <2>3 DEF Stored
    <3>2. Stored(s, f)'
      BY <2>3, <2>5, KindsDiffer DEF Stored
    <3>3. QED
      BY <2>2, <2>4, <2>5, <3>1, <3>2 DEF ProbesStored, ResultsStored
  <2>6. QED
    BY <1>b, <2>2, <2>3, <2>4, <2>5
<1>5. ASSUME NEW s \in Scans, ProbeTLS(s) PROVE ReportInv'
  <2>a. PICK kinds \in SUBSET {"Weak TLS"} :
            saw' = [saw EXCEPT ![s] = @ \cup kinds] /\ \E types : Store(s, kinds, types)
    BY <1>5 DEF ProbeTLS
  <2>1. PICK types : saw' = [saw EXCEPT ![s] = @ \cup kinds] /\ Store(s, kinds, types)
    BY <2>a
  <2>2. /\ stage[s] = "findings" /\ stage' = [stage EXCEPT ![s] = "load"] /\ todo[s] = {}
        /\ UNCHANGED <<ports, loud, locked, todo, pair, result, row, resolved, tagged, purged,
                       replies, late>>
    BY <1>5 DEF ProbeTLS, Advance, device
  <2>3. /\ vulns \subseteq vulns' /\ alerts \subseteq alerts' /\ failed \subseteq failed'
        /\ s \notin failed' => \A k \in kinds : <<s, k>> \in vulns'
    <3>1. kinds \in SUBSET Kinds
      BY KindsDiffer
    <3>2. QED
      BY <1>a, <2>1, <2>2, <3>1, StoreEffect
  <2>4. /\ \A t \in Scans : t # s => stage'[t] = stage[t] /\ saw'[t] = saw[t]
        /\ stage'[s] = "load" /\ saw'[s] = saw[s] \cup kinds
    BY <1>a, <2>1, <2>2 DEF AssessTypeOK
  <2>5. ASSUME s \notin failed', ProbesStored(s), ResultsStored(s)
        PROVE  ProbesStored(s)' /\ ResultsStored(s)'
    <3>1. \A k : Stored(s, k) => Stored(s, k)'
      BY <2>3 DEF Stored
    <3>2. \A k \in kinds : Stored(s, k)'
      BY <2>3, <2>5, KindsDiffer DEF Stored
    <3>3. QED
      BY <2>2, <2>4, <2>5, <3>1, <3>2 DEF ProbesStored, ResultsStored
  <2>6. QED
    BY <1>b, <2>2, <2>3, <2>4, <2>5
<1>6. ASSUME NEW s \in Scans, StoreResult(s) PROVE ReportInv'
  <2> DEFINE m == Order[row[s]]
  <2> DEFINE kinds == IF result[s][m] = "found" THEN {m} ELSE {}
  <2> DEFINE types == CASE result[s][m] = "found"  -> {"default_creds"}
                        [] result[s][m] = "locked" -> {"lockout_detected"} [] OTHER -> {}
  <2> DEFINE to == IF result[s][m] = "locked" THEN "done" ELSE "results"
  <2>1. row[s] \in 1..3 /\ m \in Methods
    BY <1>6, <1>a, OrderOfMethods DEF StoreResult, AssessTypeOK
  <2>2. /\ Store(s, kinds, types)
        /\ stage[s] = "results" /\ stage' = [stage EXCEPT ![s] = to]
        /\ row' = [row EXCEPT ![s] = @ + 1]
        /\ UNCHANGED <<ports, loud, locked, todo, pair, result, resolved, purged, replies, saw,
                       late>>
    BY <1>6 DEF StoreResult, Advance, device
  <2>3. kinds \in SUBSET Kinds /\ (result[s][m] = "found" => types = {"default_creds"})
    BY <2>1, KindsDiffer
  <2>4. /\ \A t \in Scans : t # s => stage'[t] = stage[t] /\ row'[t] = row[t]
        /\ stage'[s] = to /\ row'[s] = row[s] + 1
    BY <1>a, <2>2 DEF AssessTypeOK
  <2> HIDE DEF m, types
  <2>5. /\ vulns \subseteq vulns' /\ alerts \subseteq alerts' /\ failed \subseteq failed'
        /\ s \notin failed' => (\A k \in kinds : <<s, k>> \in vulns') /\ types \subseteq alerts'
    BY <1>a, <2>2, <2>3, StoreEffect
  <2>6. ASSUME s \notin failed', ProbesStored(s), ResultsStored(s)
        PROVE  ProbesStored(s)' /\ ResultsStored(s)'
    <3>1. \A k : Stored(s, k) => Stored(s, k)'
      BY <2>5 DEF Stored
    <3>2. ASSUME NEW k, k = m, result[s][k] = "found" PROVE Stored(s, k)'
      <4>1. kinds = {k} /\ types = {"default_creds"}
        BY <2>3, <3>2
      <4>2. <<s, k>> \in vulns' /\ "default_creds" \in alerts'
        BY <2>5, <2>6, <4>1
      <4>3. k \notin Protocols
        BY <2>1, <3>2, KindsDiffer
      <4>4. QED
        BY <4>2, <4>3 DEF Stored
    <3>3. \A i \in 1..3 : i < row[s] => /\ result[s][Order[i]] # "locked"
                                        /\ result[s][Order[i]] = "found" => Stored(s, Order[i])'
      BY <2>2, <2>6, <3>1 DEF ResultsStored
    <3>4. ProbesStored(s)'
      BY <2>2, <2>4, <2>6, <3>1 DEF ProbesStored
    <3>5. CASE result[s][m] # "locked"
      <4>1. \A i \in 1..3 : i < row[s] + 1 =>
                 /\ result[s][Order[i]] # "locked"
                 /\ result[s][Order[i]] = "found" => Stored(s, Order[i])'
        <5> SUFFICES ASSUME NEW i \in 1..3, i < row[s] + 1
                     PROVE  /\ result[s][Order[i]] # "locked"
                            /\ result[s][Order[i]] = "found" => Stored(s, Order[i])'
          OBVIOUS
        <5>1. CASE i < row[s]
          BY <3>3, <5>1
        <5>2. CASE i = row[s]
          <6>1. Order[i] = m
            BY <5>2 DEF m
          <6>2. QED
            BY <3>2, <3>5, <6>1
        <5>3. QED
          BY <2>1, <5>1, <5>2
      <4>2. stage'[s] = "results"
        BY <2>4, <3>5
      <4>3. ResultsStored(s)'
        BY <2>2, <2>4, <4>1, <4>2 DEF ResultsStored
      <4>4. QED
        BY <3>4, <4>3
    <3>6. CASE result[s][m] = "locked"
      <4>1. ASSUME NEW k \in saw[s] PROVE Stored(s, k)' \/ PastLockout(s, k)'
        <5>1. CASE k \notin Methods
          BY <2>2, <2>6, <3>1, <5>1 DEF ProbesStored
        <5>2. CASE k \in Methods
          <6>1. result[s][k] = "found"
            BY <1>a, <5>2 DEF SeenIsResult
          <6>2. PICK j \in 1..3 : Order[j] = k
            BY <5>2, OrderOfMethods
          <6>3. j # row[s]
            BY <3>6, <6>1, <6>2 DEF m
          <6>4. CASE j < row[s]
            BY <3>3, <6>1, <6>2, <6>4
          <6>5. CASE row[s] < j
            BY <2>1, <2>2, <3>6, <6>2, <6>5 DEF PastLockout, m
          <6>6. QED
            BY <2>1, <6>3, <6>4, <6>5
        <5>3. QED
          BY <5>1, <5>2
      <4>2. stage'[s] = "done"
        BY <2>4, <3>6
      <4>3. ResultsStored(s)'
        BY <2>2, <4>1, <4>2 DEF ResultsStored
      <4>4. QED
        BY <3>4, <4>3
    <3>7. QED
      BY <3>5, <3>6
  <2>7. QED
    BY <1>b, <2>2, <2>4, <2>5, <2>6
<1>7. ASSUME NEW s \in Scans, NEW m \in Methods, Try(s, m) \/ EndMethod(s, m) PROVE ReportInv'
  <2>1. /\ stage[s] = m /\ (stage' = stage \/ stage' = [stage EXCEPT ![s] = Following(m)])
        /\ saw' = saw \/ saw' = [saw EXCEPT ![s] = @ \cup {m}]
        /\ \E verdict : result' = [result EXCEPT ![s][m] = verdict]
        /\ UNCHANGED <<vulns, alerts, purged, todo, row, failed>>
    <3>1. CASE Try(s, m)
      BY <1>a, <3>1, TryEffect
    <3>2. CASE EndMethod(s, m)
      BY <3>2 DEF EndMethod, Advance, tables
    <3>3. QED
      BY <1>7, <3>1, <3>2
  <2>2. /\ \A t \in Scans : t # s => /\ stage'[t] = stage[t] /\ saw'[t] = saw[t]
                                     /\ result'[t] = result[t]
        /\ stage'[s] \in {m, Following(m)} /\ saw'[s] \subseteq saw[s] \cup {m}
    BY <1>a, <2>1 DEF AssessTypeOK
  <2>3. /\ m \notin {"idle", "protocols", "findings", "results", "done"}
        /\ Following(m) \notin {"idle", "protocols", "findings", "done"}
    BY DEF Following, Methods
  <2>4. ASSUME ProbesStored(s), ResultsStored(s) PROVE ProbesStored(s)' /\ ResultsStored(s)'
    <3>1. \A k : Stored(s, k)' <=> Stored(s, k)
      BY <2>1 DEF Stored
    <3>2. row'[s] = 1 /\ todo'[s] = {}
      BY <2>1, <2>3, <2>4 DEF ProbesStored, ResultsStored
    <3>3. ProbesStored(s)'
      BY <2>1, <2>2, <2>4, <3>1, <3>2 DEF ProbesStored
    <3>4. ResultsStored(s)'
      BY <2>2, <2>3, <3>2 DEF ResultsStored
    <3>5. QED
      BY <3>3, <3>4
  <2>5. QED
    BY <1>b, <2>1, <2>2, <2>4
<1>8. ASSUME NEW v \in Scans \X Kinds, Resolve(v) PROVE ReportInv'
  <2>1. UNCHANGED <<stage, todo, result, row, vulns, alerts, purged, saw, failed>>
    BY <1>8 DEF Resolve
  <2>2. ASSUME NEW t \in Scans, ProbesStored(t), ResultsStored(t)
        PROVE  ProbesStored(t)' /\ ResultsStored(t)'
    BY <2>1, <2>2, ReportOfOthersKept
  <2>3. QED
    BY <2>1, <2>2 DEF ReportInv
<1>9. ASSUME NEW s \in Scans, PurgeScan(s) PROVE ReportInv'
  <2>1. /\ purged' = purged \cup {s} /\ vulns' = vulns \ ({s} \X Kinds)
        /\ UNCHANGED <<stage, todo, result, row, alerts, saw, failed>>
    BY <1>9 DEF PurgeScan
  <2>2. \A t \in Scans \ {s} : \A k : <<t, k>> \in vulns => <<t, k>> \in vulns'
    BY <2>1
  <2>3. s \in failed' \cup purged'
    BY <2>1
  <2>4. QED
    BY <1>b, <2>1, <2>2, <2>3
<1>10. QED
  BY <1>1, <1>2, <1>3, <1>4, <1>5, <1>6, <1>7, <1>8, <1>9 DEF AssessNext

(* What the probes and trials of a scan found is stored with its alert     *)
(* when the scan is done, in whatever order other scans, resolutions and   *)
(* purges interleave, unless one of its statements failed, it was purged,  *)
(* or a login was found by a method after one that was locked out.         *)
THEOREM FindingsAreReported == AssessSpec => []ReportedInFull
<1>1. AssessInit => TrialInv /\ ReportInv
  BY InitTrialInv, InitReportInv
<1>2. TrialInv /\ ReportInv /\ [AssessNext]_assessVars => (TrialInv /\ ReportInv)'
  BY NextTrialInv, NextReportInv
<1>3. ReportInv => ReportedInFull
  BY DEF ReportInv, ResultsStored, ReportedInFull, Stored, PastLockout
<1>4. QED
  BY <1>1, <1>2, <1>3, PTL DEF AssessSpec

-----------------------------------------------------------------------------
(* The risk breakdown. *)

(* The smaller of two numbers.                                             *)
LEMMA MinOfTwo ==
    ASSUME NEW a \in Nat, NEW b \in Nat
    PROVE  /\ Min({a, b}) \in Nat /\ Min({a, b}) <= b
           /\ \A c \in Nat : c <= a /\ c <= b => c <= Min({a, b})
<1>1. \E x \in {a, b} : \A y \in {a, b} : x <= y
  OBVIOUS
<1>2. QED
  BY <1>1 DEF Min

(* An unresolved finding raises its own part, whatever else is known of    *)
(* the device.                                                             *)
LEMMA FindingHasItsPart ==
    ASSUME NEW history, NEW v \in vulns \ resolved, v[2] \in Kinds
    PROVE  ScoreBreakdown(BuildRiskFactors(history))[PartOf(v[2])] > 0
<1> DEFINE f == BuildRiskFactors(history)
<1> DEFINE k == v[2]
<1>1. CASE k \in Methods
  <2>1. "default credentials" \in WordsIn(k)
    BY <1>1 DEF WordsIn, Methods
  <2>2. f.HasDefaultCreds
    BY <2>1 DEF BuildRiskFactors
  <2>3. PartOf(k) = "default_credentials"
    BY <1>1 DEF PartOf, Methods
  <2>4. QED
    BY <2>2, <2>3 DEF ScoreBreakdown, Points
<1>2. CASE k = "Telnet"
  <2>1. PartOf(k) = "telnet_exposed" /\ "telnet" \in WordsIn(k)
    BY <1>2 DEF PartOf, WordsIn, Methods
  <2>2. f.HasTelnet
    BY <2>1 DEF BuildRiskFactors
  <2>3. QED
    BY <2>1, <2>2 DEF ScoreBreakdown, Points
<1>3. CASE k = "ADB"
  <2>1. PartOf(k) = "adb_exposed" /\ "adb" \in WordsIn(k)
    BY <1>3 DEF PartOf, WordsIn, Methods
  <2>2. f.HasADB
    BY <2>1 DEF BuildRiskFactors
  <2>3. QED
    BY <2>1, <2>2 DEF ScoreBreakdown, Points
<1>4. CASE k = "MQTT-plaintext"
  <2>1. PartOf(k) = "plaintext_mqtt" /\ "mqtt" \in WordsIn(k)
    BY <1>4 DEF PartOf, WordsIn, Methods
  <2>2. f.HasPlaintextMQTT
    BY <2>1 DEF BuildRiskFactors
  <2>3. QED
    BY <2>1, <2>2 DEF ScoreBreakdown, Points
<1>5. CASE k = "Modbus"
  <2>1. PartOf(k) = "modbus_detected" /\ "modbus" \in WordsIn(k)
    BY <1>5 DEF PartOf, WordsIn, Methods
  <2>2. f.HasModbus
    BY <2>1 DEF BuildRiskFactors
  <2>3. QED
    BY <2>1, <2>2 DEF ScoreBreakdown, Points
<1>6. CASE k = "RTSP-unauth"
  <2>1. PartOf(k) = "unauth_rtsp" /\ "rtsp" \in WordsIn(k)
    BY <1>6 DEF PartOf, WordsIn, Methods
  <2>2. f.HasUnauthRTSP
    BY <2>1 DEF BuildRiskFactors
  <2>3. QED
    BY <2>1, <2>2 DEF ScoreBreakdown, Points
<1>7. CASE k \in {"TLS-service", "Weak TLS"}
  <2>1. PartOf(k) = "weak_tls" /\ "tls" \in WordsIn(k)
    BY <1>7 DEF PartOf, WordsIn, Methods
  <2>2. f.HasWeakTLS
    BY <2>1 DEF BuildRiskFactors
  <2>3. QED
    BY <2>1, <2>2 DEF ScoreBreakdown, Points
<1>8. QED
  BY <1>1, <1>2, <1>3, <1>4, <1>5, <1>6, <1>7 DEF Kinds, Protocols

(* The score is the sum of the parts up to the cap, and default            *)
(* credentials alone make a medium severity.                               *)
LEMMA ScoreOfParts ==
    ASSUME NEW f, f.KnownCVECount \in Nat, f.KEVMatchCount \in Nat, f.DaysSinceLastScan \in Nat,
           NEW p, p = ScoreBreakdown(f)
    PROVE  /\ CalculateRiskScore(f) = Min({3000,
                   p.default_credentials + p.telnet_exposed + p.adb_exposed + p.modbus_detected
                   + p.unauth_rtsp + p.plaintext_mqtt + p.http_management + p.weak_tls
                   + p.known_cves + p.kev_matches + p.high_entropy_firmware + p.scan_age})
           /\ p.default_credentials > 0 => SeverityFromScore(CalculateRiskScore(f)) # "low"
<1> DEFINE sum == p.default_credentials + p.telnet_exposed + p.adb_exposed + p.modbus_detected
                  + p.unauth_rtsp + p.plaintext_mqtt + p.http_management + p.weak_tls
                  + p.known_cves + p.kev_matches + p.high_entropy_firmware + p.scan_age
<1>1. CalculateRiskScore(f) = Min({3000, sum})
  BY DEF CalculateRiskScore, ScoreBreakdown
<1>2. /\ p.default_credentials \in {0, 1200} /\ p.telnet_exposed \in {0, 900}
      /\ p.adb_exposed \in {0, 1050} /\ p.modbus_detected \in {0, 750}
      /\ p.unauth_rtsp \in {0, 600} /\ p.plaintext_mqtt \in {0, 450}
      /\ p.http_management \in {0, 300} /\ p.weak_tls \in {0, 450}
      /\ p.high_entropy_firmware \in {0, 600}
  BY DEF ScoreBreakdown, Points
<1>3. p.known_cves \in Nat /\ p.kev_matches \in Nat /\ p.scan_age \in Nat
  <2>1. f.KnownCVECount * 150 \in Nat /\ f.KEVMatchCount * 600 \in Nat
    OBVIOUS
  <2>2. /\ p.known_cves = Min({f.KnownCVECount * 150, 900})
        /\ p.kev_matches = Min({f.KEVMatchCount * 600, 1200})
        /\ p.scan_age = Min({f.DaysSinceLastScan, 300})
    BY DEF ScoreBreakdown
  <2>3. /\ Min({f.KnownCVECount * 150, 900}) \in Nat /\ Min({f.KEVMatchCount * 600, 1200}) \in Nat
        /\ Min({f.DaysSinceLastScan, 300}) \in Nat
    <3>1. PICK a \in Nat, b \in Nat, c \in Nat : a = 900 /\ b = 1200 /\ c = 300
      OBVIOUS
    <3>2. /\ Min({f.KnownCVECount * 150, a}) \in Nat /\ Min({f.KEVMatchCount * 600, b}) \in Nat
          /\ Min({f.DaysSinceLastScan, c}) \in Nat
      BY <2>1, MinOfTwo
    <3>3. QED
      BY <3>1, <3>2
  <2>4. QED
    BY <2>2, <2>3
<1>4. ASSUME p.default_credentials > 0
      PROVE  SeverityFromScore(CalculateRiskScore(f)) # "low"
  <2>1. sum \in Nat /\ sum >= 1200
    BY <1>2, <1>3, <1>4
  <2> HIDE DEF sum
  <2>2. Min({3000, sum}) \in Nat /\ 1200 <= Min({3000, sum})
    <3>1. PICK a \in Nat : a = 3000
      OBVIOUS
    <3>2. Min({a, sum}) \in Nat /\ \A c \in Nat : c <= a /\ c <= sum => c <= Min({a, sum})
      BY <2>1, MinOfTwo
    <3>3. QED
      BY <2>1, <3>1, <3>2
  <2>3. QED
    BY <1>1, <2>2 DEF SeverityFromScore
<1>5. QED
  BY <1>1, <1>4

(* Whatever findings are stored, resolved or purged, the breakdown that is *)
(* shown adds up to the score that is shown and names every unresolved     *)
(* finding, for any history of the device.                                 *)
THEOREM BreakdownIsThatOfTheScore == AssessSpec => []BreakdownAddsUp
<1>1. TrialInv => BreakdownAddsUp
  <2> SUFFICES ASSUME AssessTypeOK, NEW history \in Histories,
                      NEW shown, shown = GetRiskBreakdown(history),
                      NEW p, p = shown.parts
               PROVE  /\ shown.total = Min({3000,
                             p.default_credentials + p.telnet_exposed + p.adb_exposed
                             + p.modbus_detected + p.unauth_rtsp + p.plaintext_mqtt
                             + p.http_management + p.weak_tls + p.known_cves + p.kev_matches
                             + p.high_entropy_firmware + p.scan_age})
                      /\ \A v \in vulns \ resolved : p[PartOf(v[2])] > 0
                      /\ p.default_credentials > 0 => shown.severity # "low"
    BY DEF BreakdownAddsUp, TrialInv
  <2> DEFINE f == BuildRiskFactors(history)
  <2>1. /\ shown.total = CalculateRiskScore(f) /\ p = ScoreBreakdown(f)
        /\ shown.severity = SeverityFromScore(CalculateRiskScore(f))
    BY DEF GetRiskBreakdown
  <2>2. f.KnownCVECount \in Nat /\ f.KEVMatchCount \in Nat /\ f.DaysSinceLastScan \in Nat
    BY AssessmentAssumption DEF BuildRiskFactors
  <2>3. \A v \in vulns \ resolved : p[PartOf(v[2])] > 0
    BY <2>1, FindingHasItsPart DEF AssessTypeOK
  <2> HIDE DEF f
  <2>4. QED
    BY <2>1, <2>2, <2>3, ScoreOfParts
<1>2. QED
  BY <1>1, InitTrialInv, NextTrialInv, PTL DEF AssessSpec
=============================================================================
