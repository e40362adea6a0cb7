-------------------------------- MODULE Jobs --------------------------------
(***************************************************************************)
(* The backend process from its start to its end (backend/main.go): the    *)
(* background jobs, the pool of database connections that they share with  *)
(* the requests (backend/db/db.go), the readiness that the database        *)
(* monitor reports, and the shutdown, which waits for some of the jobs.    *)
(*                                                                         *)
(* A goroutine is described by what it does with connections: it wants     *)
(* one, it uses one for a statement, or it holds the one of its open rows. *)
(* What the statements say is the business of the other modules.           *)
(***************************************************************************)
EXTENDS Naturals, FiniteSets

CONSTANTS
    Requests,    \* HTTP requests that may be in flight
    Periodic,    \* the passive monitor and the retention job
    PoolSize,    \* DB_MAX_OPEN_CONNS, 25 by default
    MaxRows,     \* bounds the rows that a check of the alert monitor finds
    MaxRetries,  \* pings after a failed one, 5
    MaxOutages   \* bounds the times the database goes away

\* The goroutines that main waits for, and those it does not wait for: the
\* database monitor and a scan that a request has started, which also stands
\* for the EPSS updater and the deliveries of webhooks.
Workers == {"alerts"} \cup Periodic
Loose   == {"monitor", "scan"}
Jobs    == Workers \cup Loose

\* With one connection the alert monitor would wait for itself.
ASSUME PoolAssumption ==
    /\ PoolSize \in Nat /\ PoolSize >= 2
    /\ MaxRows \in Nat /\ MaxRetries \in Nat /\ MaxOutages \in Nat

\* Every goroutine is in one role.
ASSUME RolesAssumption ==
    /\ Periodic \cap ({"alerts"} \cup Loose) = {}
    /\ Requests \cap Jobs = {}

VARIABLES
    main,     \* where the process is in main
    stopped,  \* stopAlertMonitor, stopRetention and quit are closed
    pc,       \* where each goroutine is
    check,    \* which of the three checks the alert monitor is in
    rows,     \* rows its open result still holds
    dbUp,     \* the database answers
    healthy,  \* DBMonitor.healthy
    retries,  \* its pings since the failed one
    outages,  \* times the database has gone away so far
    overdue,  \* the drain took longer than drainTimeout (history)
    cut       \* goroutines that the end of the process cut short (history)

job  == <<check, rows>>
mon  == <<healthy, retries>>
env  == <<dbUp, outages>>
hist == <<overdue, cut>>
vars == <<main, stopped, pc, job, mon, env, hist>>

Goroutines == Jobs \cup Requests

TypeOK ==
    /\ main \in {"starting", "serving", "draining", "waiting", "exited", "failed"}
    /\ stopped \in BOOLEAN
    /\ pc \in [Goroutines -> {"none", "idle", "want", "use", "rows", "want2", "use2", "done"}]
    /\ check \in 1..3 /\ rows \in 0..MaxRows
    /\ dbUp \in BOOLEAN /\ healthy \in BOOLEAN /\ retries \in 0..MaxRetries
    /\ outages \in 0..MaxOutages
    /\ overdue \in BOOLEAN /\ cut \in SUBSET Goroutines

Init ==
    /\ main = "starting" /\ stopped = FALSE
    /\ pc = [g \in Goroutines |-> "none"]
    /\ check = 1 /\ rows = 0
    /\ dbUp = TRUE /\ healthy = TRUE /\ retries = 0
    /\ outages = 0
    /\ overdue = FALSE /\ cut = {}

Running   == main \in {"serving", "draining", "waiting"}
Goto(g, from, to) == pc[g] = from /\ pc' = [pc EXCEPT ![g] = to]

-----------------------------------------------------------------------------
(* The pool. *)

\* The connections that are in use.
Held ==
    {g \in Goroutines : pc[g] \in {"use", "rows", "want2", "use2"}} \X {1}
    \cup {g \in Goroutines : pc[g] = "use2"} \X {2}
Free == Cardinality(Held) < PoolSize

\* database/sql gives a goroutine that asks for one a free connection.
Acquire(g) ==
    /\ Running /\ Free
    /\ g # "alerts" /\ Goto(g, "want", "use")
    /\ UNCHANGED <<main, stopped, job, mon, env, hist>>

-----------------------------------------------------------------------------
(* The jobs that main waits for, and the others of one statement. *)

\* A ticker fires, or a packet comes in: the loops of StartRetentionJob,
\* passiveMonitor.Start and startHealthChecks.
Wake(g) ==
    /\ Running /\ g \in Periodic \cup {"monitor"}
    /\ Goto(g, "idle", "want")
    /\ UNCHANGED <<main, stopped, job, mon, env, hist>>

\* Mutant: the rows of one statement stay open while the next one is run.
MutEndRound(g) ==
    /\ Running /\ g \in Periodic
    /\ Goto(g, "use", "want2")
    /\ UNCHANGED <<main, stopped, job, mon, env, hist>>

\* The statements of a round, one after the other, are done or have failed.
EndRound(g) ==
    /\ Running /\ g \in Periodic
    /\ Goto(g, "use", "idle")
    /\ UNCHANGED <<main, stopped, job, mon, env, hist>>

\* Mutant: the loop of the alert monitor ranges over its ticker.
MutStop(g) ==
    /\ Running /\ stopped
    /\ g \in Workers \ {"alerts"} /\ Goto(g, "idle", "done")
    /\ UNCHANGED <<main, stopped, job, mon, env, hist>>

\* The select of a worker finds its stop channel closed.
Stop(g) ==
    /\ Running /\ stopped
    /\ g \in Workers /\ Goto(g, "idle", "done")
    /\ UNCHANGED <<main, stopped, job, mon, env, hist>>

-----------------------------------------------------------------------------
(* The alert monitor: checkOfflineDevices, checkFirmwareOverdue and        *)
(* checkUnresolvedCritical, each with a result that stays open while       *)
(* CreateAlert is called for its rows.                                     *)

MonitorTick ==
    /\ Running /\ Goto("alerts", "idle", "want")
    /\ check' = 1
    /\ UNCHANGED <<main, stopped, rows, mon, env, hist>>

\* After a check comes the next one, or the select.
NextCheck(from) ==
    /\ Goto("alerts", from, IF check = 3 THEN "idle" ELSE "want")
    /\ check' = IF check = 3 THEN 1 ELSE check + 1
    /\ rows' = 0

\* db.Query; without the database it fails, and the check ends.
QueryRows ==
    /\ Running /\ Free
    /\ IF dbUp THEN /\ Goto("alerts", "want", "rows")
                    /\ rows' \in 0..MaxRows
                    /\ UNCHANGED check
               ELSE NextCheck("want")
    /\ UNCHANGED <<main, stopped, mon, env, hist>>

\* rows.Next: a row, for which CreateAlert wants a connection of its own, or
\* which is skipped (its Scan fails, or it names no device), or the end, which
\* closes the result.
NextRow ==
    /\ Running
    /\ \/ rows > 0 /\ dbUp /\ Goto("alerts", "rows", "want2") /\ UNCHANGED job
       \/ rows > 0 /\ dbUp /\ pc["alerts"] = "rows" /\ rows' = rows - 1 /\ UNCHANGED <<pc, check>>
       \/ (rows = 0 \/ ~dbUp) /\ NextCheck("rows")
    /\ UNCHANGED <<main, stopped, mon, env, hist>>

AcquireSecond ==
    /\ Running /\ Free
    /\ Goto("alerts", "want2", "use2")
    /\ UNCHANGED <<main, stopped, job, mon, env, hist>>

\* CreateAlert has run its statements.
AlertCreated ==
    /\ Running /\ Goto("alerts", "use2", "rows")
    /\ rows' = rows - 1
    /\ UNCHANGED <<main, stopped, check, mon, env, hist>>

-----------------------------------------------------------------------------
(* Requests, and the scans that they start. *)

Arrive(q) ==
    /\ main = "serving" /\ q \in Requests /\ Goto(q, "none", "want")
    /\ UNCHANGED <<main, stopped, job, mon, env, hist>>

\* The handler answers; it may have started a scan.
Answer(q) ==
    /\ Running /\ q \in Requests /\ pc[q] = "use"
    /\ \/ Goto(q, "use", "none")
       \/ pc["scan"] = "none" /\ pc' = [pc EXCEPT ![q] = "none", !["scan"] = "want"]
    /\ UNCHANGED <<main, stopped, job, mon, env, hist>>

EndScan ==
    /\ Running /\ Goto("scan", "use", "none")
    /\ UNCHANGED <<main, stopped, job, mon, env, hist>>

-----------------------------------------------------------------------------
(* The database and its monitor. *)

\* Mutant: a monitor that has given up does not look again.
MutPing ==
    /\ Running /\ healthy
    /\ \/ dbUp /\ Goto("monitor", "use", "idle") /\ healthy' = TRUE /\ retries' = 0
       \/ ~dbUp /\ retries < MaxRetries /\ Goto("monitor", "use", "want")
          /\ retries' = retries + 1 /\ UNCHANGED healthy
       \/ ~dbUp /\ retries = MaxRetries /\ Goto("monitor", "use", "idle")
          /\ healthy' = FALSE /\ retries' = 0
    /\ UNCHANGED <<main, stopped, job, env, hist>>

\* A round of startHealthChecks: a ping, and up to five more after it fails.
\* IsHealthy, and with it ReadyzHandler, reports the last result.
Ping ==
    /\ Running
    /\ \/ dbUp /\ Goto("monitor", "use", "idle") /\ healthy' = TRUE /\ retries' = 0
       \/ ~dbUp /\ retries < MaxRetries /\ Goto("monitor", "use", "want")
          /\ retries' = retries + 1 /\ UNCHANGED healthy
       \/ ~dbUp /\ retries = MaxRetries /\ Goto("monitor", "use", "idle")
          /\ healthy' = FALSE /\ retries' = 0
    /\ UNCHANGED <<main, stopped, job, env, hist>>

DatabaseChange ==
    /\ Running /\ (dbUp => outages < MaxOutages)
    /\ dbUp' = ~dbUp
    /\ outages' = IF dbUp THEN outages + 1 ELSE outages
    /\ UNCHANGED <<main, stopped, pc, job, mon, hist>>

-----------------------------------------------------------------------------
(* main. *)

\* The jobs are started.  The passive monitor gives up without the right to
\* capture, the retention job is not started if no period is set, and begins
\* with a purge if one is.
StartJobs ==
    \E first \in [Periodic -> {"idle", "want", "done"}] :
        pc' = [g \in Goroutines |-> CASE g \in {"alerts", "monitor"} -> "idle"
                                      [] g \in Periodic -> first[g]
                                      [] OTHER -> "none"]

\* Lines 106-174: the database is reached and migrated (Migrations), the KEV
\* catalogue is loaded (KevCatalogue), and the jobs and the server start.
Serve ==
    /\ main = "starting" /\ main' = "serving"
    /\ StartJobs
    /\ UNCHANGED <<stopped, job, mon, env, hist>>

\* log.Fatalf: the database cannot be reached or migrated, the port is taken.
Fatal ==
    /\ main \in {"starting", "serving"} /\ main' = "failed"
    /\ UNCHANGED <<stopped, pc, job, mon, env, hist>>

\* SIGTERM, lines 174-191.
Signal ==
    /\ main = "serving"
    /\ main' = "draining" /\ stopped' = TRUE
    /\ UNCHANGED <<pc, job, mon, env, hist>>

\* srv.Shutdown returns when no request is left, or after drainTimeout.
Drained ==
    /\ main = "draining"
    /\ \A q \in Requests : pc[q] = "none"
    /\ main' = "waiting"
    /\ UNCHANGED <<stopped, pc, job, mon, env, hist>>
DrainTimeout ==
    /\ main = "draining"
    /\ \E q \in Requests : pc[q] # "none"
    /\ main' = "waiting" /\ overdue' = TRUE
    /\ UNCHANGED <<stopped, pc, job, mon, env, cut>>

\* Mutant: only the alert monitor is in the wait group.
MutExit ==
    /\ main = "waiting"
    /\ pc["alerts"] = "done"
    /\ main' = "exited"
    /\ cut' = {g \in Goroutines : pc[g] \notin {"none", "idle", "done"}}
    /\ UNCHANGED <<stopped, pc, job, mon, env, overdue>>

\* wg.Wait returns, the database is closed and the process ends, whatever the
\* other goroutines are doing.
Exit ==
    /\ main = "waiting"
    /\ \A w \in Workers : pc[w] = "done"
    /\ main' = "exited"
    /\ cut' = {g \in Goroutines : pc[g] \notin {"none", "idle", "done"}}
    /\ UNCHANGED <<stopped, pc, job, mon, env, overdue>>

Next ==
    \/ \E g \in Goroutines : Acquire(g) \/ Wake(g) \/ EndRound(g) \/ Stop(g)
    \/ MonitorTick \/ QueryRows \/ NextRow \/ AcquireSecond \/ AlertCreated
    \/ \E q \in Requests : Arrive(q) \/ Answer(q)
    \/ EndScan \/ Ping \/ DatabaseChange
    \/ Serve \/ Fatal \/ Signal \/ Drained \/ DrainTimeout \/ Exit

Spec == Init /\ [][Next]_vars

(***************************************************************************)
(* Fairness.  Statements end: the driver answers or fails.  A connection   *)
(* that becomes free goes to one of those who wait for one, and none of    *)
(* the jobs waits for ever (strong fairness).  A select with two ready     *)
(* cases takes each of them sooner or later (strong fairness of Stop).     *)
(* The ticker of the database monitor fires.  Nobody has to send a request *)
(* or a signal.                                                            *)
(***************************************************************************)
Fairness ==
    /\ \A g \in Periodic \cup {"monitor"} : SF_vars(Acquire(g))
    /\ SF_vars(QueryRows \/ AcquireSecond)
    /\ \A w \in Workers : SF_vars(Stop(w))
    /\ \A g \in Periodic : WF_vars(EndRound(g))
    /\ \A q \in Requests : WF_vars(Answer(q))
    /\ WF_vars(NextRow \/ AlertCreated) /\ WF_vars(EndScan)
    /\ WF_vars(Wake("monitor") \/ Ping)
    /\ WF_vars(Drained \/ DrainTimeout \/ Exit)

FairSpec == Spec /\ Fairness

-----------------------------------------------------------------------------
(* The process that has exited has cut no work of the jobs that main waits *)
(* for, and no request unless the drain took longer than drainTimeout.     *)
(* (A scan that is running is cut.)                                        *)
WorkFinished ==
    main = "exited" =>
        /\ cut \cap Workers = {}
        /\ cut \cap Requests # {} => overdue

(* Everyone waiting on everyone: there is always a connection that is free *)
(* or in the hands of a goroutine that does not wait for another one.      *)
PoolNotWedged ==
    Running => Free \/ \E g \in Goroutines : pc[g] \in {"use", "rows", "use2"}

(* A process that has been told to stop stops.                             *)
ShutdownEnds == main = "draining" ~> main = "exited"

(* Readiness follows the database: once it stays up the process reports    *)
(* so, and once it stays away too.                                         *)
ReadinessFollows ==
    /\ <>[](Running /\ dbUp) => <>[]healthy
    /\ <>[](Running /\ ~dbUp) => <>[]~healthy
=============================================================================
