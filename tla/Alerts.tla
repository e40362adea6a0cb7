------------------------------- MODULE Alerts -------------------------------
(***************************************************************************)
(* Alerts and their webhooks (backend/alerts/engine.go, webhooks.go).      *)
(* CreateAlert is called by the goroutines of scans and discoveries and by *)
(* the alert monitor of every replica; it looks for an open alert of the   *)
(* same device and type and inserts one if it finds none, two statements   *)
(* without a transaction.  Each new alert starts a dispatcher, and that    *)
(* one goroutine per webhook, which tries up to maxWebhookRetries times.   *)
(*                                                                         *)
(* A kind stands for a device, an alert type and its severity.  Payloads,  *)
(* delays between attempts and webhooks.last_triggered are left out.       *)
(***************************************************************************)
EXTENDS Naturals

CONSTANTS
    Callers,      \* goroutines that call CreateAlert
    Kinds,        \* devices and types of alert
    AlertIds,     \* rows of alerts: bounds the number of inserts
    Hooks,        \* rows of webhooks
    Severity,     \* severityLevel of each kind
    MinSeverity,  \* severityLevel of min_severity of each webhook
    MaxRetries,   \* maxWebhookRetries, 3
    MaxFaults     \* bounds failed statements and crashes

ASSUME AlertsAssumption ==
    /\ Severity \in [Kinds -> 0..4]
    /\ MinSeverity \in [Hooks -> 0..4]
    /\ MaxRetries \in Nat \ {0}
    /\ MaxFaults \in Nat

VARIABLES
    alert,      \* state of each row: "open" is unacknowledged and younger
                \* than 24 hours
    kind,       \* what it is about
    pc,         \* where each caller is in CreateAlert
    want,       \* the kind of alert it is asked for
    webhook,    \* rows of webhooks: deleted ones leave their deliveries behind
    dispatch,   \* the dispatcher goroutine of each alert
    job,        \* the delivery goroutine of each alert and webhook
    attempt,    \* attempts it has made
    sent,       \* alerts with webhook_sent
    accepted,   \* pairs an endpoint has answered 2xx (history)
    logged,     \* pairs with a row in webhook_deliveries
    unlogged,   \* pairs for which logDelivery failed (history)
    faults,     \* failed statements and crashes so far
    racing,     \* callers past their SELECT when another caller inserted an
                \* alert of the same kind, or whose SELECT failed (history)
    excused     \* alerts inserted by such a caller (history)

rows     == <<alert, kind>>
callers  == <<pc, want>>
delivery == <<job, attempt, sent, accepted, logged, unlogged>>
vars     == <<rows, callers, webhook, dispatch, delivery, faults, racing, excused>>

Pairs == AlertIds \X Hooks

TypeOK ==
    /\ alert \in [AlertIds -> {"none", "open", "acknowledged", "old"}]
    /\ kind \in [AlertIds -> Kinds]
    /\ pc \in [Callers -> {"idle", "select", "insert"}]
    /\ want \in [Callers -> Kinds]
    /\ webhook \in [Hooks -> {"none", "active", "deleted"}]
    /\ dispatch \in [AlertIds -> {"none", "pending", "done"}]
    /\ job \in [Pairs -> {"none", "trying", "done", "dead"}]
    /\ attempt \in [Pairs -> 0..MaxRetries]
    /\ sent \in SUBSET AlertIds
    /\ accepted \in SUBSET Pairs
    /\ logged \in SUBSET Pairs
    /\ unlogged \in SUBSET Pairs
    /\ faults \in 0..MaxFaults
    /\ racing \in SUBSET Callers
    /\ excused \in SUBSET AlertIds

Init ==
    /\ alert = [a \in AlertIds |-> "none"]
    /\ kind \in {[a \in AlertIds |-> k] : k \in Kinds}
    /\ pc = [c \in Callers |-> "idle"]
    /\ want \in {[c \in Callers |-> k] : k \in Kinds}
    /\ webhook = [h \in Hooks |-> "none"]
    /\ dispatch = [a \in AlertIds |-> "none"]
    /\ job = [p \in Pairs |-> "none"]
    /\ attempt = [p \in Pairs |-> 0]
    /\ sent = {} /\ accepted = {} /\ logged = {} /\ unlogged = {}
    /\ faults = 0
    /\ racing = {} /\ excused = {}

Fault ==
    /\ faults < MaxFaults
    /\ faults' = faults + 1

Goto(c, from, to) ==
    /\ pc[c] = from
    /\ pc' = [pc EXCEPT ![c] = to]

Existing(k) == {a \in AlertIds : alert[a] = "open" /\ kind[a] = k}

-----------------------------------------------------------------------------
(* CreateAlert. *)

\* A scan reports a finding, or a check of the monitor finds a device
\* (checkOfflineDevices, checkFirmwareOverdue, checkUnresolvedCritical).
Call(c, k) ==
    /\ Goto(c, "idle", "select")
    /\ want' = [want EXCEPT ![c] = k]
    /\ UNCHANGED <<rows, webhook, dispatch, delivery, faults, racing, excused>>

\* Mutant: acknowledged alerts count as well, open ones do not.
MutSelectExisting(c) ==
    /\ Goto(c, "select", IF \E a \in AlertIds : alert[a] = "acknowledged" /\ kind[a] = want[c]
                         THEN "idle" ELSE "insert")
    /\ UNCHANGED <<rows, want, webhook, dispatch, delivery, faults, racing, excused>>

\* Lines 39-47: an open alert of the kind ends the call.
SelectExisting(c) ==
    /\ Goto(c, "select", IF Existing(want[c]) # {} THEN "idle" ELSE "insert")
    /\ UNCHANGED <<rows, want, webhook, dispatch, delivery, faults, racing, excused>>

\* Lines 43-44: if the SELECT fails the alert is inserted.
SelectFails(c) ==
    /\ Goto(c, "select", "insert")
    /\ Fault
    /\ racing' = racing \cup {c}
    /\ UNCHANGED <<rows, want, webhook, dispatch, delivery, excused>>

\* The row is in the table.
Inserted(c, a) ==
    /\ alert[a] = "none"
    /\ Goto(c, "insert", "idle")
    /\ alert' = [alert EXCEPT ![a] = "open"]
    /\ kind' = [kind EXCEPT ![a] = want[c]]
    /\ excused' = IF c \in racing THEN excused \cup {a} ELSE excused
    /\ racing' = (racing \cup {d \in Callers : pc[d] = "insert" /\ want[d] = want[c]}) \ {c}

\* Lines 54-67: the row is inserted and the dispatcher started.
InsertAlert(c) ==
    \E a \in AlertIds :
        /\ Inserted(c, a)
        /\ dispatch' = [dispatch EXCEPT ![a] = "pending"]
        /\ UNCHANGED <<want, webhook, delivery, faults>>

\* Lines 58-61: the row is inserted but the reply is lost, and nobody is told.
InsertReplyLost(c) ==
    \E a \in AlertIds :
        /\ Inserted(c, a) /\ Fault
        /\ dispatch' = [dispatch EXCEPT ![a] = "done"]
        /\ UNCHANGED <<want, webhook, delivery>>

\* Lines 58-61: the INSERT fails; the caller ignores the error.
InsertFails(c) ==
    /\ Goto(c, "insert", "idle")
    /\ Fault
    /\ racing' = racing \ {c}
    /\ UNCHANGED <<rows, want, webhook, dispatch, delivery, excused>>

-----------------------------------------------------------------------------
(* DispatchWebhooks, deliverWebhookWithRetry and deliverWebhook. *)

\* The webhooks that want to hear of alert a.
Wanted(a) ==
    {h \in Hooks : webhook[h] = "active" /\ Severity[kind[a]] >= MinSeverity[h]}

\* One goroutine for each of these webhooks.
Tell(a, hooks) ==
    /\ dispatch[a] = "pending"
    /\ dispatch' = [dispatch EXCEPT ![a] = "done"]
    /\ job' = [p \in Pairs |-> IF p[1] = a /\ p[2] \in hooks THEN "trying" ELSE job[p]]
    /\ UNCHANGED <<rows, callers, webhook, attempt, sent, accepted, logged, unlogged, racing,
                   excused>>

\* Lines 57-70: every active webhook that wants this severity is told.
DispatchWebhooks(a) == Tell(a, Wanted(a)) /\ UNCHANGED faults

\* Lines 51-54 and 61-74: the query fails, or a row of it does, or the result
\* breaks off; the webhooks that are not read are not told.
DispatchFails(a) == Fault /\ \E some \in SUBSET Wanted(a) : Tell(a, some)

\* logDelivery: the error of its INSERT is dropped, also that of a webhook
\* that is no longer there for the row to refer to.
logDelivery(p) ==
    \/ /\ logged' = IF webhook[p[2]] = "active" THEN logged \cup {p} ELSE logged
       /\ UNCHANGED <<unlogged, faults>>
    \/ Fault /\ unlogged' = unlogged \cup {p} /\ UNCHANGED logged

\* Mutant: the bound is compared before the attempt is counted.
MutRetry(p) ==
    /\ attempt' = [attempt EXCEPT ![p] = @ + 1]
    /\ job' = [job EXCEPT ![p] = IF attempt[p] < MaxRetries THEN "trying" ELSE "done"]

\* Lines 85-103: an attempt has failed; try again or give up.
Retry(p) ==
    /\ attempt' = [attempt EXCEPT ![p] = @ + 1]
    /\ job' = [job EXCEPT ![p] = IF attempt[p] + 1 < MaxRetries THEN "trying" ELSE "done"]

\* Lines 157-164: the endpoint answers 2xx; the alert is marked, unless that
\* UPDATE fails.
Accepted(p) ==
    /\ job[p] = "trying"
    /\ job' = [job EXCEPT ![p] = "done"]
    /\ attempt' = [attempt EXCEPT ![p] = @ + 1]
    /\ accepted' = accepted \cup {p}
    /\ logDelivery(p)
    /\ sent' \in {sent, sent \cup {p[1]}}
    /\ UNCHANGED <<rows, callers, webhook, dispatch, racing, excused>>

\* Lines 123-132 and 159-167: the request cannot be built, or the endpoint
\* answers with another status; either is logged.
Rejected(p) ==
    /\ job[p] = "trying"
    /\ Retry(p)
    /\ logDelivery(p)
    /\ UNCHANGED <<rows, callers, webhook, dispatch, sent, accepted, racing, excused>>

\* Mutant: the last attempt is taken to be number MaxRetries.
MutNoAnswer(p) ==
    /\ job[p] = "trying"
    /\ Retry(p)
    /\ IF attempt[p] = MaxRetries THEN logDelivery(p) ELSE UNCHANGED <<logged, unlogged, faults>>
    /\ UNCHANGED <<rows, callers, webhook, dispatch, sent, accepted, racing, excused>>

\* Lines 146-152: no connection, or no answer within ten seconds (the
\* endpoint may have acted on the request); only the last one is logged.
NoAnswer(p) ==
    /\ job[p] = "trying"
    /\ Retry(p)
    /\ IF attempt[p] = MaxRetries - 1
       THEN logDelivery(p) ELSE UNCHANGED <<logged, unlogged, faults>>
    /\ UNCHANGED <<rows, callers, webhook, dispatch, sent, accepted, racing, excused>>

-----------------------------------------------------------------------------
(* The operator, time and the process. *)

\* AckAlertHandler, also for an alert that is acknowledged already.
AckAlert(a) ==
    /\ alert[a] # "none"
    /\ alert' = [alert EXCEPT ![a] = "acknowledged"]
    /\ UNCHANGED <<kind, callers, webhook, dispatch, delivery, faults, racing, excused>>

\* 24 hours pass.
Age(a) ==
    /\ alert[a] = "open"
    /\ alert' = [alert EXCEPT ![a] = "old"]
    /\ UNCHANGED <<kind, callers, webhook, dispatch, delivery, faults, racing, excused>>

\* CreateWebhookHandler.
CreateWebhook(h) ==
    /\ webhook[h] = "none"
    /\ webhook' = [webhook EXCEPT ![h] = "active"]
    /\ UNCHANGED <<rows, callers, dispatch, delivery, faults, racing, excused>>

\* DeleteWebhookHandler: the rows about its deliveries go with it (ON DELETE
\* CASCADE), the goroutines that are delivering to it do not.
DeleteWebhook(h) ==
    /\ webhook[h] = "active"
    /\ webhook' = [webhook EXCEPT ![h] = "deleted"]
    /\ logged' = {p \in logged : p[2] # h}
    /\ UNCHANGED <<rows, callers, dispatch, job, attempt, sent, accepted, unlogged, faults,
                   racing, excused>>

\* A process dies with its callers, dispatchers and deliveries.
Crash ==
    /\ Fault
    /\ \E cs \in SUBSET Callers, as \in SUBSET AlertIds :
          /\ pc' = [c \in Callers |-> IF c \in cs THEN "idle" ELSE pc[c]]
          /\ racing' = racing \ cs
          /\ dispatch' = [a \in AlertIds |-> IF a \in as /\ dispatch[a] = "pending"
                                             THEN "done" ELSE dispatch[a]]
          /\ job' = [p \in Pairs |-> IF p[1] \in as /\ job[p] = "trying"
                                     THEN "dead" ELSE job[p]]
    /\ UNCHANGED <<rows, want, webhook, attempt, sent, accepted, logged, unlogged, excused>>

CreateAlert(c) ==
    \/ SelectExisting(c) \/ SelectFails(c) \/ InsertAlert(c) \/ InsertReplyLost(c)
    \/ InsertFails(c)

Deliver(p) == Accepted(p) \/ Rejected(p) \/ NoAnswer(p)

Next ==
    \/ \E c \in Callers : CreateAlert(c) \/ \E k \in Kinds : Call(c, k)
    \/ \E a \in AlertIds : DispatchWebhooks(a) \/ DispatchFails(a) \/ AckAlert(a) \/ Age(a)
    \/ \E p \in Pairs : Deliver(p)
    \/ \E h \in Hooks : CreateWebhook(h) \/ DeleteWebhook(h)
    \/ Crash

Spec == Init /\ [][Next]_vars

-----------------------------------------------------------------------------
(* Properties. *)

(* The exact window of the deduplication of lines 39-47: two open alerts   *)
(* of one device and type exist only if the caller that inserted one of    *)
(* them had made its SELECT before the other's INSERT, or its SELECT had   *)
(* failed.  An acknowledgement or the passing of 24 hours never makes one. *)
DuplicatesExplained ==
    \A a, b \in AlertIds :
        (a # b /\ alert[a] = "open" /\ alert[b] = "open" /\ kind[a] = kind[b]) =>
            a \in excused \/ b \in excused

(* The delivery log is complete: whatever mix of timeouts, refusals and    *)
(* acceptances a delivery went through, once it is over there is a row     *)
(* about it in webhook_deliveries, unless the INSERT of that row failed or *)
(* the webhook was deleted; and it is over only when it was accepted or    *)
(* all attempts were used.                                                 *)
FinishedIsLogged ==
    \A p \in Pairs :
        job[p] = "done" => /\ p \in logged \cup unlogged \/ webhook[p[2]] = "deleted"
                           /\ p \in accepted \/ attempt[p] = MaxRetries
=============================================================================
