---------------------------- MODULE AlertsProofs ----------------------------
(***************************************************************************)
(* Theorems about Alerts, for any number of callers, kinds, rows, webhooks *)
(* and attempts: a type invariant that knows how far each delivery has     *)
(* come, and over it one layer for the log of deliveries and one for the   *)
(* window of CreateAlert.                                                  *)
(***************************************************************************)
EXTENDS Alerts, TLAPS

\* A row that is not there has no dispatcher, and an alert that has not been
\* dispatched has no deliveries.
NotYetDispatched ==
    /\ \A a \in AlertIds : alert[a] = "none" => dispatch[a] = "none"
    /\ \A p \in Pairs : dispatch[p[1]] # "done" => job[p] = "none" /\ attempt[p] = 0

\* Deliveries go to webhooks that existed, and while one tries it has an
\* attempt left.
Delivering ==
    \A p \in Pairs :
        /\ job[p] # "none" => webhook[p[2]] # "none"
        /\ job[p] = "trying" => attempt[p] < MaxRetries

TypeInv == TypeOK /\ NotYetDispatched /\ Delivering

(* A pair is an alert and a webhook.                                       *)
LEMMA PairsFacts == \A p \in Pairs : p[1] \in AlertIds /\ p[2] \in Hooks
BY DEF Pairs

(* The empty tables satisfy the type invariant.                            *)
LEMMA InitTypeInv == Init => TypeInv
BY AlertsAssumption, PairsFacts DEF Init, TypeInv, TypeOK, NotYetDispatched, Delivering

(* Every statement, failed or not, and every answer of an endpoint keeps   *)
(* the types and the bound on attempts.                                    *)
LEMMA NextTypeInv == TypeInv /\ [Next]_vars => TypeInv'
<1> SUFFICES ASSUME TypeInv, [Next]_vars PROVE TypeInv'
  OBVIOUS
<1> USE AlertsAssumption, PairsFacts
    DEF TypeInv, TypeOK, NotYetDispatched, Delivering, rows, callers, delivery
<1>1. ASSUME NEW c \in Callers, NEW k \in Kinds, Call(c, k) PROVE TypeInv'
  BY <1>1 DEF Call, Goto
<1>2. ASSUME NEW c \in Callers, SelectExisting(c) PROVE TypeInv'
  BY <1>2 DEF SelectExisting, Goto
<1>3. ASSUME NEW c \in Callers, SelectFails(c) PROVE TypeInv'
  BY <1>3 DEF SelectFails, Goto, Fault
<1>4. ASSUME NEW c \in Callers, InsertAlert(c) \/ InsertReplyLost(c) PROVE TypeInv'
  BY <1>4 DEF InsertAlert, InsertReplyLost, Inserted, Goto, Fault
<1>5. ASSUME NEW c \in Callers, InsertFails(c) PROVE TypeInv'
  BY <1>5 DEF InsertFails, Goto, Fault
<1>6. ASSUME NEW a \in AlertIds, DispatchWebhooks(a) PROVE TypeInv'
  BY <1>6 DEF DispatchWebhooks, Tell, Wanted
<1>7. ASSUME NEW a \in AlertIds, DispatchFails(a) PROVE TypeInv'
  BY <1>7 DEF DispatchFails, Tell, Wanted, Fault
<1>8. ASSUME NEW a \in AlertIds, AckAlert(a) \/ Age(a) PROVE TypeInv'
  BY <1>8 DEF AckAlert, Age
<1>9. ASSUME NEW p \in Pairs, Accepted(p) PROVE TypeInv'
  BY <1>9 DEF Accepted, logDelivery, Fault
<1>10. ASSUME NEW p \in Pairs, Rejected(p) PROVE TypeInv'
  BY <1>10 DEF Rejected, Retry, logDelivery, Fault
<1>11. ASSUME NEW p \in Pairs, NoAnswer(p) PROVE TypeInv'
  BY <1>11 DEF NoAnswer, Retry, logDelivery, Fault
<1>12. ASSUME NEW h \in Hooks, CreateWebhook(h) \/ DeleteWebhook(h) PROVE TypeInv'
  BY <1>12 DEF CreateWebhook, DeleteWebhook
<1>13. CASE Crash
  <2>1. PICK cs \in SUBSET Callers, as \in SUBSET AlertIds :
          /\ pc' = [c \in Callers |-> IF c \in cs THEN "idle" ELSE pc[c]]
          /\ racing' = racing \ cs
          /\ dispatch' = [a \in AlertIds |-> IF a \in as /\ dispatch[a] = "pending"
                                             THEN "done" ELSE dispatch[a]]
          /\ job' = [p \in Pairs |-> IF p[1] \in as /\ job[p] = "trying"
                                     THEN "dead" ELSE job[p]]
    BY <1>13 DEF Crash
  <2>2. TypeOK'
    BY <1>13, <2>1 DEF Crash, Fault
  <2>3. NotYetDispatched'
    BY <1>13, <2>1 DEF Crash
  <2>4. Delivering'
    BY <1>13, <2>1 DEF Crash
  <2>5. QED
    BY <2>2, <2>3, <2>4
<1>14. CASE UNCHANGED vars
  BY <1>14 DEF vars
<1>15. QED
  BY <1>1, <1>2, <1>3, <1>4, <1>5, <1>6, <1>7, <1>8, <1>9, <1>10, <1>11, <1>12, <1>13, <1>14
     DEF Next, CreateAlert, Deliver

(* The type invariant holds in every reachable state.                      *)
LEMMA TypeInvHolds == Spec => []TypeInv
<1>1. QED
  BY InitTypeInv, NextTypeInv, PTL DEF Spec

(* Type correctness of the rows, the goroutines of CreateAlert and of the  *)
(* deliveries; no delivery makes more than MaxRetries attempts.            *)
THEOREM TypeCorrect == Spec => []TypeOK
<1>1. TypeInv => TypeOK
  BY DEF TypeInv
<1>2. QED
  BY <1>1, TypeInvHolds, PTL

-----------------------------------------------------------------------------
(* The log of deliveries. *)

(* A step of a delivery ends it with a row, a dropped row or a deleted     *)
(* webhook, and no other step takes a row away except a deletion.          *)
LEMMA NextLogged ==
    TypeInv /\ FinishedIsLogged /\ [Next]_vars => FinishedIsLogged'
<1> SUFFICES ASSUME TypeInv, FinishedIsLogged, [Next]_vars PROVE FinishedIsLogged'
  OBVIOUS
<1> USE AlertsAssumption, PairsFacts
    DEF TypeInv, TypeOK, NotYetDispatched, Delivering, FinishedIsLogged, rows, callers, delivery
<1>1. ASSUME NEW c \in Callers, CreateAlert(c) \/ \E k \in Kinds : Call(c, k)
      PROVE FinishedIsLogged'
  BY <1>1 DEF CreateAlert, Call, SelectExisting, SelectFails, Inserted, InsertAlert,
     InsertReplyLost, InsertFails
<1>2. ASSUME NEW a \in AlertIds, DispatchWebhooks(a) PROVE FinishedIsLogged'
  BY <1>2 DEF DispatchWebhooks, Tell
<1>3. ASSUME NEW a \in AlertIds, DispatchFails(a) \/ AckAlert(a) \/ Age(a)
      PROVE FinishedIsLogged'
  BY <1>3 DEF DispatchFails, Tell, AckAlert, Age
<1>4. ASSUME NEW p \in Pairs, Accepted(p) PROVE FinishedIsLogged'
  BY <1>4 DEF Accepted, logDelivery
<1>5. ASSUME NEW p \in Pairs, Rejected(p) PROVE FinishedIsLogged'
  <2>1. attempt[p] \in Nat /\ attempt[p] < MaxRetries
    BY <1>5 DEF Rejected
  <2>2. job'[p] = "done" => attempt'[p] = MaxRetries
    BY <1>5, <2>1 DEF Rejected, Retry
  <2>3. p \in logged' \cup unlogged' \/ webhook'[p[2]] = "deleted"
    BY <1>5 DEF Rejected, logDelivery
  <2>4. ASSUME NEW q \in Pairs, q # p, job'[q] = "done"
        PROVE /\ q \in logged' \cup unlogged' \/ webhook'[q[2]] = "deleted"
              /\ q \in accepted' \/ attempt'[q] = MaxRetries
    BY <1>5, <2>4 DEF Rejected, Retry, logDelivery
  <2>5. QED
    BY <2>2, <2>3, <2>4
<1>6. ASSUME NEW p \in Pairs, NoAnswer(p) PROVE FinishedIsLogged'
  <2>1. attempt[p] \in Nat /\ attempt[p] < MaxRetries
    BY <1>6 DEF NoAnswer
  <2>2. job'[p] = "done" => attempt[p] = MaxRetries - 1 /\ attempt'[p] = MaxRetries
    BY <1>6, <2>1 DEF NoAnswer, Retry
  <2>3. job'[p] = "done" => p \in logged' \cup unlogged' \/ webhook'[p[2]] = "deleted"
    BY <1>6, <2>2 DEF NoAnswer, logDelivery
  <2>4. ASSUME NEW q \in Pairs, q # p, job'[q] = "done"
        PROVE /\ q \in logged' \cup unlogged' \/ webhook'[q[2]] = "deleted"
              /\ q \in accepted' \/ attempt'[q] = MaxRetries
    BY <1>6, <2>4 DEF NoAnswer, Retry, logDelivery
  <2>5. QED
    BY <2>2, <2>3, <2>4
<1>7. ASSUME NEW h \in Hooks, CreateWebhook(h) PROVE FinishedIsLogged'
  BY <1>7 DEF CreateWebhook
<1>8. ASSUME NEW h \in Hooks, DeleteWebhook(h) PROVE FinishedIsLogged'
  BY <1>8 DEF DeleteWebhook
<1>9. CASE Crash
  <2>0. PICK cs \in SUBSET Callers, as \in SUBSET AlertIds :
          /\ pc' = [c \in Callers |-> IF c \in cs THEN "idle" ELSE pc[c]]
          /\ racing' = racing \ cs
          /\ dispatch' = [a \in AlertIds |-> IF a \in as /\ dispatch[a] = "pending"
                                             THEN "done" ELSE dispatch[a]]
          /\ job' = [p \in Pairs |-> IF p[1] \in as /\ job[p] = "trying"
                                     THEN "dead" ELSE job[p]]
    BY <1>9 DEF Crash
  <2>1. \A p \in Pairs : job'[p] = "done" => job[p] = "done"
    BY <2>0
  <2>2. UNCHANGED <<webhook, attempt, accepted, logged, unlogged>>
    BY <1>9 DEF Crash
  <2>3. QED
    BY <2>1, <2>2
<1>10. CASE UNCHANGED vars
  BY <1>10 DEF vars
<1>11. QED
  BY <1>1, <1>2, <1>3, <1>4, <1>5, <1>6, <1>7, <1>8, <1>9, <1>10 DEF Next, Deliver

(* deliverWebhookWithRetry never ends a delivery without a trace of it in  *)
(* webhook_deliveries, and never gives up before its last attempt, for any *)
(* number of attempts and any mix of timeouts and answers.                 *)
THEOREM DeliveriesAreLogged == Spec => []FinishedIsLogged
<1>1. Init => FinishedIsLogged
  BY DEF Init, FinishedIsLogged
<1>2. QED
  BY <1>1, TypeInvHolds, NextLogged, PTL DEF Spec

-----------------------------------------------------------------------------
(* The window of CreateAlert. *)

\* A caller about to insert although an open alert of the kind exists was
\* overtaken, or its SELECT failed.
InsertersRaced ==
    \A c \in Callers : (pc[c] = "insert" /\ Existing(want[c]) # {}) => c \in racing

DedupInv == InsertersRaced /\ DuplicatesExplained

(* An INSERT next to an open alert of the same kind comes from a caller    *)
(* that raced, and makes racers of the callers it overtakes.               *)
LEMMA NextDedup == TypeInv /\ DedupInv /\ [Next]_vars => DedupInv'
<1> SUFFICES ASSUME TypeInv, DedupInv, [Next]_vars PROVE DedupInv'
  OBVIOUS
<1> USE DEF TypeInv, TypeOK, DedupInv, InsertersRaced, DuplicatesExplained, Existing,
            rows, callers
<1>1. ASSUME NEW c \in Callers, NEW k \in Kinds, Call(c, k) PROVE DedupInv'
  BY <1>1 DEF Call, Goto
<1>2. ASSUME NEW c \in Callers, SelectExisting(c) PROVE DedupInv'
  BY <1>2 DEF SelectExisting, Goto
<1>3. ASSUME NEW c \in Callers, SelectFails(c) PROVE DedupInv'
  BY <1>3 DEF SelectFails, Goto
<1>4. ASSUME NEW c \in Callers, InsertAlert(c) \/ InsertReplyLost(c) PROVE DedupInv'
  <2>1. PICK a \in AlertIds :
          /\ alert[a] = "none"
          /\ Goto(c, "insert", "idle")
          /\ alert' = [alert EXCEPT ![a] = "open"]
          /\ kind' = [kind EXCEPT ![a] = want[c]]
          /\ excused' = IF c \in racing THEN excused \cup {a} ELSE excused
          /\ racing' = (racing \cup {d \in Callers : pc[d] = "insert" /\ want[d] = want[c]})
                       \ {c}
          /\ UNCHANGED want
    BY <1>4 DEF InsertAlert, InsertReplyLost, Inserted
  <2>2. InsertersRaced'
    BY <2>1 DEF Goto
  <2>3. DuplicatesExplained'
    BY <2>1 DEF Goto
  <2>4. QED
    BY <2>2, <2>3
<1>5. ASSUME NEW c \in Callers, InsertFails(c) PROVE DedupInv'
  BY <1>5 DEF InsertFails, Goto
<1>6. ASSUME NEW a \in AlertIds, DispatchWebhooks(a) \/ DispatchFails(a) PROVE DedupInv'
  BY <1>6 DEF DispatchWebhooks, DispatchFails, Tell
<1>7. ASSUME NEW a \in AlertIds, AckAlert(a) \/ Age(a) PROVE DedupInv'
  BY <1>7 DEF AckAlert, Age
<1>8. ASSUME NEW p \in Pairs, Deliver(p) PROVE DedupInv'
  BY <1>8 DEF Deliver, Accepted, Rejected, NoAnswer
<1>9. ASSUME NEW h \in Hooks, CreateWebhook(h) \/ DeleteWebhook(h) PROVE DedupInv'
  BY <1>9 DEF CreateWebhook, DeleteWebhook
<1>10. CASE Crash
  BY <1>10 DEF Crash
<1>11. CASE UNCHANGED vars
  BY <1>11 DEF vars
<1>12. QED
  BY <1>1, <1>2, <1>3, <1>4, <1>5, <1>6, <1>7, <1>8, <1>9, <1>10, <1>11
     DEF Next, CreateAlert

(* Two open alerts of one device and type exist only through the window    *)
(* between the SELECT and the INSERT of CreateAlert, or a failed SELECT.   *)
THEOREM OnlyRacersDuplicate == Spec => []DuplicatesExplained
<1>1. Init => DedupInv
  BY DEF Init, DedupInv, InsertersRaced, DuplicatesExplained
<1>2. DedupInv => DuplicatesExplained
  BY DEF DedupInv
<1>3. QED
  BY <1>1, <1>2, TypeInvHolds, NextDedup, PTL DEF Spec
=============================================================================
