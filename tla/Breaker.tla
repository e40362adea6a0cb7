------------------------------ MODULE Breaker ------------------------------
(***************************************************************************)
(* The circuit breaker of backend/breaker/breaker.go, at the grain of its  *)
(* atomic loads and stores.  Any number of goroutines call Execute at the  *)
(* same time (kev/updater.go and kev/epss.go share one breaker each        *)
(* between their batches and their tickers); the mutex covers only the     *)
(* lock section (lines 101-109), every other access is a lone atomic       *)
(* operation that other callers may interleave with.                       *)
(*                                                                         *)
(* Time is kept as the age of lastFailure, saturated just beyond           *)
(* resetTimeout: the code only ever asks whether time.Since(lastFailure)   *)
(* exceeds resetTimeout.  failures saturates at maxFailures: the code only *)
(* asks whether it has reached maxFailures, adds one, or stores zero.      *)
(***************************************************************************)
EXTENDS Naturals, FiniteSets

CONSTANTS
    Callers,        \* goroutines that may be inside Execute
    MaxFailures,    \* Options.MaxFailures
    ResetTimeout    \* Options.ResetTimeout, in clock ticks

ASSUME MaxFailuresAssumption  == MaxFailures \in Nat \ {0}
ASSUME ResetTimeoutAssumption == ResetTimeout \in Nat \ {0}

VARIABLES
    state,      \* b.state
    failures,   \* b.failures, saturated at MaxFailures
    age,        \* now - b.lastFailure, saturated at Elapsed
    probing,    \* b.probing
    mu,         \* b.mu: the callers inside the lock section
    healthy,    \* whether the dependency behind fn() answers
    pc,         \* where each caller is in Execute
    saw,        \* the state each caller read on line 85
    lastFail    \* age of the lastFailure each caller loaded on line 86

shared == <<state, failures, age, probing, mu>>
vars   == <<state, failures, age, probing, mu, healthy, pc, saw, lastFail>>

StateClosed   == "closed"
StateHalfOpen == "half-open"
StateOpen     == "open"
States        == {StateClosed, StateHalfOpen, StateOpen}

\* The saturated age: more than ResetTimeout has passed.  The zero time that
\* New and Reset store is this old as well.
Elapsed == ResetTimeout + 1
Ages    == 0..Elapsed

Labels == {"idle", "load", "since", "cas", "half", "lock", "locked", "trip",
           "stamp", "fn", "release_ok", "release_err", "ok_state", "ok_close",
           "ok_zero", "err_add", "err_stamp", "err_check", "err_open"}

TypeOK ==
    /\ state \in States
    /\ failures \in 0..MaxFailures
    /\ age \in Ages
    /\ probing \in {0, 1}
    /\ mu \in SUBSET Callers
    /\ healthy \in BOOLEAN
    /\ pc \in [Callers -> Labels]
    /\ saw \in [Callers -> States]
    /\ lastFail \in [Callers -> Ages]

\* New: closed, no failures, lastFailure the zero time.
Init ==
    /\ state = StateClosed
    /\ failures = 0
    /\ age = Elapsed
    /\ probing = 0
    /\ mu = {}
    /\ healthy \in BOOLEAN
    /\ pc = [c \in Callers |-> "idle"]
    /\ saw = [c \in Callers |-> StateClosed]
    /\ lastFail = [c \in Callers |-> 0]

At(c, from, to) ==
    /\ pc[c] = from
    /\ pc' = [pc EXCEPT ![c] = to]

\* wasHalfOpen: a caller that saw Open gets past line 99 only through line 95.
WasHalfOpen(c) == saw[c] = StateOpen

Older(a) == IF a < Elapsed THEN a + 1 ELSE a

-----------------------------------------------------------------------------
(* Execute, lines 84-99: the admission test. *)

\* Line 85, b.State().
Enter(c) ==
    /\ At(c, "idle", IF state = StateOpen THEN "load" ELSE "lock")
    /\ saw' = [saw EXCEPT ![c] = state]
    /\ UNCHANGED <<shared, healthy, lastFail>>

\* Line 86, b.lastFailure.Load().
LoadLastFailure(c) ==
    /\ At(c, "load", "since")
    /\ lastFail' = [lastFail EXCEPT ![c] = age]
    /\ UNCHANGED <<shared, healthy, saw>>

\* Mutant: a call that is turned away counts as the last failure.
MutCheckTimeoutStamps(c) ==
    /\ At(c, "since", IF lastFail[c] > ResetTimeout THEN "cas" ELSE "idle")
    /\ age' = IF lastFail[c] > ResetTimeout THEN age ELSE 0
    /\ lastFail' = [lastFail EXCEPT ![c] = 0]
    /\ UNCHANGED <<state, failures, probing, mu, healthy, saw>>

\* Line 87, time.Since(lastFail) > b.resetTimeout.  Line 97 returns
\* ErrCircuitOpen.
CheckTimeout(c) ==
    /\ At(c, "since", IF lastFail[c] > ResetTimeout THEN "cas" ELSE "idle")
    /\ lastFail' = [lastFail EXCEPT ![c] = 0]
    /\ UNCHANGED <<shared, healthy, saw>>

\* Mutant: a store in place of the compare-and-swap.
MutClaimProbeByStore(c) ==
    /\ At(c, "cas", "half")
    /\ probing' = 1
    /\ UNCHANGED <<state, failures, age, mu, healthy, saw, lastFail>>

\* Line 91, the compare-and-swap that admits one probe.
ClaimProbe(c) ==
    /\ IF probing = 0
       THEN At(c, "cas", "half") /\ probing' = 1
       ELSE At(c, "cas", "idle") /\ UNCHANGED probing
    /\ UNCHANGED <<state, failures, age, mu, healthy, saw, lastFail>>

\* Lines 94-95, b.setState(StateHalfOpen).
StoreHalfOpen(c) ==
    /\ At(c, "half", "lock")
    /\ state' = StateHalfOpen
    /\ UNCHANGED <<failures, age, probing, mu, healthy, saw, lastFail>>

-----------------------------------------------------------------------------
(* Execute, lines 101-109: the lock section. *)

\* Lines 101-102, and the unlock of line 109 when the count is low.
LockAndLoadFailures(c) ==
    /\ mu = {}
    /\ IF failures >= MaxFailures
       THEN At(c, "lock", "locked") /\ mu' = {c}
       ELSE At(c, "lock", "fn") /\ UNCHANGED mu
    /\ UNCHANGED <<state, failures, age, probing, healthy, saw, lastFail>>

\* Line 103, b.State() == StateClosed; otherwise the unlock of line 109.
CheckClosed(c) ==
    /\ IF state = StateClosed
       THEN At(c, "locked", "trip") /\ UNCHANGED mu
       ELSE At(c, "locked", "fn") /\ mu' = mu \ {c}
    /\ UNCHANGED <<state, failures, age, probing, healthy, saw, lastFail>>

\* Line 104, b.setState(StateOpen).
TripOpen(c) ==
    /\ At(c, "trip", "stamp")
    /\ state' = StateOpen
    /\ UNCHANGED <<failures, age, probing, mu, healthy, saw, lastFail>>

\* Lines 105-107, the time stamp, the unlock and ErrCircuitOpen.  A probe
\* that is turned away here keeps b.probing set.
TripStamp(c) ==
    /\ At(c, "stamp", "idle")
    /\ age' = 0
    /\ mu' = mu \ {c}
    /\ UNCHANGED <<state, failures, probing, healthy, saw, lastFail>>

-----------------------------------------------------------------------------
(* Execute, lines 111-131: the call and its accounting. *)

\* Line 111, fn() returns: an error if the dependency is down.
CallReturns(c) ==
    /\ \/ healthy /\ At(c, "fn", IF WasHalfOpen(c) THEN "release_ok" ELSE "ok_state")
       \/ ~healthy /\ At(c, "fn", IF WasHalfOpen(c) THEN "release_err" ELSE "err_add")
    /\ UNCHANGED <<shared, healthy, saw, lastFail>>

\* Lines 114-116, b.probing = 0.
ReleaseProbe(c) ==
    /\ \/ At(c, "release_ok", "ok_state")
       \/ At(c, "release_err", "err_add")
    /\ probing' = 0
    /\ UNCHANGED <<state, failures, age, mu, healthy, saw, lastFail>>

\* Line 119, atomic.AddInt32(&b.failures, 1).
AddFailure(c) ==
    /\ At(c, "err_add", "err_stamp")
    /\ failures' = IF failures < MaxFailures THEN failures + 1 ELSE failures
    /\ UNCHANGED <<state, age, probing, mu, healthy, saw, lastFail>>

\* Line 120, b.lastFailure.Store(time.Now()).
StampFailure(c) ==
    /\ At(c, "err_stamp", "err_check")
    /\ age' = 0
    /\ UNCHANGED <<state, failures, probing, mu, healthy, saw, lastFail>>

\* Mutant: the threshold must be exceeded, not reached.
MutCheckFailuresOffByOne(c) ==
    /\ At(c, "err_check", IF failures > MaxFailures THEN "err_open" ELSE "idle")
    /\ UNCHANGED <<shared, healthy, saw, lastFail>>

\* Line 121, the threshold test on a fresh load.
CheckFailures(c) ==
    /\ At(c, "err_check", IF failures >= MaxFailures THEN "err_open" ELSE "idle")
    /\ UNCHANGED <<shared, healthy, saw, lastFail>>

\* Line 122, b.setState(StateOpen).
FailOpen(c) ==
    /\ At(c, "err_open", "idle")
    /\ state' = StateOpen
    /\ UNCHANGED <<failures, age, probing, mu, healthy, saw, lastFail>>

\* Mutant: a success resets the count but leaves the state alone.
MutCheckHalfOpenSkipped(c) ==
    /\ At(c, "ok_state", "ok_zero")
    /\ UNCHANGED <<shared, healthy, saw, lastFail>>

\* Line 125, b.State() == StateHalfOpen.
CheckHalfOpen(c) ==
    /\ At(c, "ok_state", IF state = StateHalfOpen THEN "ok_close" ELSE "ok_zero")
    /\ UNCHANGED <<shared, healthy, saw, lastFail>>

\* Line 126, b.setState(StateClosed).
StoreClosed(c) ==
    /\ At(c, "ok_close", "ok_zero")
    /\ state' = StateClosed
    /\ UNCHANGED <<failures, age, probing, mu, healthy, saw, lastFail>>

\* Line 128, atomic.StoreInt32(&b.failures, 0).
ZeroFailures(c) ==
    /\ At(c, "ok_zero", "idle")
    /\ failures' = 0
    /\ UNCHANGED <<state, age, probing, mu, healthy, saw, lastFail>>

-----------------------------------------------------------------------------
(* Reset, lines 134-139: four stores, none of them under the mutex.  Only  *)
(* the tests call it, on a breaker that nobody else is using.              *)
Reset ==
    /\ \A c \in Callers : pc[c] = "idle"
    /\ failures' = 0
    /\ probing' = 0
    /\ state' = StateClosed
    /\ age' = Elapsed
    /\ UNCHANGED <<mu, healthy, pc, saw, lastFail>>

-----------------------------------------------------------------------------
(* The environment: the clock, and the dependency going down and up. *)

Tick ==
    /\ age' = Older(age)
    /\ lastFail' = [c \in Callers |->
                      IF pc[c] = "since" THEN Older(lastFail[c]) ELSE lastFail[c]]
    /\ UNCHANGED <<state, failures, probing, mu, healthy, pc, saw>>

HealthChange ==
    /\ healthy' = ~healthy
    /\ UNCHANGED <<shared, pc, saw, lastFail>>

-----------------------------------------------------------------------------
Admission(c)  == Enter(c) \/ LoadLastFailure(c) \/ CheckTimeout(c)
                 \/ ClaimProbe(c) \/ StoreHalfOpen(c)
LockSection(c) == LockAndLoadFailures(c) \/ CheckClosed(c) \/ TripOpen(c)
                  \/ TripStamp(c)
Accounting(c) == ReleaseProbe(c) \/ AddFailure(c) \/ StampFailure(c)
                 \/ CheckFailures(c) \/ FailOpen(c) \/ CheckHalfOpen(c)
                 \/ StoreClosed(c) \/ ZeroFailures(c)

\* One step of Execute by caller c.
Execute(c) == Admission(c) \/ LockSection(c) \/ CallReturns(c) \/ Accounting(c)

Next == (\E c \in Callers : Execute(c)) \/ Reset \/ Tick \/ HealthChange
Spec == Init /\ [][Next]_vars

(***************************************************************************)
(* Fairness.  The tickers of kev/updater.go and kev/epss.go keep calling   *)
(* Execute whatever else happens (strong fairness of Enter), every fn() is *)
(* an HTTP call with a client timeout and so returns, a goroutine inside   *)
(* Execute is scheduled, and time passes.  Nothing makes anybody call      *)
(* Reset, or the dependency recover.                                       *)
(***************************************************************************)
Fairness ==
    /\ \A c \in Callers : SF_vars(Enter(c)) /\ WF_vars(pc[c] # "idle" /\ Execute(c))
    /\ WF_vars(Tick)
FairSpec == Spec /\ Fairness

-----------------------------------------------------------------------------
(* Properties. *)

\* The callers between a successful compare-and-swap and line 115.
Probers == {c \in Callers : WasHalfOpen(c)
                            /\ pc[c] \in {"half", "lock", "locked", "trip", "stamp",
                                          "fn", "release_ok", "release_err"}}

(* The probe flag is an ownership token: at most one caller that came      *)
(* through the compare-and-swap of line 91 is between it and line 115, the *)
(* flag is set while one is, and a lone trip aside (line 107 returns       *)
(* without releasing it) nobody else can have set it.                      *)
SingleProber ==
    /\ \A c, d \in Probers : c = d
    /\ Probers # {} => probing = 1

(* Once failures has reached maxFailures the breaker is closed only while  *)
(* the goroutine that will open it (lines 119-122), or the one that is     *)
(* about to zero the count (line 128), is still on its way: no finished    *)
(* failure can leave a breaker over its threshold and closed.              *)
ClosedUnderThreshold ==
    (failures >= MaxFailures /\ state = StateClosed) =>
        \E c \in Callers : pc[c] \in {"err_stamp", "err_check", "err_open", "ok_zero"}

\* The probe slot is taken and nobody is there to release it.
Leaked == probing = 1 /\ Probers = {}

(* The one way to a lock-out: goroutines that keep calling Execute reach   *)
(* fn() again and again, through any outage and any interleaving, unless a *)
(* probe was turned away on lines 103-107 and left the slot taken.         *)
LockOutIsLeak == []<>(\E c \in Callers : pc[c] = "fn") \/ <>[]Leaked

(* The one way not to recover: once the dependency stays up the breaker    *)
(* ends up closed for good, unless the slot was left taken.                *)
RecoversUnlessLeaked ==
    <>[]healthy => <>[](state = StateClosed) \/ <>[]Leaked
=============================================================================
