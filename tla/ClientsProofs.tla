---------------------------- MODULE ClientsProofs ----------------------------
(***************************************************************************)
(* Theorems about the two guards that clients put before a service.        *)
(*                                                                         *)
(* The circuit breaker of the updaters (Breaker), for any set of callers,  *)
(* any threshold and any reset timeout.                                    *)
(*                                                                         *)
(* The interceptors of the browser client (WebClient), for any number of   *)
(* requests, of replicas and of faults.                                    *)
(***************************************************************************)
EXTENDS Breaker, WebClient, FiniteSetTheorems, TLAPS

-----------------------------------------------------------------------------
(* The circuit breaker. *)

\* Only a caller that read Open on line 85 runs lines 86-95 and 115.
OpenPathSawOpen ==
    \A c \in Callers :
        pc[c] \in {"load", "since", "cas", "half", "release_ok", "release_err"}
            => saw[c] = StateOpen

-----------------------------------------------------------------------------
(* Every variable keeps its type: in particular the saturated count and    *)
(* ages stay in range and probing is a flag, whatever the interleaving of  *)
(* the atomic operations of Execute.                                       *)
THEOREM TypeCorrect == Spec => []TypeOK
<1> USE MaxFailuresAssumption, ResetTimeoutAssumption
<1>1. Init => TypeOK
  BY DEF Init, TypeOK, States, StateClosed, StateHalfOpen, StateOpen, Ages,
         Elapsed, Labels
<1>2. TypeOK /\ [Next]_vars => TypeOK'
  <2> SUFFICES ASSUME TypeOK, [Next]_vars PROVE TypeOK'
    OBVIOUS
  <2> USE DEF TypeOK, States, StateClosed, StateHalfOpen, StateOpen, Ages,
              Elapsed, Labels, At, shared
  <2>1. ASSUME NEW c \in Callers, Admission(c) PROVE TypeOK'
    <3>1. CASE Enter(c)              BY <3>1 DEF Enter
    <3>2. CASE LoadLastFailure(c)    BY <3>2 DEF LoadLastFailure
    <3>3. CASE CheckTimeout(c)       BY <3>3 DEF CheckTimeout
    <3>4. CASE ClaimProbe(c)         BY <3>4 DEF ClaimProbe
    <3>5. CASE StoreHalfOpen(c)      BY <3>5 DEF StoreHalfOpen
    <3>6. QED  BY <2>1, <3>1, <3>2, <3>3, <3>4, <3>5 DEF Admission
  <2>2. ASSUME NEW c \in Callers, LockSection(c) PROVE TypeOK'
    <3>1. CASE LockAndLoadFailures(c)  BY <3>1 DEF LockAndLoadFailures
    <3>2. CASE CheckClosed(c)          BY <3>2 DEF CheckClosed
    <3>3. CASE TripOpen(c)             BY <3>3 DEF TripOpen
    <3>4. CASE TripStamp(c)            BY <3>4 DEF TripStamp
    <3>5. QED  BY <2>2, <3>1, <3>2, <3>3, <3>4 DEF LockSection
  <2>3. ASSUME NEW c \in Callers, CallReturns(c) PROVE TypeOK'
    BY <2>3 DEF CallReturns, WasHalfOpen
  <2>4. ASSUME NEW c \in Callers, Accounting(c) PROVE TypeOK'
    <3>1. CASE ReleaseProbe(c)   BY <3>1 DEF ReleaseProbe
    <3>2. CASE AddFailure(c)     BY <3>2 DEF AddFailure
    <3>3. CASE StampFailure(c)   BY <3>3 DEF StampFailure
    <3>4. CASE CheckFailures(c)  BY <3>4 DEF CheckFailures
    <3>5. CASE FailOpen(c)       BY <3>5 DEF FailOpen
    <3>6. CASE CheckHalfOpen(c)  BY <3>6 DEF CheckHalfOpen
    <3>7. CASE StoreClosed(c)    BY <3>7 DEF StoreClosed
    <3>8. CASE ZeroFailures(c)   BY <3>8 DEF ZeroFailures
    <3>9. QED  BY <2>4, <3>1, <3>2, <3>3, <3>4, <3>5, <3>6, <3>7, <3>8
              DEF Accounting
  <2>5. CASE Tick              BY <2>5 DEF Tick, Older
  <2>6. CASE HealthChange      BY <2>6 DEF HealthChange
  <2>7. CASE Reset             BY <2>7 DEF Reset
  <2>8. CASE UNCHANGED vars    BY <2>8 DEF vars
  <2>9. QED  BY <2>1, <2>2, <2>3, <2>4, <2>5, <2>6, <2>7, <2>8 DEF Next, Execute
<1>3. QED  BY <1>1, <1>2, PTL DEF Spec

-----------------------------------------------------------------------------
(* No finished failure leaves the breaker over its threshold and closed:   *)
(* ClosedUnderThreshold is inductive on its own, because line 126 (closed) *)
(* always runs before line 128 (zero) of the same caller, and line 119     *)
(* (count) before line 122 (open).                                         *)
THEOREM ThresholdOpens == Spec => []ClosedUnderThreshold
<1>1. Init => ClosedUnderThreshold
  BY MaxFailuresAssumption DEF Init, ClosedUnderThreshold
<1>2. TypeOK /\ ClosedUnderThreshold /\ [Next]_vars => ClosedUnderThreshold'
  <2> SUFFICES ASSUME TypeOK, ClosedUnderThreshold, [Next]_vars
               PROVE  ClosedUnderThreshold'
    OBVIOUS
  <2> USE MaxFailuresAssumption
      DEF ClosedUnderThreshold, TypeOK, At, shared, StateClosed, StateHalfOpen,
          StateOpen
  <2>1. ASSUME NEW c \in Callers, Admission(c) PROVE ClosedUnderThreshold'
    <3>1. CASE Enter(c)              BY <3>1 DEF Enter
    <3>2. CASE LoadLastFailure(c)    BY <3>2 DEF LoadLastFailure
    <3>3. CASE CheckTimeout(c)       BY <3>3 DEF CheckTimeout
    <3>4. CASE ClaimProbe(c)         BY <3>4 DEF ClaimProbe
    <3>5. CASE StoreHalfOpen(c)      BY <3>5 DEF StoreHalfOpen
    <3>6. QED  BY <2>1, <3>1, <3>2, <3>3, <3>4, <3>5 DEF Admission
  <2>2. ASSUME NEW c \in Callers, LockSection(c) PROVE ClosedUnderThreshold'
    <3>1. CASE LockAndLoadFailures(c)  BY <3>1 DEF LockAndLoadFailures
    <3>2. CASE CheckClosed(c)          BY <3>2 DEF CheckClosed
    <3>3. CASE TripOpen(c)             BY <3>3 DEF TripOpen
    <3>4. CASE TripStamp(c)            BY <3>4 DEF TripStamp
    <3>5. QED  BY <2>2, <3>1, <3>2, <3>3, <3>4 DEF LockSection
  <2>3. ASSUME NEW c \in Callers, CallReturns(c) PROVE ClosedUnderThreshold'
    BY <2>3 DEF CallReturns, WasHalfOpen
  <2>4. ASSUME NEW c \in Callers, Accounting(c) PROVE ClosedUnderThreshold'
    <3>1. CASE ReleaseProbe(c)   BY <3>1 DEF ReleaseProbe
    <3>2. CASE AddFailure(c)     BY <3>2 DEF AddFailure
    <3>3. CASE StampFailure(c)   BY <3>3 DEF StampFailure
    <3>4. CASE CheckFailures(c)  BY <3>4 DEF CheckFailures
    <3>5. CASE FailOpen(c)       BY <3>5 DEF FailOpen
    <3>6. CASE CheckHalfOpen(c)  BY <3>6 DEF CheckHalfOpen
    <3>7. CASE StoreClosed(c)    BY <3>7 DEF StoreClosed
    <3>8. CASE ZeroFailures(c)   BY <3>8 DEF ZeroFailures
    <3>9. QED  BY <2>4, <3>1, <3>2, <3>3, <3>4, <3>5, <3>6, <3>7, <3>8
              DEF Accounting
  <2>5. CASE Tick              BY <2>5 DEF Tick
  <2>6. CASE HealthChange      BY <2>6 DEF HealthChange
  <2>7. CASE Reset             BY <2>7 DEF Reset
  <2>8. CASE UNCHANGED vars    BY <2>8 DEF vars
  <2>9. QED  BY <2>1, <2>2, <2>3, <2>4, <2>5, <2>6, <2>7, <2>8 DEF Next, Execute
<1>3. QED  BY <1>1, <1>2, TypeCorrect, PTL DEF Spec

-----------------------------------------------------------------------------
(* A probe flag is held by at most one caller at a time: the compare-and-  *)
(* swap of line 91 together with the single store of line 115 is a correct *)
(* try-lock while nobody calls Reset in the middle of an Execute.  The     *)
(* strengthening says which callers can be between the two: those that     *)
(* read Open.                                                              *)
THEOREM ProbeIsExclusive == Spec => []SingleProber
<1> DEFINE Inv == OpenPathSawOpen /\ SingleProber
<1> USE DEF Probers, WasHalfOpen, StateClosed, StateHalfOpen, StateOpen
<1>1. Init => Inv
  BY DEF Init, OpenPathSawOpen, SingleProber
<1>2. TypeOK /\ Inv /\ [Next]_vars => Inv'
  <2> SUFFICES ASSUME TypeOK, Inv, [Next]_vars PROVE Inv'
    OBVIOUS
  <2> USE DEF OpenPathSawOpen, SingleProber, TypeOK, States, At, shared
  <2>1. ASSUME NEW c \in Callers, Admission(c) PROVE Inv'
    <3>1. CASE Enter(c)              BY <3>1 DEF Enter
    <3>2. CASE LoadLastFailure(c)    BY <3>2 DEF LoadLastFailure
    <3>3. CASE CheckTimeout(c)       BY <3>3 DEF CheckTimeout
    <3>4. CASE ClaimProbe(c)         BY <3>4 DEF ClaimProbe
    <3>5. CASE StoreHalfOpen(c)      BY <3>5 DEF StoreHalfOpen
    <3>6. QED  BY <2>1, <3>1, <3>2, <3>3, <3>4, <3>5 DEF Admission
  <2>2. ASSUME NEW c \in Callers, LockSection(c) PROVE Inv'
    <3>1. CASE LockAndLoadFailures(c)  BY <3>1 DEF LockAndLoadFailures
    <3>2. CASE CheckClosed(c)          BY <3>2 DEF CheckClosed
    <3>3. CASE TripOpen(c)             BY <3>3 DEF TripOpen
    <3>4. CASE TripStamp(c)            BY <3>4 DEF TripStamp
    <3>5. QED  BY <2>2, <3>1, <3>2, <3>3, <3>4 DEF LockSection
  <2>3. ASSUME NEW c \in Callers, CallReturns(c) PROVE Inv'
    BY <2>3 DEF CallReturns
  <2>4. ASSUME NEW c \in Callers, Accounting(c) PROVE Inv'
    <3>1. CASE ReleaseProbe(c)   BY <3>1 DEF ReleaseProbe
    <3>2. CASE AddFailure(c)     BY <3>2 DEF AddFailure
    <3>3. CASE StampFailure(c)   BY <3>3 DEF StampFailure
    <3>4. CASE CheckFailures(c)  BY <3>4 DEF CheckFailures
    <3>5. CASE FailOpen(c)       BY <3>5 DEF FailOpen
    <3>6. CASE CheckHalfOpen(c)  BY <3>6 DEF CheckHalfOpen
    <3>7. CASE StoreClosed(c)    BY <3>7 DEF StoreClosed
    <3>8. CASE ZeroFailures(c)   BY <3>8 DEF ZeroFailures
    <3>9. QED  BY <2>4, <3>1, <3>2, <3>3, <3>4, <3>5, <3>6, <3>7, <3>8
              DEF Accounting
  <2>5. CASE Tick              BY <2>5 DEF Tick
  <2>6. CASE HealthChange      BY <2>6 DEF HealthChange
  <2>7. CASE Reset             BY <2>7 DEF Reset
  <2>8. CASE UNCHANGED vars    BY <2>8 DEF vars
  <2>9. QED  BY <2>1, <2>2, <2>3, <2>4, <2>5, <2>6, <2>7, <2>8 DEF Next, Execute
<1>3. Inv => SingleProber
  OBVIOUS
<1>4. QED  BY <1>1, <1>2, <1>3, TypeCorrect, PTL DEF Spec

-----------------------------------------------------------------------------
(* The browser client. *)

\* One request refreshes at a time, and isRefreshing is its lock.
RefreshLocked ==
    /\ \A p, q \in Requests : req[p].pc = "refreshing" /\ req[q].pc = "refreshing" => p = q
    /\ isRefreshing <=> \E p \in Requests : req[p].pc = "refreshing"

\* What waits is in pendingRequests, for a refresh unless its page is gone.
QueueKept ==
    \A q \in Requests :
        /\ req[q].pc = "queued" <=> q \in pendingRequests
        /\ req[q].pc = "queued" => page = "leaving" \/ req[q].orphan \/ isRefreshing

\* On /login there are only the login and what an earlier page has left.
Leftovers ==
    \A q \in Requests :
        /\ page = "login" /\ req[q].pc # "idle" => req[q].orphan \/ req[q].kind = "login"
        /\ req[q].kind = "login" => req[q].pc \notin {"queued", "refreshing"}

QueueInv == ClientTypeOK /\ RefreshLocked /\ QueueKept /\ Leftovers

\* A request carries a CSRF token in its header until it is answered, or
\* brings one back with a good answer.
TokensCarried ==
    \A q \in Requests :
        /\ req[q].header # NoToken => req[q].pc = "sent"
        /\ req[q].minted # NoToken => req[q].pc = "answered" /\ req[q].answer = "ok"

\* There is one login at a time, and none in a session.
LoginsAlone ==
    /\ \A p, q \in Requests : req[p].kind = "login" /\ req[q].kind = "login" => p = q
    /\ \A q \in Requests : req[q].kind = "login" => page # "app"

\* Request q is a login that was sent again with a token of its own, which
\* its replica still knows.
SentAgain(q) ==
    /\ req[q].kind = "login" /\ req[q].pc = "sent" /\ req[q].csrfRetry
    /\ req[q].bearer = "none" /\ ~req[q].forgotten

\* The token of such a login is in the store of the replica that minted it,
\* and no other request can take it out.
TokenAwaitsLogin ==
    \A q \in Requests : SentAgain(q) =>
        /\ req[q].minter \in Replicas /\ req[q].header \in store[req[q].minter]
        /\ \A p \in Requests \ {q} :
               req[p].pc = "sent" /\ req[p].bearer = "none" => req[p].header # req[q].header

LoginInv == TokensCarried /\ LoginsAlone /\ TokenAwaitsLogin /\ LoginRefusedExplained

ClientInv == QueueInv /\ LoginInv

-----------------------------------------------------------------------------
(* What the client's helpers return. *)

(* The records the interceptors make of a request are requests.           *)
LEMMA RequestTypes ==
    ASSUME ClientTypeOK
    PROVE  /\ NoRequest \in RequestType
           /\ \A k \in {"login", "read", "write", "logout"} :
                  [NoRequest EXCEPT !.kind = k] \in RequestType
           /\ \A r \in RequestType, t \in Tokens \cup {NoToken} : Attach(r, t) \in RequestType
           /\ \A r \in RequestType, a \in {"ok", "unauthorized", "csrf", "error"} :
                  Answered(r, a) \in RequestType
<1>1. NoRequest \in RequestType
  BY DEF NoRequest, RequestType
<1>2. \A k \in {"login", "read", "write", "logout"} : [NoRequest EXCEPT !.kind = k] \in RequestType
  BY <1>1 DEF RequestType
<1>3. ASSUME NEW r \in RequestType, NEW t \in Tokens \cup {NoToken}
      PROVE  Attach(r, t) \in RequestType
  <2> DEFINE h == IF access = "none" THEN t ELSE NoToken
  <2>1. h \in Tokens \cup {NoToken} /\ access \in {"none", "valid", "stale"}
    BY DEF ClientTypeOK
  <2>2. Attach(r, t) = [r EXCEPT !.pc = "sent", !.answer = "none", !.forgotten = FALSE,
                                 !.bearer = access, !.header = h]
    BY DEF Attach
  <2> HIDE DEF h
  <2>3. QED
    BY <2>1, <2>2 DEF RequestType
<1>4. ASSUME NEW r \in RequestType, NEW a \in {"ok", "unauthorized", "csrf", "error"}
      PROVE  Answered(r, a) \in RequestType
  BY DEF Answered, RequestType
<1>5. QED
  BY <1>1, <1>2, <1>3, <1>4

(* There is always a name for a new CSRF token: every request carries at   *)
(* most one token, and the page one more.                                  *)
LEMMA FreshToken ==
    ASSUME ClientTypeOK, TokensCarried
    PROVE  Fresh \in Tokens /\ Fresh \notin Held
<1> DEFINE carried(q) == IF req[q].pc = "answered" THEN req[q].minted ELSE req[q].header
<1> DEFINE all == {carried(q) : q \in Requests}
<1>1. IsFiniteSet(all) /\ Cardinality(all) <= Cardinality(Requests)
  <2> DEFINE f == [q \in Requests |-> carried(q)]
  <2>1. f \in Surjection(Requests, all)
    <3>1. \A q \in Requests : f[q] \in all
      OBVIOUS
    <3>2. \A t \in all : \E q \in Requests : f[q] = t
      OBVIOUS
    <3>3. QED
      BY <3>1, <3>2 DEF Surjection
  <2>2. QED
    BY <2>1, WebClientAssumption, FS_Surjection
<1>2. IsFiniteSet(all \cup {csrf}) /\ Cardinality(all \cup {csrf}) <= Cardinality(Requests) + 1
  <2>1. Cardinality(Requests) \in Nat /\ Cardinality(all) \in Nat
    BY <1>1, WebClientAssumption, FS_CardinalityType
  <2>2. /\ IsFiniteSet(all \cup {csrf})
        /\ Cardinality(all \cup {csrf}) \in {Cardinality(all), Cardinality(all) + 1}
    BY <1>1, FS_AddElement
  <2>3. QED
    BY <1>1, <2>1, <2>2
<1>3. Held \subseteq all \cup {csrf}
  <2> SUFFICES ASSUME NEW t \in Held PROVE t \in all \cup {csrf}
    OBVIOUS
  <2>1. CASE t = csrf
    BY <2>1
  <2>2. ASSUME NEW q \in Requests, t = req[q].header PROVE t \in all
    <3>1. req[q].pc = "sent"
      BY <2>2 DEF TokensCarried, Held
    <3>2. carried(q) = t
      BY <2>2, <3>1
    <3>3. QED
      BY <3>2
  <2>3. ASSUME NEW q \in Requests, t = req[q].minted PROVE t \in all
    <3>1. req[q].pc = "answered"
      BY <2>3 DEF TokensCarried, Held
    <3>2. carried(q) = t
      BY <2>3, <3>1
    <3>3. QED
      BY <3>2
  <2>4. QED
    BY <2>1, <2>2, <2>3 DEF Held
<1>4. \E t \in Tokens : t \notin Held
  <2> SUFFICES ASSUME Tokens \subseteq all \cup {csrf} PROVE FALSE
    BY <1>3
  <2>1. Cardinality(Tokens) <= Cardinality(all \cup {csrf})
    BY <1>2, FS_Subset
  <2>2. /\ Cardinality(Requests) \in Nat /\ Cardinality(Tokens) \in Nat
        /\ Cardinality(all \cup {csrf}) \in Nat
    BY <1>2, WebClientAssumption, FS_CardinalityType
  <2>3. QED
    BY <1>2, <2>1, <2>2, WebClientAssumption
<1>5. QED
  BY <1>4 DEF Fresh

(* What the request interceptor changes, and what it keeps.                *)
LEMMA SentFields ==
    ASSUME NEW r \in RequestType, NEW t
    PROVE  /\ Attach(r, t).pc = "sent" /\ Attach(r, t).kind = r.kind
           /\ Attach(r, t).bearer = access
           /\ Attach(r, t).header = (IF access = "none" THEN t ELSE NoToken)
           /\ Attach(r, t).minted = r.minted /\ Attach(r, t).orphan = r.orphan
           /\ Attach(r, t).csrfRetry = r.csrfRetry /\ Attach(r, t).forgotten = FALSE
  BY DEF Attach, RequestType

(* What an answer changes, and what it keeps.                              *)
LEMMA AnswerFields ==
    ASSUME NEW r \in RequestType, NEW a
    PROVE  /\ Answered(r, a).pc = "answered" /\ Answered(r, a).kind = r.kind
           /\ Answered(r, a).answer = a /\ Answered(r, a).header = NoToken
           /\ Answered(r, a).minted = r.minted /\ Answered(r, a).orphan = r.orphan
           /\ Answered(r, a).csrfRetry = r.csrfRetry /\ Answered(r, a).minter = r.minter
           /\ Answered(r, a).forgotten = r.forgotten
  BY DEF Answered, RequestType

(* A store loses what nobody holds and what a request presents, and gains  *)
(* the token that is minted.                                               *)
LEMMA StoreEffect ==
    ASSUME ClientTypeOK, TokensCarried, NEW i \in Replicas, NEW bearer, NEW kind, NEW token,
           SetCSRFToken(i, bearer, kind, token)
    PROVE  /\ store' \in [Replicas -> SUBSET Tokens]
           /\ Fresh \in store'[i]
           /\ \A k \in Replicas, t \in Held : t \in store[k] => \/ t \in store'[k]
                                                                \/ bearer = "none" /\ t = token
<1>1. Fresh \in Tokens
  BY FreshToken
<1>2. \A k \in Replicas : store[k] \in SUBSET Tokens
  BY DEF ClientTypeOK
<1>3. QED
  BY <1>1, <1>2 DEF SetCSRFToken

-----------------------------------------------------------------------------
(* What a step of one request has to keep. *)

(* A step of a request that is neither queued nor refreshing, before and   *)
(* after, leaves the queue in order.                                       *)
LEMMA OneMovesQueue ==
    ASSUME QueueInv, NEW q \in Requests, NEW r, req' = [req EXCEPT ![q] = r], UNCHANGED queue,
           req[q].pc \notin {"queued", "refreshing"}, r.pc \notin {"queued", "refreshing"},
           page = "leaving" => page' = "leaving",
           page' = "login" => page = "login",
           page' = "login" /\ r.pc # "idle" => r.orphan \/ r.kind = "login"
    PROVE  RefreshLocked' /\ QueueKept' /\ Leftovers'
<1>1. req'[q] = r /\ \A p \in Requests : p # q => req'[p] = req[p]
  BY DEF QueueInv, ClientTypeOK
<1>2. isRefreshing' = isRefreshing /\ pendingRequests' = pendingRequests
  BY DEF queue
<1>3. RefreshLocked'
  BY <1>1, <1>2 DEF QueueInv, RefreshLocked
<1>4. QueueKept'
  BY <1>1, <1>2 DEF QueueInv, QueueKept
<1>5. Leftovers'
  BY <1>1 DEF QueueInv, Leftovers
<1>6. QED
  BY <1>3, <1>4, <1>5

\* The token of every login that was sent again, but q, is where it was.
TokensStay(q) ==
    \A p \in Requests \ {q} : SentAgain(p) => req[p].header \in store'[req[p].minter]

(* A step of one request leaves the tokens of the others in order, if it   *)
(* takes none of them away and is in order itself.                         *)
LEMMA OneMovesLogin ==
    ASSUME ClientTypeOK, LoginInv, NEW q \in Requests, NEW r, req' = [req EXCEPT ![q] = r],
           TokensStay(q),
           r.header # NoToken => r.pc = "sent",
           r.minted # NoToken => r.pc = "answered" /\ r.answer = "ok",
           page' = "app" => page = "app" \/ (req[q].kind = "login" /\ r.kind # "login"),
           r.kind = "login" => /\ page' # "app"
                               /\ \/ req[q].kind = "login"
                                  \/ \A p \in Requests : req[p].kind # "login",
           r.pc = "sent" /\ r.bearer = "none" =>
               \A p \in Requests \ {q} : SentAgain(p) => req[p].header # r.header,
           r.kind = "login" /\ r.pc = "sent" /\ r.csrfRetry /\ r.bearer = "none" /\ ~r.forgotten
               => /\ r.minter \in Replicas /\ r.header \in store'[r.minter]
                  /\ \A p \in Requests \ {q} : req[p].header # r.header,
           r.kind = "login" /\ r.answer = "csrf" /\ r.csrfRetry /\ r.pc = "answered"
               => r.minter # r.server \/ r.forgotten
    PROVE  LoginInv'
<1>1. req'[q] = r /\ \A p \in Requests : p # q => req'[p] = req[p]
  BY DEF ClientTypeOK
<1>2. TokensCarried'
  BY <1>1 DEF LoginInv, TokensCarried
<1>3. LoginsAlone'
  BY <1>1 DEF LoginInv, LoginsAlone
<1>4. TokenAwaitsLogin'
  <2> SUFFICES ASSUME NEW p \in Requests, SentAgain(p)'
               PROVE  /\ req'[p].minter \in Replicas
                      /\ req'[p].header \in store'[req'[p].minter]
                      /\ \A o \in Requests \ {p} : req'[o].pc = "sent" /\ req'[o].bearer = "none"
                             => req'[o].header # req'[p].header
    BY DEF TokenAwaitsLogin
  <2>1. CASE p = q
    BY <1>1, <2>1 DEF SentAgain
  <2>2. CASE p # q
    <3>1. SentAgain(p) /\ req'[p] = req[p]
      BY <1>1, <2>2 DEF SentAgain
    <3>2. /\ req[p].minter \in Replicas
          /\ \A o \in Requests \ {p} :
                 req[o].pc = "sent" /\ req[o].bearer = "none" => req[o].header # req[p].header
      BY <3>1 DEF LoginInv, TokenAwaitsLogin
    <3>3. req[p].header \in store'[req[p].minter]
      BY <2>2, <3>1 DEF TokensStay
    <3>4. QED
      BY <1>1, <2>2, <3>1, <3>2, <3>3
  <2>3. QED
    BY <2>1, <2>2
<1>5. LoginRefusedExplained'
  BY <1>1 DEF LoginInv, LoginRefusedExplained
<1>6. QED
  BY <1>2, <1>3, <1>4, <1>5 DEF LoginInv

(* A replica that takes out another token keeps those of the logins.       *)
LEMMA UsedElsewhere ==
    ASSUME ClientTypeOK, LoginInv, NEW q, NEW i \in Replicas, NEW bearer, NEW kind, NEW token,
           SetCSRFToken(i, bearer, kind, token),
           bearer = "none" => \A p \in Requests \ {q} : SentAgain(p) => req[p].header # token
    PROVE  TokensStay(q)
<1> SUFFICES ASSUME NEW p \in Requests \ {q}, SentAgain(p)
             PROVE  req[p].header \in store'[req[p].minter]
  BY DEF TokensStay
<1>1. req[p].minter \in Replicas /\ req[p].header \in store[req[p].minter]
  BY DEF LoginInv, TokenAwaitsLogin
<1>2. req[p].header \in Tokens
  BY <1>1 DEF ClientTypeOK
<1>3. req[p].header \in Held
  BY <1>2, WebClientAssumption DEF Held
<1>4. TokensCarried
  BY DEF LoginInv
<1>5. QED
  BY <1>1, <1>3, <1>4, StoreEffect

(* A request whose promise is rejected, with or without clearSession.      *)
LEMMA Rejected ==
    ASSUME ClientInv, NEW q \in Requests, UNCHANGED <<queue, store>>,
           req[q].pc \in {"sent", "answered", "fetching"},
           faults' \in 0..MaxFaults, Reject(q) \/ RejectAndClear(q)
    PROVE  ClientInv'
<1>1. ClientTypeOK /\ LoginInv
  BY DEF ClientInv, QueueInv
<1>2. req' = [req EXCEPT ![q] = NoRequest]
  BY DEF Reject, RejectAndClear
<1>3. /\ page' = page \/ page' = "leaving"
      /\ access' \in {access, "none"} /\ refresh' \in {refresh, "none"} /\ csrf' \in {csrf, NoToken}
  BY DEF Reject, RejectAndClear, clearSession, session
<1>4. NoRequest \in RequestType
  BY <1>1, RequestTypes
<1>5. ClientTypeOK'
  BY <1>1, <1>2, <1>3, <1>4 DEF ClientTypeOK, queue
<1>6. NoRequest.pc = "idle" /\ NoRequest.kind = "read" /\ NoRequest.header = NoToken
      /\ NoRequest.minted = NoToken
  BY DEF NoRequest
<1>7. RefreshLocked' /\ QueueKept' /\ Leftovers'
  <2>1. QueueInv
    BY DEF ClientInv
  <2>2. QED
    BY <1>2, <1>3, <1>6, <2>1, OneMovesQueue
<1>8. LoginInv'
  <2>1. TokensStay(q)
    BY <1>1 DEF LoginInv, TokenAwaitsLogin, TokensStay
  <2>2. QED
    BY <1>1, <1>2, <1>3, <1>6, <2>1, OneMovesLogin
<1>9. QED
  BY <1>5, <1>7, <1>8 DEF ClientInv, QueueInv

(* Every step of the page, of a replica, of the network and of the clock   *)
(* keeps the invariant.                                                    *)
LEMMA NextClientInv == ClientInv /\ [ClientNext]_clientVars => ClientInv'
<1> SUFFICES ASSUME ClientInv, [ClientNext]_clientVars PROVE ClientInv'
  OBVIOUS
<1>a. ClientTypeOK /\ QueueInv /\ LoginInv /\ TokensCarried
  BY DEF ClientInv, QueueInv, LoginInv
<1>b. \A q \in Requests : req[q] \in RequestType
  BY <1>a DEF ClientTypeOK
<1>c. store' = store => \A q : TokensStay(q)
  BY <1>a DEF LoginInv, TokenAwaitsLogin, TokensStay
<1>d. Fresh \in Tokens /\ Fresh \notin Held /\ NoToken \notin Tokens
  BY <1>a, FreshToken, WebClientAssumption
<1>e. csrf \in Tokens \cup {NoToken}
  BY <1>a DEF ClientTypeOK
<1>f. \A p \in Requests : SentAgain(p) => req[p].header # NoToken
  <2> SUFFICES ASSUME NEW p \in Requests, SentAgain(p) PROVE req[p].header # NoToken
    OBVIOUS
  <2>1. req[p].minter \in Replicas /\ req[p].header \in store[req[p].minter]
    BY <1>a DEF LoginInv, TokenAwaitsLogin
  <2>2. QED
    BY <1>a, <1>d, <2>1 DEF ClientTypeOK
<1>g. \A q \in Requests : SentAgain(q) => req[q].header \in store[req[q].minter]
  BY <1>a DEF LoginInv, TokenAwaitsLogin
<1>1. ASSUME NEW q \in Requests, NEW kind \in {"login", "read", "write", "logout"}, Send(q, kind)
      PROVE  ClientInv'
  <2> DEFINE r0 == [NoRequest EXCEPT !.kind = kind]
  <2> DEFINE r == Attach(r0, csrf)
  <2>1. r0 \in RequestType /\ r \in RequestType
    BY <1>a, <1>e, RequestTypes
  <2>2. /\ r.pc = "sent" /\ r.kind = kind /\ r.csrfRetry = FALSE /\ r.minted = NoToken
    <3>1. r0.kind = kind /\ r0.csrfRetry = FALSE /\ r0.minted = NoToken
      BY DEF NoRequest
    <3> HIDE DEF r0
    <3>2. QED
      BY <2>1, <3>1, SentFields
  <2>3. /\ req[q].pc = "idle" /\ req' = [req EXCEPT ![q] = r]
        /\ \/ page = "app" /\ kind # "login"
           \/ page = "login" /\ kind = "login" /\ \A p \in Requests : req[p].kind # "login"
        /\ UNCHANGED <<page, access, refresh, csrf, queue, isRefreshing, pendingRequests,
                       store, faults>>
    BY <1>1 DEF Send, session, queue
  <2> HIDE DEF r
  <2>4. ClientTypeOK'
    BY <1>a, <2>1, <2>3 DEF ClientTypeOK
  <2>5. RefreshLocked' /\ QueueKept' /\ Leftovers'
    BY <1>a, <2>2, <2>3, OneMovesQueue
  <2>6. LoginInv'
    <3>1. \A p \in Requests \ {q} : ~SentAgain(p)
      BY <1>a, <2>3 DEF LoginInv, LoginsAlone, SentAgain
    <3>2. QED
      BY <1>a, <1>c, <2>2, <2>3, <3>1, OneMovesLogin
  <2>7. QED
    BY <2>4, <2>5, <2>6 DEF ClientInv, QueueInv
<1>2. ASSUME NEW q \in Requests, NEW i \in Replicas, ServeRefused(q, i) PROVE ClientInv'
  <2> DEFINE a == Answered(req[q], "csrf")
  <2> DEFINE s == IF req[q].csrfRetry THEN i ELSE "none"
  <2> DEFINE r == [a EXCEPT !.server = s]
  <2>1. a \in RequestType /\ s \in Replicas \cup {"none"}
    BY <1>a, <1>b, RequestTypes
  <2>2. /\ a.pc = "answered" /\ a.kind = req[q].kind /\ a.answer = "csrf" /\ a.header = NoToken
        /\ a.minted = req[q].minted /\ a.orphan = req[q].orphan /\ a.minter = req[q].minter
        /\ a.csrfRetry = req[q].csrfRetry /\ a.forgotten = req[q].forgotten
    BY <1>b, AnswerFields
  <2>3. /\ req[q].pc = "sent" /\ req[q].bearer = "none" /\ req[q].header \notin store[i]
        /\ req' = [req EXCEPT ![q] = r]
        /\ UNCHANGED <<page, access, refresh, csrf, queue, isRefreshing, pendingRequests,
                       store, faults>>
    BY <1>2 DEF ServeRefused, CSRFAdmits, session, queue
  <2> HIDE DEF a
  <2>4. /\ r \in RequestType
        /\ r.pc = "answered" /\ r.kind = req[q].kind /\ r.answer = "csrf" /\ r.header = NoToken
        /\ r.minted = req[q].minted /\ r.orphan = req[q].orphan /\ r.minter = req[q].minter
        /\ r.csrfRetry = req[q].csrfRetry /\ r.forgotten = req[q].forgotten /\ r.server = s
    <3> HIDE DEF s
    <3>1. QED
      BY <2>1, <2>2 DEF RequestType
  <2> HIDE DEF r
  <2>5. ClientTypeOK'
    BY <1>a, <2>3, <2>4 DEF ClientTypeOK
  <2>6. RefreshLocked' /\ QueueKept' /\ Leftovers'
    <3>1. page' = "login" => r.orphan \/ r.kind = "login"
      BY <1>a, <2>3, <2>4 DEF QueueInv, Leftovers
    <3>2. QED
      BY <1>a, <2>3, <2>4, <3>1, OneMovesQueue
  <2>7. LoginInv'
    <3>1. r.minted = NoToken
      BY <1>a, <2>3, <2>4 DEF TokensCarried
    <3>2. r.kind = "login" /\ r.csrfRetry => r.minter # r.server \/ r.forgotten
      <4> SUFFICES ASSUME r.kind = "login", r.csrfRetry, ~r.forgotten PROVE r.minter # r.server
        OBVIOUS
      <4>1. SentAgain(q)
        BY <2>3, <2>4 DEF SentAgain
      <4>2. req[q].header \in store[req[q].minter]
        BY <1>a, <4>1 DEF LoginInv, TokenAwaitsLogin
      <4>3. QED
        BY <2>3, <2>4, <4>2
    <3>3. r.kind = "login" => page' # "app"
      BY <1>a, <2>3, <2>4 DEF LoginInv, LoginsAlone
    <3>4. QED
      BY <1>a, <1>c, <2>3, <2>4, <3>1, <3>2, <3>3, OneMovesLogin
  <2>8. QED
    BY <2>5, <2>6, <2>7 DEF ClientInv, QueueInv
<1>3. ASSUME NEW q \in Requests, NEW i \in Replicas, ServeHandled(q, i) PROVE ClientInv'
  <2>1. PICK ans \in {"ok", "unauthorized", "error"} :
            req' = [req EXCEPT ![q] = [Answered(@, ans) EXCEPT
                        !.minted = IF ans = "ok" THEN Fresh ELSE NoToken, !.minter = "none"]]
    BY <1>3 DEF ServeHandled
  <2> DEFINE a == Answered(req[q], ans)
  <2> DEFINE m == IF ans = "ok" THEN Fresh ELSE NoToken
  <2> DEFINE r == [a EXCEPT !.minted = m, !.minter = "none"]
  <2>2. a \in RequestType /\ m \in Tokens \cup {NoToken}
    BY <1>a, <1>b, <1>d, RequestTypes
  <2>3. /\ a.pc = "answered" /\ a.kind = req[q].kind /\ a.answer = ans /\ a.header = NoToken
        /\ a.orphan = req[q].orphan
    BY <1>b, AnswerFields
  <2>4. req' = [req EXCEPT ![q] = r]
    BY <1>b, <2>1
  <2>5. /\ req[q].pc = "sent" /\ SetCSRFToken(i, req[q].bearer, req[q].kind, req[q].header)
        /\ refresh' \in {refresh, "dead"}
        /\ UNCHANGED <<page, access, csrf, queue, isRefreshing, pendingRequests, faults>>
    BY <1>3 DEF ServeHandled, queue
  <2> HIDE DEF a
  <2>6. /\ r \in RequestType
        /\ r.pc = "answered" /\ r.kind = req[q].kind /\ r.answer = ans /\ r.header = NoToken
        /\ r.minted = m /\ r.orphan = req[q].orphan
    <3> HIDE DEF m
    <3>1. QED
      BY <2>2, <2>3 DEF RequestType
  <2> HIDE DEF r
  <2>7. ClientTypeOK'
    <3>1. store' \in [Replicas -> SUBSET Tokens]
      BY <1>a, <2>5, StoreEffect
    <3>2. QED
      BY <1>a, <2>4, <2>5, <2>6, <3>1 DEF ClientTypeOK
  <2>8. RefreshLocked' /\ QueueKept' /\ Leftovers'
    <3>1. page' = "login" => r.orphan \/ r.kind = "login"
      BY <1>a, <2>5, <2>6 DEF QueueInv, Leftovers
    <3>2. QED
      BY <1>a, <2>4, <2>5, <2>6, <3>1, OneMovesQueue
  <2>9. LoginInv'
    <3>1. req[q].bearer = "none" =>
              \A p \in Requests \ {q} : SentAgain(p) => req[p].header # req[q].header
      BY <1>a, <2>5 DEF LoginInv, TokenAwaitsLogin
    <3>2. TokensStay(q)
      BY <1>a, <2>5, <3>1, UsedElsewhere
    <3>3. r.kind = "login" => page' # "app"
      BY <1>a, <2>5, <2>6 DEF LoginInv, LoginsAlone
    <3>4. QED
      BY <1>a, <2>4, <2>5, <2>6, <3>2, <3>3, OneMovesLogin
  <2>10. QED
    BY <2>7, <2>8, <2>9 DEF ClientInv, QueueInv
<1>4. ASSUME NEW q \in Requests,
             NetworkError(q) \/ FetchCsrfFails(q) \/ OnError(q) \/ OnUnauthorized(q)
      PROVE  ClientInv'
  <2>1. /\ req[q].pc \in {"sent", "answered", "fetching"} /\ UNCHANGED <<queue, store, faults>>
        /\ Reject(q) \/ RejectAndClear(q)
    BY <1>4 DEF NetworkError, FetchCsrfFails, OnError, OnUnauthorized
  <2>2. faults' \in 0..MaxFaults
    BY <1>a, <2>1 DEF ClientTypeOK
  <2>3. QED
    BY <2>1, <2>2, Rejected
<1>5. ASSUME NEW q \in Requests, OnSuccess(q) PROVE ClientInv'
  <2>1. /\ req[q].pc = "answered" /\ csrf' = req[q].minted
        /\ req' = [req EXCEPT ![q] = NoRequest]
        /\ access' \in {access, "valid", "none"} /\ refresh' \in {refresh, "live", "none"}
        /\ \/ page' \in {page, "leaving"}
           \/ page' = "app" /\ page # "leaving" /\ req[q].kind = "login"
        /\ UNCHANGED <<queue, isRefreshing, pendingRequests, store, faults>>
    BY <1>5 DEF OnSuccess, session, queue
  <2>2. NoRequest \in RequestType
    BY <1>a, RequestTypes
  <2>3. NoRequest.pc = "idle" /\ NoRequest.kind = "read" /\ NoRequest.header = NoToken
        /\ NoRequest.minted = NoToken
    BY DEF NoRequest
  <2>4. req[q].minted \in Tokens \cup {NoToken}
    BY <1>b DEF RequestType
  <2>5. ClientTypeOK'
    BY <1>a, <2>1, <2>2, <2>4 DEF ClientTypeOK
  <2>6. RefreshLocked' /\ QueueKept' /\ Leftovers'
    BY <1>a, <2>1, <2>3, OneMovesQueue
  <2>7. LoginInv'
    BY <1>a, <1>c, <2>1, <2>3, OneMovesLogin
  <2>8. QED
    BY <2>5, <2>6, <2>7 DEF ClientInv, QueueInv
<1>6. ASSUME NEW q \in Requests, OnCsrfRefused(q) PROVE ClientInv'
  <2> DEFINE r == [req[q] EXCEPT !.pc = "fetching", !.csrfRetry = TRUE]
  <2>1. /\ req[q].pc = "answered" /\ req[q].answer = "csrf" /\ req' = [req EXCEPT ![q] = r]
        /\ UNCHANGED <<page, access, refresh, csrf, queue, isRefreshing, pendingRequests,
                       store, faults>>
    BY <1>6 DEF OnCsrfRefused, session, queue
  <2>2. /\ r \in RequestType /\ r.pc = "fetching" /\ r.kind = req[q].kind
        /\ r.header = req[q].header /\ r.minted = req[q].minted /\ r.orphan = req[q].orphan
    BY <1>b DEF RequestType
  <2> HIDE DEF r
  <2>3. ClientTypeOK'
    BY <1>a, <2>1, <2>2 DEF ClientTypeOK
  <2>4. RefreshLocked' /\ QueueKept' /\ Leftovers'
    <3>1. page' = "login" => r.orphan \/ r.kind = "login"
      BY <1>a, <2>1, <2>2 DEF QueueInv, Leftovers
    <3>2. QED
      BY <1>a, <2>1, <2>2, <3>1, OneMovesQueue
  <2>5. LoginInv'
    <3>1. r.header = NoToken /\ r.minted = NoToken /\ (r.kind = "login" => page' # "app")
      BY <1>a, <2>1, <2>2 DEF LoginInv, LoginsAlone, TokensCarried
    <3>2. QED
      BY <1>a, <1>c, <2>1, <2>2, <3>1, OneMovesLogin
  <2>6. QED
    BY <2>3, <2>4, <2>5 DEF ClientInv, QueueInv
<1>7. ASSUME NEW q \in Requests, NEW i \in Replicas, FetchCsrf(q, i) PROVE ClientInv'
  <2> DEFINE a == Attach(req[q], Fresh)
  <2> DEFINE r == [a EXCEPT !.minter = i]
  <2>1. a \in RequestType
    BY <1>a, <1>b, <1>d, RequestTypes
  <2>2. /\ a.pc = "sent" /\ a.kind = req[q].kind /\ a.bearer = access
        /\ a.header = (IF access = "none" THEN Fresh ELSE NoToken)
        /\ a.minted = req[q].minted /\ a.orphan = req[q].orphan
    BY <1>b, SentFields
  <2>3. /\ req[q].pc = "fetching" /\ SetCSRFToken(i, "none", "read", NoToken) /\ csrf' = Fresh
        /\ req' = [req EXCEPT ![q] = r]
        /\ UNCHANGED <<page, access, refresh, queue, isRefreshing, pendingRequests, faults>>
    BY <1>7 DEF FetchCsrf, session, queue
  <2> HIDE DEF a
  <2>4. /\ r \in RequestType
        /\ r.pc = "sent" /\ r.kind = req[q].kind /\ r.bearer = access
        /\ r.header = (IF access = "none" THEN Fresh ELSE NoToken)
        /\ r.minted = req[q].minted /\ r.orphan = req[q].orphan /\ r.minter = i
    BY <2>1, <2>2 DEF RequestType
  <2> HIDE DEF r
  <2>5. store' \in [Replicas -> SUBSET Tokens] /\ Fresh \in store'[i]
    BY <1>a, <2>3, StoreEffect
  <2>6. ClientTypeOK'
    BY <1>a, <1>d, <2>3, <2>4, <2>5 DEF ClientTypeOK
  <2>7. RefreshLocked' /\ QueueKept' /\ Leftovers'
    <3>1. page' = "login" => r.orphan \/ r.kind = "login"
      BY <1>a, <2>3, <2>4 DEF QueueInv, Leftovers
    <3>2. QED
      BY <1>a, <2>3, <2>4, <3>1, OneMovesQueue
  <2>8. LoginInv'
    <3>1. \A p \in Requests : req[p].header # Fresh
      BY <1>d DEF Held
    <3>2. TokensStay(q)
      BY <1>a, <1>f, <2>3, UsedElsewhere
    <3>3. r.minted = NoToken /\ (r.kind = "login" => page' # "app")
      BY <1>a, <2>3, <2>4 DEF LoginInv, LoginsAlone, TokensCarried
    <3>4. r.bearer = "none" => r.header = Fresh
      BY <2>4
    <3>5. QED
      BY <1>a, <2>3, <2>4, <2>5, <3>1, <3>2, <3>3, <3>4, OneMovesLogin
  <2>9. QED
    BY <2>6, <2>7, <2>8 DEF ClientInv, QueueInv
<1>8. ASSUME NEW q \in Requests, StartRefresh(q) PROVE ClientInv'
  <2> DEFINE r == [req[q] EXCEPT !.pc = "refreshing", !.retry = TRUE]
  <2>1. /\ req[q].pc = "answered" /\ req[q].answer = "unauthorized" /\ req[q].kind # "login"
        /\ ~isRefreshing /\ isRefreshing' = TRUE /\ req' = [req EXCEPT ![q] = r]
        /\ UNCHANGED <<page, access, refresh, csrf, pendingRequests, store, faults>>
    BY <1>8 DEF StartRefresh, Refreshable, session
  <2>2. /\ r \in RequestType /\ r.pc = "refreshing" /\ r.kind = req[q].kind
        /\ r.header = req[q].header /\ r.minted = req[q].minted /\ r.orphan = req[q].orphan
    BY <1>b DEF RequestType
  <2> HIDE DEF r
  <2>3. req'[q] = r /\ \A p \in Requests : p # q => req'[p] = req[p]
    BY <1>a, <2>1 DEF ClientTypeOK
  <2>4. ClientTypeOK'
    BY <1>a, <2>1, <2>2 DEF ClientTypeOK
  <2>5. RefreshLocked'
    BY <1>a, <2>1, <2>2, <2>3 DEF QueueInv, RefreshLocked
  <2>6. QueueKept'
    BY <1>a, <2>1, <2>2, <2>3 DEF QueueInv, QueueKept
  <2>7. Leftovers'
    BY <1>a, <2>1, <2>2, <2>3 DEF QueueInv, Leftovers
  <2>8. LoginInv'
    <3>1. r.header = NoToken /\ r.minted = NoToken
      BY <1>a, <2>1, <2>2 DEF TokensCarried
    <3>2. QED
      BY <1>a, <1>c, <2>1, <2>2, <3>1, OneMovesLogin
  <2>9. QED
    BY <2>4, <2>5, <2>6, <2>7, <2>8 DEF ClientInv, QueueInv
<1>9. ASSUME NEW q \in Requests, Enqueue(q) PROVE ClientInv'
  <2> DEFINE r == [req[q] EXCEPT !.pc = "queued"]
  <2>1. /\ req[q].pc = "answered" /\ req[q].answer = "unauthorized" /\ req[q].kind # "login"
        /\ isRefreshing /\ req' = [req EXCEPT ![q] = r]
        /\ pendingRequests' = pendingRequests \cup {q}
        /\ UNCHANGED <<page, access, refresh, csrf, isRefreshing, store, faults>>
    BY <1>9 DEF Enqueue, Refreshable, session
  <2>2. /\ r \in RequestType /\ r.pc = "queued" /\ r.kind = req[q].kind
        /\ r.header = req[q].header /\ r.minted = req[q].minted /\ r.orphan = req[q].orphan
    BY <1>b DEF RequestType
  <2> HIDE DEF r
  <2>3. req'[q] = r /\ \A p \in Requests : p # q => req'[p] = req[p]
    BY <1>a, <2>1 DEF ClientTypeOK
  <2>4. ClientTypeOK'
    BY <1>a, <2>1, <2>2 DEF ClientTypeOK
  <2>5. RefreshLocked'
    BY <1>a, <2>1, <2>2, <2>3 DEF QueueInv, RefreshLocked
  <2>6. QueueKept'
    BY <1>a, <2>1, <2>2, <2>3 DEF QueueInv, QueueKept
  <2>7. Leftovers'
    BY <1>a, <2>1, <2>2, <2>3 DEF QueueInv, Leftovers
  <2>8. LoginInv'
    <3>1. r.header = NoToken /\ r.minted = NoToken
      BY <1>a, <2>1, <2>2 DEF TokensCarried
    <3>2. QED
      BY <1>a, <1>c, <2>1, <2>2, <3>1, OneMovesLogin
  <2>9. QED
    BY <2>4, <2>5, <2>6, <2>7, <2>8 DEF ClientInv, QueueInv
<1>10. ASSUME NEW q \in Requests, req[q].pc = "refreshing", RefreshRejected(q),
              isRefreshing' = FALSE, faults' \in 0..MaxFaults,
              \/ store' = store
              \/ \E i \in Replicas : SetCSRFToken(i, "none", "write", NoToken)
       PROVE  ClientInv'
  <2>1. /\ req' = [req EXCEPT ![q] = NoRequest] /\ pendingRequests' = pendingRequests
        /\ page' = "leaving" \/ (page = "login" /\ page' = "login")
        /\ access' = "none" /\ refresh' = "none" /\ csrf' = NoToken
    BY <1>10 DEF RefreshRejected, RejectAndClear, clearSession
  <2>2. NoRequest \in RequestType
    BY <1>a, RequestTypes
  <2>3. NoRequest.pc = "idle" /\ NoRequest.kind = "read" /\ NoRequest.header = NoToken
        /\ NoRequest.minted = NoToken
    BY DEF NoRequest
  <2>4. req'[q] = NoRequest /\ \A p \in Requests : p # q => req'[p] = req[p]
    BY <1>a, <2>1 DEF ClientTypeOK
  <2>5. store' \in [Replicas -> SUBSET Tokens] /\ TokensStay(q)
    <3>1. CASE store' = store
      BY <1>a, <1>c, <3>1 DEF ClientTypeOK
    <3>2. ASSUME NEW i \in Replicas, SetCSRFToken(i, "none", "write", NoToken)
          PROVE  store' \in [Replicas -> SUBSET Tokens] /\ TokensStay(q)
      BY <1>a, <1>f, <3>2, StoreEffect, UsedElsewhere
    <3>3. QED
      BY <1>10, <3>1, <3>2
  <2>6. ClientTypeOK'
    BY <1>a, <1>10, <2>1, <2>2, <2>5 DEF ClientTypeOK
  <2>7. RefreshLocked'
    BY <1>a, <1>10, <2>3, <2>4 DEF QueueInv, RefreshLocked
  <2>8. QueueKept'
    <3>1. \A p \in Requests : req[p].pc = "queued" => req[p].kind # "login"
      BY <1>a DEF QueueInv, Leftovers
    <3>2. \A p \in Requests : req'[p].pc = "queued" => page' = "leaving" \/ req'[p].orphan
      BY <1>a, <2>1, <2>3, <2>4, <3>1 DEF QueueInv, Leftovers
    <3>3. QED
      BY <1>a, <1>10, <2>1, <2>3, <2>4, <3>2 DEF QueueInv, QueueKept
  <2>9. Leftovers'
    BY <1>a, <2>1, <2>3, <2>4 DEF QueueInv, Leftovers
  <2>10. LoginInv'
    BY <1>a, <2>1, <2>3, <2>5, OneMovesLogin
  <2>11. QED
    BY <2>6, <2>7, <2>8, <2>9, <2>10 DEF ClientInv, QueueInv
<1>11. ASSUME NEW q \in Requests, NEW i \in Replicas, req[q].pc = "refreshing", Renewed(q),
              SetCSRFToken(i, "none", "write", NoToken), isRefreshing' = FALSE, faults' = faults
       PROVE  ClientInv'
  <2> DEFINE r(p) == [Attach(req[p], csrf) EXCEPT !.bearer = "valid"]
  <2>1. /\ access' = "valid" /\ refresh' = "live" /\ pendingRequests' = {}
        /\ page' = page /\ csrf' = csrf
        /\ req' = [p \in Requests |-> IF p \in pendingRequests \cup {q} THEN r(p) ELSE req[p]]
    BY <1>11 DEF Renewed
  <2>2. ASSUME NEW p \in Requests
        PROVE  /\ r(p) \in RequestType /\ r(p).pc = "sent" /\ r(p).kind = req[p].kind
               /\ r(p).bearer = "valid"
               /\ r(p).minted = req[p].minted /\ r(p).orphan = req[p].orphan
    <3> DEFINE a == Attach(req[p], csrf)
    <3>1. a \in RequestType
      BY <1>a, <1>b, <1>e, RequestTypes
    <3>2. a.pc = "sent" /\ a.kind = req[p].kind /\ a.minted = req[p].minted
          /\ a.orphan = req[p].orphan
      BY <1>b, SentFields
    <3> HIDE DEF a
    <3>3. r(p) = [a EXCEPT !.bearer = "valid"]
      BY DEF a
    <3> HIDE DEF r
    <3>4. QED
      BY <3>1, <3>2, <3>3 DEF RequestType
  <2> HIDE DEF r
  <2>3. \A p \in Requests :
            p \in pendingRequests \cup {q} <=> req[p].pc \in {"queued", "refreshing"}
    BY <1>a, <1>11 DEF QueueInv, QueueKept, RefreshLocked
  <2>4. ASSUME NEW p \in Requests
        PROVE  \/ /\ req[p].pc \in {"queued", "refreshing"} /\ req'[p].pc = "sent"
                  /\ req'[p].bearer = "valid" /\ req'[p].minted = req[p].minted
                  /\ req'[p].kind = req[p].kind /\ req'[p].orphan = req[p].orphan
               \/ req[p].pc \notin {"queued", "refreshing"} /\ req'[p] = req[p]
    BY <2>1, <2>2, <2>3
  <2>5. store' \in [Replicas -> SUBSET Tokens]
    BY <1>a, <1>11, StoreEffect
  <2>6. ClientTypeOK'
    <3>1. req' \in [Requests -> RequestType]
      BY <1>b, <2>1, <2>2
    <3>2. QED
      BY <1>a, <1>11, <2>1, <2>5, <3>1 DEF ClientTypeOK
  <2>7. RefreshLocked'
    BY <1>11, <2>4 DEF RefreshLocked
  <2>8. QueueKept'
    BY <2>1, <2>4 DEF QueueKept
  <2>9. Leftovers'
    BY <1>a, <2>1, <2>4 DEF QueueInv, Leftovers
  <2>10. LoginInv'
    <3>1. \A p \in Requests : /\ req'[p].kind = req[p].kind
                              /\ req[p].kind = "login" => req'[p] = req[p]
      BY <1>a, <2>4 DEF QueueInv, Leftovers
    <3>2. TokensCarried'
      <4> SUFFICES ASSUME NEW p \in Requests
                   PROVE  /\ req'[p].header # NoToken => req'[p].pc = "sent"
                          /\ req'[p].minted # NoToken => /\ req'[p].pc = "answered"
                                                         /\ req'[p].answer = "ok"
        BY DEF TokensCarried
      <4>1. QED
        BY <1>a, <2>4 DEF TokensCarried
    <3>3. LoginsAlone'
      BY <1>a, <2>1, <3>1 DEF LoginInv, LoginsAlone
    <3>4. TokenAwaitsLogin'
      <4> SUFFICES ASSUME NEW p \in Requests, SentAgain(p)'
                   PROVE  /\ req'[p].minter \in Replicas
                          /\ req'[p].header \in store'[req'[p].minter]
                          /\ \A o \in Requests \ {p} :
                                 req'[o].pc = "sent" /\ req'[o].bearer = "none"
                                     => req'[o].header # req'[p].header
        BY DEF TokenAwaitsLogin
      <4>1. SentAgain(p) /\ req'[p] = req[p]
        BY <3>1 DEF SentAgain
      <4>2. req[p].minter \in Replicas /\ \A o \in Requests \ {p} :
                 req[o].pc = "sent" /\ req[o].bearer = "none" => req[o].header # req[p].header
        BY <1>a, <4>1 DEF LoginInv, TokenAwaitsLogin
      <4>3. p # q
        BY <1>11, <4>1 DEF SentAgain
      <4>4. TokensStay(q)
        BY <1>a, <1>f, <1>11, UsedElsewhere
      <4>5. req[p].header \in store'[req[p].minter]
        BY <4>1, <4>3, <4>4 DEF TokensStay
      <4>6. \A o \in Requests \ {p} : req'[o].pc = "sent" /\ req'[o].bearer = "none"
                                 => req'[o] = req[o]
        BY <2>4
      <4>7. QED
        BY <4>1, <4>2, <4>5, <4>6
    <3>5. LoginRefusedExplained'
      BY <1>a, <3>1 DEF LoginInv, LoginRefusedExplained
    <3>6. QED
      BY <3>2, <3>3, <3>4, <3>5 DEF LoginInv
  <2>11. QED
    BY <2>6, <2>7, <2>8, <2>9, <2>10 DEF ClientInv, QueueInv
<1>12. ASSUME NEW q \in Requests, NEW i \in Replicas, RefreshAnswered(q, i) PROVE ClientInv'
  <2>1. req[q].pc = "refreshing" /\ isRefreshing' = FALSE /\ faults' = faults
    BY <1>12 DEF RefreshAnswered
  <2>2. faults' \in 0..MaxFaults
    BY <1>a, <2>1 DEF ClientTypeOK
  <2>3. CASE RefreshRejected(q) /\ store' = store
    BY <1>10, <2>1, <2>2, <2>3
  <2>4. CASE RefreshRejected(q) /\ SetCSRFToken(i, "none", "write", NoToken)
    BY <1>10, <2>1, <2>2, <2>4
  <2>5. CASE Renewed(q) /\ SetCSRFToken(i, "none", "write", NoToken)
    BY <1>11, <2>1, <2>5
  <2>6. QED
    BY <1>12, <2>3, <2>4, <2>5 DEF RefreshAnswered
<1>13. ASSUME NEW q \in Requests, RefreshFails(q) PROVE ClientInv'
  <2>1. /\ req[q].pc = "refreshing" /\ isRefreshing' = FALSE /\ store' = store
        /\ RefreshRejected(q) /\ faults < MaxFaults /\ faults' = faults + 1
    BY <1>13 DEF RefreshFails, Fault
  <2>2. faults' \in 0..MaxFaults
    BY <1>a, <2>1, WebClientAssumption DEF ClientTypeOK
  <2>3. QED
    BY <1>10, <2>1, <2>2
<1>14. CASE Unload
  <2>1. /\ page' = "login" /\ isRefreshing' = FALSE /\ pendingRequests' = {}
        /\ req' = [q \in Requests |-> NoRequest]
        /\ UNCHANGED <<access, refresh, csrf, store, faults>>
    BY <1>14 DEF Unload, session
  <2>2. NoRequest \in RequestType
    BY <1>a, RequestTypes
  <2>3. NoRequest.pc = "idle" /\ NoRequest.kind = "read" /\ NoRequest.header = NoToken
        /\ NoRequest.minted = NoToken
    BY DEF NoRequest
  <2>4. \A q \in Requests : req'[q] = NoRequest
    BY <2>1
  <2>5. ClientTypeOK'
    BY <1>a, <2>1, <2>2 DEF ClientTypeOK
  <2>6. RefreshLocked' /\ QueueKept' /\ Leftovers'
    BY <2>1, <2>3, <2>4 DEF RefreshLocked, QueueKept, Leftovers
  <2>7. LoginInv'
    BY <2>3, <2>4 DEF LoginInv, TokensCarried, LoginsAlone, TokenAwaitsLogin, SentAgain,
                      LoginRefusedExplained
  <2>8. QED
    BY <2>5, <2>6, <2>7 DEF ClientInv, QueueInv
\* A step that leaves the requests as they are, but for what the browser and
\* the clock may do to all of them.
<1>15. ASSUME req' \in [Requests -> RequestType], store' \in [Replicas -> SUBSET Tokens],
              access' \in {"none", "valid", "stale"}, refresh' \in {"none", "live", "dead"},
              faults' \in 0..MaxFaults, page' \in {"login", "app", "leaving"},
              UNCHANGED <<csrf, isRefreshing, pendingRequests>>,
              page' = page \/ (page = "app" /\ page' = "login"),
              \A q \in Requests :
                  /\ req'[q].pc = req[q].pc /\ req'[q].kind = req[q].kind
                  /\ req'[q].header = req[q].header /\ req'[q].minted = req[q].minted
                  /\ req'[q].answer = req[q].answer /\ req'[q].csrfRetry = req[q].csrfRetry
                  /\ req'[q].minter = req[q].minter /\ req'[q].server = req[q].server
                  /\ req'[q].bearer = "none" <=> req[q].bearer = "none"
                  /\ req[q].forgotten => req'[q].forgotten
                  /\ \/ req'[q].orphan = req[q].orphan /\ page' = page
                     \/ req'[q].orphan = (req[q].pc # "idle"),
              \A q \in Requests : SentAgain(q)' => req[q].header \in store'[req[q].minter]
       PROVE  ClientInv'
  <2>1. ClientTypeOK'
    BY <1>a, <1>15 DEF ClientTypeOK
  <2>2. RefreshLocked'
    BY <1>a, <1>15 DEF QueueInv, RefreshLocked
  <2>3. QueueKept'
    BY <1>a, <1>15 DEF QueueInv, QueueKept
  <2>4. Leftovers'
    BY <1>a, <1>15 DEF QueueInv, Leftovers
  <2>5. LoginInv'
    <3>1. TokensCarried'
      BY <1>a, <1>15 DEF TokensCarried
    <3>2. LoginsAlone'
      BY <1>a, <1>15 DEF LoginInv, LoginsAlone
    <3>3. TokenAwaitsLogin'
      <4>1. \A q \in Requests : SentAgain(q)' => SentAgain(q)
        BY <1>15 DEF SentAgain
      <4>2. QED
        BY <1>a, <1>15, <4>1 DEF LoginInv, TokenAwaitsLogin
    <3>4. LoginRefusedExplained'
      BY <1>a, <1>15 DEF LoginInv, LoginRefusedExplained
    <3>5. QED
      BY <3>1, <3>2, <3>3, <3>4 DEF LoginInv
  <2>6. QED
    BY <2>1, <2>2, <2>3, <2>4, <2>5 DEF ClientInv, QueueInv
<1>16. CASE RouteToLogin
  <2>1. /\ page = "app" /\ page' = "login"
        /\ req' = [q \in Requests |-> [req[q] EXCEPT !.orphan = req[q].pc # "idle"]]
        /\ UNCHANGED <<access, refresh, csrf, isRefreshing, pendingRequests, store, faults>>
    BY <1>16 DEF RouteToLogin, session, queue
  <2>2. ASSUME NEW q \in Requests
        PROVE  /\ req'[q] \in RequestType
               /\ req'[q].pc = req[q].pc /\ req'[q].kind = req[q].kind
               /\ req'[q].header = req[q].header /\ req'[q].minted = req[q].minted
               /\ req'[q].answer = req[q].answer /\ req'[q].csrfRetry = req[q].csrfRetry
               /\ req'[q].minter = req[q].minter /\ req'[q].server = req[q].server
               /\ req'[q].bearer = req[q].bearer /\ req'[q].forgotten = req[q].forgotten
               /\ req'[q].orphan = (req[q].pc # "idle")
    <3>1. req'[q] = [req[q] EXCEPT !.orphan = req[q].pc # "idle"]
      BY <2>1
    <3>2. (req[q].pc # "idle") \in BOOLEAN
      OBVIOUS
    <3>3. QED
      BY <1>b, <3>1, <3>2 DEF RequestType
  <2>3. req' \in [Requests -> RequestType]
    BY <2>1, <2>2
  <2>4. \A q \in Requests : SentAgain(q)' => req[q].header \in store'[req[q].minter]
    BY <1>g, <2>1, <2>2 DEF SentAgain
  <2>5. QED
    BY <1>a, <1>15, <2>1, <2>2, <2>3, <2>4 DEF ClientTypeOK
<1>17. CASE OtherTabLogout \/ ExpireRefresh \/ UNCHANGED clientVars
  <2>1. /\ access' \in {access, "none"} /\ refresh' \in {refresh, "none", "dead"}
        /\ faults' = faults \/ (faults < MaxFaults /\ faults' = faults + 1)
        /\ UNCHANGED <<page, csrf, isRefreshing, pendingRequests, req, store>>
    BY <1>17 DEF OtherTabLogout, ExpireRefresh, clientVars, Fault, session, queue
  <2>2. faults' \in 0..MaxFaults
    BY <1>a, <2>1, WebClientAssumption DEF ClientTypeOK
  <2>3. \A q \in Requests : SentAgain(q)' => req[q].header \in store'[req[q].minter]
    BY <1>g, <2>1 DEF SentAgain
  <2>4. QED
    BY <1>a, <1>15, <2>1, <2>2, <2>3 DEF ClientTypeOK
<1>18. CASE ExpireAccess
  <2>1. /\ access' = "stale"
        /\ req' = [q \in Requests |-> IF req[q].bearer = "valid"
                                      THEN [req[q] EXCEPT !.bearer = "stale"] ELSE req[q]]
        /\ UNCHANGED <<page, refresh, csrf, isRefreshing, pendingRequests, store, faults>>
    BY <1>18 DEF ExpireAccess, queue
  <2>2. ASSUME NEW q \in Requests
        PROVE  /\ req'[q] \in RequestType
               /\ req'[q].pc = req[q].pc /\ req'[q].kind = req[q].kind
               /\ req'[q].header = req[q].header /\ req'[q].minted = req[q].minted
               /\ req'[q].answer = req[q].answer /\ req'[q].csrfRetry = req[q].csrfRetry
               /\ req'[q].minter = req[q].minter /\ req'[q].server = req[q].server
               /\ req'[q].bearer = "none" <=> req[q].bearer = "none"
               /\ req'[q].forgotten = req[q].forgotten /\ req'[q].orphan = req[q].orphan
    BY <1>b, <2>1 DEF RequestType
  <2>3. req' \in [Requests -> RequestType]
    BY <2>1, <2>2
  <2>4. \A q \in Requests : SentAgain(q)' => req[q].header \in store'[req[q].minter]
    BY <1>g, <2>1, <2>2 DEF SentAgain
  <2>5. QED
    BY <1>a, <1>15, <2>1, <2>2, <2>3, <2>4 DEF ClientTypeOK
<1>19. ASSUME NEW i \in Replicas, Forget(i) PROVE ClientInv'
  <2>1. PICK ts \in {store[i]} \cup {{t} : t \in store[i]} :
            /\ store' = [store EXCEPT ![i] = @ \ ts]
            /\ req' = [q \in Requests |-> IF req[q].header \in ts
                                          THEN [req[q] EXCEPT !.forgotten = TRUE] ELSE req[q]]
    BY <1>19 DEF Forget
  <2>2. /\ UNCHANGED <<page, access, refresh, csrf, isRefreshing, pendingRequests>>
        /\ faults < MaxFaults /\ faults' = faults + 1
    BY <1>19 DEF Forget, Fault, session, queue
  <2>3. faults' \in 0..MaxFaults
    BY <1>a, <2>2, WebClientAssumption DEF ClientTypeOK
  <2>4. ASSUME NEW q \in Requests
        PROVE  /\ req'[q] \in RequestType
               /\ req'[q].pc = req[q].pc /\ req'[q].kind = req[q].kind
               /\ req'[q].header = req[q].header /\ req'[q].minted = req[q].minted
               /\ req'[q].answer = req[q].answer /\ req'[q].csrfRetry = req[q].csrfRetry
               /\ req'[q].minter = req[q].minter /\ req'[q].server = req[q].server
               /\ req'[q].bearer = req[q].bearer /\ req'[q].orphan = req[q].orphan
               /\ req'[q].forgotten = (req[q].forgotten \/ req[q].header \in ts)
    BY <1>b, <2>1 DEF RequestType
  <2>5. req' \in [Requests -> RequestType]
    BY <2>1, <2>4
  <2>6. store' \in [Replicas -> SUBSET Tokens]
    BY <1>a, <2>1 DEF ClientTypeOK
  <2>7. ASSUME NEW q \in Requests, SentAgain(q)' PROVE req[q].header \in store'[req[q].minter]
    <3>1. SentAgain(q) /\ req[q].header \notin ts
      BY <2>4, <2>7 DEF SentAgain
    <3>2. req[q].minter \in Replicas /\ req[q].header \in store[req[q].minter]
      BY <1>a, <3>1 DEF LoginInv, TokenAwaitsLogin
    <3>3. QED
      BY <1>a, <2>1, <3>1, <3>2 DEF ClientTypeOK
  <2>8. QED
    BY <1>a, <1>15, <2>2, <2>3, <2>4, <2>5, <2>6, <2>7 DEF ClientTypeOK
<1>20. QED
  BY <1>1, <1>2, <1>3, <1>4, <1>5, <1>6, <1>7, <1>8, <1>9, <1>12, <1>13, <1>14, <1>16, <1>17,
     <1>18, <1>19 DEF ClientNext, Network, Callback

(* A browser that is logged out, or has kept a session, satisfies it.      *)
LEMMA InitClientInv == ClientInit => ClientInv
<1> SUFFICES ASSUME ClientInit PROVE ClientInv
  OBVIOUS
<1>1. NoRequest \in RequestType
  BY DEF NoRequest, RequestType
<1>2. NoRequest.pc = "idle" /\ NoRequest.kind = "read" /\ NoRequest.header = NoToken
      /\ NoRequest.minted = NoToken
  BY DEF NoRequest
<1>3. ClientTypeOK
  <2>1. 0 \in 0..MaxFaults
    BY WebClientAssumption
  <2>2. /\ page \in {"login", "app", "leaving"} /\ access \in {"none", "valid", "stale"}
        /\ refresh \in {"none", "live", "dead"}
    BY DEF ClientInit
  <2>3. req \in [Requests -> RequestType] /\ store \in [Replicas -> SUBSET Tokens]
    BY <1>1 DEF ClientInit
  <2>4. QED
    BY <2>1, <2>2, <2>3 DEF ClientInit, ClientTypeOK
<1>4. \A q \in Requests : req[q] = NoRequest
  BY DEF ClientInit
<1>5. RefreshLocked /\ QueueKept /\ Leftovers
  BY <1>2, <1>4 DEF ClientInit, RefreshLocked, QueueKept, Leftovers
<1>6. LoginInv
  BY <1>2, <1>4 DEF LoginInv, TokensCarried, LoginsAlone, TokenAwaitsLogin, SentAgain,
                    LoginRefusedExplained
<1>7. QED
  BY <1>3, <1>5, <1>6 DEF ClientInv, QueueInv

(* At most one refresh is under way, and a request waits in the queue only *)
(* for it or on a page that is gone, for any number of requests and        *)
(* replicas and however answers, reloads and logouts interleave.           *)
THEOREM OneRefreshAtATime == ClientSpec => []SingleRefresh
<1>1. ClientInv => SingleRefresh
  BY DEF ClientInv, QueueInv, RefreshLocked, QueueKept, SingleRefresh
<1>2. QED
  BY <1>1, InitClientInv, NextClientInv, PTL DEF ClientSpec

(* A login that fetched a CSRF token of its own and is refused all the     *)
(* same met another replica or one that forgot the token: no other request *)
(* of this browser can have used it up.                                    *)
THEOREM LoginRefusalsAreExplained == ClientSpec => []LoginRefusedExplained
<1>1. ClientInv => LoginRefusedExplained
  BY DEF ClientInv, LoginInv
<1>2. QED
  BY <1>1, InitClientInv, NextClientInv, PTL DEF ClientSpec
=============================================================================
