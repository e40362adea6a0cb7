----------------------------- MODULE WebClient ------------------------------
(***************************************************************************)
(* The browser client and the checks it meets first at the backend:        *)
(* the interceptors of frontend/src/api/client.ts, the pages that keep or  *)
(* drop a session (Login.tsx, App.tsx) and CSRFMiddleware                  *)
(* (backend/middleware/csrf.go), whose tokens live in the memory of one    *)
(* replica.                                                                *)
(*                                                                         *)
(* JavaScript runs one callback at a time: an action is one callback up to *)
(* its next await, or one request handled by a replica.  The GET of a CSRF *)
(* token and the POST of a refresh are one action each with the callback   *)
(* that receives them, because nothing is decided in between.              *)
(*                                                                         *)
(* A CSRF token that neither the page nor a request holds can never be     *)
(* presented again, so its name is given to a later token.                 *)
(***************************************************************************)
EXTENDS Naturals, FiniteSets

CONSTANTS
    Requests,   \* requests a page may have outstanding
    Replicas,   \* backend processes, each with its own store of CSRF tokens
    Tokens,     \* names of CSRF tokens
    NoToken,
    MaxFaults   \* bounds lost refreshes, logouts elsewhere, and restarts and
                \* expiries that lose CSRF tokens

ASSUME WebClientAssumption ==
    /\ IsFiniteSet(Requests) /\ IsFiniteSet(Tokens)
    /\ Cardinality(Tokens) > Cardinality(Requests) + 1
    /\ NoToken \notin Tokens
    /\ MaxFaults \in Nat

VARIABLES
    page,            \* "login", "app", or "leaving" until the browser reloads
    access,          \* seagles_token: "none", "valid" or "stale"
    refresh,         \* seagles_refresh: "none", "live" or "dead"
    csrf,            \* csrfToken and its copy in sessionStorage
    isRefreshing,
    pendingRequests,
    req,             \* the requests
    store,           \* globalCSRF.tokens of each replica
    faults

session    == <<access, refresh>>
queue      == <<isRefreshing, pendingRequests>>
clientVars == <<page, session, csrf, queue, req, store, faults>>

\* A request: where it is; what it asks for; its Authorization and
\* X-CSRF-Token headers; the answer, and the CSRF token that comes with a
\* good one; _retry and _csrfRetry; and, as history, the replica that refused
\* it again, the one that minted the CSRF token it fetched, whether a replica
\* has forgotten the token in its header, and whether its page was replaced.
NoRequest == [pc |-> "idle", kind |-> "read", bearer |-> "none", header |-> NoToken,
              answer |-> "none", minted |-> NoToken, retry |-> FALSE, csrfRetry |-> FALSE,
              server |-> "none", minter |-> "none", forgotten |-> FALSE,
              orphan |-> FALSE]

RequestType ==
    [pc : {"idle", "sent", "answered", "fetching", "queued", "refreshing"},
     kind : {"login", "read", "write", "logout"},
     bearer : {"none", "valid", "stale"},
     header : Tokens \cup {NoToken},
     answer : {"none", "ok", "unauthorized", "csrf", "error"},
     minted : Tokens \cup {NoToken},
     retry : BOOLEAN, csrfRetry : BOOLEAN,
     server : Replicas \cup {"none"}, minter : Replicas \cup {"none"},
     forgotten : BOOLEAN, orphan : BOOLEAN]

ClientTypeOK ==
    /\ page \in {"login", "app", "leaving"}
    /\ access \in {"none", "valid", "stale"}
    /\ refresh \in {"none", "live", "dead"}
    /\ csrf \in Tokens \cup {NoToken}
    /\ isRefreshing \in BOOLEAN
    /\ pendingRequests \in SUBSET Requests
    /\ req \in [Requests -> RequestType]
    /\ store \in [Replicas -> SUBSET Tokens]
    /\ faults \in 0..MaxFaults

\* A browser that is logged out, or that kept a session in localStorage.
ClientInit ==
    /\ \/ page = "login" /\ access = "none" /\ refresh = "none"
       \/ page = "app" /\ access \in {"valid", "stale"} /\ refresh \in {"live", "dead"}
    /\ csrf = NoToken
    /\ isRefreshing = FALSE
    /\ pendingRequests = {}
    /\ req = [q \in Requests |-> NoRequest]
    /\ store = [i \in Replicas |-> {}]
    /\ faults = 0

Fault ==
    /\ faults < MaxFaults
    /\ faults' = faults + 1

-----------------------------------------------------------------------------
(* The client's helpers. *)

\* The request interceptor.  The CSRF header is kept only without a bearer
\* token, for no replica looks at it otherwise.
Attach(r, token) ==
    [r EXCEPT !.pc = "sent", !.answer = "none", !.forgotten = FALSE,
              !.bearer = access, !.header = IF access = "none" THEN token ELSE NoToken]

\* An answer.  Whatever sends the request again sets its headers anew, so
\* they are dropped.
Answered(r, a) ==
    [r EXCEPT !.pc = "answered", !.answer = a, !.bearer = "none", !.header = NoToken]

\* clearSession; only a page other than /login is left.
clearSession ==
    /\ access' = "none"
    /\ refresh' = "none"
    /\ csrf' = NoToken
    /\ page' = IF page = "login" THEN page ELSE "leaving"

\* The promise of a request is rejected.  Logout goes on all the same:
\* handleLogout drops the session and leaves the page.
Reject(q) ==
    /\ req' = [req EXCEPT ![q] = NoRequest]
    /\ IF req[q].kind = "logout"
       THEN access' = "none" /\ refresh' = "none" /\ page' = "leaving"
       ELSE UNCHANGED <<session, page>>
    /\ UNCHANGED csrf

\* The same after clearSession.
RejectAndClear(q) ==
    /\ req' = [req EXCEPT ![q] = NoRequest]
    /\ IF req[q].kind = "logout"
       THEN access' = "none" /\ refresh' = "none" /\ csrf' = NoToken /\ page' = "leaving"
       ELSE clearSession

-----------------------------------------------------------------------------
(* CSRFMiddleware. *)

\* Tokens that can still be presented.
Held == ({csrf} \cup {req[q].header : q \in Requests} \cup {req[q].minted : q \in Requests})
        \ {NoToken}

Fresh == CHOOSE t \in Tokens : t \notin Held

\* A request with a bearer token and a GET pass; any other needs a token of
\* this replica.
CSRFAdmits(i, bearer, kind, token) ==
    bearer # "none" \/ kind = "read" \/ token \in store[i]

\* ValidateCSRFToken takes a token out, if one was asked for, and
\* SetCSRFToken puts a new one in.
SetCSRFToken(i, bearer, kind, token) ==
    LET used == IF bearer = "none" /\ kind # "read" THEN {token} ELSE {} IN
    store' = [k \in Replicas |->
                 IF k = i THEN ((store[k] \cap Held) \ used) \cup {Fresh}
                          ELSE store[k] \cap Held]

-----------------------------------------------------------------------------
(* Requests. *)

\* A page sends a request; the button of the login form is disabled while
\* one is under way.  With a bearer token a write meets what a read meets,
\* and only reads are sent.
Send(q, kind) ==
    /\ req[q].pc = "idle"
    /\ \/ page = "app" /\ kind # "login" /\ (kind = "write" => access = "none")
       \/ /\ page = "login" /\ kind = "login"
          /\ \A p \in Requests : req[p].kind # "login"
    /\ req' = [req EXCEPT ![q] = Attach([NoRequest EXCEPT !.kind = kind], csrf)]
    /\ UNCHANGED <<page, session, csrf, queue, store, faults>>

\* A replica refuses a request in CSRFMiddleware.
ServeRefused(q, i) ==
    /\ req[q].pc = "sent"
    /\ ~CSRFAdmits(i, req[q].bearer, req[q].kind, req[q].header)
    /\ req' = [req EXCEPT ![q] = [Answered(@, "csrf") EXCEPT
                  !.server = IF req[q].csrfRetry THEN i ELSE "none"]]
    /\ UNCHANGED <<page, session, csrf, queue, store, faults>>

\* A replica handles a request.  LoginHandler accepts or refuses the
\* password; the other handlers stand behind AuthMiddleware.  Any of them
\* may fail for reasons of its own.
ServeHandled(q, i) ==
    LET r == req[q]
        answers == IF r.kind = "login" THEN {"ok", "unauthorized", "error"}
                   ELSE IF r.bearer = "valid" THEN {"ok", "error"} ELSE {"unauthorized"} IN
    /\ r.pc = "sent"
    /\ CSRFAdmits(i, r.bearer, r.kind, r.header)
    /\ SetCSRFToken(i, r.bearer, r.kind, r.header)
    /\ \E a \in answers :
          /\ req' = [req EXCEPT ![q] = [Answered(@, a) EXCEPT
                        !.minted = IF a = "ok" THEN Fresh ELSE NoToken, !.minter = "none"]]
          /\ refresh' = IF r.kind = "logout" /\ a = "ok" /\ refresh = "live"
                        THEN "dead" ELSE refresh
    /\ UNCHANGED <<page, access, csrf, queue, faults>>

\* The connection breaks; lines 133-137 reject the request.
NetworkError(q) ==
    /\ req[q].pc = "sent"
    /\ Reject(q)
    /\ UNCHANGED <<queue, store, faults>>

-----------------------------------------------------------------------------
(* The response interceptor. *)

\* Lines 56-68, and Login.tsx or handleLogout after them.
OnSuccess(q) ==
    LET r == req[q] IN
    /\ r.pc = "answered" /\ r.answer = "ok"
    /\ csrf' = r.minted
    /\ req' = [req EXCEPT ![q] = NoRequest]
    /\ CASE r.kind = "login"  -> /\ access' = "valid" /\ refresh' = "live"
                                 /\ page' = IF page = "leaving" THEN page ELSE "app"
         [] r.kind = "logout" -> access' = "none" /\ refresh' = "none" /\ page' = "leaving"
         [] OTHER             -> UNCHANGED <<session, page>>
    /\ UNCHANGED <<queue, store, faults>>

\* Mutant: _csrfRetry is not set.
MutOnCsrfRefused(q) ==
    /\ req[q].pc = "answered" /\ req[q].answer = "csrf" /\ ~req[q].csrfRetry
    /\ req' = [req EXCEPT ![q].pc = "fetching"]
    /\ UNCHANGED <<page, session, csrf, queue, store, faults>>

\* Lines 72-76: the first refusal for want of a CSRF token.
OnCsrfRefused(q) ==
    /\ req[q].pc = "answered" /\ req[q].answer = "csrf" /\ ~req[q].csrfRetry
    /\ req' = [req EXCEPT ![q].pc = "fetching", ![q].csrfRetry = TRUE]
    /\ UNCHANGED <<page, session, csrf, queue, store, faults>>

\* Mutant: the new token is put in the header, where the request interceptor
\* replaces it by the stored one.
MutFetchCsrf(q, i) ==
    /\ req[q].pc = "fetching"
    /\ SetCSRFToken(i, "none", "read", NoToken)
    /\ req' = [req EXCEPT ![q] =
                  [Attach(@, IF csrf # NoToken THEN csrf ELSE Fresh) EXCEPT !.minter = i]]
    /\ UNCHANGED <<page, session, csrf, queue, faults>>

\* Lines 31-37 and 77-80: GET /health mints a token, which is stored and sent.
FetchCsrf(q, i) ==
    /\ req[q].pc = "fetching"
    /\ SetCSRFToken(i, "none", "read", NoToken)
    /\ csrf' = Fresh
    /\ req' = [req EXCEPT ![q] = [Attach(@, Fresh) EXCEPT !.minter = i]]
    /\ UNCHANGED <<page, session, queue, faults>>

\* Lines 38-39, then 133-137.
FetchCsrfFails(q) ==
    /\ req[q].pc = "fetching"
    /\ Reject(q)
    /\ UNCHANGED <<queue, store, faults>>

\* Lines 133-137: a second refusal, or another error.
OnError(q) ==
    LET r == req[q] IN
    /\ r.pc = "answered"
    /\ r.answer = "error" \/ (r.answer = "csrf" /\ r.csrfRetry)
    /\ Reject(q)
    /\ UNCHANGED <<queue, store, faults>>

\* Lines 84-87: a refresh is worth trying.
Refreshable(r) == ~r.retry /\ r.kind # "login"

\* Lines 89-93 and 133-137.
OnUnauthorized(q) ==
    LET r == req[q] IN
    /\ r.pc = "answered" /\ r.answer = "unauthorized"
    /\ ~Refreshable(r) \/ refresh = "none"
    /\ RejectAndClear(q)
    /\ UNCHANGED <<queue, store, faults>>

\* Mutant: isRefreshing is set by the answer of the refresh.
MutStartRefresh(q) ==
    LET r == req[q] IN
    /\ r.pc = "answered" /\ r.answer = "unauthorized"
    /\ Refreshable(r) /\ refresh # "none" /\ ~isRefreshing
    /\ req' = [req EXCEPT ![q].pc = "refreshing", ![q].retry = TRUE]
    /\ UNCHANGED <<page, session, csrf, queue, store, faults>>

\* Lines 105-109.
StartRefresh(q) ==
    LET r == req[q] IN
    /\ r.pc = "answered" /\ r.answer = "unauthorized"
    /\ Refreshable(r) /\ refresh # "none" /\ ~isRefreshing
    /\ isRefreshing' = TRUE
    /\ req' = [req EXCEPT ![q].pc = "refreshing", ![q].retry = TRUE]
    /\ UNCHANGED <<page, session, csrf, pendingRequests, store, faults>>

\* Lines 95-103.
Enqueue(q) ==
    LET r == req[q] IN
    /\ r.pc = "answered" /\ r.answer = "unauthorized"
    /\ Refreshable(r) /\ refresh # "none" /\ isRefreshing
    /\ pendingRequests' = pendingRequests \cup {q}
    /\ req' = [req EXCEPT ![q].pc = "queued"]
    /\ UNCHANGED <<page, session, csrf, isRefreshing, store, faults>>

\* Lines 111-124: the new pair is stored, and the queue is sent.
Renewed(q) ==
    /\ access' = "valid"
    /\ refresh' = "live"
    /\ req' = [p \in Requests |->
                  IF p \in pendingRequests \cup {q}
                  THEN [Attach(req[p], csrf) EXCEPT !.bearer = "valid"] ELSE req[p]]
    /\ pendingRequests' = {}
    /\ UNCHANGED <<page, csrf>>

\* Lines 125-127.
RefreshRejected(q) ==
    /\ RejectAndClear(q)
    /\ UNCHANGED pendingRequests

\* Line 109 calls axios itself, not the instance with the interceptors: the
\* POST has neither an Authorization nor an X-CSRF-Token header.
RefreshAnswered(q, i) ==
    /\ req[q].pc = "refreshing"
    /\ IF CSRFAdmits(i, "none", "write", NoToken)
       THEN /\ SetCSRFToken(i, "none", "write", NoToken)
            /\ IF refresh = "live" THEN Renewed(q) ELSE RefreshRejected(q)
       ELSE RefreshRejected(q) /\ UNCHANGED store
    /\ isRefreshing' = FALSE
    /\ UNCHANGED faults

\* The connection breaks during a refresh.
RefreshFails(q) ==
    /\ Fault
    /\ req[q].pc = "refreshing"
    /\ RefreshRejected(q)
    /\ isRefreshing' = FALSE
    /\ UNCHANGED store

-----------------------------------------------------------------------------
(* The browser and time. *)

\* window.location.href = '/login' has been set: the scripts start anew.
Unload ==
    /\ page = "leaving"
    /\ page' = "login"
    /\ isRefreshing' = FALSE
    /\ pendingRequests' = {}
    /\ req' = [q \in Requests |-> NoRequest]
    /\ UNCHANGED <<session, csrf, store, faults>>

\* ProtectedRoute replaces the page without a reload.
RouteToLogin ==
    /\ page = "app" /\ access = "none"
    /\ page' = "login"
    /\ req' = [q \in Requests |-> [req[q] EXCEPT !.orphan = req[q].pc # "idle"]]
    /\ UNCHANGED <<session, csrf, queue, store, faults>>

\* Another tab logs out; localStorage is shared.
OtherTabLogout ==
    /\ Fault
    /\ access # "none"
    /\ access' = "none" /\ refresh' = "none"
    /\ UNCHANGED <<page, csrf, queue, req, store>>

\* The access token reaches the end of its 15 minutes.
ExpireAccess ==
    /\ access = "valid"
    /\ access' = "stale"
    /\ req' = [q \in Requests |-> IF req[q].bearer = "valid"
                                  THEN [req[q] EXCEPT !.bearer = "stale"] ELSE req[q]]
    /\ UNCHANGED <<page, refresh, csrf, queue, store, faults>>

\* The refresh token expires or is revoked.
ExpireRefresh ==
    /\ refresh = "live"
    /\ refresh' = "dead"
    /\ UNCHANGED <<page, access, csrf, queue, req, store, faults>>

\* A replica restarts, or tokens of its store expire or are purged.
Forget(i) ==
    /\ Fault
    /\ \E ts \in {store[i]} \cup {{t} : t \in store[i]} :
          /\ store' = [store EXCEPT ![i] = @ \ ts]
          /\ req' = [q \in Requests |-> IF req[q].header \in ts
                                        THEN [req[q] EXCEPT !.forgotten = TRUE] ELSE req[q]]
    /\ UNCHANGED <<page, session, csrf, queue>>

-----------------------------------------------------------------------------
Network(q) == NetworkError(q) \/ FetchCsrfFails(q) \/ RefreshFails(q)
              \/ \E i \in Replicas : \/ ServeRefused(q, i) \/ ServeHandled(q, i)
                                     \/ FetchCsrf(q, i) \/ RefreshAnswered(q, i)
Callback(q) == OnSuccess(q) \/ OnCsrfRefused(q) \/ OnError(q) \/ OnUnauthorized(q)
               \/ StartRefresh(q) \/ Enqueue(q)

ClientNext ==
    \/ \E q \in Requests :
          \/ \E kind \in {"login", "read", "write", "logout"} : Send(q, kind)
          \/ Network(q) \/ Callback(q)
    \/ \E i \in Replicas : Forget(i)
    \/ Unload \/ RouteToLogin \/ OtherTabLogout \/ ExpireAccess \/ ExpireRefresh

ClientSpec == ClientInit /\ [][ClientNext]_clientVars

(***************************************************************************)
(* Fairness: a request is answered or its connection breaks, the callback  *)
(* of an answer runs, and the browser follows an assignment to             *)
(* window.location.  Users and clocks are not fair.                        *)
(***************************************************************************)
FairClientSpec ==
    /\ ClientSpec
    /\ WF_clientVars(Unload)
    /\ \A q \in Requests : WF_clientVars(Network(q)) /\ WF_clientVars(Callback(q))

-----------------------------------------------------------------------------
(* Properties. *)

(* One refresh at a time (client.ts:95-107; ADR-019: "Request queue        *)
(* prevents concurrent refresh calls"): no two requests refresh at once,   *)
(* and a request waits in the queue only while another refreshes, or when  *)
(* nobody waits for it any more: its page is left or has been replaced.    *)
SingleRefresh ==
    /\ \A p, q \in Requests :
          req[p].pc = "refreshing" /\ req[q].pc = "refreshing" => p = q
    /\ \A q \in Requests :
          req[q].pc = "queued" =>
              page = "leaving" \/ req[q].orphan \/ \E p \in Requests : req[p].pc = "refreshing"

(* A login that is turned away for its CSRF token although it fetched a    *)
(* new one (client.ts:74-81) was answered by another replica than the one  *)
(* that minted the token, or that replica has restarted or let the token   *)
(* expire (csrf.go:49-66).  No other request takes the token away, however *)
(* the requests left over from an earlier page interleave with it.         *)
LoginRefusedExplained ==
    \A q \in Requests :
        LET r == req[q] IN
        (r.kind = "login" /\ r.answer = "csrf" /\ r.csrfRetry /\ r.pc = "answered")
            => r.minter # r.server \/ r.forgotten

(* The promise of every request is settled or its page is unloaded         *)
(* (client.ts:97-102 hands out promises that only a successful refresh     *)
(* resolves).  The exception is a queued request whose page was replaced   *)
(* by /login without a reload: clearSession does not leave that page, and  *)
(* the promise stays in pendingRequests, into the next session.            *)
EveryRequestSettles ==
    \A q \in Requests :
        req[q].pc # "idle" ~>
            (req[q].pc = "idle" \/ (req[q].pc = "queued" /\ req[q].orphan))
=============================================================================
