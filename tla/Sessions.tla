------------------------------ MODULE Sessions ------------------------------
(***************************************************************************)
(* The refresh tokens of one account (backend/auth/auth.go and             *)
(* backend/api/sessions.go): login, refresh with rotation, logout, change  *)
(* of password and revocation by an administrator.                         *)
(*                                                                         *)
(* Each handler is a goroutine that runs a few SQL statements one after    *)
(* the other, without a transaction; an action is one statement together   *)
(* with the code up to the next one.  A statement may fail, and then its   *)
(* effect may still have reached the database.  A process may crash and    *)
(* drop a request anywhere.  Every statement is keyed by the user id or by *)
(* the hash or id of one token, so accounts do not interact and one        *)
(* account is enough.                                                      *)
(*                                                                         *)
(* The boolean refresh_tokens.revoked is kept as the statement that set    *)
(* it: "rotated" (line 130) or "revoked" (line 119, and sessions.go:87).   *)
(* loginEpoch, epoch, racing, late, unrotated, contended, delivered and    *)
(* lostReply are history variables that only the properties read.          *)
(***************************************************************************)
EXTENDS Naturals, FiniteSets

CONSTANTS
    Clients,      \* browsers or tools logged in to the account
    Requests,     \* request goroutines
    Tokens,       \* refresh token ids: bounds the number of inserts
    NoToken,      \* "no token"
    MaxEpoch      \* bounds the number of revocations of all tokens

ASSUME NoTokenAssumption  == NoToken \notin Tokens
ASSUME MaxEpochAssumption == MaxEpoch \in Nat

VARIABLES
    row,         \* refresh_tokens, by token
    parent,      \* the token each row was exchanged for, NoToken after a login
    loginEpoch,  \* the value of epoch when the login behind each row checked
                 \* the password
    epoch,       \* how often all tokens of the account have been revoked
    held,        \* the token each client stores
    delivered,   \* tokens that have been sent to a client
    pc,          \* the next statement of each request
    client,      \* who sent it
    old,         \* the token a refresh presents
    new,         \* the token it has inserted
    asOf,        \* the loginEpoch its row gets
    racing,      \* requests that were past their check and before their
                 \* insert when all tokens were revoked
    late,        \* rows inserted by such a request, or exchanged for one
    unrotated,   \* tokens whose revocation after an exchange failed
    contended,   \* tokens that two requests were exchanging at once
    lostReply    \* clients whose refresh died between rotation and reply

db    == <<row, parent, loginEpoch>>
local == <<client, old, new, asOf>>
ghost == <<delivered, late, unrotated, contended, lostReply>>
vars  == <<db, epoch, held, pc, local, racing, ghost>>

RowStates == {"free", "live", "rotated", "revoked", "expired"}
Labels    == {"idle", "login_store", "login_reply", "refresh_store",
              "refresh_revoke", "refresh_reply", "change_update",
              "change_revoke"}
MaybeToken == Tokens \cup {NoToken}

TypeOK ==
    /\ row \in [Tokens -> RowStates]
    /\ parent \in [Tokens -> MaybeToken]
    /\ loginEpoch \in [Tokens -> Nat]
    /\ epoch \in Nat
    /\ held \in [Clients -> MaybeToken]
    /\ delivered \in SUBSET Tokens
    /\ pc \in [Requests -> Labels]
    /\ client \in [Requests -> Clients]
    /\ old \in [Requests -> MaybeToken]
    /\ new \in [Requests -> MaybeToken]
    /\ asOf \in [Requests -> Nat]
    /\ racing \in SUBSET Requests
    /\ late \in SUBSET Tokens
    /\ unrotated \in SUBSET Tokens
    /\ contended \in SUBSET Tokens
    /\ lostReply \in SUBSET Clients

Init ==
    /\ row = [t \in Tokens |-> "free"]
    /\ parent = [t \in Tokens |-> NoToken]
    /\ loginEpoch = [t \in Tokens |-> 0]
    /\ epoch = 0
    /\ held = [c \in Clients |-> NoToken]
    /\ delivered = {}
    /\ pc = [r \in Requests |-> "idle"]
    /\ client \in {[r \in Requests |-> c] : c \in Clients}
    /\ old = [r \in Requests |-> NoToken]
    /\ new = [r \in Requests |-> NoToken]
    /\ asOf = [r \in Requests |-> 0]
    /\ racing = {} /\ late = {} /\ unrotated = {} /\ contended = {} /\ lostReply = {}

-----------------------------------------------------------------------------
(* Statements and control shared by the handlers. *)

Goto(r, from, to) ==
    /\ pc[r] = from
    /\ pc' = [pc EXCEPT ![r] = to]

\* The request is over: its goroutine forgets its locals.
Finish(r, from) ==
    /\ Goto(r, from, "idle")
    /\ old' = [old EXCEPT ![r] = NoToken]
    /\ new' = [new EXCEPT ![r] = NoToken]
    /\ asOf' = [asOf EXCEPT ![r] = 0]
    /\ UNCHANGED client
    /\ racing' = racing \ {r}

\* storeRefreshToken: INSERT of a fresh random token id.
storeRefreshToken(r, t) ==
    /\ row[t] = "free"
    /\ row' = [row EXCEPT ![t] = "live"]
    /\ parent' = [parent EXCEPT ![t] = old[r]]
    /\ loginEpoch' = [loginEpoch EXCEPT ![t] = asOf[r]]
    /\ late' = IF r \in racing \/ old[r] \in late THEN late \cup {t} ELSE late

\* Mutant: the rows are deleted instead of being marked.
MutRevokeAllDeletes == row' = [t \in Tokens |-> IF row[t] = "live" THEN "deleted" ELSE row[t]]

\* Mutant: one row is revoked instead of all of them.
MutRevokeAllOnlyOne ==
    \E s \in SUBSET Tokens :
        /\ Cardinality(s) <= 1
        /\ row' = [t \in Tokens |-> IF row[t] = "live" /\ t \in s THEN "revoked" ELSE row[t]]

\* revokeAllRefreshTokens: UPDATE ... WHERE user_id = $1 AND revoked = FALSE.
revokeAllRefreshTokens ==
    row' = [t \in Tokens |-> IF row[t] = "live" THEN "revoked" ELSE row[t]]

\* revokeAllRefreshTokens and its bookkeeping: requests that have made their
\* check and not yet their insert are racing with it.
RevokeAll(r) ==
    /\ epoch < MaxEpoch
    /\ revokeAllRefreshTokens
    /\ epoch' = epoch + 1
    /\ racing' = (racing \cup {q \in Requests : pc[q] \in {"login_store", "refresh_store"}})
                 \ {r}

-----------------------------------------------------------------------------
(* LoginHandler. *)

\* Lines 144-168: the account is read and the password checked.  A wrong
\* password, an unknown user or a failed query return without an effect.
LoginCheck(r, c) ==
    /\ Goto(r, "idle", "login_store")
    /\ client' = [client EXCEPT ![r] = c]
    /\ asOf' = [asOf EXCEPT ![r] = epoch]
    /\ UNCHANGED <<db, epoch, held, old, new, racing, ghost>>

\* Lines 170-185: the row is inserted.
LoginStore(r) ==
    \E t \in Tokens :
        /\ Goto(r, "login_store", "login_reply")
        /\ storeRefreshToken(r, t)
        /\ new' = [new EXCEPT ![r] = t]
        /\ UNCHANGED <<epoch, held, client, old, asOf, racing, delivered, unrotated,
                       contended, lostReply>>

\* Lines 181-185: the insert reports an error; 500.
LoginStoreFails(r) ==
    /\ Finish(r, "login_store")
    /\ \/ UNCHANGED <<db, late>>
       \/ \E t \in Tokens : storeRefreshToken(r, t)
    /\ UNCHANGED <<epoch, held, delivered, unrotated, contended, lostReply>>

\* Lines 187-199: the client receives and stores its token.
LoginReply(r) ==
    /\ Finish(r, "login_reply")
    /\ held' = [held EXCEPT ![client[r]] = new[r]]
    /\ delivered' = delivered \cup {new[r]}
    /\ UNCHANGED <<db, epoch, late, unrotated, contended, lostReply>>

-----------------------------------------------------------------------------
(* RefreshTokenHandler. *)

\* Lines 249-267 and validateRefreshToken: the presented token is live.
\* Otherwise 401, without an effect.
RefreshValidate(r, c) ==
    /\ held[c] # NoToken
    /\ row[held[c]] = "live"
    /\ Goto(r, "idle", "refresh_store")
    /\ client' = [client EXCEPT ![r] = c]
    /\ old' = [old EXCEPT ![r] = held[c]]
    /\ asOf' = [asOf EXCEPT ![r] = loginEpoch[held[c]]]
    /\ contended' = IF \E q \in Requests : /\ pc[q] \in {"refresh_store", "refresh_revoke"}
                                           /\ old[q] = held[c]
                    THEN contended \cup {held[c]} ELSE contended
    /\ UNCHANGED <<db, epoch, held, new, racing, delivered, late, unrotated, lostReply>>

\* Mutant: the presented token is revoked first, and then the insert fails.
MutRefreshStoreFailsRevoked(r) ==
    /\ Finish(r, "refresh_store")
    /\ row' = [row EXCEPT ![old[r]] = IF @ = "live" THEN "rotated" ELSE @]
    /\ UNCHANGED <<parent, loginEpoch, late, epoch, held, delivered, unrotated,
                   contended, lostReply>>

\* Lines 269-275: the replacement is inserted.
RefreshStore(r) ==
    \E t \in Tokens :
        /\ Goto(r, "refresh_store", "refresh_revoke")
        /\ storeRefreshToken(r, t)
        /\ new' = [new EXCEPT ![r] = t]
        /\ UNCHANGED <<epoch, held, client, old, asOf, racing, delivered, unrotated,
                       contended, lostReply>>

\* Lines 271-275: the insert reports an error; 500.
RefreshStoreFails(r) ==
    /\ Finish(r, "refresh_store")
    /\ \/ UNCHANGED <<db, late>>
       \/ \E t \in Tokens : storeRefreshToken(r, t)
    /\ UNCHANGED <<epoch, held, delivered, unrotated, contended, lostReply>>

\* Mutant: the presented token is not revoked.
MutRefreshRevokeSkipped(r) ==
    /\ Goto(r, "refresh_revoke", "refresh_reply")
    /\ UNCHANGED <<db, epoch, held, local, racing, ghost>>

\* Line 280 and revokeRefreshTokenByValue: the presented token is revoked.
RefreshRevoke(r) ==
    /\ Goto(r, "refresh_revoke", "refresh_reply")
    /\ row' = [row EXCEPT ![old[r]] = IF @ = "live" THEN "rotated" ELSE @]
    /\ UNCHANGED <<parent, loginEpoch, epoch, held, local, racing, ghost>>

\* Lines 280-282: the revocation reports an error, which is only logged.
RefreshRevokeFails(r) ==
    /\ Goto(r, "refresh_revoke", "refresh_reply")
    /\ unrotated' = unrotated \cup {old[r]}
    /\ UNCHANGED <<db, epoch, held, local, racing, delivered, late, contended, lostReply>>

\* Lines 284-295: the client replaces its token.
RefreshReply(r) ==
    /\ Finish(r, "refresh_reply")
    /\ held' = [held EXCEPT ![client[r]] = new[r]]
    /\ delivered' = delivered \cup {new[r]}
    /\ UNCHANGED <<db, epoch, late, unrotated, contended, lostReply>>

-----------------------------------------------------------------------------
(* LogoutHandler, ChangePasswordHandler, RevokeSessionHandler. *)

\* Lines 318-329: all tokens are revoked; if that reports an error it is only
\* logged.  (The blacklisting of the access token is in AccessTokens.)
Logout(r) ==
    /\ pc[r] = "idle"
    /\ RevokeAll(r)
    /\ UNCHANGED <<parent, loginEpoch, held, pc, local, ghost>>

\* Lines 335-375: the current password is checked.
ChangeCheck(r, c) ==
    /\ Goto(r, "idle", "change_update")
    /\ client' = [client EXCEPT ![r] = c]
    /\ UNCHANGED <<db, epoch, held, old, new, asOf, racing, ghost>>

\* Line 379: the hash is replaced.  Its value is not kept: the check of line
\* 365 and the one of LoginHandler are choices of the environment.
ChangeUpdate(r) ==
    /\ Goto(r, "change_update", "change_revoke")
    /\ UNCHANGED <<db, epoch, held, local, racing, ghost>>

\* Lines 379-383: the update reports an error; 500.
ChangeUpdateFails(r) ==
    /\ Finish(r, "change_update")
    /\ UNCHANGED <<db, epoch, held, ghost>>

\* Lines 385-390: all tokens are revoked, and the reply says so.
ChangeRevoke(r) ==
    /\ Goto(r, "change_revoke", "idle")
    /\ RevokeAll(r)
    /\ UNCHANGED <<parent, loginEpoch, held, local, ghost>>

\* Lines 385-390: the revocation reports an error, which is only logged.
ChangeRevokeFails(r) ==
    /\ Finish(r, "change_revoke")
    /\ UNCHANGED <<db, epoch, held, ghost>>

\* RevokeSessionHandler, sessions.go:82-100: one row, by its id.
RevokeSession(t) ==
    /\ row[t] = "live"
    /\ row' = [row EXCEPT ![t] = "revoked"]
    /\ UNCHANGED <<parent, loginEpoch, epoch, held, pc, local, racing, ghost>>

-----------------------------------------------------------------------------
(* The environment. *)

\* expires_at passes (RefreshTokenTTL, seven days).
Expire(t) ==
    /\ row[t] = "live"
    /\ row' = [row EXCEPT ![t] = "expired"]
    /\ UNCHANGED <<parent, loginEpoch, epoch, held, pc, local, racing, ghost>>

\* The process that serves r dies, and the goroutine and its reply with it; or
\* the network loses the reply, which to the client is the same.
Crash(r) ==
    /\ pc[r] # "idle"
    /\ Finish(r, pc[r])
    /\ lostReply' = IF pc[r] = "refresh_reply" THEN lostReply \cup {client[r]}
                    ELSE lostReply
    /\ UNCHANGED <<db, epoch, held, delivered, late, unrotated, contended>>

-----------------------------------------------------------------------------
LoginHandler(r)   == LoginStore(r) \/ LoginStoreFails(r) \/ LoginReply(r)
RefreshHandler(r) == RefreshStore(r) \/ RefreshStoreFails(r) \/ RefreshRevoke(r)
                     \/ RefreshRevokeFails(r) \/ RefreshReply(r)
ChangeHandler(r)  == ChangeUpdate(r) \/ ChangeUpdateFails(r) \/ ChangeRevoke(r)
                     \/ ChangeRevokeFails(r)
Arrive(r, c)      == LoginCheck(r, c) \/ RefreshValidate(r, c) \/ ChangeCheck(r, c)

Next ==
    \/ \E r \in Requests : \/ \E c \in Clients : Arrive(r, c)
                           \/ LoginHandler(r) \/ RefreshHandler(r)
                           \/ ChangeHandler(r) \/ Logout(r) \/ Crash(r)
    \/ \E t \in Tokens : RevokeSession(t) \/ Expire(t)

Spec == Init /\ [][Next]_vars

-----------------------------------------------------------------------------
(* Properties. *)

(* The order of RefreshTokenHandler protects the client (comment on lines  *)
(* 277-279): the token a client stores is dead through rotation only while *)
(* the reply with its replacement is on the way, or because a crash or the *)
(* network lost that reply.  No failed statement can strand it.            *)
NoStranding ==
    \A c \in Clients :
        (held[c] # NoToken /\ row[held[c]] = "rotated") =>
            \/ \E r \in Requests :
                  /\ pc[r] = "refresh_reply" /\ client[r] = c
                  /\ row[new[r]] \in {"live", "revoked", "expired"}
            \/ c \in lostReply

(* The exact window of revokeAllRefreshTokens: a session older than the    *)
(* last revocation of all tokens is alive only if a request of it was      *)
(* between its check and its insert when the revocation ran.               *)
SurvivorsRaced ==
    \A t \in Tokens : (row[t] = "live" /\ loginEpoch[t] < epoch) => t \in late

(* The exact windows of rotation: two tokens that were sent out in         *)
(* exchange for the same one mean that two requests had validated it       *)
(* before either revoked it (lines 255 and 280), or that its revocation    *)
(* failed and was logged.  No crash, retry or failed insert is enough.     *)
DoubleUseContended ==
    \A s, t \in delivered :
        (parent[s] = parent[t] /\ parent[s] # NoToken) =>
            s = t \/ parent[s] \in unrotated \cup contended
=============================================================================
