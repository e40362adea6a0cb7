----------------------------- MODULE AuthProofs -----------------------------
(***************************************************************************)
(* Theorems about the two kinds of tokens of an account.                   *)
(*                                                                         *)
(* Refresh tokens (Sessions), for any number of clients, requests, tokens  *)
(* and revocations, in three layers over the type invariant: one for the   *)
(* window of revokeAllRefreshTokens, one for the order of the statements   *)
(* of RefreshTokenHandler, and one for the windows of rotation.            *)
(*                                                                         *)
(* Access tokens (AccessTokens), for any number of processes and tokens,   *)
(* any configurations and any two lifetimes of which the token's is the    *)
(* shorter.                                                                *)
(***************************************************************************)
EXTENDS Sessions, AccessTokens, TLAPS

-----------------------------------------------------------------------------
(* Refresh tokens. *)

Storing   == {"login_reply", "refresh_revoke", "refresh_reply"}
Exchanges == {"refresh_store", "refresh_revoke", "refresh_reply"}

\* A request past its insert knows the token it inserted, and a refresh the
\* token it was given.
LocalsSet ==
    \A r \in Requests :
        /\ pc[r] \in Storing => new[r] \in Tokens
        /\ pc[r] \in Exchanges => old[r] \in Tokens

TypeInv == TypeOK /\ LocalsSet

(* The empty table and idle goroutines satisfy the type invariant.         *)
LEMMA InitTypeInv == Init => TypeInv
BY DEF Init, TypeInv, TypeOK, LocalsSet, RowStates, Labels, MaybeToken, Storing, Exchanges

(* Every statement, failed or not, keeps the types.                        *)
LEMMA NextTypeInv == TypeInv /\ [Next]_vars => TypeInv'
<1> SUFFICES ASSUME TypeInv, [Next]_vars PROVE TypeInv'
  OBVIOUS
<1> USE NoTokenAssumption, MaxEpochAssumption
    DEF TypeInv, TypeOK, LocalsSet, RowStates, Labels, MaybeToken, Storing, Exchanges, db, local,
        ghost
<1>1. ASSUME NEW r \in Requests, NEW c \in Clients, LoginCheck(r, c) PROVE TypeInv'
  BY <1>1 DEF LoginCheck, Goto
<1>2. ASSUME NEW r \in Requests, LoginStore(r) PROVE TypeInv'
  BY <1>2 DEF LoginStore, Goto, storeRefreshToken
<1>3. ASSUME NEW r \in Requests, LoginStoreFails(r) PROVE TypeInv'
  BY <1>3 DEF LoginStoreFails, Finish, Goto, storeRefreshToken
<1>4. ASSUME NEW r \in Requests, LoginReply(r) PROVE TypeInv'
  BY <1>4 DEF LoginReply, Finish, Goto
<1>5. ASSUME NEW r \in Requests, NEW c \in Clients, RefreshValidate(r, c) PROVE TypeInv'
  BY <1>5 DEF RefreshValidate, Goto
<1>6. ASSUME NEW r \in Requests, RefreshStore(r) PROVE TypeInv'
  BY <1>6 DEF RefreshStore, Goto, storeRefreshToken
<1>7. ASSUME NEW r \in Requests, RefreshStoreFails(r) PROVE TypeInv'
  BY <1>7 DEF RefreshStoreFails, Finish, Goto, storeRefreshToken
<1>8. ASSUME NEW r \in Requests, RefreshRevoke(r) PROVE TypeInv'
  BY <1>8 DEF RefreshRevoke, Goto
<1>9. ASSUME NEW r \in Requests, RefreshRevokeFails(r) PROVE TypeInv'
  BY <1>9 DEF RefreshRevokeFails, Goto
<1>10. ASSUME NEW r \in Requests, RefreshReply(r) PROVE TypeInv'
  BY <1>10 DEF RefreshReply, Finish, Goto
<1>11. ASSUME NEW r \in Requests, Logout(r) PROVE TypeInv'
  BY <1>11 DEF Logout, RevokeAll, revokeAllRefreshTokens
<1>12. ASSUME NEW r \in Requests, NEW c \in Clients, ChangeCheck(r, c) PROVE TypeInv'
  BY <1>12 DEF ChangeCheck, Goto
<1>13. ASSUME NEW r \in Requests, ChangeUpdate(r) PROVE TypeInv'
  BY <1>13 DEF ChangeUpdate, Goto
<1>14. ASSUME NEW r \in Requests, ChangeUpdateFails(r) PROVE TypeInv'
  BY <1>14 DEF ChangeUpdateFails, Finish, Goto
<1>15. ASSUME NEW r \in Requests, ChangeRevoke(r) PROVE TypeInv'
  BY <1>15 DEF ChangeRevoke, Goto, RevokeAll, revokeAllRefreshTokens
<1>16. ASSUME NEW r \in Requests, ChangeRevokeFails(r) PROVE TypeInv'
  BY <1>16 DEF ChangeRevokeFails, Finish, Goto
<1>17. ASSUME NEW t \in Tokens, RevokeSession(t) PROVE TypeInv'
  BY <1>17 DEF RevokeSession
<1>18. ASSUME NEW t \in Tokens, Expire(t) PROVE TypeInv'
  BY <1>18 DEF Expire
<1>19. ASSUME NEW r \in Requests, Crash(r) PROVE TypeInv'
  BY <1>19 DEF Crash, Finish, Goto
<1>20. CASE UNCHANGED vars
  BY <1>20 DEF vars
<1>21. QED
  BY <1>1, <1>2, <1>3, <1>4, <1>5, <1>6, <1>7, <1>8, <1>9, <1>10, <1>11, <1>12, <1>13,
     <1>14, <1>15, <1>16, <1>17, <1>18, <1>19, <1>20
     DEF Next, Arrive, LoginHandler, RefreshHandler, ChangeHandler

(* The type invariant holds in every reachable state.                      *)
LEMMA TypeInvHolds == Spec => []TypeInv
<1>1. QED
  BY InitTypeInv, NextTypeInv, PTL DEF Spec

(* Every reachable state is well typed.                                    *)
THEOREM TypeCorrect == Spec => []TypeOK
<1>1. TypeInv => TypeOK
  BY DEF TypeInv
<1>2. QED
  BY <1>1, TypeInvHolds, PTL

-----------------------------------------------------------------------------
(* The window of revokeAllRefreshTokens. *)

\* A request that is about to insert a row for a session older than the last
\* revocation was overtaken by it, or presents a token that was.
OvertakenKnown ==
    \A r \in Requests :
        /\ (pc[r] = "login_store" /\ asOf[r] < epoch) => r \in racing
        /\ (pc[r] = "refresh_store" /\ asOf[r] < epoch) =>
              r \in racing \/ old[r] \in late

RaceInv == OvertakenKnown /\ SurvivorsRaced

(* Before the first login there is nothing to survive a revocation.        *)
LEMMA InitRaceInv == Init => RaceInv
BY DEF Init, RaceInv, OvertakenKnown, SurvivorsRaced

(* No interleaving of statements leaves a live row of an older session     *)
(* behind that is not accounted for.                                       *)
LEMMA NextRaceInv == TypeInv /\ RaceInv /\ [Next]_vars => RaceInv'
<1> SUFFICES ASSUME TypeInv, RaceInv, [Next]_vars PROVE RaceInv'
  OBVIOUS
<1> USE NoTokenAssumption, MaxEpochAssumption
    DEF TypeInv, TypeOK, LocalsSet, RaceInv, OvertakenKnown, SurvivorsRaced, RowStates, Labels,
        MaybeToken, db, local, ghost
<1>1. ASSUME NEW r \in Requests, NEW c \in Clients, LoginCheck(r, c) PROVE RaceInv'
  BY <1>1 DEF LoginCheck, Goto
<1>2. ASSUME NEW r \in Requests, LoginStore(r) PROVE RaceInv'
  BY <1>2 DEF LoginStore, Goto, storeRefreshToken
<1>3. ASSUME NEW r \in Requests, LoginStoreFails(r) PROVE RaceInv'
  BY <1>3 DEF LoginStoreFails, Finish, Goto, storeRefreshToken
<1>4. ASSUME NEW r \in Requests, LoginReply(r) PROVE RaceInv'
  BY <1>4 DEF LoginReply, Finish, Goto
<1>5. ASSUME NEW r \in Requests, NEW c \in Clients, RefreshValidate(r, c) PROVE RaceInv'
  BY <1>5 DEF RefreshValidate, Goto
<1>6. ASSUME NEW r \in Requests, RefreshStore(r) PROVE RaceInv'
  BY <1>6 DEF RefreshStore, Goto, storeRefreshToken
<1>7. ASSUME NEW r \in Requests, RefreshStoreFails(r) PROVE RaceInv'
  BY <1>7 DEF RefreshStoreFails, Finish, Goto, storeRefreshToken
<1>8. ASSUME NEW r \in Requests, RefreshRevoke(r) PROVE RaceInv'
  BY <1>8 DEF RefreshRevoke, Goto
<1>9. ASSUME NEW r \in Requests, RefreshRevokeFails(r) PROVE RaceInv'
  BY <1>9 DEF RefreshRevokeFails, Goto
<1>10. ASSUME NEW r \in Requests, RefreshReply(r) PROVE RaceInv'
  BY <1>10 DEF RefreshReply, Finish, Goto
<1>11. ASSUME NEW r \in Requests, Logout(r) PROVE RaceInv'
  BY <1>11 DEF Logout, RevokeAll, revokeAllRefreshTokens
<1>12. ASSUME NEW r \in Requests, NEW c \in Clients, ChangeCheck(r, c) PROVE RaceInv'
  BY <1>12 DEF ChangeCheck, Goto
<1>13. ASSUME NEW r \in Requests, ChangeUpdate(r) PROVE RaceInv'
  BY <1>13 DEF ChangeUpdate, Goto
<1>14. ASSUME NEW r \in Requests, ChangeUpdateFails(r) PROVE RaceInv'
  BY <1>14 DEF ChangeUpdateFails, Finish, Goto
<1>15. ASSUME NEW r \in Requests, ChangeRevoke(r) PROVE RaceInv'
  BY <1>15 DEF ChangeRevoke, Goto, RevokeAll, revokeAllRefreshTokens
<1>16. ASSUME NEW r \in Requests, ChangeRevokeFails(r) PROVE RaceInv'
  BY <1>16 DEF ChangeRevokeFails, Finish, Goto
<1>17. ASSUME NEW t \in Tokens, RevokeSession(t) PROVE RaceInv'
  BY <1>17 DEF RevokeSession
<1>18. ASSUME NEW t \in Tokens, Expire(t) PROVE RaceInv'
  BY <1>18 DEF Expire
<1>19. ASSUME NEW r \in Requests, Crash(r) PROVE RaceInv'
  BY <1>19 DEF Crash, Finish, Goto
<1>20. CASE UNCHANGED vars
  BY <1>20 DEF vars
<1>21. QED
  BY <1>1, <1>2, <1>3, <1>4, <1>5, <1>6, <1>7, <1>8, <1>9, <1>10, <1>11, <1>12, <1>13,
     <1>14, <1>15, <1>16, <1>17, <1>18, <1>19, <1>20
     DEF Next, Arrive, LoginHandler, RefreshHandler, ChangeHandler

(* For any number of clients, requests and revocations: a session older    *)
(* than the last logout or change of password is alive only if a request   *)
(* of it was between its check and its insert when the revocation ran.     *)
THEOREM OnlyRacersSurvive == Spec => []SurvivorsRaced
<1>1. Spec => []RaceInv
  BY InitRaceInv, NextRaceInv, TypeInvHolds, PTL DEF Spec
<1>2. RaceInv => SurvivorsRaced
  BY DEF RaceInv
<1>3. QED
  BY <1>1, <1>2, PTL

-----------------------------------------------------------------------------
(* The order of the statements of RefreshTokenHandler. *)

Kept == {"live", "revoked", "expired"}

\* A token that its request has not sent yet: no client has it, no other
\* request sends it, and rotation has not touched it.
UnsentIsPrivate ==
    /\ \A r \in Requests :
          pc[r] \in Storing => new[r] \notin delivered /\ row[new[r]] \in Kept
    /\ \A r, s \in Requests :
          pc[r] \in Storing /\ pc[s] \in Storing /\ new[r] = new[s] => r = s

\* Tokens that clients hold and refreshes present have been sent, and rows
\* of tokens that have been sent are not free.
HeldWasSent ==
    /\ \A c \in Clients : held[c] # NoToken => held[c] \in delivered
    /\ \A r \in Requests : pc[r] \in Exchanges => old[r] \in delivered
    /\ \A t \in delivered : row[t] # "free"

\* No two clients hold the same token, and a refresh that presents the token
\* a client holds is that client's own.
HeldIsOwn ==
    /\ \A c, d \in Clients : held[c] = held[d] /\ held[c] # NoToken => c = d
    /\ \A r \in Requests, c \in Clients :
          pc[r] \in Exchanges /\ old[r] = held[c] => client[r] = c

RotationInv == UnsentIsPrivate /\ HeldWasSent /\ HeldIsOwn /\ NoStranding

(* Before the first login no client holds a token.                         *)
LEMMA InitRotationInv == Init => RotationInv
BY DEF Init, RotationInv, UnsentIsPrivate, HeldWasSent, HeldIsOwn, NoStranding,
   Storing, Exchanges

(* No statement, failure or crash strands a client other than by a lost    *)
(* reply.                                                                  *)
LEMMA NextRotationInv == TypeInv /\ RotationInv /\ [Next]_vars => RotationInv'
<1> SUFFICES ASSUME TypeInv, RotationInv, [Next]_vars PROVE RotationInv'
  OBVIOUS
<1> USE NoTokenAssumption, MaxEpochAssumption
    DEF TypeInv, TypeOK, LocalsSet, RotationInv, UnsentIsPrivate, HeldWasSent, HeldIsOwn,
        NoStranding, RowStates, Labels, MaybeToken, Storing, Exchanges, Kept, db, local, ghost
<1>1. ASSUME NEW r \in Requests, NEW c \in Clients, LoginCheck(r, c) PROVE RotationInv'
  BY <1>1 DEF LoginCheck, Goto
<1>2. ASSUME NEW r \in Requests, LoginStore(r) PROVE RotationInv'
  BY <1>2 DEF LoginStore, Goto, storeRefreshToken
<1>3. ASSUME NEW r \in Requests, LoginStoreFails(r) PROVE RotationInv'
  BY <1>3 DEF LoginStoreFails, Finish, Goto, storeRefreshToken
<1>4. ASSUME NEW r \in Requests, LoginReply(r) PROVE RotationInv'
  BY <1>4 DEF LoginReply, Finish, Goto
<1>5. ASSUME NEW r \in Requests, NEW c \in Clients, RefreshValidate(r, c) PROVE RotationInv'
  BY <1>5 DEF RefreshValidate, Goto
<1>6. ASSUME NEW r \in Requests, RefreshStore(r) PROVE RotationInv'
  BY <1>6 DEF RefreshStore, Goto, storeRefreshToken
<1>7. ASSUME NEW r \in Requests, RefreshStoreFails(r) PROVE RotationInv'
  BY <1>7 DEF RefreshStoreFails, Finish, Goto, storeRefreshToken
<1>8. ASSUME NEW r \in Requests, RefreshRevoke(r) PROVE RotationInv'
  BY <1>8 DEF RefreshRevoke, Goto
<1>9. ASSUME NEW r \in Requests, RefreshRevokeFails(r) PROVE RotationInv'
  BY <1>9 DEF RefreshRevokeFails, Goto
<1>10. ASSUME NEW r \in Requests, RefreshReply(r) PROVE RotationInv'
  BY <1>10 DEF RefreshReply, Finish, Goto
<1>11. ASSUME NEW r \in Requests, Logout(r) PROVE RotationInv'
  BY <1>11 DEF Logout, RevokeAll, revokeAllRefreshTokens
<1>12. ASSUME NEW r \in Requests, NEW c \in Clients, ChangeCheck(r, c) PROVE RotationInv'
  BY <1>12 DEF ChangeCheck, Goto
<1>13. ASSUME NEW r \in Requests, ChangeUpdate(r) PROVE RotationInv'
  BY <1>13 DEF ChangeUpdate, Goto
<1>14. ASSUME NEW r \in Requests, ChangeUpdateFails(r) PROVE RotationInv'
  BY <1>14 DEF ChangeUpdateFails, Finish, Goto
<1>15. ASSUME NEW r \in Requests, ChangeRevoke(r) PROVE RotationInv'
  BY <1>15 DEF ChangeRevoke, Goto, RevokeAll, revokeAllRefreshTokens
<1>16. ASSUME NEW r \in Requests, ChangeRevokeFails(r) PROVE RotationInv'
  BY <1>16 DEF ChangeRevokeFails, Finish, Goto
<1>17. ASSUME NEW t \in Tokens, RevokeSession(t) PROVE RotationInv'
  BY <1>17 DEF RevokeSession
<1>18. ASSUME NEW t \in Tokens, Expire(t) PROVE RotationInv'
  BY <1>18 DEF Expire
<1>19. ASSUME NEW r \in Requests, Crash(r) PROVE RotationInv'
  BY <1>19 DEF Crash, Finish, Goto
<1>20. CASE UNCHANGED vars
  BY <1>20 DEF vars
<1>21. QED
  BY <1>1, <1>2, <1>3, <1>4, <1>5, <1>6, <1>7, <1>8, <1>9, <1>10, <1>11, <1>12, <1>13,
     <1>14, <1>15, <1>16, <1>17, <1>18, <1>19, <1>20
     DEF Next, Arrive, LoginHandler, RefreshHandler, ChangeHandler

(* For any number of clients and overlapping refreshes: the token a client *)
(* stores is dead through rotation only while its replacement is on the    *)
(* way, or because a crash lost the reply.                                 *)
THEOREM RotationStrandsNobody == Spec => []NoStranding
<1>1. Spec => []RotationInv
  BY InitRotationInv, NextRotationInv, TypeInvHolds, PTL DEF Spec
<1>2. RotationInv => NoStranding
  BY DEF RotationInv
<1>3. QED
  BY <1>1, <1>2, PTL

-----------------------------------------------------------------------------
(* Rotation. *)

\* A token that is no longer accepted, or is only because its revocation
\* failed.
Spent(t) == row[t] # "live" \/ t \in unrotated

\* The token of a request about to reply is spent.
RepliesAfterRevoking ==
    \A r \in Requests : pc[r] = "refresh_reply" => Spent(old[r])

\* Two requests that exchange the same token do so with one's consent: both
\* had validated it before either revoked it, or it was not revoked.
SharedIsContended ==
    \A q, r \in Requests :
        (q # r /\ pc[q] \in Exchanges /\ pc[r] \in Exchanges /\ old[q] = old[r]) =>
            old[r] \in unrotated \cup contended

\* A token that was exchanged is spent, and a request that still exchanges it
\* contended for it.
ExchangedIsSpent ==
    \A t \in delivered :
        parent[t] # NoToken =>
            /\ Spent(parent[t])
            /\ \A r \in Requests :
                  (pc[r] \in Exchanges /\ old[r] = parent[t]) =>
                      parent[t] \in unrotated \cup contended

\* A row is free until it is inserted, the row a refresh has inserted names
\* the token it was exchanged for, and neither a token that was sent out nor
\* the one it was exchanged for is free.  Only a refresh presents a token.
ParentsKnown ==
    /\ \A r \in Requests : pc[r] \notin Exchanges => old[r] = NoToken
    /\ \A r \in Requests : pc[r] \in {"refresh_revoke", "refresh_reply"} =>
                             parent[new[r]] = old[r]
    /\ \A r \in Requests : pc[r] = "login_reply" => parent[new[r]] = NoToken
    /\ \A r \in Requests : pc[r] \in Storing => row[new[r]] # "free"
    /\ \A r \in Requests : pc[r] \in Exchanges => row[old[r]] # "free"
    /\ \A t \in delivered : row[t] # "free"
    /\ \A t \in delivered : parent[t] # NoToken => row[parent[t]] # "free"

ExchangeInv ==
    RepliesAfterRevoking /\ SharedIsContended /\ ExchangedIsSpent /\ ParentsKnown
    /\ DoubleUseContended

(* No statement, failure or crash lets a second exchange of a token get as *)
(* far as a reply unless the two overlapped or the revocation failed.      *)
LEMMA NextExchangeInv == TypeInv /\ ExchangeInv /\ [Next]_vars => ExchangeInv'
<1> SUFFICES ASSUME TypeInv, ExchangeInv, [Next]_vars PROVE ExchangeInv'
  OBVIOUS
<1> USE NoTokenAssumption, MaxEpochAssumption
    DEF TypeInv, TypeOK, LocalsSet, ExchangeInv, RepliesAfterRevoking, SharedIsContended,
        ExchangedIsSpent, ParentsKnown, DoubleUseContended, Spent, RowStates, Labels,
        MaybeToken, Storing, Exchanges, db, local, ghost
<1>1. ASSUME NEW r \in Requests, NEW c \in Clients, LoginCheck(r, c) PROVE ExchangeInv'
  BY <1>1 DEF LoginCheck, Goto
<1>2. ASSUME NEW r \in Requests, LoginStore(r) PROVE ExchangeInv'
  <2>1. RepliesAfterRevoking'
    BY <1>2 DEF LoginStore, Goto, storeRefreshToken
  <2>2. SharedIsContended'
    BY <1>2 DEF LoginStore, Goto, storeRefreshToken
  <2>3. ExchangedIsSpent'
    BY <1>2 DEF LoginStore, Goto, storeRefreshToken
  <2>4. ParentsKnown'
    BY <1>2 DEF LoginStore, Goto, storeRefreshToken
  <2>5. DoubleUseContended'
    BY <1>2 DEF LoginStore, Goto, storeRefreshToken
  <2>6. QED
    BY <2>1, <2>2, <2>3, <2>4, <2>5 DEF ExchangeInv
<1>3. ASSUME NEW r \in Requests, LoginStoreFails(r) PROVE ExchangeInv'
  BY <1>3 DEF LoginStoreFails, Finish, Goto, storeRefreshToken
<1>4. ASSUME NEW r \in Requests, LoginReply(r) PROVE ExchangeInv'
  BY <1>4 DEF LoginReply, Finish, Goto
<1>5. ASSUME NEW r \in Requests, NEW c \in Clients, RefreshValidate(r, c) PROVE ExchangeInv'
  <2>1. RepliesAfterRevoking'
    BY <1>5 DEF RefreshValidate, Goto
  <2>2. SharedIsContended'
    BY <1>5 DEF RefreshValidate, Goto
  <2>3. ExchangedIsSpent'
    BY <1>5 DEF RefreshValidate, Goto
  <2>4. ParentsKnown'
    BY <1>5 DEF RefreshValidate, Goto
  <2>5. DoubleUseContended'
    BY <1>5 DEF RefreshValidate, Goto
  <2>6. QED
    BY <2>1, <2>2, <2>3, <2>4, <2>5 DEF ExchangeInv
<1>6. ASSUME NEW r \in Requests, RefreshStore(r) PROVE ExchangeInv'
  <2>1. RepliesAfterRevoking'
    BY <1>6 DEF RefreshStore, Goto, storeRefreshToken
  <2>2. SharedIsContended'
    BY <1>6 DEF RefreshStore, Goto, storeRefreshToken
  <2>3. ExchangedIsSpent'
    BY <1>6 DEF RefreshStore, Goto, storeRefreshToken
  <2>4. ParentsKnown'
    BY <1>6 DEF RefreshStore, Goto, storeRefreshToken
  <2>5. DoubleUseContended'
    BY <1>6 DEF RefreshStore, Goto, storeRefreshToken
  <2>6. QED
    BY <2>1, <2>2, <2>3, <2>4, <2>5 DEF ExchangeInv
<1>7. ASSUME NEW r \in Requests, RefreshStoreFails(r) PROVE ExchangeInv'
  <2>1. RepliesAfterRevoking'
    BY <1>7 DEF RefreshStoreFails, Finish, Goto, storeRefreshToken
  <2>2. SharedIsContended'
    BY <1>7 DEF RefreshStoreFails, Finish, Goto, storeRefreshToken
  <2>3. ExchangedIsSpent'
    BY <1>7 DEF RefreshStoreFails, Finish, Goto, storeRefreshToken
  <2>4. ParentsKnown'
    BY <1>7 DEF RefreshStoreFails, Finish, Goto, storeRefreshToken
  <2>5. DoubleUseContended'
    BY <1>7 DEF RefreshStoreFails, Finish, Goto, storeRefreshToken
  <2>6. QED
    BY <2>1, <2>2, <2>3, <2>4, <2>5 DEF ExchangeInv
<1>8. ASSUME NEW r \in Requests, RefreshRevoke(r) PROVE ExchangeInv'
  BY <1>8 DEF RefreshRevoke, Goto
<1>9. ASSUME NEW r \in Requests, RefreshRevokeFails(r) PROVE ExchangeInv'
  <2>1. RepliesAfterRevoking'
    BY <1>9 DEF RefreshRevokeFails, Goto
  <2>2. SharedIsContended'
    BY <1>9 DEF RefreshRevokeFails, Goto
  <2>3. ExchangedIsSpent'
    BY <1>9 DEF RefreshRevokeFails, Goto
  <2>4. ParentsKnown'
    BY <1>9 DEF RefreshRevokeFails, Goto
  <2>5. DoubleUseContended'
    BY <1>9 DEF RefreshRevokeFails, Goto
  <2>6. QED
    BY <2>1, <2>2, <2>3, <2>4, <2>5 DEF ExchangeInv
<1>10. ASSUME NEW r \in Requests, RefreshReply(r) PROVE ExchangeInv'
  <2>1. RepliesAfterRevoking'
    BY <1>10 DEF RefreshReply, Finish, Goto
  <2>2. SharedIsContended'
    BY <1>10 DEF RefreshReply, Finish, Goto
  <2>3. ExchangedIsSpent'
    BY <1>10 DEF RefreshReply, Finish, Goto
  <2>4. ParentsKnown'
    BY <1>10 DEF RefreshReply, Finish, Goto
  <2>5. DoubleUseContended'
    BY <1>10 DEF RefreshReply, Finish, Goto
  <2>6. QED
    BY <2>1, <2>2, <2>3, <2>4, <2>5 DEF ExchangeInv
<1>11. ASSUME NEW r \in Requests, Logout(r) PROVE ExchangeInv'
  BY <1>11 DEF Logout, RevokeAll, revokeAllRefreshTokens
<1>12. ASSUME NEW r \in Requests, NEW c \in Clients, ChangeCheck(r, c) PROVE ExchangeInv'
  BY <1>12 DEF ChangeCheck, Goto
<1>13. ASSUME NEW r \in Requests, ChangeUpdate(r) PROVE ExchangeInv'
  BY <1>13 DEF ChangeUpdate, Goto
<1>14. ASSUME NEW r \in Requests, ChangeUpdateFails(r) PROVE ExchangeInv'
  BY <1>14 DEF ChangeUpdateFails, Finish, Goto
<1>15. ASSUME NEW r \in Requests, ChangeRevoke(r) PROVE ExchangeInv'
  BY <1>15 DEF ChangeRevoke, Goto, RevokeAll, revokeAllRefreshTokens
<1>16. ASSUME NEW r \in Requests, ChangeRevokeFails(r) PROVE ExchangeInv'
  BY <1>16 DEF ChangeRevokeFails, Finish, Goto
<1>17. ASSUME NEW t \in Tokens, RevokeSession(t) PROVE ExchangeInv'
  BY <1>17 DEF RevokeSession
<1>18. ASSUME NEW t \in Tokens, Expire(t) PROVE ExchangeInv'
  BY <1>18 DEF Expire
<1>19. ASSUME NEW r \in Requests, Crash(r) PROVE ExchangeInv'
  BY <1>19 DEF Crash, Finish, Goto
<1>20. CASE UNCHANGED vars
  BY <1>20 DEF vars
<1>21. QED
  BY <1>1, <1>2, <1>3, <1>4, <1>5, <1>6, <1>7, <1>8, <1>9, <1>10, <1>11, <1>12, <1>13,
     <1>14, <1>15, <1>16, <1>17, <1>18, <1>19, <1>20
     DEF Next, Arrive, LoginHandler, RefreshHandler, ChangeHandler

(* A refresh token is exchanged twice only through the window between its  *)
(* validation and its revocation, or a failed revocation, for any number   *)
(* of clients and requests.                                                *)
THEOREM OnlyContendersReuse == Spec => []DoubleUseContended
<1>1. Init => ExchangeInv
  BY DEF Init, ExchangeInv, RepliesAfterRevoking, SharedIsContended, ExchangedIsSpent,
         ParentsKnown, DoubleUseContended, Storing, Exchanges
<1>2. ExchangeInv => DoubleUseContended
  BY DEF ExchangeInv
<1>3. QED
  BY <1>1, <1>2, TypeInvHolds, NextExchangeInv, PTL DEF Spec

-----------------------------------------------------------------------------
(* Access tokens. *)

\* A blacklist entry is of a token that exists, and is no older than it; the
\* clock of a token stops when the token has expired.
EntryYoungerThanToken ==
    \A i \in Replicas : \A a \in listed[i] :
        /\ a \in minted
        /\ entryAge[i][a] <= tokenAge[a] \/ tokenAge[a] > AccessTTL

\* A token logged out at a process is in its blacklist unless it has expired.
LoggedOutListed ==
    \A i \in Replicas : \A a \in loggedOut[i] :
        /\ a \in minted
        /\ a \in listed[i] \/ tokenAge[a] > AccessTTL

\* If a key is configured, or insisted on, no process has one of its own.
KeysShared ==
    (settings.shared \/ settings.file \/ settings.secret # "none") =>
        /\ \A i \in Replicas : key[i] \in {"down", "shared"}
        /\ \A a \in minted : signedBy[a] = "shared"

TokensInv == TokensTypeOK /\ EntryYoungerThanToken /\ LoggedOutListed /\ KeysShared

(* Before the first login nothing is listed, and the invariant holds.      *)
LEMMA InitTokensInv == TokensInit => TokensInv
<1> SUFFICES ASSUME TokensInit PROVE TokensInv
  OBVIOUS
<1>1. mustChange \in BOOLEAN
  BY DEF TokensInit
<1>2. TokensTypeOK
  BY <1>1, TTLAssumption DEF TokensInit, TokensTypeOK, TokenAges, EntryAges, AllKeys
<1>3. QED
  BY <1>2 DEF TokensInit, TokensInv, EntryYoungerThanToken, LoggedOutListed, KeysShared

(* Login, refresh, logout, the sweep of the blacklist, the start and end   *)
(* of a process and the passing of time preserve the invariant.            *)
LEMMA NextTokensInv == TokensInv /\ [TokensNext]_tokensVars => TokensInv'
<1> SUFFICES ASSUME TokensInv, [TokensNext]_tokensVars PROVE TokensInv'
  OBVIOUS
<1> USE TTLAssumption
<1>1. CASE UNCHANGED tokensVars
  BY <1>1 DEF tokensVars, TokensInv, TokensTypeOK, EntryYoungerThanToken, LoggedOutListed,
     KeysShared
<1>2. ASSUME NEW i \in Replicas, NEW a \in Ids, NEW must \in BOOLEAN, Mint(i, a, must),
             renewed' \subseteq renewed \cup {a}, overtaken' \subseteq overtaken \cup {a},
             reading' \in [Replicas -> {"none", "set", "clear"}]
      PROVE  TokensInv'
  <2>1. TokensTypeOK'
    BY <1>2 DEF Mint, flag, TokensInv, TokensTypeOK, TokenAges
  <2>2. \A b \in minted : b \in minted' /\ tokenAge'[b] = tokenAge[b]
    BY <1>2 DEF Mint, TokensInv, TokensTypeOK
  <2>3. EntryYoungerThanToken' /\ LoggedOutListed'
    BY <1>2, <2>2 DEF Mint, TokensInv, EntryYoungerThanToken, LoggedOutListed
  <2>4. KeysShared'
    BY <1>2 DEF Mint, flag, TokensInv, TokensTypeOK, KeysShared
  <2>5. QED
    BY <2>1, <2>3, <2>4 DEF TokensInv
<1>3. ASSUME NEW i \in Replicas, ReadAccount(i) \/ LoginRefused(i) PROVE TokensInv'
  BY <1>3 DEF ReadAccount, LoginRefused, flag, tokens, TokensInv, TokensTypeOK,
     EntryYoungerThanToken, LoggedOutListed, KeysShared
<1>4. ASSUME NEW i \in Replicas, NEW a \in Ids, LogoutHandler(i, a) PROVE TokensInv'
  <2>1. TokensTypeOK'
    BY <1>4 DEF LogoutHandler, flag, tokens, TokensInv, TokensTypeOK, EntryAges
  <2>2. a \in minted /\ tokenAge[a] \in Nat
    BY <1>4 DEF LogoutHandler, Admitted, ValidateAccessToken, verifyRS256, TokensInv,
       TokensTypeOK, TokenAges
  <2>3. EntryYoungerThanToken'
    BY <1>4, <2>2 DEF LogoutHandler, tokens, TokensInv, TokensTypeOK, EntryYoungerThanToken
  <2>4. LoggedOutListed'
    BY <1>4, <2>2 DEF LogoutHandler, tokens, TokensInv, TokensTypeOK, LoggedOutListed
  <2>5. KeysShared'
    BY <1>4 DEF LogoutHandler, flag, tokens, TokensInv, KeysShared
  <2>6. QED
    BY <2>1, <2>3, <2>4, <2>5 DEF TokensInv
<1>5. ASSUME NEW i \in Replicas, NEW a \in Ids, ChangePassword(i, a) PROVE TokensInv'
  <2>1. sinceChange' \in TokenAges
    BY <1>5 DEF ChangePassword, TokensInv, TokensTypeOK, TokenAges
  <2>2. QED
    BY <1>5, <2>1 DEF ChangePassword, tokens, TokensInv, TokensTypeOK,
       EntryYoungerThanToken, LoggedOutListed, KeysShared
<1>6. ASSUME NEW i \in Replicas, Cleanup(i) PROVE TokensInv'
  <2>1. TokensTypeOK' /\ EntryYoungerThanToken' /\ KeysShared'
    BY <1>6 DEF Cleanup, flag, tokens, TokensInv, TokensTypeOK, EntryYoungerThanToken, KeysShared
  <2>2. ASSUME NEW b \in listed[i], b \notin listed'[i] PROVE tokenAge[b] > AccessTTL
    <3>1. entryAge[i][b] \in Nat /\ entryAge[i][b] > BlacklistTTL
      BY <1>6, <2>2 DEF Cleanup, TokensInv, TokensTypeOK, EntryAges
    <3>2. entryAge[i][b] <= tokenAge[b] \/ tokenAge[b] > AccessTTL
      BY DEF TokensInv, EntryYoungerThanToken
    <3>3. tokenAge[b] \in Nat
      BY DEF TokensInv, TokensTypeOK, TokenAges
    <3>4. QED
      BY <3>1, <3>2, <3>3
  <2>3. LoggedOutListed'
    <3> SUFFICES ASSUME NEW j \in Replicas, NEW b \in loggedOut'[j]
                 PROVE  b \in minted' /\ (b \in listed'[j] \/ tokenAge'[b] > AccessTTL)
      BY DEF LoggedOutListed
    <3>1. /\ b \in loggedOut[j] /\ minted' = minted /\ tokenAge' = tokenAge
          /\ j # i => listed'[j] = listed[j]
      BY <1>6 DEF Cleanup, tokens, TokensInv, TokensTypeOK
    <3>2. QED
      BY <2>2, <3>1 DEF TokensInv, LoggedOutListed
  <2>4. QED
    BY <2>1, <2>3 DEF TokensInv
<1>7. ASSUME NEW i \in Replicas, Start(i) \/ Stop(i) PROVE TokensInv'
  <2>1. CASE Stop(i)
    BY <2>1 DEF Stop, flag, tokens, TokensInv, TokensTypeOK, EntryYoungerThanToken,
       LoggedOutListed, KeysShared
  <2>2. CASE Start(i)
    <3>1. PICK disk \in Pems \cup {"empty", "unreadable"}, k \in Keys :
            LET loaded == LoadOrGenerateKeys(resolveJWTKey(disk), k)
            IN  (loaded = k => ~settings.shared) /\ key' = [key EXCEPT ![i] = loaded]
      BY <2>2 DEF Start
    <3> DEFINE loaded == LoadOrGenerateKeys(resolveJWTKey(disk), k)
    <3>2. /\ loaded \in {"down"} \cup AllKeys
          /\ (settings.shared \/ settings.file \/ settings.secret # "none")
                => loaded \in {"down", "shared"}
      BY <3>1 DEF LoadOrGenerateKeys, resolveJWTKey, AllKeys, Pems
    <3>3. TokensTypeOK'
      BY <2>2, <3>1, <3>2 DEF Start, flag, tokens, TokensInv, TokensTypeOK
    <3>4. KeysShared'
      BY <2>2, <3>1, <3>2 DEF Start, flag, tokens, TokensInv, TokensTypeOK, KeysShared
    <3>5. EntryYoungerThanToken' /\ LoggedOutListed'
      BY <2>2 DEF Start, tokens, TokensInv, EntryYoungerThanToken, LoggedOutListed
    <3>6. QED
      BY <3>3, <3>4, <3>5 DEF TokensInv
  <2>3. QED
    BY <1>7, <2>1, <2>2
<1>8. CASE Tick
  <2>1. TokensTypeOK'
    BY <1>8 DEF Tick, flag, TokensInv, TokensTypeOK, TokenAges, EntryAges
  <2>2. ASSUME NEW i \in Replicas, NEW b \in listed[i]
        PROVE  entryAge'[i][b] <= tokenAge'[b] \/ tokenAge'[b] > AccessTTL
    <3>1. b \in Ids /\ b \in minted
      BY DEF TokensInv, TokensTypeOK, EntryYoungerThanToken
    <3>2. /\ tokenAge[b] \in Nat /\ entryAge[i][b] \in Nat
          /\ entryAge[i][b] <= tokenAge[b] \/ tokenAge[b] > AccessTTL
      BY <3>1 DEF TokensInv, TokensTypeOK, EntryYoungerThanToken, TokenAges, EntryAges
    <3>3. /\ tokenAge'[b] = IF tokenAge[b] <= AccessTTL THEN tokenAge[b] + 1 ELSE tokenAge[b]
          /\ entryAge'[i][b] \in {entryAge[i][b], entryAge[i][b] + 1}
      BY <1>8, <3>1 DEF Tick
    <3>4. QED
      BY <3>2, <3>3
  <2>3. EntryYoungerThanToken'
    BY <1>8, <2>2 DEF Tick, TokensInv, EntryYoungerThanToken
  <2>4. \A b \in Ids : tokenAge[b] > AccessTTL => tokenAge'[b] = tokenAge[b]
    BY <1>8 DEF Tick, TokensInv, TokensTypeOK, TokenAges
  <2>5. LoggedOutListed'
    BY <1>8, <2>4 DEF Tick, TokensInv, TokensTypeOK, LoggedOutListed
  <2>6. KeysShared'
    BY <1>8 DEF Tick, flag, TokensInv, KeysShared
  <2>7. QED
    BY <2>1, <2>3, <2>5, <2>6 DEF TokensInv
<1>9. ASSUME NEW i \in Replicas, NEW a \in Ids, Login(i, a) \/ Refresh(i, a) PROVE TokensInv'
  <2>1. CASE Login(i, a)
    <3>1. (reading[i] = "set") \in BOOLEAN /\ Mint(i, a, reading[i] = "set")
      BY <2>1 DEF Login
    <3>2. /\ renewed' \subseteq renewed \cup {a} /\ overtaken' \subseteq overtaken \cup {a}
          /\ reading' \in [Replicas -> {"none", "set", "clear"}]
      BY <2>1 DEF Login, TokensInv, TokensTypeOK
    <3>3. QED
      BY <1>2, <3>1, <3>2
  <2>2. CASE Refresh(i, a)
    <3>1. /\ Mint(i, a, FALSE)
          /\ renewed' \subseteq renewed \cup {a} /\ overtaken' \subseteq overtaken \cup {a}
          /\ reading' \in [Replicas -> {"none", "set", "clear"}]
      BY <2>2 DEF Refresh, TokensInv, TokensTypeOK
    <3>2. QED
      BY <1>2, <3>1
  <2>3. QED
    BY <1>9, <2>1, <2>2
<1>10. QED
  BY <1>1, <1>3, <1>4, <1>5, <1>6, <1>7, <1>8, <1>9 DEF TokensNext

(* An entry of a blacklist outlives the access token it is about, whatever *)
(* logouts, sweeps and restarts happen in which order, and no process has  *)
(* a key of its own where one is configured or insisted on.                *)
THEOREM BlacklistOutlivesTokens == TokensSpec => []TokensInv
<1>1. QED
  BY InitTokensInv, NextTokensInv, PTL DEF TokensSpec

(* A process that has blacklisted an access token at logout never accepts  *)
(* it again before it restarts.                                            *)
THEOREM LogoutIsFinal == TokensSpec => []LoggedOutStaysOut
<1>1. TokensInv => LoggedOutStaysOut
  <2> SUFFICES ASSUME TokensInv, NEW i \in Replicas, NEW a \in loggedOut[i],
                      ValidateAccessToken(i, a)
               PROVE  FALSE
    BY DEF LoggedOutStaysOut
  <2>1. tokenAge[a] \in Nat /\ tokenAge[a] <= AccessTTL /\ a \notin listed[i]
    BY DEF ValidateAccessToken, verifyRS256, TokensInv, TokensTypeOK, TokenAges
  <2>2. QED
    BY <2>1, TTLAssumption DEF TokensInv, LoggedOutListed
<1>2. QED
  BY <1>1, BlacklistOutlivesTokens, PTL

(* Where a key is configured, or insisted on, a token minted by one        *)
(* process is accepted by every other that runs, until it expires or is    *)
(* logged out there.                                                       *)
THEOREM TokenIsGoodEverywhere == TokensSpec => []TokensTravel
<1>1. TokensInv => TokensTravel
  BY DEF TokensInv, KeysShared, TokensTravel, ValidateAccessToken, verifyRS256
<1>2. QED
  BY <1>1, BlacklistOutlivesTokens, PTL

\* A login that read a cleared flag finds it cleared; a token without the
\* claim that is older than the change of password comes from a refresh, and
\* one with the claim from a login that was before the change or overtaken.
ClaimsTraced ==
    /\ \A i \in Replicas : reading[i] = "clear" => ~mustChange
    /\ \A a \in minted :
        /\ ~mustClaim[a] /\ mustChange => a \in renewed
        /\ mustClaim[a] /\ ~mustChange =>
            a \in overtaken \/ sinceChange <= tokenAge[a] \/ tokenAge[a] > AccessTTL

(* Every step keeps track of where the claims come from.                   *)
LEMMA NextClaimsTraced ==
    TokensInv /\ ClaimsTraced /\ [TokensNext]_tokensVars => ClaimsTraced'
<1> SUFFICES ASSUME TokensInv, ClaimsTraced, [TokensNext]_tokensVars PROVE ClaimsTraced'
  OBVIOUS
<1> USE TTLAssumption
<1>1. CASE UNCHANGED tokensVars
  BY <1>1 DEF tokensVars, ClaimsTraced
<1>2. ASSUME NEW i \in Replicas, NEW a \in Ids, Login(i, a) PROVE ClaimsTraced'
  <2>1. reading[i] \in {"set", "clear"} /\ reading' = [reading EXCEPT ![i] = "none"]
    BY <1>2 DEF Login, TokensInv, TokensTypeOK
  <2>2. /\ minted' = minted \cup {a} /\ a \notin minted
        /\ mustClaim' = [mustClaim EXCEPT ![a] = (reading[i] = "set")]
        /\ tokenAge' = [tokenAge EXCEPT ![a] = 0]
        /\ mustChange' = mustChange /\ sinceChange' = sinceChange /\ renewed' = renewed
        /\ overtaken' = IF reading[i] = "set" /\ ~mustChange
                        THEN overtaken \cup {a} ELSE overtaken
    BY <1>2 DEF Login, Mint, flag
  <2>3. \A j \in Replicas : reading'[j] = "clear" => ~mustChange'
    BY <2>1, <2>2 DEF TokensInv, TokensTypeOK, ClaimsTraced
  <2>4. ASSUME NEW b \in minted'
        PROVE  /\ ~mustClaim'[b] /\ mustChange' => b \in renewed'
               /\ mustClaim'[b] /\ ~mustChange' =>
                    b \in overtaken' \/ sinceChange' <= tokenAge'[b] \/ tokenAge'[b] > AccessTTL
    <3>1. CASE b = a
      <4>1. mustClaim'[a] = (reading[i] = "set")
        BY <2>2 DEF TokensInv, TokensTypeOK
      <4>2. CASE reading[i] = "set"
        BY <2>2, <3>1, <4>1, <4>2
      <4>3. CASE reading[i] = "clear"
        BY <2>2, <3>1, <4>1, <4>3 DEF ClaimsTraced
      <4>4. QED
        BY <2>1, <4>2, <4>3
    <3>2. CASE b # a
      <4>1. /\ b \in minted /\ mustClaim'[b] = mustClaim[b] /\ tokenAge'[b] = tokenAge[b]
            /\ overtaken \subseteq overtaken'
        BY <2>2, <3>2 DEF TokensInv, TokensTypeOK
      <4>2. QED
        BY <2>2, <4>1 DEF ClaimsTraced
    <3>3. QED
      BY <3>1, <3>2
  <2>5. QED
    BY <2>3, <2>4 DEF ClaimsTraced
<1>3. ASSUME NEW i \in Replicas, NEW a \in Ids, Refresh(i, a) PROVE ClaimsTraced'
  <2>1. /\ minted' = minted \cup {a} /\ a \notin minted
        /\ mustClaim' = [mustClaim EXCEPT ![a] = FALSE]
        /\ tokenAge' = [tokenAge EXCEPT ![a] = 0]
        /\ mustChange' = mustChange /\ sinceChange' = sinceChange /\ reading' = reading
        /\ renewed' = renewed \cup {a} /\ overtaken' = overtaken
    BY <1>3 DEF Refresh, Mint, flag
  <2>2. QED
    BY <2>1 DEF ClaimsTraced, TokensInv, TokensTypeOK
<1>4. ASSUME NEW i \in Replicas, ReadAccount(i) \/ LoginRefused(i) \/ Stop(i) PROVE ClaimsTraced'
  BY <1>4 DEF ReadAccount, LoginRefused, Stop, tokens, flag, ClaimsTraced, TokensInv, TokensTypeOK
<1>5. ASSUME NEW i \in Replicas, Start(i) \/ Cleanup(i) PROVE ClaimsTraced'
  BY <1>5 DEF Start, Cleanup, tokens, flag, ClaimsTraced
<1>6. ASSUME NEW i \in Replicas, NEW a \in Ids, LogoutHandler(i, a) PROVE ClaimsTraced'
  BY <1>6 DEF LogoutHandler, tokens, flag, ClaimsTraced
<1>7. ASSUME NEW i \in Replicas, NEW a \in Ids, ChangePassword(i, a) PROVE ClaimsTraced'
  <2>1. /\ minted' = minted /\ mustClaim' = mustClaim /\ tokenAge' = tokenAge
        /\ overtaken' = overtaken /\ mustChange' = FALSE
        /\ sinceChange' = IF mustChange THEN 0 ELSE sinceChange
    BY <1>7 DEF ChangePassword, tokens
  <2>2. \A b \in minted : tokenAge[b] \in Nat
    BY DEF TokensInv, TokensTypeOK, TokenAges
  <2>3. QED
    BY <2>1, <2>2 DEF ClaimsTraced
<1>8. CASE Tick
  <2>1. /\ minted' = minted /\ mustClaim' = mustClaim /\ overtaken' = overtaken
        /\ renewed' = renewed /\ reading' = reading /\ mustChange' = mustChange
        /\ sinceChange' = IF ~mustChange /\ sinceChange <= AccessTTL
                          THEN sinceChange + 1 ELSE sinceChange
    BY <1>8 DEF Tick
  <2>2. ASSUME NEW b \in minted
        PROVE  /\ tokenAge[b] \in Nat /\ sinceChange \in Nat
               /\ tokenAge'[b] = IF tokenAge[b] <= AccessTTL THEN tokenAge[b] + 1 ELSE tokenAge[b]
    BY <1>8 DEF Tick, TokensInv, TokensTypeOK, TokenAges
  <2>3. ASSUME NEW b \in minted, mustClaim[b], ~mustChange
        PROVE  b \in overtaken \/ sinceChange' <= tokenAge'[b] \/ tokenAge'[b] > AccessTTL
    <3>1. b \in overtaken \/ sinceChange <= tokenAge[b] \/ tokenAge[b] > AccessTTL
      BY <2>3 DEF ClaimsTraced
    <3>2. QED
      BY <2>1, <2>2, <3>1
  <2>4. QED
    BY <2>1, <2>3 DEF ClaimsTraced
<1>9. QED
  BY <1>1, <1>2, <1>3, <1>4, <1>5, <1>6, <1>7, <1>8 DEF TokensNext

(* Where the claim of an accepted token disagrees with the account, the    *)
(* token comes from a refresh, or the password was changed within the life *)
(* of a token, or the change overtook a login.                             *)
THEOREM StaleClaimsExpire == TokensSpec => []ClaimExplained
<1>1. TokensInit => ClaimsTraced
  BY DEF TokensInit, ClaimsTraced
<1>2. TokensInv /\ ClaimsTraced => ClaimExplained
  <2> SUFFICES ASSUME TokensInv, ClaimsTraced, NEW i \in Replicas, NEW a \in minted,
                      ValidateAccessToken(i, a), mustClaim[a] # mustChange
               PROVE  IF mustChange THEN a \in renewed
                      ELSE sinceChange <= AccessTTL \/ a \in overtaken
    BY DEF ClaimExplained
  <2>1. tokenAge[a] \in Nat /\ sinceChange \in Nat /\ tokenAge[a] <= AccessTTL
    BY DEF ValidateAccessToken, verifyRS256, TokensInv, TokensTypeOK, TokenAges
  <2>2. mustClaim[a] \in BOOLEAN /\ mustChange \in BOOLEAN
    BY DEF TokensInv, TokensTypeOK
  <2>3. CASE mustChange
    <3>1. ~mustClaim[a]
      BY <2>2, <2>3
    <3>2. QED
      BY <2>3, <3>1 DEF ClaimsTraced
  <2>4. CASE ~mustChange
    <3>1. mustClaim[a]
      BY <2>2, <2>4
    <3>2. a \in overtaken \/ sinceChange <= tokenAge[a] \/ tokenAge[a] > AccessTTL
      BY <2>4, <3>1 DEF ClaimsTraced
    <3>3. QED
      BY <2>1, <2>4, <3>2, TTLAssumption
  <2>5. QED
    BY <2>3, <2>4
<1>3. QED
  BY <1>1, <1>2, BlacklistOutlivesTokens, NextClaimsTraced, PTL DEF TokensSpec
=============================================================================
