---------------------------- MODULE AccessTokens ----------------------------
(***************************************************************************)
(* Access tokens: minted by login and refresh, accepted by AuthMiddleware  *)
(* on every replica of the backend until they expire, and blacklisted by   *)
(* logout in the memory of the one process that served it                  *)
(* (backend/auth/tokens.go, auth.go, backend/cache/blacklist.go); the key  *)
(* a process signs with, which it loads or generates when it starts        *)
(* (main.go); and the middleware in front of the protected routes          *)
(* (backend/api/router.go), with the routes kept as the classes that it    *)
(* tells apart.                                                            *)
(*                                                                         *)
(* Clocks are ages: of a token since it was minted and of a blacklist      *)
(* entry since it was added, each saturated just beyond the limit it is    *)
(* compared with.                                                          *)
(***************************************************************************)
EXTENDS Naturals

CONSTANTS
    Replicas,      \* backend processes
    Ids,           \* JTIs: bounds the number of tokens minted
    Keys,          \* keys that LoadOrGenerateKeys generates: bounds their number
    Settings,      \* the configurations of the deployment
    Role,          \* users.role of the settings, which no handler changes
    AccessTTL,     \* AccessTokenTTL, 15 minutes
    BlacklistTTL   \* TokenBlacklist.maxTTL, 24 hours

\* A PEM text that is given as JWT_SECRET, or that JWT_PRIVATE_KEY_FILE holds:
\* the RSA key of the deployment (PKCS#1 or PKCS#8), or something else.
Pems == {"rsa", "other"}

\* JWT_SECRET, whether JWT_PRIVATE_KEY_FILE is set, and REQUIRE_SHARED_JWT_KEY.
Configs == [secret : {"none"} \cup Pems, file : BOOLEAN, shared : BOOLEAN]

\* RoleHierarchy.
RoleHierarchy == [viewer |-> 0, auditor |-> 1, operator |-> 2, admin |-> 3]
Roles == {"viewer", "auditor", "operator", "admin"}

ASSUME TTLAssumption ==
    /\ AccessTTL \in Nat
    /\ BlacklistTTL \in Nat
    /\ AccessTTL <= BlacklistTTL

ASSUME KeysAssumption ==
    /\ Role \in Roles
    /\ Settings \subseteq Configs
    /\ "down" \notin Keys /\ "shared" \notin Keys

VARIABLES
    settings,    \* the configuration every process is started with
    key,         \* globalKeyPair of each process, "down" if it does not run
    minted,      \* tokens handed to clients
    signedBy,    \* the key a token is signed with
    tokenAge,    \* time since a token was minted
    mustClaim,   \* its "mcp" claim, Claims.MustChangePassword
    mustChange,  \* users.must_change_password of the account
    reading,     \* the flag a login at each process has read, or "none"
    listed,      \* TokenBlacklist.entries of each process
    entryAge,    \* time since addedAt of each entry
    loggedOut,   \* tokens logged out at a process since it started (history)
    sinceChange, \* time since the flag was cleared (history)
    renewed,     \* tokens minted by a refresh (history)
    overtaken    \* tokens of a login that the change of password overtook
                 \* after it had read the account (history)

tokens  == <<minted, signedBy, tokenAge, mustClaim, renewed, overtaken>>
flag    == <<mustChange, sinceChange>>
tokensVars == <<settings, key, minted, signedBy, tokenAge, mustClaim, mustChange,
                reading, listed, entryAge, loggedOut, sinceChange, renewed, overtaken>>

TokenAges == 0..(AccessTTL + 1)
EntryAges == 0..(BlacklistTTL + 1)
AllKeys   == {"shared"} \cup Keys

\* The role that a protected route asks for: AdminOnly, RequireRole("auditor")
\* or nothing.  "account" stands for /auth/me and /auth/permissions.
MinRole == [logout |-> "viewer", change |-> "viewer", account |-> "viewer",
            open |-> "viewer", audit |-> "auditor", admin |-> "admin"]
Routes == {"logout", "change", "account", "open", "audit", "admin"}

\* The routes that RequirePasswordChange allows to every account.
PasswordRoutes == {"logout", "change", "account"}

TokensTypeOK ==
    /\ settings \in Settings
    /\ key \in [Replicas -> {"down"} \cup AllKeys]
    /\ minted \in SUBSET Ids
    /\ signedBy \in [Ids -> AllKeys]
    /\ tokenAge \in [Ids -> TokenAges]
    /\ mustClaim \in [Ids -> BOOLEAN]
    /\ mustChange \in BOOLEAN
    /\ listed \in [Replicas -> SUBSET Ids]
    /\ entryAge \in [Replicas -> [Ids -> EntryAges]]
    /\ loggedOut \in [Replicas -> SUBSET Ids]
    /\ reading \in [Replicas -> {"none", "set", "clear"}]
    /\ sinceChange \in TokenAges
    /\ renewed \in SUBSET Ids /\ overtaken \in SUBSET Ids

\* The seeded administrator starts with must_change_password set (migration
\* 016), an account registered later does not; RegisterHandler gives it one of
\* the four roles.
TokensInit ==
    /\ settings \in Settings
    /\ key = [i \in Replicas |-> "down"]
    /\ minted = {}
    /\ signedBy = [a \in Ids |-> "shared"]
    /\ tokenAge = [a \in Ids |-> 0]
    /\ mustClaim = [a \in Ids |-> FALSE]
    /\ mustChange \in {FALSE, Role = "admin"}
    /\ listed = [i \in Replicas |-> {}]
    /\ entryAge = [i \in Replicas |-> [a \in Ids |-> 0]]
    /\ loggedOut = [i \in Replicas |-> {}]
    /\ reading = [i \in Replicas |-> "none"]
    /\ sinceChange = 0 /\ renewed = {} /\ overtaken = {}

-----------------------------------------------------------------------------
(* Start-up. *)

\* Mutant: a key file that cannot be read is as good as none.
MutResolveJWTKey(disk) ==
    CASE settings.secret # "none" -> settings.secret
      [] settings.file /\ disk \in Pems -> disk
      [] OTHER -> "none"

\* resolveJWTKey, for what the process finds at JWT_PRIVATE_KEY_FILE.
resolveJWTKey(disk) ==
    CASE settings.secret # "none" -> settings.secret
      [] settings.secret = "none" /\ ~settings.file -> "none"
      [] settings.secret = "none" /\ settings.file /\ disk \in Pems -> disk
      [] OTHER -> "error"

\* LoadOrGenerateKeys, parseRSAPrivateKeyPEM: the key, or "down" if the
\* process gives up; generated is a fresh key.
LoadOrGenerateKeys(pem, generated) ==
    CASE pem = "none" -> generated [] pem = "rsa" -> "shared" [] OTHER -> "down"

\* Nobody has the key k.
Fresh(k) == (\A i \in Replicas : key[i] # k) /\ (\A a \in minted : signedBy[a] # k)

\* main up to line 104.  The process stays down if it gives up.
Start(i) ==
    /\ key[i] = "down"
    /\ \E disk \in Pems \cup {"empty", "unreadable"}, k \in Keys :
           LET loaded == LoadOrGenerateKeys(resolveJWTKey(disk), k)
           IN  /\ loaded = k => Fresh(k) /\ ~settings.shared
               /\ key' = [key EXCEPT ![i] = loaded]
    /\ UNCHANGED <<settings, tokens, flag, reading, listed, entryAge, loggedOut>>

\* The process ends, and its blacklist and its requests with it.
Stop(i) ==
    /\ key[i] # "down"
    /\ key' = [key EXCEPT ![i] = "down"]
    /\ listed' = [listed EXCEPT ![i] = {}]
    /\ loggedOut' = [loggedOut EXCEPT ![i] = {}]
    /\ reading' = [reading EXCEPT ![i] = "none"]
    /\ UNCHANGED <<settings, tokens, flag, entryAge>>

-----------------------------------------------------------------------------
(* The middleware of the protected routes. *)

\* verifyRS256: signed with the key of this process and time.Now() not after exp.
verifyRS256(i, a) == a \in minted /\ signedBy[a] = key[i] /\ tokenAge[a] <= AccessTTL

\* ValidateAccessToken, as process i evaluates it.
ValidateAccessToken(i, a) == verifyRS256(i, a) /\ a \notin listed[i]

\* AuthMiddleware stores the *User that ValidateAccessToken returns.
ContextUser(a) == [type |-> "*User", must |-> mustClaim[a], role |-> Role]

\* RequirePasswordChange: the type assertion is to User.
RequirePasswordChange(a, route) ==
    LET user == ContextUser(a)
        ok   == user.type = "User"
    IN  ~ok \/ ~user.must \/ route \in PasswordRoutes

\* RequireRole, AdminOnly.
RequireRole(a, minRole) == RoleHierarchy[ContextUser(a).role] >= RoleHierarchy[minRole]

\* The request passes the middleware and reaches the handler of the route.
Admitted(i, a, route) ==
    /\ ValidateAccessToken(i, a)
    /\ RequirePasswordChange(a, route)
    /\ RequireRole(a, MinRole[route])

-----------------------------------------------------------------------------
(* The handlers. *)

\* GenerateAccessToken, signRS256.
Mint(i, a, must) ==
    /\ a \notin minted /\ key[i] # "down"
    /\ minted' = minted \cup {a}
    /\ signedBy' = [signedBy EXCEPT ![a] = key[i]]
    /\ tokenAge' = [tokenAge EXCEPT ![a] = 0]
    /\ mustClaim' = [mustClaim EXCEPT ![a] = must]
    /\ UNCHANGED <<settings, key, flag, listed, entryAge, loggedOut>>

\* Mutant: the SELECT of the login leaves the flag out, as that of a refresh
\* does.
MutReadAccount(i) ==
    /\ key[i] # "down" /\ reading[i] = "none"
    /\ reading' = [reading EXCEPT ![i] = "clear"]
    /\ UNCHANGED <<settings, key, tokens, flag, listed, entryAge, loggedOut>>

\* LoginHandler reads the password hash and must_change_password.
ReadAccount(i) ==
    /\ key[i] # "down" /\ reading[i] = "none"
    /\ reading' = [reading EXCEPT ![i] = IF mustChange THEN "set" ELSE "clear"]
    /\ UNCHANGED <<settings, key, tokens, flag, listed, entryAge, loggedOut>>

\* The password was checked against the hash that was read.
Login(i, a) ==
    /\ reading[i] # "none"
    /\ Mint(i, a, reading[i] = "set")
    /\ reading' = [reading EXCEPT ![i] = "none"]
    /\ overtaken' = IF reading[i] = "set" /\ ~mustChange THEN overtaken \cup {a} ELSE overtaken
    /\ UNCHANGED renewed

\* The login is turned away, for its password or because a statement fails.
LoginRefused(i) ==
    /\ reading[i] # "none"
    /\ reading' = [reading EXCEPT ![i] = "none"]
    /\ UNCHANGED <<settings, key, tokens, flag, listed, entryAge, loggedOut>>

\* RefreshTokenHandler: validateRefreshToken does not read the flag.
Refresh(i, a) ==
    /\ Mint(i, a, FALSE)
    /\ renewed' = renewed \cup {a}
    /\ UNCHANGED <<reading, overtaken>>

\* The JTI goes to the blacklist of this process.
LogoutHandler(i, a) ==
    /\ Admitted(i, a, "logout")
    /\ listed' = [listed EXCEPT ![i] = @ \cup {a}]
    /\ entryAge' = [entryAge EXCEPT ![i][a] = 0]
    /\ loggedOut' = [loggedOut EXCEPT ![i] = @ \cup {a}]
    /\ UNCHANGED <<settings, key, tokens, flag, reading>>

\* ChangePasswordHandler: the flag is cleared; no access token is touched.
ChangePassword(i, a) ==
    /\ Admitted(i, a, "change")
    /\ mustChange' = FALSE
    /\ sinceChange' = IF mustChange THEN 0 ELSE sinceChange
    /\ UNCHANGED <<settings, key, tokens, reading, listed, entryAge, loggedOut>>

\* Mutant: the sweep drops an entry as soon as it is as old as a token may be.
MutCleanup(i) ==
    /\ listed' = [listed EXCEPT ![i] = {a \in @ : entryAge[i][a] < AccessTTL}]
    /\ UNCHANGED <<settings, key, tokens, flag, reading, entryAge, loggedOut>>

\* TokenBlacklist.cleanup: entries older than maxTTL are dropped.
Cleanup(i) ==
    /\ listed' = [listed EXCEPT ![i] = {a \in @ : entryAge[i][a] <= BlacklistTTL}]
    /\ UNCHANGED <<settings, key, tokens, flag, reading, entryAge, loggedOut>>

Tick ==
    /\ tokenAge' = [a \in Ids |-> IF a \in minted /\ tokenAge[a] <= AccessTTL
                                  THEN tokenAge[a] + 1 ELSE tokenAge[a]]
    /\ entryAge' = [i \in Replicas |->
                      [a \in Ids |-> IF a \in listed[i] /\ entryAge[i][a] <= BlacklistTTL
                                     THEN entryAge[i][a] + 1 ELSE entryAge[i][a]]]
    /\ sinceChange' = IF ~mustChange /\ sinceChange <= AccessTTL
                      THEN sinceChange + 1 ELSE sinceChange
    /\ UNCHANGED <<settings, key, minted, signedBy, mustClaim, mustChange, reading, listed,
                   loggedOut, renewed, overtaken>>

TokensNext ==
    \/ \E i \in Replicas, a \in Ids :
           \/ Login(i, a) \/ Refresh(i, a) \/ LogoutHandler(i, a) \/ ChangePassword(i, a)
    \/ \E i \in Replicas :
           Start(i) \/ Stop(i) \/ ReadAccount(i) \/ LoginRefused(i) \/ Cleanup(i)
    \/ Tick

TokensSpec == TokensInit /\ [][TokensNext]_tokensVars

-----------------------------------------------------------------------------
(* A logged-out access token stays out: the process that blacklisted it    *)
(* never accepts it again before it restarts, because the sweep of the     *)
(* blacklist forgets an entry only when the token has expired.             *)
LoggedOutStaysOut ==
    \A i \in Replicas : \A a \in loggedOut[i] : ~ValidateAccessToken(i, a)

(* A token is good everywhere: if a key is configured, or insisted on, then *)
(* every process that runs accepts every token that is not expired or      *)
(* logged out there, whichever process minted it and however often the two *)
(* have been restarted since.  What main.go:31-49 wants to rule out is a   *)
(* process that goes on with a key of its own.                             *)
TokensTravel ==
    (settings.shared \/ settings.file \/ settings.secret # "none") =>
        \A i \in Replicas, a \in minted :
            key[i] # "down" /\ tokenAge[a] <= AccessTTL /\ a \notin listed[i]
                => ValidateAccessToken(i, a)

(* RequirePasswordChange trusts the claim of the token for the flag of the *)
(* account.  Where the two disagree, either the account has still to       *)
(* change its password and the token comes from a refresh, which never     *)
(* reads the flag; or the password was changed no longer ago than a token  *)
(* lives; or the change overtook the login that minted the token.          *)
ClaimExplained ==
    \A i \in Replicas, a \in minted :
        ValidateAccessToken(i, a) /\ mustClaim[a] # mustChange =>
            IF mustChange THEN a \in renewed ELSE sinceChange <= AccessTTL \/ a \in overtaken

(* What auth.go:29-32 says of MustChangePassword: while it is set, every   *)
(* endpoint except the password-change endpoints is refused.               *)
PasswordGate ==
    \A i \in Replicas, a \in minted, route \in Routes :
        Admitted(i, a, route) /\ mustClaim[a] => route \in PasswordRoutes
=============================================================================
