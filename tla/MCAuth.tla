------------------------------- MODULE MCAuth -------------------------------
(* The two halves of package auth side by side: the refresh tokens of      *)
(* Sessions and the access tokens of AccessTokens.  They share no state,   *)
(* so whatever the one does is no step of the other; a behaviour is one of *)
(* Sessions while no access token is used, or one of AccessTokens while no *)
(* refresh token is, and no interleaving of the two is lost on a property  *)
(* that speaks of one of them.                                             *)
EXTENDS Sessions, MCAccessTokens

VARIABLE half    \* which of the two the behaviour is of

AuthInit ==
    /\ Init /\ TokensInit
    /\ half \in {"refresh", "access"}
    /\ half = "refresh" => ~mustChange /\ settings = CHOOSE c \in Settings : TRUE

AuthNext ==
    \/ half = "refresh" /\ Next /\ UNCHANGED <<tokensVars, half>>
    \/ half = "access" /\ TokensNext /\ UNCHANGED <<vars, half>>

AuthSpec == AuthInit /\ [][AuthNext]_<<vars, tokensVars, half>>

\* Replicas are named as the requests of the other half, and generated keys
\* as its refresh tokens, so that one permutation serves both.
AuthSymmetry == Permutations(Requests) \cup Permutations(Tokens)
=============================================================================
