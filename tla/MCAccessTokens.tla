--------------------------- MODULE MCAccessTokens ---------------------------
(* An instance of AccessTokens for TLC. *)
EXTENDS AccessTokens, TLC

\* No key, a key file, a key that is missing but insisted on, a text that is
\* no key, and the key of the deployment.
MCSettings ==
    {[secret |-> "none",  file |-> FALSE, shared |-> FALSE],
     [secret |-> "none",  file |-> TRUE,  shared |-> FALSE],
     [secret |-> "none",  file |-> FALSE, shared |-> TRUE],
     [secret |-> "other", file |-> TRUE,  shared |-> FALSE],
     [secret |-> "rsa",   file |-> FALSE, shared |-> TRUE]}
=============================================================================
