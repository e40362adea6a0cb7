------------------------------- MODULE MCJobs -------------------------------
(* One process with its jobs (Jobs), and the KEV catalogues of several     *)
(* (KevCatalogue).  They share no state; a behaviour is one of the one     *)
(* while the other has not begun, and no interleaving of the two is lost   *)
(* on a property that speaks of one of them.  Liveness is checked, so      *)
(* nothing is declared symmetric.                                          *)
EXTENDS Jobs, KevCatalogue

VARIABLE half    \* which of the two the behaviour is of

ProcessInit == Init /\ KevInit /\ half \in {"jobs", "kev"}

ProcessNext ==
    \/ half = "jobs" /\ Next /\ UNCHANGED <<kevVars, half>>
    \/ half = "kev" /\ KevNext /\ UNCHANGED <<vars, half>>

ProcessSpec == ProcessInit /\ [][ProcessNext]_<<vars, kevVars, half>> /\ Fairness
=============================================================================
