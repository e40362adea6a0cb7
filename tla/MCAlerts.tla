------------------------------ MODULE MCAlerts ------------------------------
(* Instances of Alerts for TLC. *)
EXTENDS Alerts, TLC

\* One kind of alert is severe enough for every webhook, another for none
\* that asks for more than "low".
MCSeverity    == [k \in Kinds |-> IF k = "creds" THEN 4 ELSE 1]
MCMinSeverity == [h \in Hooks |-> 3]

Symmetry == Permutations(Callers) \cup Permutations(AlertIds)
=============================================================================
