---------------------------- MODULE MCAssessment ----------------------------
(* Instances of Assessment for TLC. *)
EXTENDS Assessment

MCPortChoices == {{22, 80}, {22, 23}, {443, 8443}, {5555, 1883}, {502, 554}}
MCMaxPairs    == [ssh |-> 3, http |-> 2, telnet |-> 2]
MCHistories   == {[cves |-> 0, kev |-> 0, entropy |-> FALSE, days |-> 0],
                  [cves |-> 1, kev |-> 3, entropy |-> FALSE, days |-> 45],
                  [cves |-> 7, kev |-> 1, entropy |-> TRUE, days |-> 400]}
Symmetry      == Permutations(Scans)
=============================================================================
