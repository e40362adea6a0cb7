-------------------------- MODULE MigrationLedger --------------------------
(***************************************************************************)
(* What RunMigrations promises (backend/db/db.go:181-198), however many    *)
(* processes run it: the database sees one sequence of migrations, in      *)
(* version order, each file applied once.                                  *)
(***************************************************************************)
EXTENDS Naturals, Sequences

CONSTANTS
    N,           \* the highest migration version there is
    Checksums    \* possible checksums of a file

VARIABLE
    ledger       \* the migrations whose effects are in the database, in the
                 \* order they took effect

Entry == [version : 1..N, checksum : Checksums]

Init == ledger = << >>

\* The next version in order takes effect.
Apply ==
    \E k \in Checksums :
        /\ Len(ledger) < N
        /\ ledger' = Append(ledger, [version |-> Len(ledger) + 1, checksum |-> k])

Next == Apply
Spec == Init /\ [][Next]_ledger
=============================================================================
