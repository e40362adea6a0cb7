---------------------------- MODULE MCMigrations ----------------------------
(* An instance of Migrations for TLC: a rolling update in which one image  *)
(* is a file behind and another has an edited file.                        *)
EXTENDS Migrations, TLC

CONSTANTS r1, r2, r3

MCReplicas == {r1, r2, r3}

\* r3 still runs the previous image.
MCFiles == [r \in MCReplicas |-> IF r = r3 THEN N - 1 ELSE N]

\* The image of r1 has another file 2.
EditedContents ==
    [r \in MCReplicas |-> [v \in 1..N |-> IF r = r1 /\ v = 2 THEN "b" ELSE "a"]]
=============================================================================
