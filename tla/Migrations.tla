----------------------------- MODULE Migrations -----------------------------
(***************************************************************************)
(* RunMigrations of backend/db/db.go, run at start-up by every replica of  *)
(* the backend at once (main.go:109), with no lock between them.  Replicas *)
(* may run images with different numbers of migration files, and with      *)
(* files whose contents differ.  An error makes main.go exit; the          *)
(* orchestrator starts the process again.                                  *)
(*                                                                         *)
(* PostgreSQL is external: a transaction's effects appear at its commit    *)
(* and vanish otherwise, and an INSERT of a primary key waits for an       *)
(* uncommitted INSERT of the same key and fails once that has committed.   *)
(* Locks taken by the files' own statements may delay Exec or make it      *)
(* fail, which Exec's and Fail's being optional already covers.            *)
(***************************************************************************)
EXTENDS Naturals, Sequences

CONSTANTS
    Replicas,
    N,           \* the highest migration version there is
    Checksums,   \* possible checksums of a file
    NotApplied,  \* "no row in schema_migrations"
    Files,       \* Files[r]: replica r's image holds versions 1..Files[r]
    Checksum,    \* Checksum[r][v]: the checksum of its file v
    MaxFaults    \* bounds failed statements and crashes

ASSUME MigrationsAssumption ==
    /\ N \in Nat
    /\ NotApplied \notin Checksums
    /\ Files \in [Replicas -> 0..N]
    /\ Checksum \in [Replicas -> [1..N -> Checksums]]
    /\ MaxFaults \in Nat

VARIABLES
    schema,      \* the migrations in the database, in the order of commits
    recorded,    \* committed rows of schema_migrations
    pc,          \* where each replica is
    applied,     \* the map that appliedMigrations returned to it
    next,        \* the index of its loop over the files
    faults       \* failed statements and crashes so far

vars == <<schema, recorded, pc, applied, next, faults>>

Versions == 1..N
Rows     == [Versions -> Checksums \cup {NotApplied}]
Labels   == {"down", "read", "loop", "insert", "commit", "up"}
Entry    == [version : Versions, checksum : Checksums]

TypeOK ==
    /\ schema \in Seq(Entry)
    /\ recorded \in Rows
    /\ pc \in [Replicas -> Labels]
    /\ applied \in [Replicas -> Rows]
    /\ next \in [Replicas -> 1..(N + 1)]
    /\ faults \in 0..MaxFaults

Init ==
    /\ schema = << >>
    /\ recorded = [v \in Versions |-> NotApplied]
    /\ pc = [r \in Replicas |-> "down"]
    /\ applied = [r \in Replicas |-> [v \in Versions |-> NotApplied]]
    /\ next = [r \in Replicas |-> 1]
    /\ faults = 0

Goto(r, from, to) ==
    /\ pc[r] = from
    /\ pc' = [pc EXCEPT ![r] = to]

\* The file the loop of replica r is at.
Pending(r) == next[r] <= Files[r]

-----------------------------------------------------------------------------
\* The process starts, discovers its files and makes sure that the table
\* schema_migrations is there (lines 200-208).
Start(r) ==
    /\ Goto(r, "down", "read")
    /\ UNCHANGED <<schema, recorded, applied, next, faults>>

\* Mutant: the map comes back empty.
MutReadAppliedEmpty(r) ==
    /\ Goto(r, "read", "loop")
    /\ applied' = [applied EXCEPT ![r] = [v \in Versions |-> NotApplied]]
    /\ next' = [next EXCEPT ![r] = 1]
    /\ UNCHANGED <<schema, recorded, faults>>

\* appliedMigrations (lines 210-213).
ReadApplied(r) ==
    /\ Goto(r, "read", "loop")
    /\ applied' = [applied EXCEPT ![r] = recorded]
    /\ next' = [next EXCEPT ![r] = 1]
    /\ UNCHANGED <<schema, recorded, faults>>

\* Mutant: a file is skipped without comparing checksums.
MutSkipUnchecked(r) ==
    /\ Pending(r)
    /\ applied[r][next[r]] # NotApplied
    /\ Goto(r, "loop", "loop")
    /\ next' = [next EXCEPT ![r] = @ + 1]
    /\ UNCHANGED <<schema, recorded, applied, faults>>

\* Lines 216-225: applied before, with the same contents.
Skip(r) ==
    /\ Pending(r)
    /\ applied[r][next[r]] = Checksum[r][next[r]]
    /\ Goto(r, "loop", "loop")
    /\ next' = [next EXCEPT ![r] = @ + 1]
    /\ UNCHANGED <<schema, recorded, applied, faults>>

\* Lines 217-223: applied before with other contents; RunMigrations fails
\* and the process exits.
RefuseModified(r) ==
    /\ Pending(r)
    /\ applied[r][next[r]] \notin {NotApplied, Checksum[r][next[r]]}
    /\ Goto(r, "loop", "down")
    /\ UNCHANGED <<schema, recorded, applied, next, faults>>

\* Lines 229-237: a transaction begins and runs the file.
Exec(r) ==
    /\ Pending(r)
    /\ applied[r][next[r]] = NotApplied
    /\ Goto(r, "loop", "insert")
    /\ UNCHANGED <<schema, recorded, applied, next, faults>>

\* Mutant: INSERT ... ON CONFLICT DO NOTHING.
MutInsertOnConflictDoNothing(r) ==
    /\ ~\E s \in Replicas : pc[s] = "commit" /\ next[s] = next[r]
    /\ Goto(r, "insert", "commit")
    /\ UNCHANGED <<schema, recorded, applied, next, faults>>

\* Lines 239-245: the row is inserted, unless another replica has committed
\* it, and then the transaction is rolled back and the process exits.
InsertRow(r) ==
    /\ ~\E s \in Replicas : pc[s] = "commit" /\ next[s] = next[r]
    /\ Goto(r, "insert", IF recorded[next[r]] = NotApplied THEN "commit" ELSE "down")
    /\ UNCHANGED <<schema, recorded, applied, next, faults>>

\* The effects of a commit.
Committed(r) ==
    /\ schema' = Append(schema, [version |-> next[r], checksum |-> Checksum[r][next[r]]])
    /\ recorded' = [recorded EXCEPT ![next[r]] = Checksum[r][next[r]]]

\* Lines 247-249, and on to the next file.
Commit(r) ==
    /\ Goto(r, "commit", "loop")
    /\ Committed(r)
    /\ next' = [next EXCEPT ![r] = @ + 1]
    /\ UNCHANGED <<applied, faults>>

\* Lines 252-253: nothing is left to do; the server starts.
UpToDate(r) ==
    /\ ~Pending(r)
    /\ Goto(r, "loop", "up")
    /\ UNCHANGED <<schema, recorded, applied, next, faults>>

-----------------------------------------------------------------------------
\* A statement fails, a file's own statement fails, or the process dies: an
\* open transaction is rolled back and the process is down.
Fail(r) ==
    /\ faults < MaxFaults
    /\ pc[r] # "down"
    /\ pc' = [pc EXCEPT ![r] = "down"]
    /\ faults' = faults + 1
    /\ UNCHANGED <<schema, recorded, applied, next>>

\* The commit takes effect but its reply is lost (lines 247-249).
CommitReplyLost(r) ==
    /\ faults < MaxFaults
    /\ Goto(r, "commit", "down")
    /\ Committed(r)
    /\ faults' = faults + 1
    /\ UNCHANGED <<applied, next>>

RunMigrations(r) ==
    \/ ReadApplied(r) \/ Skip(r) \/ RefuseModified(r) \/ Exec(r)
    \/ InsertRow(r) \/ Commit(r) \/ UpToDate(r)

Next ==
    \E r \in Replicas : Start(r) \/ RunMigrations(r) \/ Fail(r) \/ CommitReplyLost(r)

Spec == Init /\ [][Next]_vars

(***************************************************************************)
(* Fairness: a running process goes on, PostgreSQL answers, and the        *)
(* orchestrator restarts a process that exited (restart policies of the    *)
(* compose file and the Kubernetes deployment).                            *)
(***************************************************************************)
FairSpec == Spec /\ \A r \in Replicas : WF_vars(Start(r) \/ RunMigrations(r))

-----------------------------------------------------------------------------
(* RunMigrations implements MigrationLedger: no race, crash, rolled-back   *)
(* transaction or lost reply makes the database see a migration twice, out *)
(* of order, or with a gap (db.go:197-198).                                *)
Ledger     == INSTANCE MigrationLedger WITH ledger <- schema
LedgerSpec == Ledger!Spec

(* A replica that serves runs on the schema its own image describes: every *)
(* file it holds is recorded, with the checksum of its own contents, even  *)
(* when another replica with other contents applied it meanwhile.          *)
UpMeansMigrated ==
    \A r \in Replicas :
        pc[r] = "up" => \A v \in 1..Files[r] : recorded[v] = Checksum[r][v]

\* The database holds other contents of a file than the image of replica r.
Superseded(r) == \E v \in 1..Files[r] : recorded[v] \notin {NotApplied, Checksum[r][v]}

(* Replicas that start together all come up in the end, although all but   *)
(* one lose the race for each migration and exit (db.go:239-245); the only *)
(* ones that never do are those whose files disagree with the database.    *)
AllComeUp == <>[](\A r \in Replicas : pc[r] = "up" \/ Superseded(r))
=============================================================================
