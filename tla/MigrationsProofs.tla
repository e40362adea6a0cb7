-------------------------- MODULE MigrationsProofs --------------------------
(***************************************************************************)
(* Theorems about Migrations, for any number of replicas, files and        *)
(* faults: the inductive invariant, what a serving replica may rely on,    *)
(* and the refinement of MigrationLedger.                                  *)
(***************************************************************************)
EXTENDS Migrations, TLAPS

\* The places of a replica between appliedMigrations and its exit.
Running == {"loop", "insert", "commit", "up"}

\* The rows of schema_migrations are exactly the migrations in the database,
\* and those are the versions up to the last one.
RowsMatchSchema ==
    /\ Len(schema) \in 0..N
    /\ \A v \in Versions : recorded[v] # NotApplied <=> v <= Len(schema)

\* What a replica read from the table is still there.
AppliedIsStable ==
    \A r \in Replicas, v \in Versions :
        pc[r] \in Running /\ applied[r][v] # NotApplied => applied[r][v] = recorded[v]

\* Every file behind the loop of a replica is recorded with its checksum.
LoopBehindRecorded ==
    \A r \in Replicas, v \in Versions :
        pc[r] \in Running /\ v < next[r] => recorded[v] = Checksum[r][v]

\* A replica inside a transaction has a file at hand; one that holds an
\* uncommitted row is the only one and finds no committed row.
TransactionExclusive ==
    /\ \A r \in Replicas : pc[r] \in {"insert", "commit"} => next[r] <= Files[r]
    /\ \A r \in Replicas : pc[r] = "commit" => recorded[next[r]] = NotApplied
    /\ \A r, s \in Replicas :
          pc[r] = "commit" /\ pc[s] = "commit" /\ next[r] = next[s] => r = s

\* A replica that is up has been through all its files.
UpIsThrough == \A r \in Replicas : pc[r] = "up" => next[r] > Files[r]

Inv ==
    /\ TypeOK
    /\ RowsMatchSchema
    /\ AppliedIsStable
    /\ LoopBehindRecorded
    /\ TransactionExclusive
    /\ UpIsThrough

-----------------------------------------------------------------------------
(* A fresh database and replicas that have not started satisfy Inv.        *)
LEMMA InitInv == Init => Inv
<1> USE MigrationsAssumption
<1> SUFFICES ASSUME Init PROVE Inv
  OBVIOUS
<1>1. TypeOK
  BY DEF Init, TypeOK, Rows, Versions, Labels, Entry
<1>2. RowsMatchSchema
  BY DEF Init, RowsMatchSchema, Versions
<1>3. QED
  BY <1>1, <1>2 DEF Init, Inv, AppliedIsStable, LoopBehindRecorded,
     TransactionExclusive, UpIsThrough, Running

(* A commit by a replica that holds the uncommitted row of its file puts   *)
(* the next version in order into the database, and nothing else.          *)
LEMMA CommitIsNextInOrder ==
  ASSUME Inv, NEW r \in Replicas, pc[r] = "commit"
  PROVE  /\ next[r] = Len(schema) + 1
         /\ next[r] \in Versions
         /\ Checksum[r][next[r]] \in Checksums
<1> USE MigrationsAssumption DEF Inv, TypeOK, Versions
<1>1. next[r] \in Versions
  BY DEF TransactionExclusive
<1>2. next[r] > Len(schema)
  BY <1>1 DEF TransactionExclusive, RowsMatchSchema
<1>3. \A v \in Versions : v < next[r] => recorded[v] # NotApplied
  BY DEF LoopBehindRecorded, Running
<1>4. next[r] = Len(schema) + 1
  <2>1. SUFFICES ASSUME next[r] # Len(schema) + 1 PROVE FALSE
    OBVIOUS
  <2>2. Len(schema) + 1 \in Versions /\ Len(schema) + 1 < next[r]
    BY <1>1, <1>2, <2>1 DEF RowsMatchSchema
  <2>3. QED
    BY <1>3, <2>2 DEF RowsMatchSchema
<1>5. QED
  BY <1>1, <1>4

(* A transaction that commits (with or without its reply) keeps rows and   *)
(* schema in step, and disturbs nothing that other replicas have read or   *)
(* passed; what remains is the committing replica's own place.             *)
LEMMA CommittedKeeps ==
  ASSUME Inv, NEW r \in Replicas, pc[r] = "commit", Committed(r)
  PROVE  /\ schema' \in Seq(Entry)
         /\ recorded' \in Rows
         /\ RowsMatchSchema'
         /\ \A v \in Versions : recorded[v] # NotApplied => recorded'[v] = recorded[v]
         /\ recorded'[next[r]] = Checksum[r][next[r]]
         /\ \A v \in Versions \ {next[r]} : recorded'[v] = recorded[v]
<1> DEFINE e == [version |-> next[r], checksum |-> Checksum[r][next[r]]]
<1>1. /\ next[r] = Len(schema) + 1
      /\ next[r] \in Versions
      /\ Checksum[r][next[r]] \in Checksums
  BY CommitIsNextInOrder
<1>2. e \in Entry
  BY <1>1 DEF Entry
<1>3. schema \in Seq(Entry) /\ recorded \in Rows
  BY DEF Inv, TypeOK
<1>4. schema' = Append(schema, e)
  BY DEF Committed
<1> HIDE DEF e
<1>5. schema' \in Seq(Entry) /\ Len(schema') = Len(schema) + 1
  BY <1>2, <1>3, <1>4
<1>6. recorded' = [recorded EXCEPT ![next[r]] = Checksum[r][next[r]]]
  BY DEF Committed
<1>7. recorded[next[r]] = NotApplied
  BY DEF Inv, TransactionExclusive
<1>8. /\ recorded' \in Rows
      /\ recorded'[next[r]] = Checksum[r][next[r]]
      /\ \A v \in Versions \ {next[r]} : recorded'[v] = recorded[v]
  BY <1>1, <1>3, <1>6 DEF Rows
<1>9. RowsMatchSchema'
  <2>1. Len(schema') \in 0..N
    BY MigrationsAssumption, <1>1, <1>5 DEF Versions
  <2>2. ASSUME NEW v \in Versions
        PROVE  recorded'[v] # NotApplied <=> v <= Len(schema')
    <3>1. CASE v = next[r]
      BY <1>1, <1>5, <1>8, <3>1, MigrationsAssumption DEF Versions
    <3>2. CASE v # next[r]
      <4>1. recorded'[v] = recorded[v]
        BY <1>8, <3>2
      <4>2. Len(schema) \in Nat /\ (recorded[v] # NotApplied <=> v <= Len(schema))
        BY DEF Inv, RowsMatchSchema
      <4>3. QED
        BY <1>1, <1>5, <3>2, <4>1, <4>2, MigrationsAssumption DEF Versions
    <3>3. QED
      BY <3>1, <3>2
  <2>3. QED
    BY <2>1, <2>2 DEF RowsMatchSchema, Versions
<1>10. QED
  BY <1>5, <1>7, <1>8, <1>9

(* Every step of a replica, failed, interrupted or successful, preserves   *)
(* the inductive invariant.                                                *)
LEMMA NextInv == Inv /\ [Next]_vars => Inv'
<1> SUFFICES ASSUME Inv, [Next]_vars PROVE Inv'
  OBVIOUS
<1> USE MigrationsAssumption
<1>1. CASE UNCHANGED vars
  BY <1>1 DEF vars, Inv, TypeOK, RowsMatchSchema, AppliedIsStable,
     LoopBehindRecorded, TransactionExclusive, UpIsThrough, Versions, Rows, Labels, Entry
<1>2. ASSUME NEW r \in Replicas, Start(r) PROVE Inv'
  BY <1>2 DEF Start, Goto, Inv, TypeOK, Labels, RowsMatchSchema, AppliedIsStable,
     LoopBehindRecorded, TransactionExclusive, UpIsThrough, Running, Rows, Versions
<1>3. ASSUME NEW r \in Replicas, ReadApplied(r) PROVE Inv'
  BY <1>3 DEF ReadApplied, Goto, Inv, TypeOK, Labels, RowsMatchSchema, AppliedIsStable,
     LoopBehindRecorded, TransactionExclusive, UpIsThrough, Running, Rows, Versions
<1>4. ASSUME NEW r \in Replicas, Skip(r) PROVE Inv'
  BY <1>4 DEF Skip, Pending, Goto, Inv, TypeOK, Labels, RowsMatchSchema, AppliedIsStable,
     LoopBehindRecorded, TransactionExclusive, UpIsThrough, Running, Rows, Versions
<1>5. ASSUME NEW r \in Replicas, RefuseModified(r) PROVE Inv'
  BY <1>5 DEF RefuseModified, Goto, Inv, TypeOK, Labels, RowsMatchSchema, AppliedIsStable,
     LoopBehindRecorded, TransactionExclusive, UpIsThrough, Running, Rows, Versions
<1>6. ASSUME NEW r \in Replicas, Exec(r) PROVE Inv'
  BY <1>6 DEF Exec, Pending, Goto, Inv, TypeOK, Labels, RowsMatchSchema, AppliedIsStable,
     LoopBehindRecorded, TransactionExclusive, UpIsThrough, Running, Rows, Versions
<1>7. ASSUME NEW r \in Replicas, InsertRow(r) PROVE Inv'
  BY <1>7 DEF InsertRow, Goto, Inv, TypeOK, Labels, RowsMatchSchema, AppliedIsStable,
     LoopBehindRecorded, TransactionExclusive, UpIsThrough, Running, Rows, Versions
<1>8. ASSUME NEW r \in Replicas, UpToDate(r) PROVE Inv'
  BY <1>8 DEF UpToDate, Pending, Goto, Inv, TypeOK, Labels, RowsMatchSchema, AppliedIsStable,
     LoopBehindRecorded, TransactionExclusive, UpIsThrough, Running, Rows, Versions
<1>9. ASSUME NEW r \in Replicas, Fail(r) PROVE Inv'
  BY <1>9 DEF Fail, Inv, TypeOK, Labels, RowsMatchSchema, AppliedIsStable,
     LoopBehindRecorded, TransactionExclusive, UpIsThrough, Running, Rows, Versions
<1>10. ASSUME NEW r \in Replicas, Commit(r) \/ CommitReplyLost(r) PROVE Inv'
  <2>1. pc[r] = "commit" /\ Committed(r) /\ applied' = applied
    BY <1>10 DEF Commit, CommitReplyLost, Goto
  <2>2. \/ /\ pc' = [pc EXCEPT ![r] = "loop"]
           /\ next' = [next EXCEPT ![r] = @ + 1]
        \/ /\ pc' = [pc EXCEPT ![r] = "down"]
           /\ next' = next
    BY <1>10 DEF Commit, CommitReplyLost, Goto
  <2>3. faults' \in 0..MaxFaults
    BY <1>10 DEF Commit, CommitReplyLost, Inv, TypeOK
  <2>4. /\ schema' \in Seq(Entry)
        /\ recorded' \in Rows
        /\ RowsMatchSchema'
        /\ \A v \in Versions : recorded[v] # NotApplied => recorded'[v] = recorded[v]
        /\ recorded'[next[r]] = Checksum[r][next[r]]
        /\ \A v \in Versions \ {next[r]} : recorded'[v] = recorded[v]
    BY <2>1, CommittedKeeps
  <2>5. next[r] \in Versions /\ next[r] <= Files[r]
    BY <2>1, CommitIsNextInOrder DEF Inv, TransactionExclusive
  <2>6. TypeOK'
    <3>1. next \in [Replicas -> 1..(N + 1)] /\ pc \in [Replicas -> Labels]
      BY DEF Inv, TypeOK
    <3>2. next[r] + 1 \in 1..(N + 1)
      BY <2>5 DEF Versions
    <3>3. next' \in [Replicas -> 1..(N + 1)]
      BY <2>2, <3>1, <3>2
    <3>4. pc' \in [Replicas -> Labels]
      BY <2>2, <3>1 DEF Labels
    <3>5. QED
      BY <2>1, <2>3, <2>4, <3>3, <3>4 DEF Inv, TypeOK
  <2>7. AppliedIsStable'
    BY <2>1, <2>2, <2>4 DEF Inv, AppliedIsStable, Running, TypeOK
  <2>8. LoopBehindRecorded'
    <3> SUFFICES ASSUME NEW s \in Replicas, NEW v \in Versions,
                        pc'[s] \in Running, v < next'[s]
                 PROVE  recorded'[v] = Checksum[s][v]
      BY DEF LoopBehindRecorded, Versions
    <3>1. CASE s = r
      <4>1. pc[r] \in Running /\ next'[r] = next[r] + 1
        BY <2>1, <2>2, <3>1 DEF Inv, TypeOK, Running
      <4>2. CASE v = next[r]
        BY <2>4, <3>1, <4>2
      <4>3. CASE v # next[r]
        <5>1. v < next[r]
          BY <2>5, <3>1, <4>1, <4>3 DEF Versions
        <5>2. recorded[v] = Checksum[r][v]
          BY <4>1, <5>1 DEF Inv, LoopBehindRecorded
        <5>3. QED
          BY <2>4, <3>1, <4>3, <5>2
      <4>4. QED
        BY <4>2, <4>3
    <3>2. CASE s # r
      <4>1. pc[s] \in Running /\ v < next[s]
        BY <2>2, <3>2 DEF Inv, TypeOK
      <4>2. recorded[v] = Checksum[s][v] /\ Checksum[s][v] \in Checksums
        BY <4>1 DEF Inv, LoopBehindRecorded, Versions
      <4>3. QED
        BY <2>4, <4>2
    <3>3. QED
      BY <3>1, <3>2
  <2>9. TransactionExclusive'
    <3>1. \A s \in Replicas : s # r => pc'[s] = pc[s] /\ next'[s] = next[s]
      BY <2>2 DEF Inv, TypeOK
    <3>2. pc'[r] \notin {"insert", "commit"}
      BY <2>2 DEF Inv, TypeOK
    <3>3. \A s \in Replicas : pc[s] = "commit" => next[s] \in Versions
      BY CommitIsNextInOrder
    <3>4. \A s \in Replicas : s # r /\ pc[s] = "commit" => next[s] # next[r]
      BY <2>1 DEF Inv, TransactionExclusive
    <3>5. \A s \in Replicas : pc'[s] \in {"insert", "commit"} => next'[s] <= Files[s]
      BY <3>1, <3>2 DEF Inv, TransactionExclusive
    <3>6. \A s \in Replicas : pc'[s] = "commit" => recorded'[next'[s]] = NotApplied
      BY <2>4, <3>1, <3>2, <3>3, <3>4 DEF Inv, TransactionExclusive
    <3>7. \A s, t \in Replicas :
            pc'[s] = "commit" /\ pc'[t] = "commit" /\ next'[s] = next'[t] => s = t
      BY <3>1, <3>2 DEF Inv, TransactionExclusive
    <3>8. QED
      BY <3>5, <3>6, <3>7 DEF TransactionExclusive
  <2>10. UpIsThrough'
    BY <2>2 DEF Inv, UpIsThrough, TypeOK
  <2>11. QED
    BY <2>4, <2>6, <2>7, <2>8, <2>9, <2>10 DEF Inv
<1>11. QED
  BY <1>1, <1>2, <1>3, <1>4, <1>5, <1>6, <1>7, <1>8, <1>9, <1>10 DEF Next, RunMigrations

-----------------------------------------------------------------------------
(* However many replicas race, fail or lose a reply, the inductive         *)
(* invariant holds: rows and schema agree, no two transactions hold the    *)
(* same row, and what a replica has passed stays as it saw it.             *)
THEOREM InvariantHolds == Spec => []Inv
<1>1. QED
  BY InitInv, NextInv, PTL DEF Spec

(* A replica that serves runs on the schema its own image describes.       *)
THEOREM ServingReplicaIsMigrated == Spec => []UpMeansMigrated
<1>1. Inv => UpMeansMigrated
  <2> SUFFICES ASSUME Inv, NEW r \in Replicas, pc[r] = "up", NEW v \in 1..Files[r]
               PROVE  recorded[v] = Checksum[r][v]
    BY DEF UpMeansMigrated
  <2>1. v \in Versions /\ v < next[r]
    BY MigrationsAssumption DEF Inv, UpIsThrough, TypeOK, Versions
  <2>2. QED
    BY <2>1 DEF Inv, LoopBehindRecorded, Running
<1>2. QED
  BY <1>1, InvariantHolds, PTL

(* RunMigrations implements MigrationLedger: every step of every replica   *)
(* applies the next version in order or leaves the database's migrations   *)
(* alone, for any number of replicas, files, edited files and faults.      *)
THEOREM ImplementsLedger == Spec => LedgerSpec
<1>1. Init => Ledger!Init
  BY DEF Init, Ledger!Init
<1>2. Inv /\ [Next]_vars => [Ledger!Next]_schema
  <2> SUFFICES ASSUME Inv, [Next]_vars PROVE Ledger!Next \/ schema' = schema
    OBVIOUS
  <2>1. CASE UNCHANGED vars
    BY <2>1 DEF vars
  <2>2. ASSUME NEW r \in Replicas, Commit(r) \/ CommitReplyLost(r) PROVE Ledger!Next
    <3>1. pc[r] = "commit" /\ Committed(r)
      BY <2>2 DEF Commit, CommitReplyLost, Goto
    <3>2. /\ next[r] = Len(schema) + 1
          /\ next[r] \in Versions
          /\ Checksum[r][next[r]] \in Checksums
      BY <3>1, CommitIsNextInOrder
    <3>3. Len(schema) < N
      BY <3>2, MigrationsAssumption DEF Versions, Inv, RowsMatchSchema
    <3>4. schema' = Append(schema, [version |-> Len(schema) + 1, checksum |-> Checksum[r][next[r]]])
      BY <3>1, <3>2 DEF Committed
    <3>5. QED
      BY <3>2, <3>3, <3>4 DEF Ledger!Next, Ledger!Apply
  <2>3. ASSUME NEW r \in Replicas,
               Start(r) \/ ReadApplied(r) \/ Skip(r) \/ RefuseModified(r) \/ Exec(r)
                 \/ InsertRow(r) \/ UpToDate(r) \/ Fail(r)
        PROVE  schema' = schema
    BY <2>3 DEF Start, ReadApplied, Skip, RefuseModified, Exec, InsertRow, UpToDate, Fail
  <2>4. QED
    BY <2>1, <2>2, <2>3 DEF Next, RunMigrations
<1>3. QED
  BY <1>1, <1>2, InvariantHolds, PTL DEF Spec, LedgerSpec, Ledger!Spec
=============================================================================
