---------------------------- MODULE KevCatalogue ----------------------------
(***************************************************************************)
(* The KEV catalogue (backend/kev/updater.go): every replica of the        *)
(* backend downloads the feed when it starts and once a day, stores the    *)
(* body in data/cisa-kev.json and loads what it finds there.  The file is  *)
(* on a volume that all replicas mount (k8s/seagles-pvc.yaml), and nothing *)
(* orders their writes and reads.                                          *)
(*                                                                         *)
(* A document holds entries, or is some other JSON, such as an error       *)
(* message with status 200, or does not parse.  A file that is empty, cut  *)
(* short or mixed from two bodies does not parse either.                   *)
(***************************************************************************)
EXTENDS Naturals, FiniteSets

CONSTANTS
    Replicas,
    MaxMishaps   \* bounds failed reads and writes, and crashes in a write

ASSUME MishapsAssumption == MaxMishaps \in Nat

VARIABLES
    updater,   \* where StartKEVUpdater, or its goroutine, of a replica is
    memory,    \* the catalogue of each process, "none" before it has one
    cache,     \* data/cisa-kev.json
    mixed,     \* replicas whose write of it overlaps with another's
    mishaps,   \* failed reads and writes so far
    blame,     \* what has happened to the file so far (history)
    unfed      \* replicas that found neither a feed nor a file (history)

kevVars == <<updater, memory, cache, mixed, mishaps, blame, unfed>>
file    == <<cache, mixed>>
past    == <<mishaps, blame, unfed>>

Bodies == {"entries", "json", "bad"}

KevTypeOK ==
    /\ updater \in [Replicas -> {"down", "fetch", "write", "load", "wait"}]
    /\ memory \in [Replicas -> {"none", "empty", "entries"}]
    /\ cache \in Bodies \cup {"missing"}
    /\ mixed \in SUBSET Replicas
    /\ mishaps \in 0..MaxMishaps
    /\ blame \in SUBSET {"feed", "clash", "mishap"}
    /\ unfed \in SUBSET Replicas

\* The volume is new, or an earlier process has left its file there.
KevInit ==
    /\ updater = [r \in Replicas |-> "down"]
    /\ memory = [r \in Replicas |-> "none"]
    /\ cache \in {"missing", "entries"}
    /\ mixed = {} /\ mishaps = 0 /\ blame = {} /\ unfed = {}

Move(r, from, to) == updater[r] = from /\ updater' = [updater EXCEPT ![r] = to]

\* A process that has no catalogue yet is in the part of StartKEVUpdater that
\* main waits for, which goes on whatever fails; the goroutine gives up.
Starting(r)  == memory[r] = "none"
AfterFailure(r) == IF Starting(r) THEN "load" ELSE "wait"

\* The other replicas that are writing the file.
Writing(r) == {s \in Replicas \ {r} : updater[s] = "write"}

Mishap ==
    /\ mishaps < MaxMishaps /\ mishaps' = mishaps + 1
    /\ blame' = blame \cup {"mishap"}

-----------------------------------------------------------------------------
\* main calls StartKEVUpdater.
StartKEVUpdater(r) ==
    /\ Move(r, "down", "fetch")
    /\ UNCHANGED <<memory, file, past>>

\* The ticker of the goroutine, every 24 hours.
Tick(r) ==
    /\ Move(r, "wait", "fetch")
    /\ UNCHANGED <<memory, file, past>>

\* Mutant: a process that starts without the feed does not look at its file.
MutFetchFails(r) ==
    /\ Move(r, "fetch", "wait")
    /\ memory' = [memory EXCEPT ![r] = IF Starting(r) THEN "empty" ELSE @]
    /\ unfed' = IF cache = "missing" THEN unfed \cup {r} ELSE unfed
    /\ UNCHANGED <<file, mishaps, blame>>

\* The feed does not answer, or not with status 200 and a whole body, or the
\* breaker is open, or the file cannot be opened.
FetchFails(r) ==
    /\ Move(r, "fetch", AfterFailure(r))
    /\ unfed' = IF cache = "missing" THEN unfed \cup {r} ELSE unfed
    /\ UNCHANGED <<memory, file, mishaps, blame>>

\* os.WriteFile opens the file, and so empties it.
Truncate(r) ==
    /\ Move(r, "fetch", "write")
    /\ cache' = "bad"
    /\ mixed' = IF Writing(r) = {} THEN mixed ELSE mixed \cup Writing(r) \cup {r}
    /\ blame' = IF Writing(r) = {} THEN blame ELSE blame \cup {"clash"}
    /\ UNCHANGED <<memory, mishaps, unfed>>

\* It writes the body that the feed gave, which nobody has looked at yet.
\* Bodies of two replicas may mix.
FetchKEV(r) ==
    /\ Move(r, "write", "load")
    /\ \E body \in Bodies :
        /\ cache' \in {body} \cup (IF r \in mixed THEN {"bad"} ELSE {})
        /\ blame' = IF body = "entries" THEN blame ELSE blame \cup {"feed"}
    /\ mixed' = mixed \ {r}
    /\ UNCHANGED <<memory, mishaps, unfed>>

\* The write fails half-way.
WriteFails(r) ==
    /\ Move(r, "write", AfterFailure(r))
    /\ Mishap
    /\ cache' = "bad" /\ mixed' = mixed \ {r}
    /\ UNCHANGED <<memory, unfed>>

\* LoadKEV: the catalogue of a document, if it parses.
Catalogue(document) ==
    CASE document = "entries" -> "entries" [] document = "json" -> "empty" [] OTHER -> "error"

\* What a process has after it has loaded this: at start-up it takes an empty
\* catalogue for an error, later it keeps the one it has.
Loaded(r, catalogue) ==
    memory' = [memory EXCEPT ![r] =
        IF catalogue # "error" THEN catalogue ELSE IF Starting(r) THEN "empty" ELSE @]

\* Mutant: the catalogue is emptied before the file is parsed.
MutLoadKEV(r) ==
    /\ Move(r, "load", "wait")
    /\ memory' = [memory EXCEPT ![r] = IF cache = "entries" THEN "entries" ELSE "empty"]
    /\ blame' = IF Writing(r) = {} THEN blame ELSE blame \cup {"clash"}
    /\ UNCHANGED <<file, mishaps, unfed>>

\* LoadKEV reads the file as it is now, and the process takes the result over
\* under its lock.
LoadKEV(r) ==
    /\ Move(r, "load", "wait")
    /\ Loaded(r, Catalogue(cache))
    /\ blame' = IF Writing(r) = {} THEN blame ELSE blame \cup {"clash"}
    /\ UNCHANGED <<file, mishaps, unfed>>

\* os.ReadFile fails, whatever the file holds.
ReadFails(r) ==
    /\ Move(r, "load", "wait")
    /\ Mishap
    /\ Loaded(r, "error")
    /\ UNCHANGED <<file, unfed>>

\* The process ends, and leaves the file as it is: empty if it was writing.
Die(r) ==
    /\ updater[r] # "down" /\ updater' = [updater EXCEPT ![r] = "down"]
    /\ memory' = [memory EXCEPT ![r] = "none"]
    /\ IF updater[r] = "write" THEN Mishap ELSE UNCHANGED <<mishaps, blame>>
    /\ mixed' = mixed \ {r} /\ unfed' = unfed \ {r}
    /\ UNCHANGED cache

KevNext ==
    \E r \in Replicas :
        \/ StartKEVUpdater(r) \/ Tick(r) \/ FetchFails(r) \/ Truncate(r) \/ FetchKEV(r)
        \/ WriteFails(r) \/ LoadKEV(r) \/ ReadFails(r) \/ Die(r)

KevSpec == KevInit /\ [][KevNext]_kevVars

-----------------------------------------------------------------------------
(* A running process does not lose its catalogue to a download that does   *)
(* not parse, its own or another replica's, nor to a file that cannot be   *)
(* read: it is emptied only by a document that parses.                     *)
CatalogueKept ==
    [][\A r \in Replicas :
           memory[r] = "entries" /\ memory'[r] = "empty" => cache = "json"]_kevVars

(* Without the feed a process uses the cached file                         *)
(* (docs/troubleshooting.md:70): it has no entries only if it found        *)
(* neither, or if the file was spoilt, by the feed itself, by a failed     *)
(* read or write, or by two replicas that used it at the same time.        *)
EmptyIsExplained ==
    \A r \in Replicas : memory[r] = "empty" => blame # {} \/ r \in unfed
=============================================================================
