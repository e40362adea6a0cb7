# Seagles in TLA+

A verification development for Seagles, an IoT security platform: a Go backend
(`src/backend`) that scans devices, scores them and raises alerts, a Python service that
analyses firmware (`src/firmware-analyzer`) and a React client (`src/frontend`). Kubernetes
runs three replicas of the backend on one PostgreSQL database.

The modules model the parts of the system in which several goroutines, replicas, services
or requests share state. TLC checks small instances of them, TLAPS proves the safety
properties for all instances.

    tlc -workers 2 -config MCBreaker.cfg MCBreaker
    tlapm ClientsProofs.tla

`PROJECT.json` lists components, runs, mutants, the map from definitions to source lines,
findings, hazards and theorems.

## Inventory

| Component | State | Operations | Interplay | What is hard |
|---|---|---|---|---|
| Circuit breaker (`breaker/breaker.go`) | state, failures, lastFailure, probing, mutex | Execute, Reset | called by the KEV and the EPSS updater | lone atomic operations interleave; the mutex covers nine lines |
| Refresh tokens (`auth/auth.go`, `api/sessions.go`) | table `refresh_tokens` | login, refresh, logout, change of password, revocation | several requests, replicas and clients on one table | each handler is several statements without a transaction |
| Access tokens and roles (`auth/tokens.go`, `cache/blacklist.go`, `main.go`, `api/router.go`) | JWTs at clients, signing key and blacklist of each process | load or generate the key, mint, validate, blacklist, sweep, require a role | logout, AuthMiddleware, RequirePasswordChange | lifetimes, restarts, several replicas that must agree on a key |
| Migrations (`db/db.go`) | schema, `schema_migrations` | RunMigrations | every replica at start-up, no lock | races, crashes around a commit, edited files |
| Scans (`api/scans.go`, `scanner/nmap.go`, `risk/scorer.go`) | `scans.status`, worker pool, vulnerabilities, score | trigger, run, resolve, rescore | goroutines outlive their requests; alerts, safelist, shutdown, the retention purge and firmware analyses change what the score is made of | leaked workers, stale scores, rows left 'running', an SSH server that never answers |
| Alerts and webhooks (`alerts/*.go`) | `alerts`, `webhooks`, `webhook_deliveries` | CreateAlert, dispatch, deliver with retries, acknowledge | scans, the monitor of every replica, external endpoints | check-then-insert, lost answers, a partial log |
| Firmware (`api/firmware.go`, `firmware-analyzer/main.py`) | table `firmware`, uploaded files | upload, analyse, store results | HTTP between the services, both of which write the row | time-outs against late answers |
| CSRF tokens (`middleware/csrf.go`) | map in the memory of a replica | mint, validate once, purge | every request of the browser client | three replicas, single use |
| Probes, credential tests and risk score (`scanner/protocols.go`, `tls.go`, `credentials.go`, `risk/scorer.go`) | findings of a scan, vulnerabilities, alerts, tag of the device | probe, try, store, break down the score | two scans of one device; the device itself; resolution and retention | lockouts, replies that mislead, statements that fail half-way, weights written down twice |
| Discovery and safelist (`api/scans.go`, `scanner/passive.go`, `api/safelists.go`) | `devices`, `safelists` | network scan, packet, check, upsert, safelist entry created or deactivated | scans, passive monitors of every replica, migrations | failures that read as "no", checks that are stale, NULLs and indexes left by other code |
| Start-up, jobs and shutdown (`main.go`, `db/db.go`, `retention`) | phase of main, pool of connections, readiness | start, tick, query, ping, signal, drain, wait | every job and request shares the pool | waiting for a second connection, time-outs, jobs that do not stop |
| KEV catalogue (`kev/updater.go`) | the catalogue in the memory of each process, `data/cisa-kev.json` on a volume all replicas mount | download, write, load | replicas write and read one file | torn, mixed and bad files |
| Rate limit, cache, WebSocket hub, audit, health report (`middleware`, `cache`, `api`) | maps and counters in the memory of a process | get, set, sweep, broadcast | per replica | little: one critical section each, and two of them are unused |
| Sanitising, configuration, models | none | pure functions | | |
| Browser client (`frontend/src/api/client.ts`, `App.tsx`, `Login.tsx`) | tokens in localStorage, CSRF token, refresh queue | interceptors, login, logout | every endpoint; other tabs | waiters that are never woken, retries |

## Modules

| Module | Models | Implements / composed with |
|---|---|---|
| `Breaker` | `Execute` and `Reset` | |
| `Sessions` | login, refresh, logout, change of password, revocation | |
| `AccessTokens` | the signing key, minting, the middleware chain with its roles, the blacklist of each replica | |
| `MigrationLedger` | what migrations promise: each version once, in order | |
| `Migrations` | `RunMigrations` on every replica | implements `MigrationLedger` |
| `Scans` | scan goroutines, worker pool, findings, rescoring, resolution, purge, change of firmware, restart | |
| `Alerts` | `CreateAlert`, dispatch, delivery, log | |
| `Firmware` | upload, the analysis goroutine, the analyzer's handler and background task, the alert of a suspicious image | |
| `WebClient` | the interceptors, login, logout and routing of a page, with `CSRFMiddleware` of each replica | |
| `Assessment` | protocol and TLS probes, credential trials, what is stored of them, risk breakdown, purge of old scans | the part of a scan that `Scans` takes as given |
| `Discovery` | network scan, passive monitor, safelist, the schema their INSERTs meet | consulted by the device scans of `Scans` |
| `Jobs` | main, the background jobs, the connection pool, readiness, shutdown | the process around all other modules |
| `KevCatalogue` | the KEV updaters of all replicas and the file they share | |
| `AlertsProofs`, `DiscoveryProofs`, `FirmwareProofs`, `MigrationsProofs`, `ScansProofs` | theorems about the module of that name | |
| `AuthProofs` | theorems about `Sessions` and `AccessTokens` | |
| `BackendProofs` | theorems about `Jobs`, `KevCatalogue` and `Assessment` | |
| `ClientsProofs` | theorems about `Breaker` and `WebClient` | |
| `MC*` | instances for TLC; `MCAuth` puts `Sessions` beside `AccessTokens`, `MCJobs` `Jobs` beside `KevCatalogue` | |

`AccessTokens`, `Assessment`, `KevCatalogue` and `WebClient` share a proof module with another
component, so their specifications have names of their own: `TokensSpec`, `AssessSpec`,
`KevSpec`, `ClientSpec`. The two modules side by side in `MCAuth`, and in `MCJobs`, share no
state. Their instance explores the behaviours of the one and of the other, not their product:
a property of one is not affected by steps of the other.

### Breaker

An action is one atomic load, store or compare-and-swap, or what the mutex encloses between
two of them. `pc[c]` is the line a caller is at, `saw[c]` the state it read on line 85.
Time is the age of `lastFailure`, saturated just past `resetTimeout`, and the failure
counter is saturated at the threshold; the code makes no finer distinction. The dependency
behind `fn()` goes down and comes back at will. `Reset` is called by tests only, on a breaker
nobody is using, and is one action that is enabled when no caller is inside.

The behaviour that surprises is on line 107: a probe that took the slot on line 91 can be
turned away by the threshold test (another caller has closed the breaker in the meantime and
its count has gone up again) and returns without giving the slot back. From then on no probe
can start and the breaker refuses every call for ever. `LockOutIsLeak` and
`RecoversUnlessLeaked` say that this is the *only* way: every other interleaving lets callers
through again and closes the breaker once the dependency is up. So "Automatic recovery via
half-open probing" (docs/adr.md:57) and "Release the half-open probe slot no matter how the
call turned out" (breaker.go:113) hold up to that leak, which the model reaches. Two further
consequences of the lone atomics can be seen in the model: callers that read "half-open" on
line 85 reach `fn()` beside the probe, and a failed probe leaves the breaker closed when
another caller's success has zeroed the counter.

### Sessions

One account; every statement is keyed by the user or by one token. An action is one SQL
statement with the code up to the next. A failing statement may still have taken effect, and
a crash drops a request anywhere. The boolean column `revoked` is kept as the reason it was
set, and history variables remember what raced with what; no action reads them.

* `NoStranding`: the order insert, revoke, reply of `RefreshTokenHandler` loses a client its
  session only when the process dies, or the network loses the reply, after the revocation.
* `SurvivorsRaced`: after a logout or change of password a session of before is alive only
  if one of its requests was between its check and its insert. A revocation that fails is no
  revocation to this property: `ChangePasswordHandler` logs the error (auth.go:385-387) and
  still answers "All sessions have been invalidated" (line 390). That answer is wrong in the
  window and after such a failure.
* `DoubleUseContended`: one token is exchanged twice only by requests that both validated
  it before either revoked it, or after a revocation that failed. The comment on line 277
  ("the refresh token that was just used must not be reusable") lacks the first exception,
  which the model reaches with two requests: SELECT and UPDATE are separate statements, and
  the UPDATE does not look at the number of rows it changed.

### AccessTokens

Tokens with ages, the key they are signed with and the `mcp` claim, and one blacklist per
process with the ages of its entries. A process starts with what `resolveJWTKey` and
`LoadOrGenerateKeys` give it under one of the configurations, and stops at any time. A
signature is the name of a key. A login reads the account and mints its token in two steps,
with a change of password possible in between.

* `LoggedOutStaysOut` holds for every pair of lifetimes with `AccessTTL <= BlacklistTTL` (15
  minutes, 24 hours).
* `TokensTravel`: with a configured key, or REQUIRE_SHARED_JWT_KEY, a token of one replica is
  good at every other, whatever a key file contains when a process starts. Without either a
  process signs with a key of its own, as its log says.
* `ClaimExplained`: the claim of a token that is accepted differs from the flag of the account
  in three cases only. A refresh does not read the flag, so its token never carries it; a token
  of before a change of password lives on for its 15 minutes; and a login that had read the
  account when the change came mints a token with the old flag afterwards.
* `PasswordGate` is violated: `RequirePasswordChange` asserts `User` where the context holds
  `*User` (auth.go:457), and is modelled as it behaves.

The model also shows what the code does not attempt: a change of password touches no access
token, and a logout is known to one replica only and forgotten when it restarts. Which role a
route asks for is a table (`MinRole`) that no property is about: docs/api.md:124 gives an
operator full CRUD on vulnerabilities, and the router lets only an administrator resolve one.

### Migrations and MigrationLedger

Replicas at `Files[r]` files with their own checksums read `schema_migrations` once, then
run each missing file in a transaction that ends with the insert of its row. PostgreSQL is
external: effects appear at commit, and an insert of a primary key waits for an uncommitted
one and fails after its commit. Losing the race ends the process, and the orchestrator starts
it again. `LedgerSpec` is the refinement, with the sequence of committed files as the ledger.
`UpMeansMigrated` is not a consequence of it: a replica that read an empty table must still
not come up on another's edited file. `AllComeUp` says that losers come up later, the only
exception being replicas whose files disagree with the database.

### Scans

A scan's goroutine: safelist check, check of the address, wait for a worker, nmap, findings
stored one by one, the SSH test, the logins it and the other methods found, final status, then
`UpdateDeviceRiskScore` statement by statement: titles read, entropy read, score written.
Resolving a vulnerability is an UPDATE, a SELECT of the device whose error is ignored
(vulnerabilities.go:99-101), and another goroutine that rescores. Two other writers change what
a score is made of and rescore nothing: the retention purge deletes a scan and, by the cascade
of migration 015, its vulnerabilities (`PurgeScan`), and an analysis or upload changes the
entropy of the latest firmware (`FirmwareChange`, firmware.go:173). Statements fail, scanners
panic, and the process ends and starts again.

The score is kept as the set of factors it is the sum of. Two factors are left out: nothing
writes `cve_id` and `is_kev`, so their counts are 0, and the age of the last scan grows by
itself, so that this term of a stored score is out of date the next day whatever happens.

* `WorkersAccounted`: the pool is exactly the set of scans inside nmap.
* `EveryScanEnds`: every scan reaches a final status, with three exceptions. Its last statement
  failed; the process ended (nothing sweeps rows left 'running', and a shutdown does not wait
  for scans, although docs/adr.md:348 says it drains them); or the goroutine is for ever in the
  SSH test, because the device accepts the connection and says nothing. `ssh.ClientConfig` has a
  Timeout, which bounds the TCP connect and not the handshake (credentials.go:93-96).
* `ScoreExplained`: a device that nobody works on has the score of its open vulnerabilities and
  its firmware, unless something changed them that no complete update has taken in since. The
  history variable `excused` names the occasions, one by one: an update that failed, died or was
  never started, one that wrote factors that had changed since they were read or lacked the
  entropy, a purge, a change of firmware. A complete update that read the present rows removes
  a device from it, so an early excuse does not cover a later error. All of them happen.

The safelist is read before the wait for a worker, so a device safelisted meanwhile is
scanned; `Discovery` says that this, a failed query and an entry that does not parse are the
only ways to that.

### Alerts

`CreateAlert` is a SELECT and an INSERT without a transaction or a unique index.
`DuplicatesExplained` gives its exact window; docs/architecture.md:406 ("deduplicated by type
+ device_id") lacks it. Deliveries make three attempts, of which only refusals, acceptances
and the last time-out are logged; `FinishedIsLogged` shows that no mix of them ends without a
trace. An INSERT of an alert may take effect and report an error, and the list of webhooks may break
off half-way: what follows in it is told nothing. Deleting a webhook removes its log and leaves
its goroutines running. Delays between attempts and the payload are left out.

### Firmware

Backend and analyzer write the same row, tied together by one HTTP request with a time-out of
120 seconds. `pc[j]` is the goroutine of an analysis, `task[j]` the analyzer's coroutine and
the background task that follows its answer; the coroutine never awaits, so one at a time
runs. What the analyses compute is an input, of which only the entropy is kept. The alert is
raised by `CreateAlert` in two statements (`SelectDuplicates`, `InsertAlert`), which drops a
second alert of the same device and type while the first is open and of the last 24 hours; an
image uploaded without a device is not alerted at all (firmware.go:178).

* `ReportMatchesRow`: late answers and time-outs in any order leave a row whose score is the
  one of its report; only two analyses of one image that overlap can mix theirs.
* `SuspiciousIsAlerted`: a report that says "suspicious" of an image of a device has its alert,
  or was dropped as a duplicate of one that another image of that device has raised. The
  exceptions: the INSERT of the alert failed, or the backend had given up on the answer. The
  alert is raised by the goroutine and by nobody else, so an analysis that takes more than 120
  seconds is stored and never alerted.
* `AnalysisEnds`: nothing is assumed of the analyzer, and the row still leaves 'pending'
  unless the statement that writes the outcome fails or the backend dies.

With S3 configured every analysis is refused, as docs/setup.md says; the model has that path.

### WebClient

One page, its requests and the replicas that may answer them. An action is one JavaScript
callback or one request at a replica. A page is left by a reload (`clearSession`, logout),
which forgets all requests, or replaced by `ProtectedRoute` without one. Tokens that nobody
holds any more are given a new name, which keeps the instance finite without a bound on the
number of requests. With a bearer token `CSRFMiddleware` lets every method pass, so writes
differ from reads only without one.

* `SingleRefresh`: the queue does what ADR-019 says.
* `EveryRequestSettles`: a failed refresh leaves the queue as it is, and what settles the
  requests in it is the reload. `ProtectedRoute` (after a logout in another tab) gets past
  that: the queued requests stay in `pendingRequests`, into the next session. The property
  excepts exactly those.
* `LoginRefusedExplained`: the one retry with a fresh CSRF token fails only at another
  replica than the one that minted it, or after a restart or expiry there. With three
  replicas and no affinity between them that is the common case.

ADR-019 says "Interceptor catches 401 responses, refreshes token, retries original request"
(docs/adr.md:389). In the model, as in the code, that never succeeds: the refresh is posted
with axios itself, without any header that `CSRFMiddleware` asks for (client.ts:109), the
answer is 403, and every refresh ends the session (`RefreshAnswered`).

### Assessment

Two scans of one device, which nothing in the code prevents. The device is the environment: it
answers each probe and each trial as it likes, may lock its accounts after a wrong password,
and then says so or drops connections. `Detect`, `CheckTLS` and `Verdict` are what the probes
and testers conclude from an answer. A finding is stored by an INSERT, an alert and, for a
login, the UPDATE of the device's tag, each of which may fail. The score is counted in 1/300 of
a point, so that all its terms are whole.

* `ReportedInFull`: what a scan found is stored, and protocols and logins have their alert (weak
  TLS raises one too, which the property does not ask for). The exceptions are that the loop
  over the results ends at a lockout (scans.go:327), so that logins found by later methods are
  dropped, and that the retention job deletes a scan together with its vulnerabilities, open
  ones included, since migration 015 turned ON DELETE SET NULL into CASCADE.
* `LockoutHalts`: a device that announces its lockout is tried at most once more by the SSH and
  once more by the HTTP test of each running scan. `TestTelnetCreds` has no check for a lockout:
  a message with a known word of refusal counts as a wrong password, and the loop goes on to
  the end of its list; any other counts as a login. The model has both, and the property leaves
  Telnet out. The documents promise more: "Stops immediately on HTTP 429 or lockout messages"
  and "50 credential pairs per device per scan" (THREAT_MODEL.md:95-96, plan.md:423-425). The
  code starts the next method all the same, and tries up to 50 pairs over SSH, 50 over HTTP and
  20 over Telnet.
* `LoginsExplained`: SSH reports only real logins; HTTP also a page that everybody may see;
  Telnet also a reply without a known refusal, of which "account locked" is one.
* `BreakdownAddsUp`: the weights, which scorer.go has twice, agree; each open finding has its
  part in the breakdown. The records have the fields of `RiskFactors` and the keys of the map
  that `ScoreBreakdown` returns.

Three more observations: a TLS service on 8443 or 8883 counts as weak TLS because of its
title; an expired certificate of a server that speaks only TLS 1.3 is not seen; nothing in
the backend writes `cve_id` or `is_kev`, so these factors come from rows of other origin,
which is why they are inputs (`Histories`). A silent SSH server is in `Scans`.

### Discovery

The rows of `devices` and `safelists`, and three kinds of goroutines: network scans, device
scans up to the point where they probe, and passive monitors. The rows a database starts with
are those that older releases have left, with or without a MAC. `UniqueIndexes` is what the
migrations leave, and `Upsert` the statement that meets it.

* `SafelistHonoured`: a host or MAC that an active entry covers is worked on only if the query
  failed, if the safelist has changed since it was read, or if some active entry does not
  parse as a network: that one fails the query for every address, and a failed query reads
  as "not safelisted".
* `SightingsCount`: whoever handles a device leaves `last_seen` fresh, except a monitor at a
  device whose `mac_address` is NULL, which is what every network scan leaves: the Scan into
  a string fails and the packet is dropped.
* `FoundIsStored` is violated: both INSERTs name `ON CONFLICT (ip_address)`. Migration 015
  replaces that unique index by (tenant_id, ip_address), and PostgreSQL then refuses the
  statement; neither caller reports the error, and no device is ever added. The migration says
  that "existing INSERTs that do not mention it keep working" (lines 28-31).

Monitors consult only entries for MACs and scans only the others, so that a scan does probe a
device that is safelisted by its MAC (upgrade.md:21 wants it excluded). A deactivated entry
cannot be created again (the index covers inactive ones), and a network scan does not refresh
`last_seen` of safelisted hosts.

### Jobs

The process from start to end. A goroutine is described by what it does with connections: it
wants one, uses one, holds one with open rows, or holds one and wants a second, which is what
the alert monitor does.

* `PoolNotWedged` holds from two connections on; with DB_MAX_OPEN_CONNS = 1 the alert monitor
  waits for itself, hence `PoolAssumption`.
* `ShutdownEnds` and `WorkFinished`: a signal ends the process, which cuts no work of the jobs
  in the wait group, and no request unless the drain ran out of time. It does cut scans, the
  EPSS updater, webhook deliveries (docs/adr.md:348 says that a shutdown drains scans) and
  WebSocket connections, which are hijacked and which the drain does not wait for.
* `ReadinessFollows`: a database that stays up, or away, is noticed in the end, although the
  pings of the monitor queue for the same pool.

### KevCatalogue

Every replica downloads the feed, writes it to `data/cisa-kev.json` and loads that file: when
it starts, and once a day. The deployment mounts one ReadWriteMany volume at /app/data in all
replicas (k8s/seagles-pvc.yaml), so the file is shared, and nothing orders its writers and
readers. Opening the file (which empties it), writing the body and loading are separate steps;
writes of two replicas may mix, and each step may fail or be the last of its process.

* `CatalogueKept`: a running process loses its entries to nothing but a document that parses.
  Neither a torn file, nor another replica's bad download, nor a failed read does it.
* `EmptyIsExplained`: "uses last cached catalog file" (docs/troubleshooting.md:70). A process
  without entries found neither feed nor file, or the file had been spoilt: by what the feed
  gave (the body is stored before it is parsed, and JSON without entries is taken for an empty
  catalogue), by a failed read or write, or by two replicas that used it at the same time. The
  last is a window of the code: a replica that starts while another truncates the file comes up
  with an empty catalogue, and keeps it until its next download.

## Runs

| Run | Instance | Shows |
|---|---|---|
| `breaker` | 2 callers, threshold 2, time-out 1 | the invariants above, and liveness up to the leak |
| `auth` | 1 client, 2 requests, 3 refresh tokens, 2 revocations; and 2 replicas, 2 access tokens, 3 generated keys, 5 configurations, lifetimes 1 and 1 | the three windows; blacklist, keys, claims |
| `access_tokens_gate` | the second half of it, lifetimes 1 and 2 | violation of `PasswordGate` |
| `migrations` | 3 replicas, 3 files, one image a file behind, one with an edited file 2, 2 faults | refinement, `UpMeansMigrated`, liveness |
| `scans` | 2 scans of 1 device, 1 worker, 1 resolution, 1 kind of finding, 1 fault | pool, score, liveness |
| `alerts` | 2 callers, 2 alerts of 2 kinds, 1 webhook, 3 attempts, 2 faults | duplicates, log |
| `firmware` | 2 suspicious images, each of 1 device or of none, 2 analyses, S3 on, 1 fault | the row and the alert, liveness |
| `web_client` | 2 requests at a time, 2 replicas, 1 fault | queue, CSRF retry, liveness |
| `assessment` | 2 scans, 5 sets of ports, 2 pairs for each method, 1 failing scan, 1 resolution, 3 histories | findings, lockouts, logins, score |
| `jobs` | 2 connections, 1 request, 1 scan, 1 periodic job, 2 rows for each check, 1 retry, 1 outage; and 2 replicas on one catalogue file, 1 mishap | pool, shutdown, readiness; catalogue |
| `discovery` | 1 host, 2 MACs, 3 entries, 1 goroutine of each kind | safelist, sightings |
| `discovery_inventory` | same | violation of `FoundIsStored` |

Two of each actor are enough for every race between a pair, and the theorems cover the
rest. Every bound is a CONSTANT or the size of one: `Tokens`, `Ids`, `AlertIds` and `ScanIds`
bound inserts, `MaxEpoch` revocations, `MaxFaults` failures, `Keys` generated keys, `MaxRows`
the rows of a check, `MaxOutages` outages, `MaxMishaps` failures around the catalogue file,
`PairCap` and `FileCap` trials, `MaxResolved`
resolutions. In `assessment` the list is longer than the cap, so that the cap bites, and the
sets of ports put each method beside another and each probe into one of them; one host
is enough for `discovery`, because a statement touches one row and entries that cover no host
stand for those of others. `migrations` has CHECK_DEADLOCK FALSE because replicas that are all
up have nothing left to do, `firmware` and `assessment` because their uploads, analyses and
scans are used up, and `jobs` because a process ends. Runs with liveness use no symmetry. The second
scan and the resolution of `scans` are on one device because a score is of one device; scans of
another compete for the worker only. In `firmware` the two images may share their device, which
is what the deduplication of alerts needs.

Fairness: in `Breaker`, tickers keep calling (strong fairness of `Enter`), a call in
progress is scheduled, `fn()` returns because its HTTP client has a time-out, and time
passes. In `Migrations`, a running process goes on and the orchestrator restarts one that
exited. In `Scans`, goroutines are scheduled, nmap ends because its context does (90
seconds), the protocol, TLS, HTTP and Telnet tests end because their connections have
deadlines, and the Go runtime serves senders blocked on a full channel in turn (strong
fairness of `AcquireWorker`). Nothing is assumed of the SSH test, which has no deadline once it
is connected. In `Firmware`, the goroutine of an analysis goes on and its HTTP
client gives up; the analyzer may hang. In `WebClient`, a request is answered or its
connection breaks, callbacks run, and the browser follows a change of location. In `Jobs`,
statements end, a connection that becomes free reaches every waiter in turn (database/sql
serves them in order; strong fairness of the acquisitions), a `select` takes each ready case
sooner or later (strong fairness of `Stop`), and the monitor's ticker fires. That statements
end is an assumption about PostgreSQL and the network: the code sets no statement time-out. No
fairness is assumed of failures, users or the dependency.

## Proofs

All theorems are safety: invariants, action properties, and the refinement of the ledger. They
hold for every value of the constants that satisfies the named assumptions (`MaxFailures` and
`ResetTimeout` positive; `NoToken` not a token; `AccessTTL <= BlacklistTTL`; the shapes of
`Files` and `Checksum`; finitely many scans and a pool with at least one slot; at least one
attempt; `Dense` a set of images, and `NoDevice` not a device; `Settings` configurations, and
generated keys distinct
from the shared one; `NoMac` not a MAC, the kinds of goroutines disjoint, the shape of
`Entries`; at least two connections, and requests and periodic jobs other than the jobs with a
name; limits and histories made of natural numbers; more names of CSRF tokens than a page and
its requests can hold).

* **Breaker.** `TypeCorrect`; `ThresholdOpens` (`ClosedUnderThreshold` is inductive, because
  a success closes before it zeroes); `ProbeIsExclusive`, strengthened with the fact that
  only callers that read "open" are on the probe's path.
* **Sessions.** A type invariant that knows which locals are set, and three layers over it:
  `OnlyRacersSurvive` needs that a request overtaken by a revocation is known to be racing
  (`OvertakenKnown`); `RotationStrandsNobody` that an unsent token is private to its request
  and a held one to its client (`UnsentIsPrivate`, `HeldWasSent`, `HeldIsOwn`);
  `OnlyContendersReuse` that the token of a request about to reply is spent and that requests
  sharing a token contended (`ExchangeInv`).
* **AccessTokens.** `LogoutIsFinal`, from: an entry is never older than its token, so it
  outlives it. `TokenIsGoodEverywhere`, from: where a key is configured or insisted on, every
  running process has the shared key and every token its signature. `StaleClaimsExpire`, from:
  a token whose claim is out of date is renewed, overtaken, or at least as old as the change of
  password (`ClaimsTraced`), so that it expires in time.
* **Migrations.** The inductive invariant: rows and schema agree and form a prefix, what a
  replica read is still true, a replica past a version finds it recorded, and one transaction
  at a time holds a version's row. From it `ServingReplicaIsMigrated` and `ImplementsLedger`.
* **Scans.** `WorkersNeverLeak` (with lemmas on the cardinality of the pool) and
  `WrongScoresAreExplained`: a score that is wrong and not excused has a goroutine on its way
  to write it (`WrongScorePending`), and what a goroutine has read is what the rows hold unless
  it is known to be dirty (`FreshReads`). Both need that vulnerabilities are of scans that have
  a row (`HasRow`).
* **Alerts.** `TypeCorrect` (no delivery exceeds its attempts), `DeliveriesAreLogged`,
  `OnlyRacersDuplicate`.
* **Firmware.** Phases of goroutine, task and answer (`Phases`), then `ServicesAgree`, from:
  analyses that share an image contend for it, and a goroutine that still has to write the
  score finds the report of its own answer (`AnswerIsRow`); and `SuspicionIsRaised`, from:
  a goroutine that stopped listening is known (`DeafIsKnown`), every other one has its alert
  inserted or covered before it ends (`ThroughIsAlerted`), and a device with a recent alert has
  an image that raised one (`RecentIsRaised`).
* **Discovery.** `SafelistIsHonoured` is inductive over the type invariant.
  `SightingsAreRecorded`, an action property, needs that what a SELECT saw of a row still holds
  at the write that follows (`RowsAsRead`), which in turn needs that no INSERT succeeds
  (`NoArbiter`).
* **Jobs.** `ProcessInv` adds to the invariants that only the alert monitor holds a result
  open, and wants a second connection only for a row (`RowsOfMonitor`), and that a drain in time
  leaves no request (`RequestsDrained`). From it `ExitCutsNoWork` and `PoolIsNeverWedged`: if no
  connection is free, two are taken, and the monitor is only one of those that took them.
* **KevCatalogue.** `EmptyCatalogueIsExplained`, strengthened with the fact that a file without
  entries has a cause on record or a writer under way, and a missing one has readers that
  found nothing (`FileExplained`); and the action property `CatalogueOutlivesBadDownloads`.
* **Assessment.** Two layers. `TrialInv` relates a result to the stage of its scan: a method
  that has met a lockout message is over (`LockoutEndsMethod`), the trials of a locked device
  are fewer than the pairs gone through (`TrialsCounted`), a result "found" has its reply
  (`ResultsExplained`), and what was seen stays in the results (`SeenIsResult`); from it
  `LockoutIsRespected` and `LoginsAreExplained`. `ReportInv` says how far a scan has got with
  storing: all it has seen is in the tables or still to do (`ProbesStored`), and the results
  before the row of the loop are stored and were no lockout (`ResultsStored`); from it
  `FindingsAreReported`. `BreakdownIsThatOfTheScore` is arithmetic over the type invariant.
* **WebClient.** `QueueInv`: `isRefreshing` is true exactly while a request refreshes
  (`RefreshLocked`), `pendingRequests` is what is queued (`QueueKept`), and on /login only the
  login and leftovers of an earlier page are under way (`Leftovers`), so that a refresh that
  fails there strands orphans only; from it `OneRefreshAtATime`. `LoginInv`: a request carries
  a CSRF token only while it is sent or brings one back (`TokensCarried`), so that by counting
  there is always a fresh one (`FreshToken`); one login at a time (`LoginsAlone`); and the token
  of a login that was sent again is in its replica's store and in no other header
  (`TokenAwaitsLogin`); from it `LoginRefusalsAreExplained`.

Every invariant and action property of the passing runs is stated by a theorem. Only
model-checked are the liveness properties (`LockOutIsLeak`, `RecoversUnlessLeaked`,
`AllComeUp`, `EveryScanEnds`, `AnalysisEnds`, `EveryRequestSettles`, `ShutdownEnds`,
`ReadinessFollows`): fairness is out of the prover's reach. `PasswordGate` and `FoundIsStored` are
violated.

## Not modelled

* **Cryptography.** Signatures, password hashes and random tokens are names.
* **What tools compute.** nmap, binwalk, CVE lookup and entropy: their results are inputs.
* **Cache** (`cache/cache.go`) and **WebSocket hub** (`api/ws.go`): nothing creates the one,
  and nothing calls `Broadcast` of the other.
* **Rate limiter and audit log**: one critical section, or one insert, for each request. No
  code adds a rule to the limiter, so that it is one fixed window for each client.
* **Malformed packets.** `processPacket` panics on an ARP packet with short addresses
  (passive.go:85-86), in a goroutine without a recover, which ends the process.
* **Permissions** (`RolePermissions`, `RequirePermission`): reported by GET /auth/permissions
  and enforced by no route.
* **Text filters, configuration, metrics, logging, models, generated documents, rendering.**

## Plan

1. The safety half of the liveness properties as theorems: what a state that is stuck would
   have to look like, and that none is reachable but for the named exceptions (a queued
   request without a refresh, a scan without a goroutine, a breaker without a prober).
2. A composition of `Scans` with `Jobs`, in which statements of a scan wait for the pool.
