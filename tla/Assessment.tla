----------------------------- MODULE Assessment -----------------------------
(***************************************************************************)
(* What a scan does to a device once nmap has listed its open ports        *)
(* (backend/api/scans.go, runDeviceScan from line 216): the protocol       *)
(* probes (backend/scanner/protocols.go), the TLS check (tls.go), the      *)
(* trials of default credentials (credentials.go), the vulnerabilities and *)
(* alerts that follow, and what the risk breakdown makes of them           *)
(* (backend/risk/scorer.go).                                               *)
(*                                                                         *)
(* Several scans of one device run at the same time: nothing prevents it.  *)
(* The device is the environment: it answers every probe and every trial   *)
(* as it likes, and may lock its accounts when it is tried with a wrong    *)
(* password.  Scans models the other half of a scan: the worker pool,      *)
(* status, crashes and the stored score.                                   *)
(***************************************************************************)
EXTENDS Naturals, FiniteSets, FiniteSetsExt, TLC

CONSTANTS
    Scans,        \* scan goroutines
    PortChoices,  \* the sets of ports the device may have open
    ListSize,     \* entries of the credentials file
    FileCap,      \* LoadCredentials reads at most 100 of them
    PairCap,      \* no method tries more than 50 pairs
    MaxPairs,     \* method -> pairs it is asked to try: 50, 50, 20
    Histories,    \* what else is known of the device: its CVEs, ...
    MaxFaults,    \* bounds the scans of which a statement fails
    MaxResolved   \* bounds the vulnerabilities that are resolved

\* The credential tests, in the order in which they run, and their ports.
Order   == <<"ssh", "http", "telnet">>
Methods == {"ssh", "http", "telnet"}
PortOf  == [ssh |-> 22, http |-> 80, telnet |-> 23]

ASSUME AssessmentAssumption ==
    /\ ListSize \in Nat /\ FileCap \in Nat /\ PairCap \in Nat /\ MaxFaults \in Nat
    /\ MaxResolved \in Nat
    /\ MaxPairs \in [Methods -> Nat]
    /\ Histories \subseteq [cves : Nat, kev : Nat, entropy : BOOLEAN, days : Nat]

VARIABLES
    ports,     \* the open ports
    loud,      \* a locked device says so, or else drops the connection
    locked,    \* the device has locked its accounts
    stage,     \* where each scan is
    todo,      \* findings of the probes still to be stored
    pair,      \* the next pair of credentials to try
    result,    \* CredentialResult of each method
    row,       \* the index into results of the loop on line 302
    vulns,     \* rows of vulnerabilities: scan and what was found
    resolved,  \* those with is_resolved
    alerts,    \* types of the alerts of the device
    tagged,    \* the device has the tag 'default-creds'
    replies,   \* the answers that were taken for a login (history)
    purged,    \* scans whose row the retention job has deleted
    saw,       \* what the probes and trials of a scan have found (history)
    late,      \* trials a scan sent to a locked device, by method (history)
    failed     \* scans of which a statement failed (history)

device == <<ports, loud>>
tables == <<vulns, resolved, alerts, tagged, purged>>
assessVars == <<ports, loud, locked, stage, todo, pair, result, row, vulns, resolved,
                alerts, tagged, purged, replies, saw, late, failed>>

Protocols  == {"Telnet", "ADB", "MQTT-plaintext", "Modbus", "RTSP-unauth", "TLS-service"}
Rank == [Telnet |-> 1, ADB |-> 2] @@ ("MQTT-plaintext" :> 3) @@ [Modbus |-> 4]
        @@ ("RTSP-unauth" :> 5) @@ ("TLS-service" :> 6)
Kinds      == Protocols \cup {"Weak TLS"} \cup Methods
Behaviours == {"refuses", "silent", "speaks", "other"}
Replies    == {"login", "page", "refused", "locked", "noise", "silent", "error"}

AssessTypeOK ==
    /\ ports \in PortChoices
    /\ loud \in BOOLEAN /\ locked \in BOOLEAN /\ tagged \in BOOLEAN
    /\ stage \in [Scans -> {"idle", "protocols", "findings", "load", "results", "done"}
                           \cup Methods]
    /\ todo \in [Scans -> SUBSET Protocols]
    /\ pair \in [Scans -> 1..(PairCap + 1)]
    /\ result \in [Scans -> [Methods -> {"none", "nothing", "found", "locked"}]]
    /\ row \in [Scans -> 1..4]
    /\ vulns \in SUBSET (Scans \X Kinds) /\ resolved \in SUBSET vulns
    /\ purged \subseteq Scans
    /\ replies \in SUBSET (Methods \X Replies)
    /\ saw \in [Scans -> SUBSET Kinds]
    /\ late \in [Scans -> [Methods -> 0..PairCap]]
    /\ failed \in SUBSET Scans /\ Cardinality(failed) <= MaxFaults

AssessInit ==
    /\ ports \in PortChoices
    /\ loud \in BOOLEAN
    /\ locked = FALSE
    /\ stage = [s \in Scans |-> "idle"]
    /\ todo = [s \in Scans |-> {}]
    /\ pair = [s \in Scans |-> 1]
    /\ result = [s \in Scans |-> [m \in Methods |-> "none"]]
    /\ row = [s \in Scans |-> 1]
    /\ vulns = {} /\ resolved = {} /\ alerts = {} /\ tagged = FALSE
    /\ purged = {}
    /\ replies = {}
    /\ saw = [s \in Scans |-> {}]
    /\ late = [s \in Scans |-> [m \in Methods |-> 0]]
    /\ failed = {}

Advance(s, from, to) == stage[s] = from /\ stage' = [stage EXCEPT ![s] = to]

\* INSERT INTO vulnerabilities and CreateAlert: each of them may fail, at most
\* an error is logged, and the scan goes on.
Store(s, kinds, types) ==
    \/ /\ vulns' = vulns \cup ({s} \X kinds)
       /\ alerts' = alerts \cup types
       /\ UNCHANGED failed
    \/ /\ kinds \cup types # {} /\ Cardinality(failed \cup {s}) <= MaxFaults
       /\ \/ vulns' = vulns \cup ({s} \X kinds) /\ UNCHANGED alerts
          \/ alerts' = alerts \cup types /\ UNCHANGED vulns
          \/ UNCHANGED <<vulns, alerts>>
       /\ failed' = failed \cup {s}

-----------------------------------------------------------------------------
(* The protocol probes. *)

\* The finding of the probe of port p, given how the service behaves: it
\* refuses the connection, says nothing, speaks the protocol (a login banner,
\* a CONNACK, 200 OK) or sends something else.
Detect(p, b) ==
    CASE p = 23   -> IF b \in {"silent", "speaks"} THEN {"Telnet"} ELSE {}
      [] p = 5555 -> IF b # "refuses" THEN {"ADB"} ELSE {}
      [] p = 1883 -> IF b = "speaks" THEN {"MQTT-plaintext"} ELSE {}
      [] p = 502  -> IF b \in {"speaks", "other"} THEN {"Modbus"} ELSE {}
      [] p = 554  -> IF b = "speaks" THEN {"RTSP-unauth"} ELSE {}
      [] OTHER    -> {}

\* DetectProtocols; detectTLS connects to nothing.
DetectProtocols(open, behaviour) ==
    (UNION {Detect(p, behaviour[p]) : p \in open})
    \cup (IF open \cap {8443, 8883} # {} THEN {"TLS-service"} ELSE {})

Probed == {23, 5555, 1883, 502, 554}

\* protocolToAlertType.
AlertType(f) ==
    CASE f = "Telnet" -> "telnet_open" [] f = "ADB" -> "adb_exposed"
      [] f = "MQTT-plaintext" -> "plaintext_mqtt" [] f = "RTSP-unauth" -> "unauth_rtsp"
      [] OTHER -> f

\* runDeviceScan gets the open ports from DeepScan.
PortsListed(s) ==
    /\ Advance(s, "idle", "protocols")
    /\ UNCHANGED <<device, tables, locked, todo, pair, result, row, replies, saw, late, failed>>

\* Line 216.
ProbeProtocols(s) ==
    /\ Advance(s, "protocols", "findings")
    /\ \E behaviour \in [ports \cap Probed -> Behaviours] :
           LET found == DetectProtocols(ports, [p \in ports |->
                            IF p \in Probed THEN behaviour[p] ELSE "other"])
           IN  todo' = [todo EXCEPT ![s] = found] /\ saw' = [saw EXCEPT ![s] = found]
    /\ UNCHANGED <<device, tables, locked, pair, result, row, replies, late, failed>>

\* Lines 217-234, for one finding, in the order of the probes.
StoreFinding(s, f) ==
    /\ f \in todo[s] /\ \A g \in todo[s] : Rank[f] <= Rank[g]
    /\ Advance(s, "findings", "findings")
    /\ todo' = [todo EXCEPT ![s] = @ \ {f}]
    /\ Store(s, {f}, {AlertType(f)})
    /\ UNCHANGED <<device, locked, pair, result, row, resolved, tagged, purged, replies, saw,
                   late>>

-----------------------------------------------------------------------------
(* The TLS check of port 443. *)

\* CheckTLS, for a server that accepts some versions (in tenths), answers
\* some of them with a weak cipher and has a certificate that may be expired.
\* The certificate is only looked at in the handshakes up to TLS 1.2.
CheckTLS(versions, weak, expired) ==
    [weak    |-> versions \cap {10, 11} # {} \/ (versions \cap weak) \ {13} # {},
     expired |-> expired /\ versions \ {13} # {}]

\* Lines 236-256.
ProbeTLS(s) ==
    /\ todo[s] = {}
    /\ Advance(s, "findings", "load")
    /\ \E versions \in SUBSET {10, 11, 12, 13}, weak \in {{}, {12}, {10, 11}}, expired \in BOOLEAN :
           LET tls   == CheckTLS(versions, weak, expired)
               kinds == IF 443 \in ports /\ tls.weak THEN {"Weak TLS"} ELSE {}
           IN  /\ saw' = [saw EXCEPT ![s] = @ \cup kinds]
               /\ Store(s, kinds, (IF kinds # {} THEN {"weak_tls"} ELSE {}) \cup
                         (IF 443 \in ports /\ tls.expired THEN {"cert_expiring"} ELSE {}))
    /\ UNCHANGED <<device, locked, todo, pair, result, row, resolved, tagged, purged, replies,
                   late>>

-----------------------------------------------------------------------------
(* The trials of default credentials. *)

\* The pairs that method m tries of the list LoadCredentials returned.
Limit(m) == Min({MaxPairs[m], PairCap, Min({ListSize, FileCap})})

Following(m) == CASE m = "ssh" -> "http" [] m = "http" -> "telnet" [] m = "telnet" -> "results"

\* Lines 258-263: without the file there are no trials.
LoadCredentials(s) ==
    /\ \E next \in {"ssh", "done"} : Advance(s, "load", next)
    /\ UNCHANGED <<device, tables, locked, todo, pair, result, row, replies, saw, late, failed>>

\* What the device may answer to a trial.  A page that holds the word locked
\* or disabled is one more way to answer as a locked device does.  The text in
\* which a Telnet service announces a lockout may hold a word that its tester
\* knows for a refusal ("too many failed logins").  An SSH server that says
\* nothing gives no reply, and the trial does not end.
Answers(m) ==
    CASE locked /\ loud  -> {"locked"} \cup (IF m = "telnet" THEN {"refused"} ELSE {})
      [] locked /\ ~loud -> {"error"}
      [] OTHER -> {"login", "refused", "error"} \cup
                  (CASE m = "ssh" -> {} [] m = "http" -> {"page", "locked"}
                     [] m = "telnet" -> {"noise", "silent"})

\* Mutant: the wording of a lockout is not looked for.
MutVerdictMissesLockout(m, reply) ==
    CASE reply = "login" \/ (m = "http" /\ reply = "page") -> "found"
      [] m = "telnet" /\ reply = "error" -> "nothing"
      [] m = "telnet" /\ reply \in {"locked", "noise"} -> "found"
      [] OTHER -> "none"

\* Mutant: any bytes after the password count as a login.
MutVerdictAnyBytes(m, reply) ==
    CASE reply = "login" \/ (m = "http" /\ reply = "page") -> "found"
      [] m # "telnet" /\ reply = "locked" -> "locked"
      [] m = "telnet" /\ reply = "error" -> "nothing"
      [] m = "telnet" /\ reply \in {"locked", "noise", "refused"} -> "found"
      [] OTHER -> "none"

\* What the tester of method m concludes from a reply; "none" is to go on.
\* HTTP takes any 200 for a login.  Telnet takes any text for one in which it
\* finds neither a refusal nor a prompt, and gives up when it cannot connect.
Verdict(m, reply) ==
    CASE reply = "login" \/ (m = "http" /\ reply = "page") -> "found"
      [] m # "telnet" /\ reply = "locked" -> "locked"
      [] m = "telnet" /\ reply = "error" -> "nothing"
      [] m = "telnet" /\ reply \in {"locked", "noise"} -> "found"
      [] OTHER -> "none"

\* TestSSHCreds, TestHTTPBasicCreds, TestTelnetCreds: one turn of the loop.
Try(s, m) ==
    /\ stage[s] = m /\ PortOf[m] \in ports /\ pair[s] <= Limit(m)
    /\ \E reply \in Answers(m) :
           LET verdict == Verdict(m, reply)
           IN  /\ replies' = IF verdict = "found" THEN replies \cup {<<m, reply>>} ELSE replies
               /\ result' = [result EXCEPT ![s][m] = verdict]
               /\ IF verdict = "none"
                  THEN /\ pair' = [pair EXCEPT ![s] = @ + 1]
                       /\ UNCHANGED <<stage, saw>>
                  ELSE /\ pair' = [pair EXCEPT ![s] = 1]
                       /\ stage' = [stage EXCEPT ![s] = Following(m)]
                       /\ saw' = IF verdict = "found" THEN [saw EXCEPT ![s] = @ \cup {m}] ELSE saw
               /\ locked' \in (IF reply = "refused" THEN {locked, TRUE} ELSE {locked})
    /\ late' = IF locked THEN [late EXCEPT ![s][m] = @ + 1] ELSE late
    /\ UNCHANGED <<device, tables, todo, row, failed>>

\* The list is at its end, or the port is closed (hasPort).
EndMethod(s, m) ==
    /\ PortOf[m] \notin ports \/ pair[s] > Limit(m)
    /\ Advance(s, m, Following(m))
    /\ pair' = [pair EXCEPT ![s] = 1]
    /\ result' = [result EXCEPT ![s][m] = IF PortOf[m] \in ports THEN "nothing" ELSE "none"]
    /\ UNCHANGED <<device, tables, locked, todo, row, replies, saw, late, failed>>

\* Mutant: the loop ends with the first login it reports.
MutStoreResultFirstOnly(s) ==
    /\ row[s] <= 3
    /\ LET m == Order[row[s]] IN
           /\ Store(s, IF result[s][m] = "found" THEN {m} ELSE {},
                    CASE result[s][m] = "found"  -> {"default_creds"}
                      [] result[s][m] = "locked" -> {"lockout_detected"} [] OTHER -> {})
           /\ tagged' \in (IF result[s][m] = "found" THEN {tagged, TRUE} ELSE {tagged})
           /\ Advance(s, "results",
                      IF result[s][m] \in {"found", "locked"} THEN "done" ELSE "results")
    /\ row' = [row EXCEPT ![s] = @ + 1]
    /\ UNCHANGED <<device, locked, todo, pair, result, resolved, purged, replies, saw, late>>

\* Lines 302-329, one turn of the loop: a lockout ends it.  The UPDATE of the
\* tags may fail as well.
StoreResult(s) ==
    /\ row[s] <= 3
    /\ LET m == Order[row[s]] IN
           /\ Store(s, IF result[s][m] = "found" THEN {m} ELSE {},
                    CASE result[s][m] = "found"  -> {"default_creds"}
                      [] result[s][m] = "locked" -> {"lockout_detected"} [] OTHER -> {})
           /\ tagged' \in (IF result[s][m] = "found" THEN {tagged, TRUE} ELSE {tagged})
           /\ Advance(s, "results", IF result[s][m] = "locked" THEN "done" ELSE "results")
    /\ row' = [row EXCEPT ![s] = @ + 1]
    /\ UNCHANGED <<device, locked, todo, pair, result, resolved, purged, replies, saw, late>>

\* The loop is at its end; Scans goes on from line 265.
EndResults(s) ==
    /\ row[s] = 4
    /\ Advance(s, "results", "done")
    /\ UNCHANGED <<device, tables, locked, todo, pair, result, row, replies, saw, late, failed>>

\* ResolveVulnerabilityHandler.
Resolve(v) ==
    /\ v \in vulns \ resolved /\ Cardinality(resolved) < MaxResolved
    /\ resolved' = resolved \cup {v}
    /\ UNCHANGED <<device, locked, stage, todo, pair, result, row, vulns, alerts, tagged, purged,
                   replies, saw, late, failed>>

\* purgeOld deletes the row of an old scan, and with it, since migration 015
\* made scan_id a foreign key ON DELETE CASCADE, the vulnerabilities it found.
PurgeScan(s) ==
    /\ stage[s] = "done" /\ s \notin purged
    /\ purged' = purged \cup {s}
    /\ vulns' = vulns \ ({s} \X Kinds) /\ resolved' = resolved \ ({s} \X Kinds)
    /\ UNCHANGED <<device, locked, stage, todo, pair, result, row, alerts, tagged, replies, saw,
                   late, failed>>

AssessNext ==
    \/ \E s \in Scans : \/ PortsListed(s) \/ ProbeProtocols(s) \/ ProbeTLS(s)
                        \/ LoadCredentials(s) \/ StoreResult(s) \/ EndResults(s)
                        \/ PurgeScan(s)
    \/ \E s \in Scans, f \in Protocols : StoreFinding(s, f)
    \/ \E s \in Scans, m \in Methods : Try(s, m) \/ EndMethod(s, m)
    \/ \E v \in Scans \X Kinds : Resolve(v)

AssessSpec == AssessInit /\ [][AssessNext]_assessVars

-----------------------------------------------------------------------------
(* The risk breakdown, in parts of 1/300 of a point. *)

\* The words BuildRiskFactors looks for that occur in the title of a finding.
WordsIn(kind) ==
    CASE kind \in Methods -> {"default credentials"}
      [] kind = "Telnet" -> {"telnet"} [] kind = "ADB" -> {"adb"}
      [] kind = "MQTT-plaintext" -> {"mqtt"} [] kind = "Modbus" -> {"modbus"}
      [] kind = "RTSP-unauth" -> {"rtsp"} [] kind \in {"TLS-service", "Weak TLS"} -> {"tls"}

\* BuildRiskFactors: the flags from the titles of the unresolved rows, and
\* from a history the counts of CVEs and KEV matches, the entropy of the
\* firmware and the days since the last scan.  Nothing sets FirmwareOutdated.
BuildRiskFactors(history) ==
    LET titled(word) == \E v \in vulns \ resolved : word \in WordsIn(v[2]) IN
    [HasDefaultCreds |-> titled("default credentials"), HasTelnet |-> titled("telnet"),
     HasADB |-> titled("adb"), HasModbus |-> titled("modbus"), HasUnauthRTSP |-> titled("rtsp"),
     HasPlaintextMQTT |-> titled("mqtt"), HasHTTPMgmt |-> titled("http"),
     HasWeakTLS |-> titled("tls"),
     KnownCVECount |-> history.cves, KEVMatchCount |-> history.kev,
     HighEntropyFirmware |-> history.entropy, DaysSinceLastScan |-> history.days]

Points(flag, weight) == IF flag THEN weight ELSE 0

\* CalculateRiskScore.
CalculateRiskScore(f) ==
    Min({3000,
         Points(f.HasDefaultCreds, 1200) + Points(f.HasTelnet, 900) + Points(f.HasADB, 1050)
         + Points(f.HasModbus, 750) + Points(f.HasUnauthRTSP, 600)
         + Points(f.HasPlaintextMQTT, 450) + Points(f.HasHTTPMgmt, 300)
         + Points(f.HasWeakTLS, 450)
         + Min({f.KnownCVECount * 150, 900}) + Min({f.KEVMatchCount * 600, 1200})
         + Points(f.HighEntropyFirmware, 600) + Min({f.DaysSinceLastScan, 300})})

\* SeverityFromScore.
SeverityFromScore(score) ==
    CASE score >= 2400 -> "critical" [] score >= 1800 -> "high"
      [] score >= 900 -> "medium" [] OTHER -> "low"

\* Mutant: matches of the KEV catalogue are not capped.
MutScoreBreakdown(f) ==
    [default_credentials |-> Points(f.HasDefaultCreds, 1200),
     telnet_exposed |-> Points(f.HasTelnet, 900), adb_exposed |-> Points(f.HasADB, 1050),
     modbus_detected |-> Points(f.HasModbus, 750), unauth_rtsp |-> Points(f.HasUnauthRTSP, 600),
     plaintext_mqtt |-> Points(f.HasPlaintextMQTT, 450),
     http_management |-> Points(f.HasHTTPMgmt, 300), weak_tls |-> Points(f.HasWeakTLS, 450),
     known_cves |-> Min({f.KnownCVECount * 150, 900}),
     kev_matches |-> f.KEVMatchCount * 600,
     high_entropy_firmware |-> Points(f.HighEntropyFirmware, 600),
     scan_age |-> Min({f.DaysSinceLastScan, 300})]

\* ScoreBreakdown, which repeats the weights of CalculateRiskScore.  A part
\* that is zero is left out of the map.
ScoreBreakdown(f) ==
    [default_credentials |-> Points(f.HasDefaultCreds, 1200),
     telnet_exposed |-> Points(f.HasTelnet, 900), adb_exposed |-> Points(f.HasADB, 1050),
     modbus_detected |-> Points(f.HasModbus, 750), unauth_rtsp |-> Points(f.HasUnauthRTSP, 600),
     plaintext_mqtt |-> Points(f.HasPlaintextMQTT, 450),
     http_management |-> Points(f.HasHTTPMgmt, 300), weak_tls |-> Points(f.HasWeakTLS, 450),
     known_cves |-> Min({f.KnownCVECount * 150, 900}),
     kev_matches |-> Min({f.KEVMatchCount * 600, 1200}),
     high_entropy_firmware |-> Points(f.HighEntropyFirmware, 600),
     scan_age |-> Min({f.DaysSinceLastScan, 300})]

\* GetRiskBreakdown, what RiskBreakdownHandler answers.
GetRiskBreakdown(history) ==
    LET factors == BuildRiskFactors(history)
        score   == CalculateRiskScore(factors)
    IN  [total |-> score, severity |-> SeverityFromScore(score),
         parts |-> ScoreBreakdown(factors)]

-----------------------------------------------------------------------------
(* A scan of which no statement failed has stored a vulnerability for      *)
(* everything its probes and trials found, with its alert - except for     *)
(* logins found by a method that comes after one that was locked out: the  *)
(* loop over the results ends there (scans.go:327) - and until the scan is *)
(* purged, which takes its vulnerabilities along, resolved or not.         *)
ReportedInFull ==
    \A s \in Scans \ (failed \cup purged) : stage[s] = "done" =>
        \A k \in saw[s] :
            \/ <<s, k>> \in vulns
               /\ (k \in Methods => "default_creds" \in alerts)
               /\ (k \in Protocols => AlertType(k) \in alerts)
            \/ \E i, j \in 1..3 : i < j /\ result[s][Order[i]] = "locked" /\ Order[j] = k

(* A device that has locked its accounts, and says so, is tried at most    *)
(* once more by the SSH and once more by the HTTP test of each running     *)
(* scan: they stop at the lockout message - but the next method starts all *)
(* the same.  TestTelnetCreds does not look for a lockout: it is stopped   *)
(* by the end of its list alone, or takes the message for a login.         *)
LockoutHalts ==
    loud => \A s \in Scans, m \in Methods \ {"telnet"} : late[s][m] <= 1

(* "Default credentials active" is only stored if the device let the       *)
(* method in, or if it serves its page to everybody (HTTP), or if its      *)
(* answer to a Telnet trial was no known refusal - which a lockout message *)
(* is not.  SSH never reports a login that did not happen.                 *)
LoginsExplained ==
    \A s \in Scans, m \in Methods : <<s, m>> \in vulns =>
        \/ <<m, "login">> \in replies
        \/ m = "http" /\ <<m, "page">> \in replies
        \/ m = "telnet" /\ replies \cap {<<m, "locked">>, <<m, "noise">>} # {}

\* The part of the breakdown in which a finding shows.
PartOf(kind) ==
    CASE kind \in Methods -> "default_credentials"
      [] kind = "Telnet" -> "telnet_exposed" [] kind = "ADB" -> "adb_exposed"
      [] kind = "MQTT-plaintext" -> "plaintext_mqtt" [] kind = "Modbus" -> "modbus_detected"
      [] kind = "RTSP-unauth" -> "unauth_rtsp" [] kind \in {"TLS-service", "Weak TLS"} -> "weak_tls"

(* The parts that RiskBreakdownHandler shows add up to the score it shows, *)
(* up to the cap, each unresolved finding has its part in it, and a device *)
(* with default credentials is never of low severity.                      *)
BreakdownAddsUp ==
    \A history \in Histories :
        LET shown == GetRiskBreakdown(history)
            p == shown.parts
        IN  /\ shown.total = Min({3000,
                   p.default_credentials + p.telnet_exposed + p.adb_exposed + p.modbus_detected
                   + p.unauth_rtsp + p.plaintext_mqtt + p.http_management + p.weak_tls
                   + p.known_cves + p.kev_matches + p.high_entropy_firmware + p.scan_age})
            /\ \A v \in vulns \ resolved : p[PartOf(v[2])] > 0
            /\ p.default_credentials > 0 => shown.severity # "low"
=============================================================================
