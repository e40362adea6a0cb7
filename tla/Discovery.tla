----------------------------- MODULE Discovery ------------------------------
(***************************************************************************)
(* How devices are found and kept in the inventory: the network scan of    *)
(* backend/api/scans.go, the passive monitor of backend/scanner/passive.go *)
(* and the safelist (backend/api/safelists.go) that both consult, as does  *)
(* the scan of a device before it queues for a worker; one action per      *)
(* statement.  The schema is the one the migrations leave.                 *)
(***************************************************************************)
EXTENDS Naturals, FiniteSets

CONSTANTS
    Hosts,        \* addresses on the network
    Macs,         \* hardware addresses
    NoMac,        \* NULL
    Scans,        \* goroutines of NetworkScanHandler
    DeviceScans,  \* goroutines of TriggerDeviceScanHandler
    Monitors,     \* passive monitors, one for each replica
    Entries       \* safelist entries that an administrator may create: records
                  \* of type, covers (hosts or MACs) and parses (as a cidr)

ASSUME EntriesAssumption ==
    /\ NoMac \notin Macs /\ Hosts # {} /\ Macs # {}
    /\ Scans \cap Monitors = {} /\ DeviceScans \cap (Scans \cup Monitors) = {}
    /\ Entries \subseteq [type : {"ip", "cidr", "mac"}, covers : SUBSET (Hosts \cup Macs),
                          parses : BOOLEAN]

VARIABLES
    known,      \* addresses with a row in devices
    active,     \* those whose row has is_active
    mac,        \* mac_address of a row
    age,        \* of last_seen: under 5 minutes, under 30 minutes, or more
    announced,  \* addresses with an alert of type new_device
    safelist,   \* rows of safelists: entry -> none, active or inactive
    pc,         \* where each goroutine is
    todo,       \* hosts that a scan has still to go through
    at,         \* the host a goroutine is at
    heard,      \* the MAC of the packet a monitor is at
    found,      \* existingMAC
    failed,     \* goroutines with a failed statement about their host (history)
    raced       \* those whose safelist changed since they looked (history)

rows  == <<known, active, mac, age, announced>>
local == <<todo, at, heard, found>>
hist  == <<failed, raced>>
vars  == <<rows, safelist, pc, local, hist>>

Actors == Scans \cup DeviceScans \cup Monitors

TypeOK ==
    /\ known \subseteq Hosts /\ active \subseteq known
    /\ mac \in [Hosts -> Macs \cup {NoMac}] /\ age \in [Hosts -> 0..2]
    /\ announced \subseteq known
    /\ safelist \in [Entries -> {"none", "active", "inactive"}]
    /\ pc \in [Actors -> {"idle", "nmap", "loop", "mac", "touch", "select", "update", "insert",
                     "check", "queued", "probing"}]
    /\ todo \in [Scans -> SUBSET Hosts] /\ at \in [Actors -> Hosts]
    /\ heard \in [Monitors -> Macs] /\ found \in [Monitors -> Macs \cup {NoMac}]
    /\ failed \subseteq Actors /\ raced \subseteq Actors

\* The devices are those of a database that older releases have filled: a
\* network scan of theirs left mac_address NULL, a monitor set it.
Init ==
    /\ known \in SUBSET Hosts /\ active = known
    /\ mac \in [Hosts -> Macs \cup {NoMac}]
    /\ \A h \in Hosts \ known : mac[h] = NoMac
    /\ age = [h \in Hosts |-> 0] /\ announced = {}
    /\ safelist = [e \in Entries |-> "none"]
    /\ pc = [g \in Actors |-> "idle"]
    /\ todo = [s \in Scans |-> {}] /\ at \in [Actors -> {CHOOSE h \in Hosts : TRUE}]
    /\ heard \in [Monitors -> {CHOOSE m \in Macs : TRUE}]
    /\ found = [m \in Monitors |-> NoMac]
    /\ failed = {} /\ raced = {}

-----------------------------------------------------------------------------
(* The tables. *)

Active == {e \in Entries : safelist[e] = "active"}

\* Mutant: a network is looked up as an address is.
MutIsSafelisted(h) == \E e \in Active : e.type = "ip" /\ h \in e.covers

\* IsSafelisted: the cast of one value that is not a network, such as one
\* with host bits, fails the query for every address, and the count stays 0.
IsSafelisted(h) ==
    /\ \A e \in Active : e.type = "cidr" => e.parses
    /\ \E e \in Active : e.type \in {"ip", "cidr"} /\ h \in e.covers

isSafelistedMAC(m) == \E e \in Active : e.type = "mac" /\ m \in e.covers

\* ON CONFLICT (ip_address), in both INSERTs into devices.
ConflictTarget == {"ip_address"}

\* The unique indexes of devices after migration 015, which drops UNIQUE
\* (ip_address).  PostgreSQL refuses an ON CONFLICT without a matching one.
UniqueIndexes == {{"id"}, {"tenant_id", "ip_address"}, {"tenant_id", "id"}}

\* The INSERT, and CreateAlert if it returned an id.
Upsert(h, m) ==
    IF ConflictTarget \in UniqueIndexes
    THEN /\ age' = [age EXCEPT ![h] = 0]
         /\ mac' = IF h \in known THEN mac ELSE [mac EXCEPT ![h] = m]
         /\ active' = IF h \in known THEN active ELSE active \cup {h}
         /\ known' = known \cup {h}
         /\ announced' = announced \cup {h}
    ELSE UNCHANGED rows

Seen(h) ==
    /\ age' = IF h \in known THEN [age EXCEPT ![h] = 0] ELSE age
    /\ UNCHANGED <<known, active, mac, announced>>

Goto(g, from, to) == pc[g] = from /\ pc' = [pc EXCEPT ![g] = to]

-----------------------------------------------------------------------------
(* The network scan. *)

NetworkScan(s) ==
    /\ Goto(s, "idle", "nmap")
    /\ UNCHANGED <<rows, safelist, local, hist>>

\* nmap lists the hosts that are up; it takes five minutes at most.
DiscoverHosts(s) ==
    /\ Goto(s, "nmap", "loop")
    /\ \E up \in SUBSET Hosts : todo' = [todo EXCEPT ![s] = up]
    /\ UNCHANGED <<rows, safelist, at, heard, found, hist>>

\* The scope does not pass sanitizeCIDR, or nmap fails or is killed.
DiscoverFails(s) ==
    /\ Goto(s, "nmap", "idle")
    /\ UNCHANGED <<rows, safelist, local, hist>>

\* IsSafelisted for the next host.  It does not tell a query that failed from
\* one that counted nothing.
CheckHost(s) ==
    /\ pc[s] = "loop"
    /\ \E h \in todo[s] :
        /\ todo' = [todo EXCEPT ![s] = @ \ {h}] /\ at' = [at EXCEPT ![s] = h]
        /\ \/ IsSafelisted(h) /\ failed' = failed \ {s} /\ UNCHANGED pc
           \/ ~IsSafelisted(h) /\ failed' = failed \ {s} /\ Goto(s, "loop", "select")
           \/ failed' = failed \cup {s} /\ Goto(s, "loop", "select")
    /\ raced' = raced \ {s}
    /\ UNCHANGED <<rows, safelist, heard, found>>

EndScan(s) ==
    /\ todo[s] = {} /\ Goto(s, "loop", "idle")
    /\ failed' = failed \ {s} /\ raced' = raced \ {s}
    /\ UNCHANGED <<rows, safelist, local>>

SelectHost(s) ==
    /\ Goto(s, "select", IF at[s] \in known THEN "update" ELSE "insert")
    /\ UNCHANGED <<rows, safelist, local, hist>>

UpdateHost(s) ==
    /\ Goto(s, "update", "loop") /\ Seen(at[s])
    /\ UNCHANGED <<safelist, local, hist>>

InsertHost(s) ==
    /\ Goto(s, "insert", "loop") /\ Upsert(at[s], NoMac)
    /\ UNCHANGED <<safelist, local, hist>>

Scan(s) ==
    \/ NetworkScan(s) \/ DiscoverHosts(s) \/ DiscoverFails(s) \/ CheckHost(s) \/ EndScan(s)
    \/ SelectHost(s) \/ UpdateHost(s) \/ InsertHost(s)

-----------------------------------------------------------------------------
(* The scan of a device, as far as the safelist goes; Scans has the rest. *)

\* The handler has found the device and started runDeviceScan.
TriggerDeviceScan(d) ==
    /\ Goto(d, "idle", "check")
    /\ \E h \in known : at' = [at EXCEPT ![d] = h]
    /\ failed' = failed \ {d} /\ raced' = raced \ {d}
    /\ UNCHANGED <<rows, safelist, todo, heard, found>>

\* Lines 172-178: the scan is skipped, or queues for a worker.
CheckDevice(d) ==
    /\ \/ IsSafelisted(at[d]) /\ Goto(d, "check", "idle") /\ UNCHANGED failed
       \/ ~IsSafelisted(at[d]) /\ Goto(d, "check", "queued") /\ UNCHANGED failed
       \/ Goto(d, "check", "queued") /\ failed' = failed \cup {d}
    /\ raced' = raced \ {d}
    /\ UNCHANGED <<rows, safelist, local>>

\* However long the queue was, the safelist is not looked at again.
StartProbing(d) ==
    /\ Goto(d, "queued", "probing")
    /\ UNCHANGED <<rows, safelist, local, hist>>

EndProbing(d) ==
    /\ Goto(d, "probing", "idle")
    /\ failed' = failed \ {d} /\ raced' = raced \ {d}
    /\ UNCHANGED <<rows, safelist, local>>

DeviceScan(d) ==
    TriggerDeviceScan(d) \/ CheckDevice(d) \/ StartProbing(d) \/ EndProbing(d)

-----------------------------------------------------------------------------
(* The passive monitor. *)

\* An ARP packet or a DHCP one that names a host and a MAC.
processPacket(p) ==
    /\ Goto(p, "idle", "mac")
    /\ \E h \in Hosts, m \in Macs : at' = [at EXCEPT ![p] = h] /\ heard' = [heard EXCEPT ![p] = m]
    /\ failed' = failed \ {p} /\ raced' = raced \ {p}
    /\ UNCHANGED <<rows, safelist, todo, found>>

\* isSafelistedMAC, which takes a failed query for "no" as well.
CheckMAC(p) ==
    /\ \/ isSafelistedMAC(heard[p]) /\ Goto(p, "mac", "touch") /\ UNCHANGED failed
       \/ ~isSafelistedMAC(heard[p]) /\ Goto(p, "mac", "select") /\ UNCHANGED failed
       \/ Goto(p, "mac", "select") /\ failed' = failed \cup {p}
    /\ raced' = raced \ {p}
    /\ UNCHANGED <<rows, safelist, local>>

\* A device with a safelisted MAC is only kept from looking offline.
TouchDevice(p) ==
    /\ Goto(p, "touch", "idle") /\ Seen(at[p])
    /\ UNCHANGED <<safelist, local, hist>>

\* existingMAC is a string: a NULL fails the Scan, and nothing more is done.
SelectDevice(p) ==
    /\ LET h == at[p] IN
       /\ Goto(p, "select", IF h \notin known THEN "insert"
                            ELSE IF mac[h] = NoMac THEN "idle" ELSE "update")
       /\ found' = [found EXCEPT ![p] = IF h \in known THEN mac[h] ELSE NoMac]
    /\ UNCHANGED <<rows, safelist, todo, at, heard, hist>>

\* Mutant: the condition on last_seen is the wrong way round.
MutUpdateDevice(p) ==
    /\ Goto(p, "update", "idle")
    /\ LET h == at[p] IN
       IF found[p] # heard[p]
       THEN /\ mac' = [mac EXCEPT ![h] = heard[p]] /\ age' = [age EXCEPT ![h] = 0]
            /\ UNCHANGED <<known, active, announced>>
       ELSE /\ age' = [age EXCEPT ![h] = IF @ >= 1 THEN @ ELSE 0]
            /\ UNCHANGED <<known, active, mac, announced>>
    /\ found' = [found EXCEPT ![p] = NoMac]
    /\ UNCHANGED <<safelist, todo, at, heard, hist>>

\* A new MAC is stored; for the old one last_seen is written only if it is
\* older than five minutes.
UpdateDevice(p) ==
    /\ Goto(p, "update", "idle")
    /\ LET h == at[p] IN
       IF found[p] # heard[p]
       THEN /\ mac' = [mac EXCEPT ![h] = heard[p]] /\ age' = [age EXCEPT ![h] = 0]
            /\ UNCHANGED <<known, active, announced>>
       ELSE /\ age' = [age EXCEPT ![h] = IF @ >= 1 THEN 0 ELSE @]
            /\ UNCHANGED <<known, active, mac, announced>>
    /\ found' = [found EXCEPT ![p] = NoMac]
    /\ UNCHANGED <<safelist, todo, at, heard, hist>>

InsertDevice(p) ==
    /\ Goto(p, "insert", "idle") /\ Upsert(at[p], heard[p])
    /\ UNCHANGED <<safelist, local, hist>>

handleDiscoveredDevice(p) ==
    \/ CheckMAC(p) \/ TouchDevice(p) \/ SelectDevice(p) \/ UpdateDevice(p) \/ InsertDevice(p)

-----------------------------------------------------------------------------
(* The rest of the system. *)

\* Neither goroutine looks at the error of its last statement, and another
\* error of its SELECT than "no rows" makes it leave the host.
StatementFails(g) ==
    /\ pc[g] \in {"select", "update", "insert", "touch"}
    /\ pc' = [pc EXCEPT ![g] = IF g \in Scans THEN "loop" ELSE "idle"]
    /\ failed' = failed \cup {g}
    /\ found' = [p \in Monitors |-> IF p = g THEN NoMac ELSE found[p]]
    /\ UNCHANGED <<rows, safelist, todo, at, heard, raced>>

Busy == {g \in Actors : pc[g] # "idle"}

\* The unique index of safelists holds inactive entries as well.
CreateSafelist(e) ==
    /\ safelist[e] = "none"
    /\ safelist' = [safelist EXCEPT ![e] = "active"] /\ raced' = Busy
    /\ UNCHANGED <<rows, pc, local, failed>>

DeleteSafelist(e) ==
    /\ safelist[e] = "active"
    /\ safelist' = [safelist EXCEPT ![e] = "inactive"] /\ raced' = Busy
    /\ UNCHANGED <<rows, pc, local, failed>>

\* The row of a deleted device stays.
DeleteDevice(h) ==
    /\ h \in active /\ active' = active \ {h}
    /\ UNCHANGED <<known, mac, age, announced, safelist, pc, local, hist>>

Age(h) ==
    /\ h \in known /\ age[h] < 2
    /\ age' = [age EXCEPT ![h] = @ + 1]
    /\ UNCHANGED <<known, active, mac, announced, safelist, pc, local, hist>>

Next ==
    \/ \E s \in Scans : Scan(s)
    \/ \E d \in DeviceScans : DeviceScan(d)
    \/ \E p \in Monitors : processPacket(p) \/ handleDiscoveredDevice(p)
    \/ \E g \in Actors : StatementFails(g)
    \/ \E e \in Entries : CreateSafelist(e) \/ DeleteSafelist(e)
    \/ \E h \in Hosts : DeleteDevice(h) \/ Age(h)

Spec == Init /\ [][Next]_vars

-----------------------------------------------------------------------------
(* A goroutine works on a host or a MAC that an active entry covers only   *)
(* if its own query failed, if the safelist has changed since, or if some  *)
(* active entry does not parse, which switches the entries for addresses   *)
(* off for every scan, until somebody deletes it.  A device scan may look  *)
(* long before it probes, since it queues for a worker in between.         *)
(* Monitors look at entries for MACs only, and scans at those for          *)
(* addresses only: the scans do not exclude the MAC of a critical device   *)
(* that upgrade.md:21 wants excluded from active scans.                    *)
SafelistHonoured ==
    \A g \in {x \in Actors : pc[x] \in {"select", "update", "insert", "queued", "probing"}} :
        \A e \in Active :
            \/ g \in failed \cup raced
            \/ g \in Monitors /\ (e.type # "mac" \/ heard[g] \notin e.covers)
            \/ g \notin Monitors /\ (e.type = "mac" \/ at[g] \notin e.covers)
            \/ g \notin Monitors /\ \E bad \in Active : bad.type = "cidr" /\ ~bad.parses

\* g has handled its host and turns to something else.
Handled(g) ==
    /\ pc[g] \in {"select", "update", "insert", "touch"} /\ pc'[g] \in {"idle", "loop"}
    /\ g \notin failed'

(* A device that is seen does not look offline: whoever handles it leaves  *)
(* last_seen fresh.  Only a monitor that meets a device without a MAC,     *)
(* such as one that a network scan had found, does not.                    *)
SightingsCount ==
    [][\A g \in Actors : Handled(g) /\ at[g] \in known =>
        age'[at[g]] = 0 \/ (g \in Monitors /\ mac[at[g]] = NoMac)]_vars

(* A host that is not in the inventory and whose INSERT met no failure of  *)
(* the database is in it afterwards: the INSERTs into devices, which do    *)
(* not mention tenant_id, keep working (migration 015, lines 28-31).       *)
FoundIsStored ==
    [][\A g \in Actors :
           pc[g] = "insert" /\ pc'[g] # "insert" /\ g \notin failed' => at[g] \in known']_vars
=============================================================================
