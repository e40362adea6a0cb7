--------------------------- MODULE DiscoveryProofs --------------------------
(***************************************************************************)
(* Theorems about Discovery, for any number of hosts, MACs, entries, scans *)
(* and monitors.  The inductive invariant says what a goroutine knows of   *)
(* the row of its host between its SELECT and its write; it needs the fact *)
(* about the schema that no INSERT succeeds.                               *)
(***************************************************************************)
EXTENDS Discovery, TLAPS

\* What the SELECT saw of a row still holds when the write comes.
RowsAsRead ==
    /\ \A g \in Actors : pc[g] = "insert" => at[g] \notin known
    /\ \A g \in Actors : pc[g] = "update" => at[g] \in known
    /\ \A p \in Monitors : pc[p] = "update" => mac[at[p]] # NoMac

Inv == TypeOK /\ RowsAsRead /\ announced = {}

(* No unique index of devices has the columns that the INSERTs name.       *)
LEMMA NoArbiter == ConflictTarget \notin UniqueIndexes
<1>1. {"ip_address"} # {"id"} /\ {"ip_address"} # {"tenant_id", "ip_address"}
      /\ {"ip_address"} # {"tenant_id", "id"}
  OBVIOUS
<1> QED
  BY <1>1 DEF ConflictTarget, UniqueIndexes

(* So the table is left as it was.                                         *)
LEMMA UpsertFails == ASSUME NEW h, NEW m, Upsert(h, m) PROVE UNCHANGED rows
BY NoArbiter DEF Upsert

(* A database as older releases leave it satisfies the invariant.          *)
LEMMA InitInv == Init => Inv
<1> SUFFICES ASSUME Init PROVE Inv
  OBVIOUS
<1>1. (CHOOSE h \in Hosts : TRUE) \in Hosts /\ (CHOOSE m \in Macs : TRUE) \in Macs
  BY EntriesAssumption
<1> QED
  BY <1>1, EntriesAssumption DEF Init, Inv, TypeOK, RowsAsRead, Actors

(* Every statement keeps it.                                               *)
LEMMA NextInv == Inv /\ [Next]_vars => Inv'
<1> SUFFICES ASSUME Inv, [Next]_vars PROVE Inv'
  OBVIOUS
<1> USE EntriesAssumption DEF Inv, TypeOK, RowsAsRead, Actors, rows, local, hist, Goto
<1>1. ASSUME NEW s \in Scans, NetworkScan(s) \/ DiscoverFails(s) \/ EndScan(s) PROVE Inv'
  BY <1>1 DEF NetworkScan, DiscoverFails, EndScan
<1>2. ASSUME NEW s \in Scans, DiscoverHosts(s) PROVE Inv'
  BY <1>2 DEF DiscoverHosts
<1>3. ASSUME NEW s \in Scans, CheckHost(s) PROVE Inv'
  BY <1>3 DEF CheckHost
<1>4. ASSUME NEW s \in Scans, SelectHost(s) PROVE Inv'
  BY <1>4 DEF SelectHost
<1>5. ASSUME NEW s \in Scans, UpdateHost(s) PROVE Inv'
  BY <1>5 DEF UpdateHost, Seen
<1>6. ASSUME NEW s \in Scans, InsertHost(s) PROVE Inv'
  <2>1. UNCHANGED rows
    BY <1>6, UpsertFails DEF InsertHost
  <2> QED
    BY <1>6, <2>1 DEF InsertHost
<1>7. ASSUME NEW p \in Monitors, processPacket(p) PROVE Inv'
  BY <1>7 DEF processPacket
<1>8. ASSUME NEW p \in Monitors, CheckMAC(p) PROVE Inv'
  BY <1>8 DEF CheckMAC
<1>9. ASSUME NEW p \in Monitors, TouchDevice(p) PROVE Inv'
  BY <1>9 DEF TouchDevice, Seen
<1>10. ASSUME NEW p \in Monitors, SelectDevice(p) PROVE Inv'
  BY <1>10 DEF SelectDevice
<1>11. ASSUME NEW p \in Monitors, UpdateDevice(p) PROVE Inv'
  BY <1>11 DEF UpdateDevice
<1>12. ASSUME NEW p \in Monitors, InsertDevice(p) PROVE Inv'
  <2>1. UNCHANGED rows
    BY <1>12, UpsertFails DEF InsertDevice
  <2> QED
    BY <1>12, <2>1 DEF InsertDevice
<1>13. ASSUME NEW g \in Actors, StatementFails(g) PROVE Inv'
  BY <1>13 DEF StatementFails
<1>14. ASSUME NEW e \in Entries, CreateSafelist(e) \/ DeleteSafelist(e) PROVE Inv'
  BY <1>14 DEF CreateSafelist, DeleteSafelist, Busy
<1>15. ASSUME NEW h \in Hosts, DeleteDevice(h) \/ Age(h) PROVE Inv'
  BY <1>15 DEF DeleteDevice, Age
<1>16. ASSUME NEW d \in DeviceScans, DeviceScan(d) PROVE Inv'
  BY <1>16 DEF DeviceScan, TriggerDeviceScan, CheckDevice, StartProbing, EndProbing
<1>17. CASE UNCHANGED vars
  BY <1>17 DEF vars
<1> QED
  BY <1>1, <1>2, <1>3, <1>4, <1>5, <1>6, <1>7, <1>8, <1>9, <1>10, <1>11, <1>12, <1>13,
     <1>14, <1>15, <1>16, <1>17 DEF Next, Scan, handleDiscoveredDevice

(* The rows of both tables and the locals of the goroutines keep their     *)
(* types, and what a SELECT saw of a row holds until the write.            *)
THEOREM InvariantHolds == Spec => []Inv
BY InitInv, NextInv, PTL DEF Spec

-----------------------------------------------------------------------------
(* The steps of a goroutine past its look at the safelist keep the         *)
(* explanation that it has.                                                *)
LEMMA NextHonoured ==
    Inv /\ SafelistHonoured /\ [Next]_vars => SafelistHonoured'
<1> SUFFICES ASSUME Inv, SafelistHonoured, [Next]_vars PROVE SafelistHonoured'
  OBVIOUS
<1> USE EntriesAssumption
    DEF Inv, TypeOK, SafelistHonoured, Active, Actors, rows, local, hist, Goto
<1>1. ASSUME NEW s \in Scans, NetworkScan(s) \/ DiscoverFails(s) \/ EndScan(s)
      PROVE SafelistHonoured'
  BY <1>1 DEF NetworkScan, DiscoverFails, EndScan
<1>2. ASSUME NEW s \in Scans, DiscoverHosts(s) PROVE SafelistHonoured'
  BY <1>2 DEF DiscoverHosts
<1>3. ASSUME NEW s \in Scans, CheckHost(s) PROVE SafelistHonoured'
  BY <1>3 DEF CheckHost, IsSafelisted
<1>4. ASSUME NEW s \in Scans, SelectHost(s) PROVE SafelistHonoured'
  BY <1>4 DEF SelectHost
<1>5. ASSUME NEW s \in Scans, UpdateHost(s) \/ InsertHost(s) PROVE SafelistHonoured'
  BY <1>5 DEF UpdateHost, InsertHost
<1>6. ASSUME NEW p \in Monitors, processPacket(p) PROVE SafelistHonoured'
  BY <1>6 DEF processPacket
<1>7. ASSUME NEW p \in Monitors, CheckMAC(p) PROVE SafelistHonoured'
  BY <1>7 DEF CheckMAC, isSafelistedMAC
<1>8. ASSUME NEW p \in Monitors, TouchDevice(p) \/ UpdateDevice(p) \/ InsertDevice(p)
      PROVE SafelistHonoured'
  BY <1>8 DEF TouchDevice, UpdateDevice, InsertDevice
<1>9. ASSUME NEW p \in Monitors, SelectDevice(p) PROVE SafelistHonoured'
  BY <1>9 DEF SelectDevice
<1>10. ASSUME NEW g \in Actors, StatementFails(g) PROVE SafelistHonoured'
  BY <1>10 DEF StatementFails
<1>11. ASSUME NEW e \in Entries, CreateSafelist(e) \/ DeleteSafelist(e)
       PROVE SafelistHonoured'
  BY <1>11 DEF CreateSafelist, DeleteSafelist, Busy
<1>12. ASSUME NEW h \in Hosts, DeleteDevice(h) \/ Age(h) PROVE SafelistHonoured'
  BY <1>12 DEF DeleteDevice, Age
<1>13. ASSUME NEW d \in DeviceScans, CheckDevice(d) PROVE SafelistHonoured'
  BY <1>13 DEF CheckDevice, IsSafelisted
<1>14. ASSUME NEW d \in DeviceScans, TriggerDeviceScan(d) \/ StartProbing(d) \/ EndProbing(d)
       PROVE SafelistHonoured'
  BY <1>14 DEF TriggerDeviceScan, StartProbing, EndProbing
<1>15. CASE UNCHANGED vars
  BY <1>15 DEF vars
<1> QED
  BY <1>1, <1>2, <1>3, <1>4, <1>5, <1>6, <1>7, <1>8, <1>9, <1>10, <1>11, <1>12, <1>13,
     <1>14, <1>15 DEF Next, Scan, DeviceScan, handleDiscoveredDevice

(* SafelistHonoured, for any number of goroutines: a safelisted host is    *)
(* worked on only for one of the three reasons.                            *)
THEOREM SafelistIsHonoured == Spec => []SafelistHonoured
<1>1. Init => SafelistHonoured
  BY DEF Init, SafelistHonoured, Actors
<1> QED
  BY <1>1, NextHonoured, InvariantHolds, PTL DEF Spec

-----------------------------------------------------------------------------
(* SightingsCount: whoever handles a known device leaves its last_seen     *)
(* fresh, but for a monitor at a device without a MAC.                     *)
THEOREM SightingsAreRecorded == Spec => SightingsCount
<1> DEFINE Fresh ==
      \A g \in Actors : Handled(g) /\ at[g] \in known =>
          age'[at[g]] = 0 \/ (g \in Monitors /\ mac[at[g]] = NoMac)
<1>1. Inv /\ [Next]_vars => [Fresh]_vars
  <2> SUFFICES ASSUME Inv, Next, NEW g \in Actors, Handled(g), at[g] \in known
               PROVE age'[at[g]] = 0 \/ (g \in Monitors /\ mac[at[g]] = NoMac)
    OBVIOUS
  <2> USE EntriesAssumption DEF Inv, TypeOK, RowsAsRead, Handled, Actors, Goto
  <2>1. CASE \E s \in Scans : Scan(s)
    BY <2>1 DEF Scan, NetworkScan, DiscoverHosts, DiscoverFails, CheckHost, EndScan,
       SelectHost, UpdateHost, InsertHost, Seen
  <2>2. CASE \E p \in Monitors : processPacket(p) \/ handleDiscoveredDevice(p)
    BY <2>2 DEF processPacket, handleDiscoveredDevice, CheckMAC, TouchDevice, SelectDevice,
       UpdateDevice, InsertDevice, Seen
  <2>3. CASE \E x \in Actors : StatementFails(x)
    BY <2>3 DEF StatementFails
  <2>4. CASE \/ \E e \in Entries : CreateSafelist(e) \/ DeleteSafelist(e)
             \/ \E h \in Hosts : DeleteDevice(h) \/ Age(h)
    BY <2>4 DEF CreateSafelist, DeleteSafelist, DeleteDevice, Age
  <2>5. CASE \E d \in DeviceScans : DeviceScan(d)
    BY <2>5 DEF DeviceScan, TriggerDeviceScan, CheckDevice, StartProbing, EndProbing
  <2> QED
    BY <2>1, <2>2, <2>3, <2>4, <2>5 DEF Next
<1> QED
  BY <1>1, InvariantHolds, PTL DEF Spec, SightingsCount
=============================================================================
