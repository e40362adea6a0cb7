CONSTANTS
    m1 = m1
    m2 = m2
    NoMac = NoMac
    Hosts = {h1}
    Macs = {m1, m2}
    Scans = {s1}
    DeviceScans = {d1}
    Monitors = {p1}
    Entries <- MCEntries
SPECIFICATION Spec
INVARIANTS SafelistHonoured
PROPERTIES SightingsCount
