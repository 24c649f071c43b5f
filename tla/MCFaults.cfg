SPECIFICATION Spec
CONSTANTS
    Clients = {c1}
    Ifaces = {i1, i2}
    a1 = a1
    Apps = {a1}
    Pids = {q1}
    d1 = d1
    x = x
    Domains = {d1}
    Ips = {x}
    Answers <- MCAnswers
    Requests <- MCRequests
    ProcLoops = {p1, p2}
    DnsLoops = {n1, n2}
    Faults = {"cgroup", "pid", "nft", "route", "del", "link", "wg"}
    NoIface = NoIface
    NoApp = NoApp
    NoLoop = NoLoop
INVARIANTS TypeOK 
PROPERTIES RoutesKept StoppedScanAddsNothing
SYMMETRY Symmetry
