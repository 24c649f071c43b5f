SPECIFICATION Spec
CONSTANTS
    Clients = {c1, c2}
    Ifaces = {i1}
    Apps = {a1}
    Pids = {}
    d1 = d1
    d2 = d2
    x = x
    y = y
    Domains = {d1, d2}
    Ips = {x, y}
    Answers <- MCAnswers
    Requests <- MCRequests
    ProcLoops = {p1, p2}
    DnsLoops = {n1, n2}
    Faults = {}
    NoIface = NoIface
    NoApp = NoApp
    NoLoop = NoLoop
SYMMETRY Symmetry
INVARIANTS LoopsOwned
PROPERTIES RoutesKept CancelledDnsWindsDown
