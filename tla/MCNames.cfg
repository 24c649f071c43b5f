SPECIFICATION FairSpec
CONSTANTS
    Clients = {c1}
    Ifaces = {i1}
    a1 = a1
    a2 = a2
    Apps = {a1, a2}
    Pids = {}
    d1 = d1
    d2 = d2
    x = x
    y = y
    z = z
    Domains = {d1, d2}
    Ips = {x, y, z}
    Answers <- MCAnswers
    Requests <- MCRequests
    ProcLoops = {p1, p2}
    DnsLoops = {n1, n2}
    Faults = {}
    NoIface = NoIface
    NoApp = NoApp
    NoLoop = NoLoop
INVARIANTS RestDisabled RestEnabled RestInterface TrackedIsRouted
PROPERTIES NamesRouted DnsSlotSpec
