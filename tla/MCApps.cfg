SPECIFICATION FairSpec
CONSTANTS
    Clients = {c1}
    Ifaces = {i1}
    a1 = a1
    a2 = a2
    Apps = {a1, a2}
    Pids = {q1}
    Domains = {}
    Ips = {}
    Answers <- MCAnswers
    Requests <- MCRequests
    ProcLoops = {p1, p2}
    DnsLoops = {}
    Faults = {}
    NoIface = NoIface
    NoApp = NoApp
    NoLoop = NoLoop
PROPERTIES FreshProcessCaptured ProcSlotSpec
