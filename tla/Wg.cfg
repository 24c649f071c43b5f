SPECIFICATION Spec
CONSTANTS
    Clients = {c1}
    Main = Main
    Tunnels = {t1, t2}
    Configs = {v1, v2}
    Hosts = {e1}
    Named = {v2}
    Endpoints <- MCEndpoints
    Absent = Absent
    NoTunnel = NoTunnel
    Stuck <- MCStuck
    Faults = {"setup", "show", "del", "lost", "crash"}
INVARIANTS TypeOK RestCommitted ConnectedAsStored RulesNeedLink
PROPERTIES TableKept
SYMMETRY Symmetry
