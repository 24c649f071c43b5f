SPECIFICATION Spec
CONSTANTS
    Clients = {c1, c2}
    Main = Main
    Tunnels = {t1, t2}
    Configs = {v1}
    Hosts = {e1}
    Named = {}
    Endpoints <- MCEndpoints
    Absent = Absent
    NoTunnel = NoTunnel
    Stuck = {}
    Faults = {}
INVARIANTS ConnectedIsRouted
SYMMETRY Symmetry
