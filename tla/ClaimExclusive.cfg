SPECIFICATION Spec
CONSTANTS
    Clients = {c1}
    Main = Main
    Tunnels = {t1}
    WithDns = {}
    Marks = 4
    Fwmark = 1
    NoTunnel = NoTunnel
    Host = Host
    Absent = Absent
    Cut = Cut
    Faults = {}
INVARIANTS ExclusiveBypasses
