SPECIFICATION Spec
CONSTANTS
    Clients = {c1, c2}
    Main = Main
    Tunnels = {t1, t2}
    WithDns = {t1}
    Marks = 4
    Fwmark = 1
    NoTunnel = NoTunnel
    Host = Host
    Absent = Absent
    Cut = Cut
    Faults = {"wg", "nft", "cgroup", "link", "dns", "crash"}
INVARIANTS TypeOK PacketsGoWhereTold IdleIsDirect LeaksOnlyInReload DnsFollowsTunnel
SYMMETRY Symmetry
VIEW View
