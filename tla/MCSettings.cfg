SPECIFICATION Spec
CONSTANTS
    Clients = {c1, c2}
    own = own
    std = std
    off = off
    vpnApp = vpnApp
    bad = bad
    Daemons = {std, own, bad}
    Usable = {std, own}
    Splits = {off, vpnApp}
    On = {vpnApp}
    DefaultDaemon = std
    DefaultSplit = off
    Size <- MCSize
    Faults = {"open", "space", "apply", "crash"}
INVARIANTS CrashLeavesLoadable AnsweredIsKept EnabledIsRemembered
PROPERTIES SetSavesConfig
