SPECIFICATION Spec
CONSTANTS
    Hosts = {h1, h2}
    Servers = {s1, s2}
    Absent = Absent
    Torn = Torn
    Entries = {"file", "symlink"}
    Faults = {"write", "unlink", "backup", "error", "crash", "host"}
INVARIANTS TypeOK RestoreSaysTrue
PROPERTIES OriginalKept
SYMMETRY Symmetry
