SPECIFICATION Spec
CONSTANTS
    c1 = c1
    Clients = {c1, c2}
    shared = shared
    owned = owned
    Names = {shared, owned}
    long = long
    short = short
    Configs = {long, short}
    Size <- MCSize
    NoName = NoName
    Absent = Absent
    Blank = Blank
    Cut = Cut
    Mixed = Mixed
    Own = {owned}
    Owner <- MCOwner
    Faults = {"open", "space", "crash"}
INVARIANTS WholeOrGone
PROPERTIES StoreSpec
