---------------------------- MODULE TunnelStore ----------------------------
(***************************************************************************)
(* TunnelStore (tunnel_store.rs): the .conf files under the AddTunnel,     *)
(* ImportTunnel, UpdateTunnel and DeleteTunnel requests of several         *)
(* connections.  It takes no lock: between the check that a file exists    *)
(* and the operation on it, and between the two steps of fs::write (open,  *)
(* which truncates, and write), other requests run and the daemon can die. *)
(* A file removed while it is being written takes the text with it.  get   *)
(* and list change nothing: they return what the files hold just then.     *)
(* ConfCodec says what parse_conf makes of a text; it refuses none.        *)
(*                                                                         *)
(* A definition named X_Something is X with a mistake in it; the runs      *)
(* check that each property notices the mistake it is paired with.         *)
(***************************************************************************)
EXTENDS Naturals

CONSTANTS
    Clients,        \* IPC connection threads
    Names,          \* tunnel names that validate_name accepts
    Configs,        \* what clients save
    Size,           \* the length of the text of a configuration
    NoName,
    Absent,         \* no such file
    Blank,          \* what an empty file parses to
    Cut,            \* what the first part of a text parses to
    Mixed,          \* what a text followed by the rest of a longer one parses to
    Own,            \* names that a single client changes
    Owner,          \* that client
    Faults          \* the failures considered, of FaultKinds

FaultKinds ==
    { "open",       \* a file cannot be opened for writing
      "space",      \* the file system fills up while one is written
      "crash" }     \* the daemon dies, at any point, and systemd restarts it

Contents == Configs \union {Blank, Cut, Mixed}

ASSUME StoreConstants ==
    /\ Absent \notin Contents /\ NoName \notin Names
    /\ Configs \intersect {Blank, Cut, Mixed} = {}
    /\ Size \in [Configs -> Nat \ {0}]
    /\ Own \subseteq Names
    /\ Owner \in [Own -> Clients]
    /\ Faults \subseteq FaultKinds

VARIABLES
    pc, op, name, conf, \* the clients: where they are, the request, its arguments
    linked,             \* the file a client writes is still in the directory
    file,               \* the directory: of each file what it parses to, and its length
    \* history: what a file held before its writer opened it, the last request
    \* that changed a name of Own, and the names of files in which a write was
    \* cut short or two met
    before, did, harm

request == <<pc, op, name, conf>>
vars    == <<request, linked, file, before, did, harm>>

NoFile == [as |-> Absent, len |-> 0]
Empty  == [as |-> Blank, len |-> 0]

Whole(v) == [as |-> v, len |-> Size[v]]

Init ==
    /\ pc = [c \in Clients |-> "idle"]
    /\ op = [c \in Clients |-> "none"]
    /\ name = [c \in Clients |-> NoName]
    /\ conf = [c \in Clients |-> Absent]
    /\ linked = [c \in Clients |-> FALSE]
    /\ file \in [Names -> {NoFile} \union {Whole(v) : v \in Configs}]
    /\ before = [c \in Clients |-> Absent]
    /\ did = [n \in Own |-> "none"]
    /\ harm = {}

-----------------------------------------------------------------------------

Exists(n) == file[n].as # Absent

\* c is writing the file that n names.
Writing(c, n) == pc[c] = "write" /\ name[c] = n /\ linked[c]

\* Somebody else is.
Shared(c, n) == \E d \in Clients \ {c} : Writing(d, n)

\* The file once the first k bytes of the text of v are in it.
Put(f, v, k) ==
    IF k = 0 THEN f
    ELSE IF k < f.len THEN [as |-> Mixed, len |-> f.len]
    ELSE [as |-> IF k = Size[v] THEN v ELSE Cut, len |-> k]

Goto(c, to) ==
    /\ pc' = [pc EXCEPT ![c] = to]
    /\ UNCHANGED <<op, name, conf>>

Begin(c, what, n, v) ==
    /\ pc[c] = "idle"
    /\ n \in Own => Owner[n] = c
    /\ pc' = [pc EXCEPT ![c] = "exists"]
    /\ op' = [op EXCEPT ![c] = what]
    /\ name' = [name EXCEPT ![c] = n]
    /\ conf' = [conf EXCEPT ![c] = v]
    /\ UNCHANGED <<linked, file, before, did, harm>>

Reply(c) ==
    /\ pc' = [pc EXCEPT ![c] = "idle"]
    /\ op' = [op EXCEPT ![c] = "none"]
    /\ name' = [name EXCEPT ![c] = NoName]
    /\ conf' = [conf EXCEPT ![c] = Absent]

Close(c) ==
    /\ linked' = [linked EXCEPT ![c] = FALSE]
    /\ before' = [before EXCEPT ![c] = Absent]

\* The request changed the name.
Did(n, how) == IF n \in Own THEN [did EXCEPT ![n] = how] ELSE did

-----------------------------------------------------------------------------

AddTunnel(c, n, v) == Begin(c, "add", n, v)

\* The text is parsed after the check, which changes nothing in between.
ImportTunnel(c, n, v) == Begin(c, "import", n, v)

UpdateTunnel(c, n, v) == Begin(c, "update", n, v)

DeleteTunnel(c, n) == Begin(c, "delete", n, Absent)

CheckExists_UpdateCreates(c) ==
    /\ pc[c] = "exists"
    /\ IF IF Exists(name[c]) THEN op[c] \in {"add", "import"} ELSE op[c] = "delete"
       THEN Reply(c)
       ELSE Goto(c, IF op[c] = "delete" THEN "remove" ELSE "open")
    /\ UNCHANGED <<linked, file, before, did, harm>>

\* path.exists(), which an add or import must not find, and the others must.
CheckExists(c) ==
    /\ pc[c] = "exists"
    /\ IF Exists(name[c]) = (op[c] \in {"add", "import"})
       THEN Reply(c)
       ELSE Goto(c, IF op[c] = "delete" THEN "remove" ELSE "open")
    /\ UNCHANGED <<linked, file, before, did, harm>>

Open_NoTruncate(c) ==
    LET n == name[c] IN
    /\ pc[c] = "open"
    /\ Goto(c, "write")
    /\ before' = [before EXCEPT ![c] = file[n].as]
    /\ linked' = [linked EXCEPT ![c] = TRUE]
    /\ file' = [file EXCEPT ![n] = IF Exists(n) THEN @ ELSE Empty]
    /\ harm' = IF Shared(c, n) THEN harm \union {n} ELSE harm
    /\ UNCHANGED did

\* write_conf: the file is created, or truncated.
Open(c) ==
    LET n == name[c] IN
    /\ pc[c] = "open"
    /\ Goto(c, "write")
    /\ before' = [before EXCEPT ![c] = file[n].as]
    /\ linked' = [linked EXCEPT ![c] = TRUE]
    /\ file' = [file EXCEPT ![n] = Empty]
    /\ harm' = IF Shared(c, n) THEN harm \union {n} ELSE harm
    /\ UNCHANGED did

OpenFails(c) ==
    /\ pc[c] = "open" /\ "open" \in Faults
    /\ Reply(c)
    /\ UNCHANGED <<linked, file, before, did, harm>>

Write(c) ==
    LET n == name[c] IN
    /\ pc[c] = "write"
    /\ Reply(c) /\ Close(c)
    /\ did' = Did(n, op[c])
    /\ IF linked[c]
       THEN /\ file' = [file EXCEPT ![n] = Put(@, conf[c], Size[conf[c]])]
            /\ harm' = IF file'[n].as = conf[c] /\ ~Shared(c, n)
                       THEN harm \ {n} ELSE harm
       ELSE UNCHANGED <<file, harm>>

WriteFails(c) ==
    LET n == name[c] IN
    /\ pc[c] = "write" /\ "space" \in Faults
    /\ Reply(c) /\ Close(c)
    /\ IF linked[c]
       THEN /\ \E k \in 0 .. Size[conf[c]] - 1 :
                file' = [file EXCEPT ![n] = Put(@, conf[c], k)]
            /\ harm' = harm \union {n}
       ELSE UNCHANGED <<file, harm>>
    /\ UNCHANGED did

\* remove_file: whoever is writing the file goes on with one that has no name.
Remove(c) ==
    LET n == name[c] IN
    /\ pc[c] = "remove"
    /\ Reply(c)
    /\ IF Exists(n)
       THEN /\ file' = [file EXCEPT ![n] = NoFile]
            /\ linked' = [d \in Clients |-> linked[d] /\ name[d] # n]
            /\ did' = Did(n, "delete")
            /\ harm' = harm \ {n}
       ELSE UNCHANGED <<file, linked, did, harm>>
    /\ UNCHANGED before

Crash ==
    /\ "crash" \in Faults
    /\ harm' = harm \union {n \in Names : \E c \in Clients : Writing(c, n)}
    /\ pc' = [c \in Clients |-> "idle"]
    /\ op' = [c \in Clients |-> "none"]
    /\ name' = [c \in Clients |-> NoName]
    /\ conf' = [c \in Clients |-> Absent]
    /\ linked' = [c \in Clients |-> FALSE]
    /\ before' = [c \in Clients |-> Absent]
    /\ UNCHANGED <<file, did>>

Next ==
    \/ \E c \in Clients, n \in Names :
        \/ \E v \in Configs : AddTunnel(c, n, v) \/ ImportTunnel(c, n, v)
                              \/ UpdateTunnel(c, n, v)
        \/ DeleteTunnel(c, n)
    \/ \E c \in Clients :
        \/ CheckExists(c) \/ Open(c) \/ OpenFails(c) \/ Write(c) \/ WriteFails(c)
        \/ Remove(c)
    \/ Crash

Spec == Init /\ [][Next]_vars

-----------------------------------------------------------------------------

\* The type of the state.
TypeOK ==
    /\ pc \in [Clients -> {"idle", "exists", "open", "write", "remove"}]
    /\ op \in [Clients -> {"none", "add", "import", "update", "delete"}]
    /\ name \in [Clients -> Names \union {NoName}]
    /\ conf \in [Clients -> Configs \union {Absent}]
    /\ linked \in [Clients -> BOOLEAN]
    /\ file \in [Names -> [as : Contents \union {Absent}, len : Nat]]
    /\ before \in [Clients -> Contents \union {Absent}]
    /\ did \in [Own -> {"none", "add", "import", "update", "delete"}]
    /\ harm \subseteq Names

\* Whatever requests overlap, a file that nobody is writing is one that a
\* client saved, or gone, unless a write of it was cut short or two writes met
\* in it.
WholeOrGone ==
    \A n \in Names \ harm :
        (\A c \in Clients : ~Writing(c, n)) => file[n].as \in Configs \union {Absent}

\* What the store holds under a name that one client changes: until a write is
\* complete, what was there when it began.
Settled(n) ==
    IF Writing(Owner[n], n) THEN before[Owner[n]] ELSE file[n].as

\* For the names that one client changes at a time the steps of the store
\* amount to one for each request, and a crash loses what was being written
\* and nothing else.
Store == INSTANCE SavedTunnels
            WITH Names <- Own, saved <- [n \in Own |-> Settled(n)],
                 lost <- harm \intersect Own

StoreSpec == Store!Spec

=============================================================================
