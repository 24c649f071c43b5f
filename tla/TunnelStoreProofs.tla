------------------------- MODULE TunnelStoreProofs -------------------------
(***************************************************************************)
(* Theorems about TunnelStore, for every number of clients and names and   *)
(* all failures.                                                           *)
(***************************************************************************)
EXTENDS TunnelStore, TLAPS

Files == [as : Contents \union {Absent}, len : Nat]

\* The configurations and the lengths of files are of the right kind.
LEMMA FilesTyped ==
    /\ NoFile \in Files /\ Empty \in Files
    /\ \A v \in Configs : Whole(v) \in Files
    /\ \A f \in Files, v \in Configs : \A k \in 0 .. Size[v] : Put(f, v, k) \in Files
<1>1. \A v \in Configs : Size[v] \in Nat
  BY StoreConstants
<1> QED
  BY <1>1 DEF Files, NoFile, Empty, Whole, Put, Contents

\* Where a client stands decides which request it serves and its arguments.
Arguments(c) ==
    /\ pc[c] # "idle" => name[c] \in Names
    /\ pc[c] = "exists" => op[c] # "none"
    /\ pc[c] \in {"open", "write"} => op[c] \in {"add", "import", "update"}
    /\ pc[c] = "remove" => op[c] = "delete"
    /\ op[c] \in {"add", "import", "update"} => conf[c] \in Configs
    /\ linked[c] => pc[c] = "write"
    /\ pc[c] # "idle" /\ name[c] \in Own => c = Owner[name[c]]

TypeInv == TypeOK /\ \A c \in Clients : Arguments(c)

\* The induction step of TypeCorrect.
LEMMA NextTypeInv == TypeInv /\ [Next]_vars => TypeInv'
<1> SUFFICES ASSUME TypeInv, [Next]_vars PROVE TypeInv'
  OBVIOUS
<1> USE StoreConstants DEF TypeInv, TypeOK, Arguments
<1>1. ASSUME NEW c \in Clients, NEW n \in Names, NEW v \in Configs \union {Absent},
             NEW what \in {"add", "import", "update", "delete"},
             what \in {"add", "import", "update"} => v \in Configs,
             Begin(c, what, n, v)
      PROVE  TypeInv'
  BY <1>1 DEF Begin
<1>2. ASSUME NEW c \in Clients, CheckExists(c) PROVE TypeInv'
  <2>1. CASE Exists(name[c]) = (op[c] \in {"add", "import"})
    BY <1>2, <2>1 DEF CheckExists, Reply
  <2>2. ASSUME op[c] = "delete", Goto(c, "remove") PROVE TypeInv'
    BY <1>2, <2>2 DEF CheckExists, Goto
  <2>3. ASSUME op[c] \in {"add", "import", "update"}, Goto(c, "open") PROVE TypeInv'
    BY <1>2, <2>3 DEF CheckExists, Goto
  <2> QED
    BY <1>2, <2>1, <2>2, <2>3 DEF CheckExists
<1>3. ASSUME NEW c \in Clients, Open(c) PROVE TypeInv'
  <2>1. name[c] \in Names /\ file' \in [Names -> Files]
    BY <1>3, FilesTyped DEF Open, Files
  <2> QED
    BY <1>3, <2>1 DEF Open, Goto, Files
<1>4. ASSUME NEW c \in Clients, OpenFails(c) PROVE TypeInv'
  BY <1>4 DEF OpenFails, Reply
<1>5. ASSUME NEW c \in Clients, Write(c) PROVE TypeInv'
  <2>1. name[c] \in Names /\ conf[c] \in Configs /\ Size[conf[c]] \in 0 .. Size[conf[c]]
    BY <1>5 DEF Write
  <2>2. file' \in [Names -> Files]
    <3>1. file \in [Names -> Files]
      BY DEF Files
    <3>2. Put(file[name[c]], conf[c], Size[conf[c]]) \in Files
      BY <2>1, <3>1, FilesTyped
    <3> QED
      BY <1>5, <2>1, <3>1, <3>2 DEF Write
  <2>3. did' \in [Own -> {"none", "add", "import", "update", "delete"}]
    BY <1>5 DEF Write, Did
  <2> QED
    BY <1>5, <2>1, <2>2, <2>3 DEF Write, Reply, Close, Files
<1>6. ASSUME NEW c \in Clients, WriteFails(c) PROVE TypeInv'
  <2>1. name[c] \in Names /\ conf[c] \in Configs
    BY <1>6 DEF WriteFails
  <2>2. \A k \in 0 .. Size[conf[c]] - 1 : k \in 0 .. Size[conf[c]]
    BY <2>1
  <2>3. file' \in [Names -> Files]
    <3>1. file \in [Names -> Files]
      BY DEF Files
    <3>2. \A k \in 0 .. Size[conf[c]] - 1 : Put(file[name[c]], conf[c], k) \in Files
      BY <2>1, <2>2, <3>1, FilesTyped
    <3> QED
      BY <1>6, <2>1, <3>1, <3>2 DEF WriteFails
  <2> QED
    BY <1>6, <2>1, <2>3 DEF WriteFails, Reply, Close, Files
<1>7. ASSUME NEW c \in Clients, Remove(c) PROVE TypeInv'
  <2>1. name[c] \in Names /\ file' \in [Names -> Files]
    <3>1. file \in [Names -> Files] /\ NoFile \in Files
      BY FilesTyped DEF Files
    <3> QED
      BY <1>7, <3>1 DEF Remove
  <2>2. did' \in [Own -> {"none", "add", "import", "update", "delete"}]
    BY <1>7 DEF Remove, Did
  <2> QED
    BY <1>7, <2>1, <2>2 DEF Remove, Reply, Files
<1>8. CASE Crash
  BY <1>8 DEF Crash
<1>9. CASE UNCHANGED vars
  BY <1>9 DEF vars, request
<1> QED
  BY <1>1, <1>2, <1>3, <1>4, <1>5, <1>6, <1>7, <1>8, <1>9
  DEF Next, AddTunnel, ImportTunnel, UpdateTunnel, DeleteTunnel

\* Files, requests and what they return always have their types.
THEOREM TypeCorrect == Spec => []TypeOK
<1>1. Init => TypeInv
  <2>1. Init => file \in [Names -> Files]
    BY FilesTyped DEF Init
  <2> QED
    BY StoreConstants, <2>1 DEF Init, TypeInv, TypeOK, Arguments, Files
<1>2. TypeInv => TypeOK
  BY DEF TypeInv
<1> QED
  BY <1>1, <1>2, NextTypeInv, PTL DEF Spec

-----------------------------------------------------------------------------

\* What the check that its owner made of a name's file still says of it.
Checked(n) ==
    LET c == Owner[n] IN
    name[c] = n =>
        /\ pc[c] = "open" => (Exists(n) <=> op[c] = "update")
        /\ pc[c] = "remove" => Exists(n)
        /\ pc[c] = "write" =>
            /\ linked[c] /\ file[n] = Empty
            /\ before[c] # Absent <=> op[c] = "update"

StoreInv == TypeInv /\ \A n \in Own : Checked(n)

\* Nobody but its owner writes the file of a name of Own.
LEMMA OwnerWrites ==
    ASSUME TypeInv, NEW n \in Own, NEW c \in Clients,
           name[c] = n, pc[c] \notin {"idle", "exists"}
    PROVE  c = Owner[n] /\ ~Shared(c, n)
BY StoreConstants DEF TypeInv, TypeOK, Arguments, Shared, Writing

\* Writing the whole of a text, or the first part of it, to an empty file.
LEMMA PutInEmpty ==
    ASSUME NEW v \in Configs
    PROVE  /\ Put(Empty, v, Size[v]) = Whole(v)
           /\ \A k \in 0 .. Size[v] - 1 : Put(Empty, v, k).as \in {Blank, Cut}
<1>1. Size[v] \in Nat \ {0}
  BY StoreConstants
<1> QED
  BY <1>1 DEF Put, Empty, Whole

\* The induction step.
LEMMA NextStoreInv == StoreInv /\ [Next]_vars => StoreInv'
<1> SUFFICES ASSUME StoreInv, [Next]_vars PROVE \A n \in Own : Checked(n)'
  BY NextTypeInv DEF StoreInv
<1> SUFFICES ASSUME NEW n \in Own PROVE Checked(n)'
  OBVIOUS
<1>o. n \in Names /\ Owner[n] \in Clients
  BY StoreConstants
<1> USE <1>o DEF StoreInv, Checked, Exists, TypeInv, TypeOK
<1>1. ASSUME NEW c \in Clients, NEW m \in Names, NEW v \in Configs \union {Absent},
             NEW what \in {"add", "import", "update", "delete"},
             Begin(c, what, m, v)
      PROVE  Checked(n)'
  BY <1>1 DEF Begin
<1>2. ASSUME NEW c \in Clients, CheckExists(c) PROVE Checked(n)'
  <2>1. CASE Exists(name[c]) = (op[c] \in {"add", "import"})
    BY <1>2, <2>1 DEF CheckExists, Reply
  <2>2. CASE op[c] = "delete" /\ Goto(c, "remove") /\ Exists(name[c])
    BY <1>2, <2>2 DEF CheckExists, Goto
  <2>3. CASE /\ op[c] \in {"add", "import", "update"}
             /\ Goto(c, "open")
             /\ Exists(name[c]) <=> op[c] = "update"
    BY <1>2, <2>3 DEF CheckExists, Goto
  <2>4. op[c] \in {"delete", "add", "import", "update"}
    BY <1>2 DEF CheckExists, Arguments
  <2> QED
    BY <1>2, <2>1, <2>2, <2>3, <2>4 DEF CheckExists
<1>3. ASSUME NEW c \in Clients, Open(c) PROVE Checked(n)'
  <2>1. CASE name[c] = n
    <3>1. c = Owner[n] /\ name[c] \in Names
      BY <1>3, <2>1, OwnerWrites DEF Open
    <3> QED
      BY <1>3, <2>1, <3>1 DEF Open, Goto, Arguments
  <2>2. CASE name[c] # n
    BY <1>3, <2>2 DEF Open, Goto, Arguments
  <2> QED
    BY <2>1, <2>2
<1>4. ASSUME NEW c \in Clients, OpenFails(c) PROVE Checked(n)'
  BY <1>4 DEF OpenFails, Reply
<1>5. ASSUME NEW c \in Clients, Write(c) PROVE Checked(n)'
  <2>1. CASE name[c] = n
    <3>1. c = Owner[n]
      BY <1>5, <2>1, OwnerWrites DEF Write
    <3> QED
      BY <1>5, <2>1, <3>1, StoreConstants DEF Write, Reply
  <2>2. CASE name[c] # n
    BY <1>5, <2>2 DEF Write, Reply, Close, Arguments
  <2> QED
    BY <2>1, <2>2
<1>6. ASSUME NEW c \in Clients, WriteFails(c) PROVE Checked(n)'
  <2>1. CASE name[c] = n
    <3>1. c = Owner[n]
      BY <1>6, <2>1, OwnerWrites DEF WriteFails
    <3> QED
      BY <1>6, <2>1, <3>1, StoreConstants DEF WriteFails, Reply
  <2>2. CASE name[c] # n
    BY <1>6, <2>2 DEF WriteFails, Reply, Close, Arguments
  <2> QED
    BY <2>1, <2>2
<1>7. ASSUME NEW c \in Clients, Remove(c) PROVE Checked(n)'
  <2>1. CASE name[c] = n
    <3>1. c = Owner[n]
      BY <1>7, <2>1, OwnerWrites DEF Remove
    <3> QED
      BY <1>7, <2>1, <3>1, StoreConstants DEF Remove, Reply
  <2>2. CASE name[c] # n
    BY <1>7, <2>2 DEF Remove, Reply, Arguments
  <2> QED
    BY <2>1, <2>2
<1>8. CASE Crash
  BY <1>8 DEF Crash
<1>9. CASE UNCHANGED vars
  BY <1>9 DEF vars, request
<1> QED
  BY <1>1, <1>2, <1>3, <1>4, <1>5, <1>6, <1>7, <1>8, <1>9
  DEF Next, AddTunnel, ImportTunnel, UpdateTunnel, DeleteTunnel

\* A step that leaves a file, and who writes it, alone settles nothing.
LEMMA SameSettled ==
    ASSUME NEW n \in Own,
           file'[n] = file[n],
           Writing(Owner[n], n)' <=> Writing(Owner[n], n),
           Writing(Owner[n], n) => before'[Owner[n]] = before[Owner[n]]
    PROVE  Settled(n)' = Settled(n)
BY DEF Settled

\* Every step of the files is a step of the store, or none.
LEMMA StoreStep ==
    StoreInv /\ StoreInv' /\ [Next]_vars => [Store!Next]_Store!vars
<1> SUFFICES ASSUME StoreInv, StoreInv', [Next]_vars PROVE [Store!Next]_Store!vars
  OBVIOUS
<1>o. \A n \in Own : n \in Names /\ Owner[n] \in Clients
  BY StoreConstants
<1> USE <1>o DEF StoreInv, TypeInv, TypeOK
<1> DEFINE saved == [n \in Own |-> Settled(n)]
           Stutter == /\ \A n \in Own : Settled(n)' = Settled(n)
                      /\ did' = did
                      /\ harm' \intersect Own = harm \intersect Own
<1>s. Stutter => UNCHANGED Store!vars
  BY DEF Store!vars
<1>1. ASSUME NEW c \in Clients, NEW m \in Names, NEW v \in Configs \union {Absent},
             NEW what \in {"add", "import", "update", "delete"},
             Begin(c, what, m, v)
      PROVE  Stutter
  BY <1>1, SameSettled DEF Begin, Writing
<1>2. ASSUME NEW c \in Clients, CheckExists(c) \/ OpenFails(c)
      PROVE  Stutter
  <2>1. pc[c] \notin {"write"} /\ pc'[c] \notin {"write"}
    BY <1>2 DEF CheckExists, OpenFails, Reply, Goto
  <2>2. /\ \A d \in Clients \ {c} : pc'[d] = pc[d] /\ name'[d] = name[d]
        /\ UNCHANGED <<linked, file, before, did, harm>>
    BY <1>2 DEF CheckExists, OpenFails, Reply, Goto
  <2> QED
    BY <2>1, <2>2, SameSettled DEF Writing
<1>3. ASSUME NEW c \in Clients, Open(c) PROVE Stutter
  <2>1. ASSUME NEW n \in Own PROVE Settled(n)' = Settled(n)
    <3>1. CASE name[c] = n
      <4>1. c = Owner[n]
        BY <1>3, <3>1, OwnerWrites DEF Open
      <4> QED
        BY <1>3, <3>1, <4>1 DEF Open, Goto, Settled, Writing
    <3>2. CASE name[c] # n
      BY <1>3, <3>2, SameSettled DEF Open, Goto, Writing
    <3> QED
      BY <3>1, <3>2
  <2>2. name[c] \in Own => ~Shared(c, name[c])
    BY <1>3, OwnerWrites DEF Open
  <2> QED
    BY <1>3, <2>1, <2>2 DEF Open
<1>4. ASSUME NEW c \in Clients, Write(c) PROVE Store!Next \/ Stutter
  <2>0. PICK n, v : n = name[c] /\ v = conf[c]
    OBVIOUS
  <2>1. n \in Names /\ v \in Configs /\ op[c] \in {"add", "import", "update"}
    BY <1>4, <2>0 DEF Write, Arguments
  <2>2. ASSUME NEW m \in Own, m # n PROVE Settled(m)' = Settled(m)
    BY <1>4, <2>0, <2>2, SameSettled DEF Write, Reply, Close, Writing
  <2>3. CASE n \in Own
    <3>1. c = Owner[n] /\ ~Shared(c, n)
      BY <1>4, <2>0, <2>3, OwnerWrites DEF Write
    <3>2. /\ linked[c] /\ file[n] = Empty
          /\ before[c] # Absent <=> op[c] = "update"
      BY <1>4, <2>0, <2>3, <3>1 DEF Write, Checked
    <3>3. file' = [file EXCEPT ![n] = Whole(v)]
      BY <1>4, <2>0, <2>1, <3>2, PutInEmpty DEF Write
    <3>4. Settled(n) = before[c] /\ Settled(n)' = v
      <4>1. Writing(c, n) /\ pc'[c] = "idle" /\ file'[n].as = v
        BY <1>4, <2>0, <2>1, <3>2, <3>3 DEF Write, Reply, Writing, Whole
      <4> QED
        BY <3>1, <4>1 DEF Settled, Writing
    <3>5. saved' = [saved EXCEPT ![n] = v]
      BY <2>2, <2>3, <3>4
    <3>6. did' = [did EXCEPT ![n] = op[c]] /\ harm' = harm \ {n}
      BY <1>4, <2>0, <2>1, <2>3, <3>1, <3>2, <3>3 DEF Write, Did, Whole
    <3>7. Store!Save(n, op[c], v)
      BY <3>5, <3>6 DEF Store!Save
    <3>8. Store!Add(n, v) \/ Store!Update(n, v)
      BY <2>1, <2>3, <3>2, <3>4, <3>7 DEF Store!Add, Store!Update
    <3> QED
      BY <2>1, <2>3, <3>8 DEF Store!Next
  <2>4. CASE n \notin Own
    BY <1>4, <2>0, <2>2, <2>4 DEF Write, Did
  <2> QED
    BY <2>3, <2>4
<1>5. ASSUME NEW c \in Clients, WriteFails(c) PROVE Store!Next \/ Stutter
  <2>0. PICK n, v : n = name[c] /\ v = conf[c]
    OBVIOUS
  <2>1. n \in Names /\ v \in Configs
    BY <1>5, <2>0 DEF WriteFails, Arguments
  <2>2. ASSUME NEW m \in Own, m # n PROVE Settled(m)' = Settled(m)
    BY <1>5, <2>0, <2>2, SameSettled DEF WriteFails, Reply, Close, Writing
  <2>3. CASE n \in Own
    <3>1. c = Owner[n] /\ linked[c] /\ file[n] = Empty
      <4>1. c = Owner[n]
        BY <1>5, <2>0, <2>3, OwnerWrites DEF WriteFails
      <4> QED
        BY <1>5, <2>0, <2>3, <4>1 DEF WriteFails, Checked
    <3>2. PICK k \in 0 .. Size[v] - 1 : file' = [file EXCEPT ![n] = Put(@, v, k)]
      BY <1>5, <2>0, <3>1 DEF WriteFails
    <3>3. file'[n].as \in {Blank, Cut}
      BY <2>1, <3>1, <3>2, PutInEmpty
    <3>4. Settled(n)' \in {Blank, Cut}
      BY <1>5, <2>0, <2>1, <3>1, <3>3 DEF WriteFails, Reply, Settled, Writing
    <3> DEFINE f == [x \in {n} |-> Settled(n)']
    <3>5. f \in [{n} -> {Blank, Cut}]
      BY <3>4
    <3>6. saved' = [x \in Own |-> IF x \in {n} THEN f[x] ELSE saved[x]]
      BY <2>2
    <3>7. harm' \intersect Own = (harm \intersect Own) \union {n} /\ did' = did
      BY <1>5, <2>0, <2>3, <3>1 DEF WriteFails
    <3>8. Store!Lose({n})
      BY <3>5, <3>6, <3>7 DEF Store!Lose
    <3> QED
      BY <2>3, <3>8 DEF Store!Next
  <2>4. CASE n \notin Own
    BY <1>5, <2>0, <2>2, <2>4 DEF WriteFails
  <2> QED
    BY <2>3, <2>4
<1>6. ASSUME NEW c \in Clients, Remove(c) PROVE Store!Next \/ Stutter
  <2>0. PICK n : n = name[c]
    OBVIOUS
  <2>1. n \in Names /\ op[c] = "delete"
    BY <1>6, <2>0 DEF Remove, Arguments
  <2>2. ASSUME NEW m \in Own, m # n PROVE Settled(m)' = Settled(m)
    BY <1>6, <2>0, <2>2, SameSettled DEF Remove, Reply, Writing
  <2>3. CASE n \in Own
    <3>1. c = Owner[n] /\ Exists(n)
      <4>1. c = Owner[n]
        BY <1>6, <2>0, <2>3, OwnerWrites DEF Remove
      <4> QED
        BY <1>6, <2>0, <2>3, <4>1 DEF Remove, Checked
    <3>2. Settled(n) # Absent /\ Settled(n)' = Absent
      BY <1>6, <2>0, <2>1, <3>1 DEF Remove, Reply, Settled, Writing, Exists, NoFile
    <3>3. saved' = [saved EXCEPT ![n] = Absent]
      BY <2>2, <2>3, <3>2
    <3>4. did' = [did EXCEPT ![n] = "delete"] /\ harm' = harm \ {n}
      BY <1>6, <2>0, <2>3, <3>1 DEF Remove, Did
    <3>5. Store!Delete(n)
      BY <2>3, <3>2, <3>3, <3>4 DEF Store!Delete, Store!Save
    <3> QED
      BY <2>3, <3>5 DEF Store!Next
  <2>4. CASE n \notin Own
    BY <1>6, <2>0, <2>2, <2>4 DEF Remove, Did
  <2> QED
    BY <2>3, <2>4
<1>7. CASE Crash
  <2> DEFINE ns == {n \in Own : Writing(Owner[n], n)}
             f == [n \in ns |-> Blank]
  <2>1. \A n \in Own : Settled(n)' = IF n \in ns THEN Blank ELSE Settled(n)
    BY <1>7 DEF Crash, Settled, Writing, Checked, Empty
  <2>2. saved' = [n \in Own |-> IF n \in ns THEN f[n] ELSE saved[n]]
    BY <2>1
  <2>3. \A n \in Own, c \in Clients : Writing(c, n) => c = Owner[n]
    BY OwnerWrites DEF Writing
  <2>4. harm' \intersect Own = (harm \intersect Own) \union ns /\ did' = did
    BY <1>7, <2>3 DEF Crash
  <2>5. Store!Lose(ns)
    <3>1. f \in [ns -> {Blank, Cut}] /\ ns \in SUBSET Own
      OBVIOUS
    <3> QED
      BY <2>2, <2>4, <3>1 DEF Store!Lose
  <2> QED
    BY <2>5 DEF Store!Next
<1>8. CASE UNCHANGED vars
  BY <1>8 DEF vars, request, Settled, Writing, Store!vars
<1> QED
  BY <1>s, <1>1, <1>2, <1>3, <1>4, <1>5, <1>6, <1>7, <1>8
  DEF Next, AddTunnel, ImportTunnel, UpdateTunnel, DeleteTunnel

\* TunnelStore keeps what SavedTunnels promises of every name that a single
\* client changes, whatever is done to the others, and whenever it dies.
THEOREM StoreImplements == Spec => StoreSpec
<1>1. Init => TypeInv
  <2>1. Init => file \in [Names -> Files]
    BY FilesTyped DEF Init
  <2> QED
    BY StoreConstants, <2>1 DEF Init, TypeInv, TypeOK, Arguments, Files
<1>2. Init => StoreInv
  BY <1>1, StoreConstants DEF Init, StoreInv, Checked
<1>3. Init => Store!Init
  <2> SUFFICES ASSUME Init PROVE Store!Init
    OBVIOUS
  <2>1. \A n \in Own : Settled(n) \in Configs \union {Absent}
    BY StoreConstants DEF Init, Settled, Writing, NoFile, Whole
  <2> QED
    BY <2>1 DEF Init, Store!Init
<1>4. Spec => []StoreInv
  BY <1>2, NextStoreInv, PTL DEF Spec
<1> QED
  BY <1>3, <1>4, StoreStep, PTL DEF Spec, StoreSpec, Store!Spec

-----------------------------------------------------------------------------

\* A file without harm is empty while its only writer has it open, and a
\* configuration or gone when there is none.
Proper(n) ==
    n \notin harm =>
        /\ \A c \in Clients : Writing(c, n) => file[n] = Empty /\ ~Shared(c, n)
        /\ (\A c \in Clients : ~Writing(c, n)) => file[n].as \in Configs \union {Absent}

WholeInv == TypeInv /\ \A n \in Names : Proper(n)

\* The induction step of FilesWhole.
LEMMA NextWholeInv == WholeInv /\ [Next]_vars => WholeInv'
<1> SUFFICES ASSUME WholeInv, [Next]_vars, NEW n \in Names PROVE Proper(n)'
  BY NextTypeInv DEF WholeInv
<1> USE DEF WholeInv, Proper, TypeInv, TypeOK
<1>1. ASSUME NEW c \in Clients, NEW m \in Names, NEW v \in Configs \union {Absent},
             NEW what \in {"add", "import", "update", "delete"},
             Begin(c, what, m, v)
      PROVE  Proper(n)'
  BY <1>1 DEF Begin, Writing, Shared
<1>2. ASSUME NEW c \in Clients, CheckExists(c) \/ OpenFails(c)
      PROVE  Proper(n)'
  <2>1. pc[c] # "write" /\ pc'[c] # "write"
    BY <1>2 DEF CheckExists, OpenFails, Reply, Goto
  <2>2. /\ \A d \in Clients \ {c} : pc'[d] = pc[d] /\ name'[d] = name[d]
        /\ UNCHANGED <<linked, file, harm>>
    BY <1>2 DEF CheckExists, OpenFails, Reply, Goto
  <2> QED
    BY <2>1, <2>2 DEF Writing, Shared
<1>3. ASSUME NEW c \in Clients, Open(c) PROVE Proper(n)'
  <2>1. CASE name[c] = n
    BY <1>3, <2>1 DEF Open, Goto, Writing, Shared
  <2>2. CASE name[c] # n
    BY <1>3, <2>2 DEF Open, Goto, Writing, Shared
  <2> QED
    BY <2>1, <2>2
<1>4. ASSUME NEW c \in Clients, Write(c) PROVE Proper(n)'
  <2>1. conf[c] \in Configs
    BY <1>4 DEF Write, Arguments
  <2>2. CASE Writing(c, n)
    <3>1. \A d \in Clients : Writing(d, n)' <=> d # c /\ Writing(d, n)
      BY <1>4, <2>2 DEF Write, Reply, Close, Writing
    <3>2. CASE n \notin harm
      <4>1. file' = [file EXCEPT ![n] = Whole(conf[c])]
        BY <1>4, <2>1, <2>2, <3>2, PutInEmpty DEF Write, Writing
      <4> QED
        BY <2>1, <2>2, <3>1, <3>2, <4>1 DEF Whole, Shared
    <3>3. CASE n \in harm
      BY <1>4, <2>1, <2>2, <3>1, <3>3 DEF Write, Shared, Writing
    <3> QED
      BY <3>2, <3>3
  <2>3. CASE ~Writing(c, n)
    <3>1. file'[n] = file[n] /\ (n \in harm' <=> n \in harm)
      BY <1>4, <2>3 DEF Write, Writing
    <3>2. \A d \in Clients : Writing(d, n)' <=> Writing(d, n)
      BY <1>4, <2>3 DEF Write, Reply, Close, Writing
    <3> QED
      BY <3>1, <3>2 DEF Shared
  <2> QED
    BY <2>2, <2>3
<1>5. ASSUME NEW c \in Clients, WriteFails(c) PROVE Proper(n)'
  <2>1. CASE Writing(c, n)
    BY <1>5, <2>1 DEF WriteFails, Writing
  <2>2. CASE ~Writing(c, n)
    <3>1. n \in harm' \/ (file'[n] = file[n] /\ (n \in harm' <=> n \in harm))
      BY <1>5, <2>2 DEF WriteFails, Writing
    <3>2. \A d \in Clients : Writing(d, n)' <=> Writing(d, n)
      BY <1>5, <2>2 DEF WriteFails, Reply, Close, Writing
    <3> QED
      BY <3>1, <3>2 DEF Shared
  <2> QED
    BY <2>1, <2>2
<1>6. ASSUME NEW c \in Clients, Remove(c) PROVE Proper(n)'
  <2>1. CASE name[c] = n
    <3>1. CASE Exists(n)
      <4>1. \A d \in Clients : ~Writing(d, n)'
        BY <1>6, <2>1, <3>1 DEF Remove, Reply, Writing
      <4>2. file'[n].as = Absent
        BY <1>6, <2>1, <3>1 DEF Remove, NoFile
      <4> QED
        BY <4>1, <4>2
    <3>2. CASE ~Exists(n)
      <4>1. file[n].as = Absent /\ n \in Names /\ file' = file /\ harm' = harm
        BY <1>6, <2>1, <3>2 DEF Remove, Exists
      <4>2. \A d \in Clients : Writing(d, n) => file[n] # Empty
        BY <4>1, StoreConstants DEF Empty, Contents
      <4>3. \A d \in Clients : Writing(d, n)' => Writing(d, n)
        BY <1>6, <2>1, <3>2 DEF Remove, Reply, Writing
      <4> QED
        BY <4>1, <4>2, <4>3
    <3> QED
      BY <3>1, <3>2
  <2>2. CASE name[c] # n
    <3>1. file'[n] = file[n] /\ (n \in harm' <=> n \in harm)
      BY <1>6, <2>2 DEF Remove
    <3>2. \A d \in Clients : Writing(d, n)' <=> Writing(d, n)
      BY <1>6, <2>2 DEF Remove, Reply, Writing
    <3> QED
      BY <3>1, <3>2 DEF Shared
  <2> QED
    BY <2>1, <2>2
<1>7. CASE Crash
  BY <1>7 DEF Crash, Writing, Shared
<1>8. CASE UNCHANGED vars
  BY <1>8 DEF vars, request, Writing, Shared
<1> QED
  BY <1>1, <1>2, <1>3, <1>4, <1>5, <1>6, <1>7, <1>8
  DEF Next, AddTunnel, ImportTunnel, UpdateTunnel, DeleteTunnel

LEMMA WholeAlways == Spec => []WholeInv
<1>1. Init => WholeInv
  <2>1. Init => file \in [Names -> Files]
    BY FilesTyped DEF Init
  <2>2. Init => TypeInv
    BY StoreConstants, <2>1 DEF Init, TypeInv, TypeOK, Arguments, Files
  <2> QED
    BY <2>2 DEF Init, WholeInv, Proper, Writing, NoFile, Whole
<1> QED
  BY <1>1, NextWholeInv, PTL DEF Spec

\* However many requests overlap, a file that nobody writes is a configuration
\* that somebody saved, or gone, unless a write of it was cut short or met
\* another.
THEOREM FilesWhole == Spec => []WholeOrGone
<1>1. WholeInv => WholeOrGone
  BY DEF WholeInv, Proper, WholeOrGone
<1> QED
  BY <1>1, WholeAlways, PTL

=============================================================================
