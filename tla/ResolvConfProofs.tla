-------------------------- MODULE ResolvConfProofs --------------------------
(***************************************************************************)
(* Theorems about ResolvConf for every host configuration and every list   *)
(* of servers.                                                             *)
(***************************************************************************)
EXTENDS ResolvConf, TLAPS

\* The type of the state is kept by every file operation.
LEMMA NextTypeOK == TypeOK /\ [Next]_vars => TypeOK'
<1> SUFFICES ASSUME TypeOK, [Next]_vars PROVE TypeOK'
  OBVIOUS
<1> USE ResolvConstants DEF TypeOK, Contents, files, call, Return, Resolv, Read,
                              Fails
<1>1. ASSUME NEW v \in Servers, Apply(v) PROVE TypeOK'
  BY <1>1 DEF Apply
<1>2. ASSUME NEW by \in {"restore", "drop"}, Restore(by) PROVE TypeOK'
  BY <1>2 DEF Restore
<1>3. CASE OpenBackup \/ WriteBackup
  BY <1>3 DEF OpenBackup, WriteBackup
<1>4. CASE RemoveEntry
  BY <1>4 DEF RemoveEntry, ResolvPath
<1>5. CASE OpenResolv \/ WriteResolv
  BY <1>5 DEF OpenResolv, WriteResolv, Put
<1>6. CASE RemoveBackup
  BY <1>6 DEF RemoveBackup
<1>7. CASE Start
  BY <1>7 DEF Start
<1>8. ASSUME NEW h \in Hosts, HostWrites(h) PROVE TypeOK'
  BY <1>8 DEF HostWrites
<1>9. CASE UNCHANGED vars
  BY <1>9 DEF vars
<1> QED
  BY <1>1, <1>2, <1>3, <1>4, <1>5, <1>6, <1>7, <1>8, <1>9 DEF Next

\* Every reachable state of DnsManager and of the files it writes is typed.
THEOREM TypeCorrect == Spec => []TypeOK
<1>1. Init => TypeOK
  BY ResolvConstants DEF Init, TypeOK, Contents
<1> QED
  BY <1>1, NextTypeOK, PTL DEF Spec

-----------------------------------------------------------------------------

(***************************************************************************)
(* Why OriginalKept holds.  As long as resolv.conf is what the host had    *)
(* configured, neither copy is anything else but while the backup is being *)
(* filled, and the copy is on disk before resolv.conf is touched; restore  *)
(* writes the backup and removes it only when resolv.conf says the same.   *)
(***************************************************************************)
Rewriting == {"remove", "write", "fill", "removeBackup"}

CopiesAgree ==
    Resolv = host =>
        /\ backup \in {Absent, host} \/ pc = "fillBackup"
        /\ pc \in Rewriting => backup = host
        /\ pc \in {"backup", "fillBackup"} => original = host
        /\ pc # "removeBackup" => original \in {Absent, host}

RestoreWritesBackup ==
    /\ pc \in Rewriting /\ op # "apply" => conf = backup
    /\ pc \in Rewriting /\ op = "apply" => conf # host
    /\ pc \in {"backup", "fillBackup"} => op = "apply" /\ conf # host
    /\ pc = "fillBackup" => backup = Torn
    /\ pc = "removeBackup" => op # "apply" /\ Resolv = backup

KeptInv ==
    None({"backup", "cut", "host"}) /\ target = Absent =>
        /\ CopiesAgree
        /\ RestoreWritesBackup
        /\ entry # "symlink" /\ path = "etc"

\* The induction step of OriginalIsKept.
LEMMA NextKeptInv ==
    ASSUME TypeOK, KeptInv, [Next]_vars
    PROVE  KeptInv'
<1> USE ResolvConstants
    DEF TypeOK, KeptInv, CopiesAgree, RestoreWritesBackup, Rewriting,
        Contents, files, call, Return, Resolv, Read, Fails, None
<1>1. ASSUME NEW v \in Servers, Apply(v) PROVE KeptInv'
  BY <1>1 DEF Apply
<1>2. ASSUME NEW by \in {"restore", "drop"}, Restore(by) PROVE KeptInv'
  BY <1>2 DEF Restore
<1>3. CASE OpenBackup \/ WriteBackup
  BY <1>3 DEF OpenBackup, WriteBackup
<1>4. CASE RemoveEntry
  BY <1>4 DEF RemoveEntry, ResolvPath
<1>5. CASE OpenResolv \/ WriteResolv
  BY <1>5 DEF OpenResolv, WriteResolv, Put
<1>6. CASE RemoveBackup
  BY <1>6 DEF RemoveBackup
<1>7. CASE Start
  BY <1>7 DEF Start
<1>8. ASSUME NEW h \in Hosts, HostWrites(h) PROVE KeptInv'
  BY <1>8 DEF HostWrites
<1>9. CASE UNCHANGED vars
  BY <1>9 DEF vars
<1> QED
  BY <1>1, <1>2, <1>3, <1>4, <1>5, <1>6, <1>7, <1>8, <1>9 DEF Next

\* No step but the backup of a copy that is not the host's own loses what the
\* host had configured.
LEMMA KeptInvKeeps ==
    ASSUME TypeOK, KeptInv, [Next]_vars,
           None({"backup", "cut", "host"})', target = Absent,
           Held, ~Held'
    PROVE  pc = "backup" /\ original # host
<1> USE ResolvConstants
    DEF TypeOK, KeptInv, CopiesAgree, RestoreWritesBackup, Rewriting,
        Contents, files, call, Return, Resolv, Read, Fails, None, Held
<1>1. ASSUME NEW v \in Servers, Apply(v) PROVE FALSE
  BY <1>1 DEF Apply
<1>2. ASSUME NEW by \in {"restore", "drop"}, Restore(by) PROVE FALSE
  BY <1>2 DEF Restore
<1>3. CASE OpenBackup \/ WriteBackup
  BY <1>3 DEF OpenBackup, WriteBackup
<1>4. ASSUME RemoveEntry PROVE FALSE
  BY <1>4 DEF RemoveEntry
<1>5. ASSUME OpenResolv \/ WriteResolv PROVE FALSE
  BY <1>5 DEF OpenResolv, WriteResolv, Put
<1>6. ASSUME RemoveBackup PROVE FALSE
  BY <1>6 DEF RemoveBackup
<1>7. ASSUME Start \/ UNCHANGED vars PROVE FALSE
  BY <1>7 DEF Start, vars
<1>8. ASSUME NEW h \in Hosts, HostWrites(h) PROVE FALSE
  BY <1>8 DEF HostWrites
<1> QED
  BY <1>1, <1>2, <1>3, <1>4, <1>5, <1>6, <1>7, <1>8 DEF Next

\* Wherever the daemon dies but in the write of the backup, or a write or a
\* removal of resolv.conf fails, what the host had in it is kept, unless apply
\* backs up something a new daemon took for it (apply, restore and Drop of
\* DnsManager).
THEOREM OriginalIsKept == Spec => OriginalKept
<1>1. Init => KeptInv
  BY ResolvConstants
  DEF Init, KeptInv, CopiesAgree, RestoreWritesBackup, Rewriting,
      Resolv, Read, Contents, None
<1>2. TypeOK /\ KeptInv /\ [Next]_vars => KeptInv'
  BY NextKeptInv
<1>3. TypeOK /\ KeptInv /\ [Next]_vars
        => [/\ None({"backup", "cut", "host"})' /\ target = Absent
            /\ Held /\ ~Held'
            => pc = "backup" /\ original # host]_vars
  BY KeptInvKeeps
<1> QED
  BY <1>1, <1>2, <1>3, TypeCorrect, PTL DEF Spec, OriginalKept

-----------------------------------------------------------------------------

(***************************************************************************)
(* Why RestoreSaysTrue holds while the daemon lives and only resolv.conf   *)
(* may fail to be written: neither copy is ever anything but the host's    *)
(* configuration, there is a backup whenever resolv.conf is not it, and by *)
(* the time of a restore the symbolic link is gone.                        *)
(***************************************************************************)
CopiesAreTheHosts ==
    /\ original \in {Absent, host}
    /\ backup \in {Absent, host} \/ pc = "fillBackup"
    /\ backup # Absent => original # Absent
    /\ op # "drop" /\ pc # "exit"
    /\ pc \in {"idle", "backup"} /\ backup = Absent => Resolv = host
    /\ pc = "idle" /\ original = Absent => Resolv = host
    /\ pc \in {"backup", "fillBackup"} => op = "apply" /\ original = host
    /\ pc \in Rewriting => backup = host
    /\ pc \in Rewriting /\ op # "apply" => conf = host
    /\ entry = "symlink" => backup = Absent \/ (pc = "remove" /\ op = "apply")
                                            \/ pc \in {"backup", "fillBackup"}
    /\ pc \in {"write", "fill"} /\ op # "apply" => path = "etc"
    /\ pc = "removeBackup" => Resolv = host
    /\ said = "restored" => pc = "idle" /\ Resolv = host

RestoreInv ==
    None({"backup", "host", "unlink", "error", "crash"}) => CopiesAreTheHosts

\* The induction step of RestoreReturnsOriginal.
LEMMA NextRestoreInv ==
    ASSUME TypeOK, RestoreInv, [Next]_vars
    PROVE  RestoreInv'
<1> USE ResolvConstants
    DEF TypeOK, RestoreInv, CopiesAreTheHosts, Rewriting, Contents, files, call, Return,
        Resolv, Read, Fails, None
<1>1. ASSUME NEW v \in Servers, Apply(v) PROVE RestoreInv'
  BY <1>1 DEF Apply
<1>2. ASSUME NEW by \in {"restore", "drop"}, Restore(by) PROVE RestoreInv'
  BY <1>2 DEF Restore
<1>3. CASE OpenBackup \/ WriteBackup
  BY <1>3 DEF OpenBackup, WriteBackup
<1>4. CASE RemoveEntry
  BY <1>4 DEF RemoveEntry, ResolvPath
<1>5. CASE OpenResolv
  BY <1>5 DEF OpenResolv, Put
<1>5a. CASE WriteResolv
  <2> SUFFICES ASSUME CopiesAreTheHosts PROVE CopiesAreTheHosts'
    BY <1>5a DEF WriteResolv
  <2>1. pc = "fill" /\ backup = host /\ UNCHANGED <<original, backup, host>>
    BY <1>5a DEF WriteResolv
  <2>2. entry # "symlink"
    BY <2>1
  <2>3. entry' = "symlink" => entry = "symlink"
    BY <1>5a DEF WriteResolv, Put
  <2>4. CASE pc' = "removeBackup"
    <3>1. /\ op # "apply" /\ Put(conf) /\ UNCHANGED <<op, conf, path, said>>
      BY <1>5a, <2>4 DEF WriteResolv
    <3>2. Resolv' = host
      BY <2>1, <3>1 DEF Put
    <3> QED
      BY <2>1, <2>2, <2>3, <2>4, <3>1, <3>2
  <2>5. CASE pc' # "removeBackup"
    <3>1. /\ pc' = "idle" /\ op' = "none"
          /\ said' \in {"updated", "failed"}
      BY <1>5a, <2>5 DEF WriteResolv
    <3> QED
      BY <2>1, <2>2, <2>3, <3>1
  <2> QED
    BY <2>4, <2>5
<1>6. CASE RemoveBackup
  BY <1>6 DEF RemoveBackup
<1>7. ASSUME NEW h \in Hosts, Start \/ HostWrites(h) PROVE RestoreInv'
  BY <1>7 DEF Start, HostWrites
<1>8. CASE UNCHANGED vars
  BY <1>8 DEF vars
<1> QED
  BY <1>1, <1>2, <1>3, <1>4, <1>5, <1>5a, <1>6, <1>7, <1>8 DEF Next

\* "Restored original resolv.conf" is true whenever restore logs it, after any
\* sequence of apply and restore in which writes of resolv.conf fail at will,
\* for a regular file and for a symbolic link.
THEOREM RestoreReturnsOriginal == Spec => []RestoreSaysTrue
<1>1. Init => RestoreInv
  BY ResolvConstants
  DEF Init, RestoreInv, CopiesAreTheHosts, Rewriting, Resolv, Read, Contents, None
<1>2. TypeOK /\ RestoreInv /\ [Next]_vars => RestoreInv'
  BY NextRestoreInv
<1>3. RestoreInv => RestoreSaysTrue
  BY DEF RestoreInv, CopiesAreTheHosts, RestoreSaysTrue
<1> QED
  BY <1>1, <1>2, <1>3, TypeCorrect, PTL DEF Spec

=============================================================================
