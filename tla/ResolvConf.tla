----------------------------- MODULE ResolvConf -----------------------------
(***************************************************************************)
(* DnsManager (dns_mgr.rs): while a tunnel is connected its DNS servers    *)
(* are in /etc/resolv.conf, and what was there before is in a backup file  *)
(* and in memory.  ConnectTunnel calls apply, DisconnectTunnel restore,    *)
(* each under the mutex of AppState.dns_manager; with overlapping requests *)
(* and tunnels without DNS servers the two come in any order.              *)
(*                                                                         *)
(* An action is one file operation: the daemon can die between any two,    *)
(* and inside fs::write, which truncates the file and then fills it.       *)
(* A definition named X_Something is X with a mistake in it; the runs      *)
(* check that each property notices the mistake it is paired with.         *)
(***************************************************************************)

CONSTANTS
    Hosts,          \* contents written by the host: its own configuration
    Servers,        \* contents generated from a tunnel's DNS servers
    Absent,         \* no such file
    Torn,           \* a file that was truncated and not, or not all, filled
    Entries,        \* what /etc/resolv.conf can be to begin with
    Faults          \* the failures considered, of FaultKinds

FaultKinds ==
    { "write",      \* resolv.conf cannot be written, or the backup not read
      "unlink",     \* resolv.conf, or the backup, cannot be removed
      "backup",     \* the backup cannot be written
      "error",      \* the server returns an error to main, which drops AppState
      "crash",      \* the daemon dies, at any point, and systemd restarts it
      "host" }      \* the host writes resolv.conf while no tunnel uses it

Contents == Hosts \union Servers \union {Torn}

ASSUME ResolvConstants ==
    /\ Hosts \intersect Servers = {}
    /\ Absent \notin Contents
    /\ Torn \notin Hosts \union Servers
    /\ Entries \subseteq {"file", "symlink"}
    /\ Faults \subseteq FaultKinds

VARIABLES
    \* the holder of the mutex: where it is, the call, what it writes, and the
    \* path it resolved before it removed the directory entry
    pc, op, conf, path,
    said,           \* the line the call under way, or the last one, has logged
    original,       \* DnsManager.original
    \* the directory entry /etc/resolv.conf, the regular file there, the file
    \* a symbolic link there leads to, and BACKUP_PATH
    entry, etc, target, backup,
    \* history: what the host last wrote, and what has gone wrong so far
    host, harm

call  == <<pc, op, conf, path>>
files == <<entry, etc, target, backup>>
vars  == <<call, said, original, files, host, harm>>

\* What reading /etc/resolv.conf yields.
Read(e, regular, linked) ==
    CASE e = "file"    -> regular
      [] e = "symlink" -> linked
      [] e = "none"    -> Absent

Resolv == Read(entry, etc, target)

Init ==
    /\ pc = "idle" /\ op = "none" /\ conf = Absent /\ path = "etc"
    /\ said = "nothing"
    /\ entry \in Entries
    /\ host \in Hosts
    /\ etc = IF entry = "file" THEN host ELSE Absent
    /\ target = IF entry = "symlink" THEN host ELSE Absent
    /\ backup = Absent
    /\ original = host
    /\ harm = {}

\* A failure of this kind happens.
Fails(kind) ==
    /\ kind \in Faults
    /\ harm' = harm \union {kind}

\* The call by ends with this message; after drop the process exits.
Return(by, message) ==
    /\ pc' = IF by = "drop" THEN "exit" ELSE "idle"
    /\ op' = "none" /\ conf' = Absent /\ path' = "etc"
    /\ said' = message

\* The path is the target of a link, the file itself otherwise.
ResolvPath == IF entry = "symlink" THEN "target" ELSE "etc"

-----------------------------------------------------------------------------

Apply_Rereads(v) ==
    /\ pc = "idle"
    /\ pc' = "backup" /\ op' = "apply" /\ conf' = v
    /\ original' = Resolv
    /\ said' = "nothing"
    /\ UNCHANGED <<path, files, host, harm>>

\* apply, for a tunnel that lists servers.
Apply(v) ==
    /\ pc = "idle"
    /\ pc' = "backup" /\ op' = "apply" /\ conf' = v
    /\ original' = IF original = Absent THEN Resolv ELSE original
    /\ said' = "nothing"
    /\ UNCHANGED <<path, files, host, harm>>

\* The first half of the fs::write of the backup, if there is an original.
\* A backup that cannot be written is logged and apply goes on.
OpenBackup ==
    /\ pc = "backup"
    /\ \/ /\ original = Absent
          /\ pc' = "remove" /\ UNCHANGED <<backup, harm>>
       \/ /\ original # Absent
          /\ pc' = "fillBackup" /\ backup' = Torn /\ UNCHANGED harm
       \/ /\ original # Absent /\ Fails("backup")
          /\ pc' = "remove" /\ UNCHANGED backup
    /\ UNCHANGED <<op, conf, path, said, original, entry, etc, target, host>>

WriteBackup ==
    /\ pc = "fillBackup"
    /\ pc' = "remove"
    /\ \/ backup' = original /\ UNCHANGED harm
       \/ Fails("backup") /\ UNCHANGED backup
    /\ UNCHANGED <<op, conf, path, said, original, entry, etc, target, host>>

Restore_RemovesFirst(by) ==
    /\ pc = "idle" /\ backup # Absent
    /\ pc' = "remove" /\ op' = by /\ conf' = backup
    /\ said' = "nothing"
    /\ backup' = Absent
    /\ UNCHANGED <<path, original, entry, etc, target, host, harm>>

\* restore, which drop calls for a DnsManager that still holds an original.
Restore(by) ==
    /\ pc = "idle"
    /\ IF by = "drop" THEN original # Absent /\ Fails("error") ELSE UNCHANGED harm
    /\ \/ /\ backup = Absent
          /\ original' = Absent
          /\ Return(by, "skipped")
       \/ /\ backup # Absent
          /\ pc' = "remove" /\ op' = by /\ conf' = backup
          /\ said' = "nothing"
          /\ UNCHANGED <<path, original>>
       \/ /\ backup # Absent /\ "write" \in Faults
          /\ Return(by, "failed")
          /\ UNCHANGED original
    /\ UNCHANGED <<files, host>>

RemoveEntry_KeepsContent ==
    /\ pc = "remove"
    /\ pc' = "write"
    /\ path' = ResolvPath
    /\ entry' = "none"
    /\ UNCHANGED <<op, conf, said, original, etc, target, backup, host, harm>>

\* The link is read, then unlinked; an error of remove_file is ignored.
RemoveEntry ==
    /\ pc = "remove"
    /\ pc' = "write"
    /\ path' = ResolvPath
    /\ \/ entry' = "none" /\ etc' = Absent /\ UNCHANGED harm
       \/ Fails("unlink") /\ UNCHANGED <<entry, etc>>
    /\ UNCHANGED <<op, conf, said, original, target, backup, host>>

\* What a write to the resolved path leaves there.
Put(v) ==
    IF path = "etc"
    THEN entry' = "file" /\ etc' = v /\ UNCHANGED target
    ELSE target' = v /\ UNCHANGED <<entry, etc>>

\* fs::write, which creates the file or truncates it ...
OpenResolv ==
    /\ pc = "write"
    /\ \/ /\ Put(Torn)
          /\ pc' = "fill" /\ UNCHANGED <<op, conf, path, said>>
       \/ /\ "write" \in Faults
          /\ Return(op, "failed") /\ UNCHANGED <<entry, etc, target>>
    /\ UNCHANGED <<original, backup, host, harm>>

\* ... and then fills it.
WriteResolv ==
    /\ pc = "fill"
    /\ \/ /\ Put(conf)
          /\ IF op = "apply"
             THEN Return(op, "updated")
             ELSE pc' = "removeBackup" /\ UNCHANGED <<op, conf, path, said>>
       \/ /\ "write" \in Faults
          /\ Return(op, "failed") /\ UNCHANGED <<entry, etc, target>>
    /\ UNCHANGED <<original, backup, host, harm>>

\* An error of remove_file is ignored.
RemoveBackup ==
    /\ pc = "removeBackup"
    /\ \/ backup' = Absent /\ UNCHANGED harm
       \/ Fails("unlink") /\ UNCHANGED backup
    /\ original' = Absent
    /\ Return(op, "restored")
    /\ UNCHANGED <<entry, etc, target, host>>

\* The daemon is started again: DnsManager::new.  It exited, or died, perhaps
\* while it was filling the backup.
Start ==
    /\ \/ pc = "exit" /\ UNCHANGED harm
       \/ pc # "fillBackup" /\ Fails("crash")
       \/ /\ pc = "fillBackup" /\ "crash" \in Faults
          /\ harm' = harm \union {"crash", "cut"}
    /\ original' = Resolv
    /\ Return("start", "nothing")
    /\ UNCHANGED <<files, host>>

\* Nothing of the daemon is in resolv.conf: the last call did not apply.
HostWrites(h) ==
    /\ Fails("host")
    /\ pc = "idle" /\ Resolv \in Hosts
    /\ IF entry = "symlink" THEN target' = h /\ UNCHANGED etc
                            ELSE etc' = h /\ UNCHANGED target
    /\ host' = h
    /\ UNCHANGED <<call, said, original, entry, backup>>

Next ==
    \/ \E v \in Servers : Apply(v)
    \/ \E by \in {"restore", "drop"} : Restore(by)
    \/ OpenBackup \/ WriteBackup \/ RemoveEntry \/ OpenResolv \/ WriteResolv
    \/ RemoveBackup
    \/ Start
    \/ \E h \in Hosts : HostWrites(h)

Spec == Init /\ [][Next]_vars

-----------------------------------------------------------------------------

\* The type of the state.
TypeOK ==
    /\ pc \in {"idle", "backup", "fillBackup", "remove", "write", "fill",
               "removeBackup", "exit"}
    /\ op \in {"none", "apply", "restore", "drop"}
    /\ conf \in Contents \union {Absent}
    /\ pc \in {"backup", "fillBackup", "remove", "write", "fill"} => conf # Absent
    /\ pc = "fillBackup" => original # Absent
    /\ path \in {"etc", "target"}
    /\ said \in {"nothing", "updated", "restored", "skipped", "failed"}
    /\ original \in Contents \union {Absent}
    /\ entry \in {"file", "symlink", "none"}
    /\ (etc # Absent) = (entry = "file")
    /\ {etc, target, backup} \subseteq Contents \union {Absent}
    /\ host \in Hosts
    /\ harm \subseteq (Faults \ {"write"}) \union {"cut"}

None(kinds) == harm \intersect kinds = {}

\* What the host had configured is in a file, or in the memory of a daemon
\* that is rewriting the backup.
Held == host \in {Resolv, backup} \/ (pc = "fillBackup" /\ original = host)

\* A regular resolv.conf, with a backup that is written to its end: wherever
\* else the daemon dies and whatever else fails, what the host had configured
\* is not lost.  The one way to lose it is the backup of a daemon that did not
\* find it when it started.
OriginalKept ==
    [][(/\ None({"backup", "cut", "host"})' /\ target = Absent
        /\ Held /\ ~Held')
       => pc = "backup" /\ original # host]_vars

\* A daemon that lives, with writes of resolv.conf that fail at will: after
\* any sequence of calls, when restore says that it has restored the original
\* it has, and that is so for a symbolic link too.
RestoreSaysTrue ==
    None({"backup", "host", "unlink", "error", "crash"}) /\ said = "restored"
        => Resolv = host

=============================================================================
