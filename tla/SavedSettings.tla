--------------------------- MODULE SavedSettings ---------------------------
(***************************************************************************)
(* DaemonConfig (config.rs): the settings in settings.toml, those in the   *)
(* memory of the daemon, and those the split-tunnel manager has in force,  *)
(* under the requests UpdateSettings, SetSplitTunneling and ConnectTunnel  *)
(* (ipc.rs), files that cannot be written, and a daemon that dies and is   *)
(* started again.                                                          *)
(*                                                                         *)
(* fs::write opens the file, which truncates it, and then writes at its    *)
(* start: two steps.  UpdateSettings takes both under a read lock of       *)
(* AppState.config, which it can share; SetSplitTunneling under the write  *)
(* lock.  apply_settings is one step, the one that sets the settings in    *)
(* force; SplitTunnel takes it apart.                                      *)
(*                                                                         *)
(* A definition named X_Something is X with a mistake in it; the runs      *)
(* check that each property notices the mistake it is paired with.         *)
(***************************************************************************)
EXTENDS Naturals

CONSTANTS
    Clients,        \* IPC connection threads
    Daemons,        \* what the [daemon] section can hold
    Usable,         \* those whose tunnel_dir and socket_path can be had
    Splits,         \* what the [split_tunneling] section can hold
    On,             \* those of Splits that are enabled
    DefaultDaemon, DefaultSplit,
    Size,           \* the length of the text of some settings
    Faults          \* the failures considered, of FaultKinds

FaultKinds ==
    { "open",       \* settings.toml cannot be opened for writing
      "space",      \* the file system fills up while it is written
      "apply",      \* apply_settings fails: there is no cgroup to be had
      "crash" }     \* the daemon dies, at any point

Settings == [daemon : Daemons, split : Splits]
Default  == [daemon |-> DefaultDaemon, split |-> DefaultSplit]

ASSUME SettingsConstants ==
    /\ DefaultDaemon \in Daemons /\ Usable \subseteq Daemons
    /\ DefaultSplit \in Splits \ On
    /\ Size \in [Settings -> Nat \ {0}]
    /\ Faults \subseteq FaultKinds

VARIABLES
    pc, arg,        \* the clients: where they are, the request's argument
    file,           \* settings.toml: its length, and what load makes of it
    up,             \* the daemon runs
    config,         \* AppState.config.settings
    inForce,        \* SplitTunnelManager.settings
    \* history: what clients were told is saved, and what went wrong so far
    last, harm

vars == <<pc, arg, file, up, config, inForce, last, harm>>

\* A file of this length that load reads as s, or that load refuses.
Reads(s, len) == [loads |-> TRUE, as |-> s, len |-> len]
Bad(len)      == [loads |-> FALSE, as |-> Default, len |-> len]

\* A missing file stands for the default settings, and so does an empty one:
\* each section has a default.
Empty == Reads(Default, 0)

Whole(s) == Reads(s, Size[s])

Init ==
    /\ pc = [c \in Clients |-> "idle"]
    /\ arg = [c \in Clients |-> Default]
    /\ file \in {Empty} \union {Whole(s) : s \in Settings}
    /\ up = FALSE
    /\ config = Default /\ inForce = DefaultSplit
    /\ last = file.as
    /\ harm = {}

-----------------------------------------------------------------------------

Goto(c, to) == pc' = [pc EXCEPT ![c] = to] /\ UNCHANGED arg

Begin(c, to, s) ==
    /\ up /\ pc[c] = "idle"
    /\ pc' = [pc EXCEPT ![c] = to]
    /\ arg' = [arg EXCEPT ![c] = s]

Reply(c) ==
    /\ pc' = [pc EXCEPT ![c] = "idle"]
    /\ arg' = [arg EXCEPT ![c] = Default]

\* The text goes over a longer one: the rest of that one is a comment, a blank
\* or an unknown key, or it makes the file unreadable.
Over(s, len) == {Reads(s, len), Bad(len)}

\* What can be in the file once the first n bytes of the text of s are in it.
\* A text cut short is refused, or ends after the first section.
Written(s, n) ==
    LET len == IF n < file.len THEN file.len ELSE n IN
    IF n = Size[s]
    THEN IF n < file.len THEN Over(s, len) ELSE {Whole(s)}
    ELSE IF n = 0 THEN {file}
    ELSE {Reads([s EXCEPT !.split = DefaultSplit], len), Bad(len)}

Updating(c) == pc[c] \in {"updateOpen", "updateWrite"}
Setting(c)  == pc[c] \in {"setOpen", "setWrite"}
Writing(c)  == pc[c] \in {"updateWrite", "setWrite"}

Text_InMemory(c) == config

\* The text that c saves.
Text(c) == IF Updating(c) THEN arg[c] ELSE config

Harm(kinds) == harm' = harm \union kinds

\* Others have applied settings they have yet to save, or are about to apply
\* settings they have read; if there are none, what went wrong before is over.
Order ==
    harm' = IF \E d \in Clients : pc[d] \in {"setLock", "reapply"}
            THEN harm \union {"order"} ELSE harm \ {"order", "apply"}

-----------------------------------------------------------------------------

\* UpdateSettings: a read lock, and save_settings of the argument.
UpdateSettings(c, s) ==
    /\ \A d \in Clients : ~Setting(d)
    /\ Begin(c, "updateOpen", s)
    /\ Harm(IF \E d \in Clients : Updating(d) THEN {"together"} ELSE {})
    /\ UNCHANGED <<file, up, config, inForce, last>>

SetSplitTunneling_SavesFailed(c, s) ==
    /\ Begin(c, "setLock", [Default EXCEPT !.split = s])
    /\ inForce' = s \/ ("apply" \in Faults /\ UNCHANGED inForce)
    /\ Order
    /\ UNCHANGED <<file, up, config, last>>

\* SetSplitTunneling: apply_settings first, which stores the settings at its
\* end.  If it fails nothing changes.
SetSplitTunneling(c, s) ==
    /\ Begin(c, "setLock", [Default EXCEPT !.split = s])
    /\ inForce' = s
    /\ Order
    /\ UNCHANGED <<file, up, config, last>>

\* ConnectTunnel: on_tunnel_connected clones the settings in force ...
ConnectTunnel(c) ==
    /\ inForce \in On
    /\ Begin(c, "reapply", [Default EXCEPT !.split = inForce])
    /\ UNCHANGED <<file, up, config, inForce, last, harm>>

\* ... and has them applied again, and so stored again, unless that fails.
Reapply(c) ==
    /\ pc[c] = "reapply"
    /\ inForce' = arg[c].split \/ ("apply" \in Faults /\ UNCHANGED inForce)
    /\ Reply(c)
    /\ UNCHANGED <<file, up, config, last, harm>>

SetConfig_ReadLock(c) ==
    /\ pc[c] = "setLock"
    /\ Goto(c, "setOpen")
    /\ config' = [config EXCEPT !.split = arg[c].split]
    /\ UNCHANGED <<file, up, inForce, last, harm>>

\* Then, under the write lock, the settings in memory ...
SetConfig(c) ==
    /\ pc[c] = "setLock"
    /\ \A d \in Clients : ~Updating(d) /\ ~Setting(d)
    /\ Goto(c, "setOpen")
    /\ config' = [config EXCEPT !.split = arg[c].split]
    /\ UNCHANGED <<file, up, inForce, last, harm>>

Open_NoDefaults(c) ==
    /\ \/ pc[c] = "updateOpen" /\ Goto(c, "updateWrite")
       \/ pc[c] = "setOpen" /\ Goto(c, "setWrite")
    /\ file' = Bad(0)
    /\ UNCHANGED <<up, config, inForce, last, harm>>

\* ... and save_settings of all of them; an error of it is ignored.
Open(c) ==
    /\ \/ pc[c] = "updateOpen" /\ Goto(c, "updateWrite")
       \/ pc[c] = "setOpen" /\ Goto(c, "setWrite")
    /\ file' = Empty
    /\ UNCHANGED <<up, config, inForce, last, harm>>

OpenFails(c) ==
    /\ pc[c] \in {"updateOpen", "setOpen"}
    /\ "open" \in Faults
    /\ Reply(c) /\ Harm({"save"})
    /\ UNCHANGED <<file, up, config, inForce, last>>

\* The answer is "saved" or "applied".
Write(c) ==
    /\ Writing(c)
    /\ file' \in Written(Text(c), Size[Text(c)])
    /\ last' = IF Updating(c) THEN arg[c]
                              ELSE [last EXCEPT !.split = arg[c].split]
    /\ Reply(c)
    /\ UNCHANGED <<up, config, inForce, harm>>

WriteFails(c) ==
    /\ Writing(c)
    /\ "space" \in Faults
    /\ \E n \in 0 .. Size[Text(c)] - 1 : file' \in Written(Text(c), n)
    /\ Reply(c) /\ Harm({"save"})
    /\ UNCHANGED <<up, config, inForce, last>>

Crash ==
    /\ up /\ "crash" \in Faults
    /\ up' = FALSE
    /\ pc' = [c \in Clients |-> "idle"]
    /\ arg' = [c \in Clients |-> Default]
    /\ config' = Default /\ inForce' = DefaultSplit
    /\ harm' = (harm \ {"order", "apply"})
                \union (IF \E c \in Clients : Writing(c) THEN {"cut"} ELSE {})
    /\ UNCHANGED <<file, last>>

\* A file that load refuses ends the start; so does a tunnel_dir that cannot be
\* created and a socket_path that cannot be bound.
Starts == file.loads /\ file.as.daemon \in Usable

\* systemd starts the daemon: load, AppState::new, and main applies the saved
\* settings if they are enabled.
Start ==
    /\ ~up /\ Starts
    /\ up' = TRUE
    /\ config' = file.as
    /\ \/ /\ inForce' = IF file.as.split \in On THEN file.as.split ELSE DefaultSplit
          /\ UNCHANGED harm
       \/ /\ file.as.split \in On /\ "apply" \in Faults
          /\ inForce' = DefaultSplit /\ Harm({"apply"})
    /\ UNCHANGED <<pc, arg, file, last>>

Refused == ~up /\ ~Starts /\ UNCHANGED vars

ClientStep(c) ==
    \/ Reapply(c) \/ SetConfig(c)
    \/ Open(c) \/ OpenFails(c) \/ Write(c) \/ WriteFails(c)

Next ==
    \/ \E c \in Clients :
        \/ \E s \in Settings : UpdateSettings(c, s)
        \/ \E s \in Splits : SetSplitTunneling(c, s)
        \/ ConnectTunnel(c)
        \/ ClientStep(c)
    \/ Crash \/ Start \/ Refused

Spec == Init /\ [][Next]_vars

-----------------------------------------------------------------------------

\* The type of the state.
TypeOK ==
    /\ pc \in [Clients -> {"idle", "updateOpen", "updateWrite",
                           "setLock", "setOpen", "setWrite", "reapply"}]
    /\ arg \in [Clients -> Settings]
    /\ file \in [loads : BOOLEAN, as : Settings, len : Nat]
    /\ up \in BOOLEAN
    /\ config \in Settings
    /\ inForce \in Splits
    /\ last \in Settings
    /\ harm \subseteq {"together", "order", "save", "cut", "apply"}

None(kinds) == harm \intersect kinds = {}

\* Crashes, at any point, between any steps of a save, leave a file that load
\* accepts, unless two UpdateSettings overlapped or the disk was full: then the
\* daemon may never start again.
CrashLeavesLoadable == None({"together", "save"}) => file.loads

\* What a client has been told is saved of the split-tunnelling settings is
\* what the file holds, in this life of the daemon and in every later one,
\* except while the next save is between its two steps; which is where a crash
\* loses everything.
AnsweredIsKept ==
    None({"together", "save", "cut"}) /\ (\A c \in Clients : ~Writing(c))
        => file.as.split = last.split

\* While no request is at work, enabled settings are in force just when they
\* are remembered, after a restart too, unless a SetSplitTunneling overlapped
\* another one, which saved in the other order, or a connect, which put back
\* what it had read before; and the next one made alone sets that right.
EnabledIsRemembered ==
    LET Enabled(s) == IF s \in On THEN s ELSE DefaultSplit IN
    up /\ None({"order", "apply"}) /\ (\A c \in Clients : pc[c] = "idle")
        => Enabled(inForce) = Enabled(config.split)

\* However requests overlap, a SetSplitTunneling that could write leaves in
\* the file just what is in memory: nobody else writes meanwhile.
SetSavesConfig ==
    [][\A c \in Clients : pc[c] = "setWrite" /\ Write(c) => file' = Whole(config')]_vars

=============================================================================
