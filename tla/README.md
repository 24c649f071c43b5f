# A TLA+ verification of wgsplit

wgsplit is a WireGuard connection manager for Linux. A daemon, `wgsplitd`,
running as root, brings one tunnel up or down and decides which packets use it:
all of them, or, with split tunnelling, those of listed applications (a cgroup
that nftables marks) and those to listed names and addresses (host routes kept
up to date by a resolver thread). A terminal UI talks to it over a Unix socket.
The repository has no tests. This directory holds models of the daemon, the TLC
runs that check them, and proofs checked by TLAPS. Paths below without a
directory are in `src/crates/wgsplitd/src/`.

## 1. Inventory

| Component | State | Operations | What makes it correct |
|---|---|---|---|
| `SplitTunnelManager` (split_tunnel.rs) | the settings in force; two `LoopHandle` slots (process monitor, DNS loop); the managers below, each under its own lock | `apply_settings`, `on_tunnel_connected`, `on_tunnel_disconnected`, `disable`, `start_dns_loop` | no background thread escapes its handle; a cancelled thread ends; settings, cgroup, table and routes agree between requests |
| `CgroupManager` (cgroup.rs) | `enabled`; the cgroup directory and its processes | `enable`, `disable`, `add_pid` | no process is added while disabled |
| `ProcessMonitor` (process_monitor.rs) | the listed paths; the pids already handled | `scan_all`, a thread that scans `/proc` every 2 s | a listed process that starts is captured |
| `HostRoutesManager`, `RoutingManager` (host_routes.rs, routing.rs) | the interface; the labels of addresses (`current_routes`); the kernel's host routes | `update_routes`, `clear_all_routes`, set/clear interface | an address that is tracked has its route; nothing stays routed into an earlier tunnel; routes are not dropped for want of an answer |
| `NftablesManager` (nftables_mgr.rs) | the table `inet wgsplit` | `setup_full_vpn`, `setup_base`, `teardown` (`enable_killswitch` has no caller) | the table fits the settings and the tunnel |
| `DnsResolver` (dns_resolver.rs) | none | `resolve_all`, one retry per name | |
| `WireGuardManager` (wireguard.rs) | none of its own; interfaces, table routes, policy rules in the kernel | `connect`, `disconnect`, `cleanup_stale` | a tunnel is there entirely or not at all |
| IPC server (ipc.rs) | `active_tunnel`; one thread per connection | the requests | one tunnel at a time; the connected tunnel is the stored one |
| `DnsManager` (dns_mgr.rs) | `original`; `/etc/resolv.conf` and its backup | `apply`, `restore`, drop | the host's configuration is never lost and comes back |
| `TunnelStore` (tunnel_store.rs) | the `.conf` files | add, update, delete, import, parse, serialise | round trip; a file is written entirely or not at all |
| `DaemonConfig` (config.rs) | settings in memory and in settings.toml | load, save | what is saved is what was set |
| Start-up (main.rs, lib.rs) | `AppState` | apply saved settings, `cleanup_stale`, serve | residue of a crash is removed |
| Terminal UI (tui/) | a copy polled every 3 s | one request per connection | |

How they interact. Each connection has a thread, and a thread serves one request
after another; requests of different connections overlap. `ConnectTunnel` reads
the store, checks and clears `active_tunnel`, runs `wg_manager.connect` (no
lock), `on_tunnel_connected`, `dns.apply`, and sets `active_tunnel`.
`DisconnectTunnel` copies `active_tunnel`, runs `on_tunnel_disconnected`,
`dns.restore` and `wg_manager.disconnect`, and clears it. `SetSplitTunneling`
calls `apply_settings`. The manager takes a lock for each block and releases it
before the next, so two requests and the two background threads can be
interleaved between any two blocks. A background thread is stopped by a flag
that it reads at a few places only.

The hard parts are, in this order: overlapping requests and threads that wind
down late; external commands (`ip`, `wg`, `nft`, file operations) that fail
half-way; a daemon that dies between two of them and is restarted by systemd
with its residue in the kernel; copies of kernel state that grow stale. The full
list, at the lines where each bites, is under `hazards` in `PROJECT.json`.

## 2. Modules

| Module | Content |
|---|---|
| `LoopSlot` | abstract specification of one `LoopHandle` slot: one owner, a thread that lost the slot ends, no other does |
| `SplitTunnel` | the split-tunnel manager with all managers it drives, kernel state, both background threads, and the connect/disconnect requests seen from it |
| `SplitTunnelProps` | its properties, and the refinement of `LoopSlot` (twice) |
| `SplitTunnelProofs` | theorems about its type and its threads |
| `SplitTunnelRestProofs` | theorems about its routes, and about what agrees between requests |
| `WgSession` | a tunnel's life: requests on tunnels, `WireGuardManager` command by command, crash and `cleanup_stale` |
| `WgSessionProofs` | theorems about it |
| `ResolvConf` | `DnsManager`, file operation by file operation |
| `ResolvConfProofs` | theorems about it |
| `SavedSettings`, `SavedSettingsProofs` | `DaemonConfig`: settings.toml against the settings in memory and those in force, through crashes and restarts; theorems about it |
| `SavedTunnels` | abstract specification of the tunnel store: a map that requests change at once |
| `TunnelStore`, `TunnelStoreProofs` | the `.conf` files, file operation by file operation; the proof that they implement `SavedTunnels` |
| `ConfCodec`, `ConfCodecProofs` | `serialize_conf` and `parse_conf` line by line, what connect makes of a tunnel, the form that edits one; theorems about them |
| `Daemon` | the composition: connect, disconnect, settings and start-up over interface, rules, table, cgroup and resolv.conf, and what becomes of a packet |
| `DaemonProofs` | theorems about it |
| `MCRaces`, `MCNames`, `MCFaults`, `MCApps`, `MCWg`, `MCResolv`, `MCSettings`, `MCStore`, `MCCodec`, `MCDaemon` | instances for TLC |

A definition `X_Something` beside a definition `X` is `X` with a plausible
mistake. It is used by no specification; it documents which mistake the property
paired with it (under `mutants` in `PROJECT.json`) notices.

### SplitTunnel

An action is one block of the source under one lock. `pc[c]` is the block at
which the thread of client `c` stands, `cfg`, `iface` and `seen` are its locals:
the settings argument, the interface argument, and the interface that
`apply_settings` and `disable` clone and use after releasing the lock.
`procHandle`, `dnsHandle` and `cancelled` are the two handles and the flags that
are set. `current` is `current_routes`; `kroute` is what the kernel does. `ip
route del` may fail, which the code ignores; `left` is a history variable with
the addresses whose route such a failure left.

| Code | Actions |
|---|---|
| `apply_settings`, enabled | `CgroupEnable`, `ScanProcesses`, `StartProcessMonitor`, `ReadIface`, `SetupBase`, `StartDnsLoop`, `StoreSettings` |
| `disable` (and `apply_settings`, disabled) | `StopProcessMonitor`, `StopDnsLoop`, `CgroupDisable`, `ClearRoutes`, `ReadIface`, `SetupFullOrNone`, `FlagDisabled`, `StoreSettings` |
| `on_tunnel_connected`, end of connect | `SetIface`, `ReadSettings`, then `apply_settings` or `SetupFullVpn`, `Activate` |
| `on_tunnel_disconnected`, end of disconnect | `StopProcessMonitor`, `StopDnsLoop`, `Teardown`, `CgroupDisable`, `ClearIfaceAndRoutes`, `LinkDown` |
| monitor thread | `ProcTick`, `ProcIsWatched`, `ProcMatch`, `ProcAdd`, `ProcRecord` |
| DNS thread | `DnsResolveVpn`, `DnsResolveDirect`, `DnsUpdateRoutes`, `DnsWake` |
| environment | `ProcessRuns`, `ProcessExits`, `LinkLost`, and the choices under `Faults` |

Abstractions. `wg_manager.connect` and `disconnect` are single steps here
(`ConnectTunnel`, `ConnectFails`, `LinkDown`) and are taken apart in `WgSession`.
Deleting and loading the nftables table is one step. A process matches by
equality of its executable, where the code also accepts a suffix. A resolution
yields one of the answers `Answers` allows for the name. Time is left out: a
sleep ends at any moment. Threads come from a fixed set of slots (`ProcLoops`,
`DnsLoops`); a request that would start a thread waits until a slot is free,
which bounds the threads alive at once and nothing else. The settings saved to
disk are not here.

### WgSession

An action is one external command or one block under one lock. `setup_routing`
and `cleanup_routing` run the eight commands of `RoutingCmds` (route, rule for
WireGuard's own mark, rule for the VPN's mark, rule that suppresses the default
route; each for IPv4 and IPv6). `ip rule del` names no interface, so the rules
belong to nobody in particular, and the model says so. After them connect
deletes and adds a host route to each of the `Endpoints` of the tunnel's peers
that are addresses (`hostRoutes`); nothing removes those again. A connect that
fails returns through `disconnect`, as in the code. `Crash` stops every thread
anywhere; `Main` then runs `cleanup_stale` before it serves.

The failures are those of any command of connect (`setup`), of `ip link show`,
which the code takes for no interface (`show`), of the commands that remove an
interface (`del`), and of `ip rule del` and `ip route del`, which it ignores:
`Stuck` is the set of routes and rules for which that may happen. Two history
variables name what the code cannot undo and a property therefore has to
exclude: `unremoved`, the rules that a failing `ip rule del` left, and `harm`,
that an interface was `kept` that should have gone, or `lost` to somebody else.

### ResolvConf

An action is one file operation, and `fs::write` is two, for the backup
(`OpenBackup`, `WriteBackup`) as for `resolv.conf` (`OpenResolv`, `WriteResolv`).
The mutex of `AppState.dns_manager` makes a call exclusive, so one call is under
way at a time, and a crash can come between any two of its operations. `said` is
the line the last call logged. `host` is what the host itself last wrote, and
`harm` the kinds of failure so far, `cut` for a daemon that died between the two
steps of writing the backup. `Torn` is the content of a file whose write was cut
short.

### SavedSettings

Three places hold settings: the file, `AppState.config` and the split-tunnel
manager (`file`, `config`, `inForce`). `ConnectTunnel` reads the settings in force
and, if they are enabled, applies and stores them again later (`Reapply`), over
whatever was set meanwhile. A `[daemon]` section that is not in `Usable` names a
directory that cannot be created or a socket that cannot be bound; the daemon
does not start with it. `fs::write` is two steps, `Open`, which
truncates, and `Write`; `UpdateSettings` makes them under a lock that another
`UpdateSettings` can share, `SetSplitTunneling` under the exclusive one. A file
is its length and what `load` makes of it: some settings, or a refusal. An empty
one loads as the defaults, since both sections have one; a text cut short can
end after the first section or in the middle of something; a shorter text
written over a longer one leaves its rest. `last` is what clients were told is
saved, `harm` what went wrong: `together` (two `UpdateSettings` overlapped),
`order` (two `SetSplitTunneling` may apply in one order and save in the other, or
a connect put back what it had read before), `save`, `cut`, `apply`. A
`SetSplitTunneling` that is made alone takes `order` and `apply` back.

### SavedTunnels and TunnelStore

The store takes no lock, so a request is its check that the file exists and then
its operation, and a save again `Open` and `Write`. `linked` says whether a file
being written still has its name: a delete in between takes the text with it.
A content is a configuration, or `Blank`, `Cut` or `Mixed`, which `parse_conf`
reads without complaint. The refinement maps a file under a name of `Own`, which
one client (`Owner`) changes, to what it held before its writer opened it, until
the write is complete. `get` and `list` change nothing and are left out. Under that mapping every request
is one step of `SavedTunnels`, and a crash or a full disk is `Lose`. For names
that two clients change it is no such map (section 5).

### ConfCodec

A text is the sequence of its comma-separated parts, so that what is split, what
is joined and what stays whole (an `Address` with a comma) can be told apart; a
`.conf` file is a sequence of lines. `Reading` states what a text declares,
looking at it as a whole, against which `Parse`, a fold over the lines with the
current peer as its state, is checked. `ToWg` is what `wg`, `ip` and
resolv.conf are given. `Form` is the round trip through the terminal UI's form.

### Daemon

Here the calls that the modules above take apart are steps: `wg_manager.connect`
and `disconnect`, `dns.apply` and `restore`, and each block of the split-tunnel
manager; only nft is two (`TableOff`, `TableOn`), because packets pass between
them. The kernel keeps `links`, the interfaces, `table`, the one whose default
routes are in the VPN table (they vanish with it), `rules`, the policy rules,
which belong to nobody, `nft` and the cgroup through a crash. Of the settings the
mode is kept, or `off`. `entry` says whether `/etc/resolv.conf` is a file, a
symbolic link, or gone. `Path` says what becomes of a packet, from the
mark the table gives it, the rules, and the interface the table masquerades for:
it goes into the tunnel, directly, or nowhere (`lost`: into an interface with
the source address of another). Marks are numbers of a bounded width, because
WireGuard's own packets carry the next one.

A call that the code lets fail in silence has a second action for what that
leaves: `DnsApplyFails` and `DnsRestoreFails`, after which the request goes on,
`WgDisconnectSkips` (`ip link show` fails, and the interface is taken for gone),
`CleanupStaleFails` (the interfaces cannot be listed, or one not removed). A
crash inside `apply` or `restore` leaves no more than these do, and is such an
action followed by `Crash`. `recent` and `dnsRisk` are history: what failed or
overlapped since the last connect that had the daemon to itself (`kept`: an
interface stayed that the daemon does not count as connected), and whether
something happened that can leave a tunnel's servers behind. An `nft delete
table` that fails while there is a table is left out, here and in `SplitTunnel`:
what a ruleset loaded over an old table amounts to is not a table of the code's.

| Code | Actions |
|---|---|
| `ConnectTunnel` | `ConnectTunnel`, `WgConnect` (or `WgConnectRefused`, `WgConnectFails`), `SetIface`, `ReadSettings`, then the settings or the full table, `DnsApply` (or `DnsApplyFails`), `Activate` |
| `SetSplitTunneling`, `apply_settings`, `disable` | `CgroupOn` or `CgroupOff`, `ReadIface`, `TableOff`, `TableOn`, `FlagDisabled`, `StoreSettings` |
| `DisconnectTunnel` | `DisconnectTunnel`, `TableOff`, `CgroupOff`, `ClearIface`, `DnsRestore` (or `DnsRestoreFails`), `WgDisconnect` (or `WgDisconnectSkips`, `WgDisconnectFails`), `Deactivate` |
| `main` | `Start`, the settings, `CleanupStale` (or `CleanupStaleFails`) |
| environment | `Crash`, `Capture`, `ProcessExits`, `LinkLost` |

## 3. Runs

Every passing run finishes within four minutes with two workers (`daemon`, the
largest, explores some six million states).

| Run | Instance | Shows |
|---|---|---|
| `races` | 2 clients, 1 interface, 2 names on one list, of which one may not resolve; no failures | `LoopsOwned`: a handle names a running thread nobody cancelled and all other threads are cancelled. `RoutesKept`: a route goes only for a reason, and half an answer is none. `CancelledDnsWindsDown`: a cancelled resolver never begins another resolution |
| `names` | 1 client, 1 interface, 2 lists of applications, a name whose answers change and one that moves from the direct list to the VPN list; fair | `RestDisabled`, `RestEnabled`, `RestInterface`: what agrees between requests. `TrackedIsRouted`: an address that the manager tracks has a route, whatever lists it has been on. `NamesRouted`: once requests cease, names listed for the VPN only stay routed. `DnsSlotSpec`: the DNS handle implements `LoopSlot`, with its liveness |
| `faults` | 1 client, 2 interfaces, 1 process, 1 name; all seven kinds of failure | `VpnRoutesUseCurrentInterface`: no host route leads into an earlier tunnel but one that could not be deleted. `StoppedScanAddsNothing`: a scan that outlives the monitor moves nobody into the cgroup. `RoutesKept` again |
| `apps` | 1 client, 2 applications, 1 pid that is reused; fair | `FreshProcessCaptured`: a listed process that the monitor has not met is captured. `ProcSlotSpec`: the monitor handle implements `LoopSlot` |
| `wg` | 1 client, 2 tunnels, 2 contents of which one names an endpoint's address; a rule and a route that may not be deleted; all failures and crashes | `RestCommitted`: between requests a tunnel is there entirely, routes to its endpoints included, or not at all but for rules that `ip rule del` left. `RulesNeedLink`: other rules exist only while an interface does, which is what lets `cleanup_stale` find them. `TableKept`: no connect takes the table from the tunnel that holds it, even when that one is not seen. `ConnectedAsStored` |
| `resolv` | 2 host contents, 2 server lists; file and symbolic link; all failures | `OriginalKept`: the host's configuration is in `resolv.conf`, in the backup, or in the daemon that writes the backup, at all times, unless that write is cut short. `RestoreSaysTrue` |
| `settings` | 2 clients, 3 `[daemon]` sections, one of them unusable, 2 split sections, texts of 2 lengths; failing writes, failing applies, crashes | `CrashLeavesLoadable`: crashes leave a file that `load` accepts. `AnsweredIsKept`: what was answered is in the file. `SetSavesConfig`, `EnabledIsRemembered`: memory, file and manager agree |
| `store` | 2 clients, a name of one and a name of both, 2 contents of different length; failing opens, full disks, crashes | `StoreSpec`: the store implements `SavedTunnels`. `WholeOrGone`: no file is half of something but where a write was cut short or two met |
| `codec` | all texts of up to 4 of 11 lines; 3276 configurations of up to 2 peers | `ImportReads`: an import yields what the text declares. `ReadsAsSaved`: what is read back is what was saved. `EditKeepsShown`: which tunnels the form leaves alone |
| `daemon` | 2 clients, a tunnel with and one without DNS servers, a regular and a linked `resolv.conf`; all failures, crashes | `PacketsGoWhereTold`, `IdleIsDirect`, `LeaksOnlyInReload`: where packets go while connected, while not, and during a reload. `DnsFollowsTunnel`: whose servers resolv.conf lists |
| `claim_one_tunnel`, `claim_exclusive` | 2 clients, or 1; no failures | section 5; their counterexamples are expected |

Bounds. Two clients make every race between two requests. The slots of two
monitor and two resolver threads allow an owner and one predecessor still
winding down; a third start waits for a slot, which only delays it. Two
interfaces are needed for a route into an earlier one. One process gives every
order of exec, exit and reuse of its pid against a scan; that a child is born in
its parent's cgroup, and a scan that has a second entry still to visit, need two
processes, which `apps` cannot afford with its liveness (plan).
Two names on one list make a resolution incomplete; two answers make an address
stale, and a name on the direct list of one request and the VPN list of another
changes its label. One rule in the middle of `cleanup_routing` and the route before
it suffice for what stays when `ip` fails to delete. Crashes and failures are not bounded: they may happen at every
step, any number of times. No run has a state constraint, and every state space
is explored completely. Symmetry is used only where no liveness is checked, over
sets whose elements the model treats alike.

In `settings` and `store` two lengths make a text end inside another one; a third
would add nothing, since a step only compares. In `codec` four lines hold a
section, a key, another section and a key in every order; the fold keeps nothing
but the current peer from one line to the next. In `daemon` a tunnel is up,
another is what replaces it; with `Marks` = 4 and `Fwmark` = 1 all marks in
question are distinct, which is what the assumption on them asks.

`daemon` has a `VIEW`: once `dnsRisk` holds, which is for good, no property looks
at `resolv.conf`, its copies and `entry`, and no other variable ever depends on
them, so states that differ in them alone are explored once.

Deadlock is checked in every run.

Fairness (`FairSpec`, in `SplitTunnel` only): weak fairness for each client thread once it has taken up
a request, and for each background thread: the operating system runs every
thread, and none of the blocks waits for anything but a lock that its holder
releases. No fairness for the environment, and none for requests: nobody has to
send one. Nothing says that names resolve: `NamesRouted` has it as a premise
about the answers. Each `LoopSlot` property includes its liveness, that a thread
which lost its slot ends.

## 4. Proofs

TLC explores the instances above; the theorems hold for every number of clients,
tunnels, processes, names, threads and failures. They rest on the named
assumptions on the constants (`ConstantsAssumption`, `WgConstants`,
`ResolvConstants`, `SettingsConstants`, `StoreConstants`, `CodecConstants`,
`DaemonConstants`), which say that sentinel values are not ordinary ones and that
the parameters are of the right kind (and, in `Daemon`, that the mark is not 0 nor
the largest; in `ConfCodec`, that a decimal number is parsed to itself); TLC
evaluates them in every run.

| Theorem | Statement | Argument |
|---|---|---|
| `SplitTunnelProofs!TypeCorrect` | `Spec => []TypeOK` | inductive; lemmas for what `Reply`, `Resolve`, `DnsEnd` and `update_routes` yield |
| `EveryLoopOwned` | `Spec => []LoopsOwned` | `LoopsOwned` is inductive with `TypeOK`; each action either leaves slots and flags alone, launches, releases, or ends a thread that is cancelled |
| `MonitorIsLoopSlot`, `ResolverIsLoopSlot` | `Spec => ProcSlot!Safety`, `DnsSlot!Safety` | step by step under `LoopsOwned`: only a cancelled thread returns, and the owner is not cancelled |
| `LateUpdateAtMostOnce` | `Spec => CancelledDnsWindsDown` | under `TypeOK` and `LoopsOwned`: every other step of the thread reads the flag first, and a cancelled thread is alive, so no start reuses its slot |
| `RoutesAlwaysKept` | `Spec => RoutesKept` | `FoundInv`: a resolver whose answers are marked complete holds an answer for every name; `RoutesIntoTunnel`: kernel routes lead into an interface only while it is up |
| `RoutesUseCurrentInterface` | serial: `Spec /\ OneAtATime => []VpnRoutesUseCurrentInterface` | `RoutesInv`: a route into an interface leads into the one that is up and that the manager routes for, and is tracked, so that clearing finds it, or is one in `left`, which is not tracked; and between bringing an interface up and telling the manager of it no other tunnel is up |
| `StoppedScanNeverAdds` | serial: `... => StoppedScanAddsNothing` | `HandlesInv`: only enabling takes the loop handles and the cgroup, and who disables or disconnects has released each by the time it passes it |
| `InterfaceAgreesAtRest` | serial, no `link`, no `wg`: `... => []RestInterface` | `SessionInv`: which of tunnel, active tunnel and the manager's interface a request has changed at each of its places |
| `DisabledAtRest` | serial, no `nft`, no `wg`: `... => []RestDisabled` | `DisabledInv` on top of the two before: the table at each place of a request that disables |
| `EnabledAtRest` | serial, no `cgroup`, no `nft`, no `wg`: `... => []RestEnabled` | `EnabledInv`: what a request that enables has started so far, and for which lists |
| `TrackedAlwaysRouted` | serial, no `link`: `... => []TrackedIsRouted` | inductive with `SessionInv`: an address gets its label in the step that gives it a route, and loses the route in one that drops the label; no interface goes while the manager routes for it |
| `WgSessionProofs!TypeCorrect` | `Spec => []TypeOK` | with `ControlInv`, which ties a thread's program counter to the locals it uses |
| `TableAlwaysKept` | `Spec => TableKept` | under the type: `ip route add` refuses a route that is there, and `cleanup_routing` names the interface of the tunnel it was called for |
| `RulesAlwaysNeedLink` | serial: `Spec /\ OneAtATime => []RulesNeedLink` | `RulesInv`: the thread at work is alone, holds its interface while it adds or removes rules, and `cleanup_routing` leaves none of the rules it has gone past but those in `unremoved`, so no other is left when the interface is deleted; a crash keeps the implication because it changes neither side |
| `ConnectedAlwaysAsStored` | serial: `... => []ConnectedAsStored` | `StoreInv`: what connect works with is what is stored, and no tunnel is active meanwhile |
| `RestAlwaysCommitted` | serial: `... => []RestCommitted` | `RestInv`: at most one interface exists and every route and rule is there for it; `Progress` says how many of the eight commands and which of the routes to endpoints have had their effect at each place of connect, disconnect and `cleanup_stale`, up to `unremoved`, and a crash anywhere leaves what `cleanup_stale` starts from |
| `ResolvConfProofs!TypeCorrect` | `Spec => []TypeOK` | inductive |
| `OriginalIsKept` | `Spec => OriginalKept` | `KeptInv`: while the backup agrees with the host's configuration `restore` writes just that, and `original` either agrees too or is what a restarted daemon read; between the two steps of writing the backup the daemon's copy stands in for it |
| `RestoreReturnsOriginal` | `Spec => []RestoreSaysTrue` | `RestoreInv`: every copy the daemon holds is the host's |
| `SavedSettingsProofs!TypeCorrect` | `Spec => []TypeOK` | inductive, with a lemma for what a write can leave in the file |
| `LocksHold` | `Spec => []LocksInv` | the lock discipline: a `SetSplitTunneling` that saves is alone, and `together` records overlapping `UpdateSettings` |
| `SetSavesWhatItSet` | `Spec => SetSavesConfig` | under the locks nobody else writes, so the file is still empty when the text is written |
| `CrashNeverBlocksStart` | `Spec => []CrashLeavesLoadable` | whoever opened the file last finds it empty, and a whole text in an empty file loads |
| `AnsweredSurvives` | `Spec => []AnsweredIsKept` | the memory agrees with what was last answered, up to a save under way, and a start reads it from the file |
| `EnabledRemembered` | `Spec => []EnabledIsRemembered` | `OrderInv`, `InForceInv`: while `harm` knows of no other order, at most one request is between reading or applying settings and remembering them, and what is in force is what it is about to remember, or, for a connect, what it has read |
| `TunnelStoreProofs!TypeCorrect` | `Spec => []TypeOK` | inductive, with what ties a thread's program counter to its arguments |
| `FilesWhole` | `Spec => []WholeOrGone` | `WholeInv`: a file whose single writer has just opened it is empty, and any other file outside `harm` is whole |
| `StoreImplements` | `Spec => StoreSpec` | a refinement: `StoreInv` (only the owner writes a name of `Own`, and its file is empty until it does) makes every step one of `SavedTunnels`, or none |
| `ConfCodecProofs!ReadBackAsSaved` | `Spec => []ReadsAsSaved` | `RoundTrip`: what `parse_conf` reads of the lines `serialize_conf` writes, segment by segment; `CodecInv`: the file is always what was written of the tunnel last saved |
| `EditKeepsWhatItShows` | `Spec => EditKeepsShown` | `FormOfShown`: a tunnel that was read of a file and that the form can show comes out of the form as it was, with a DNS entry for each server; splitting undoes joining |
| `ImportsAsDeclared` | `Spec => []ImportReads` | `ReadsMore`: after each line, what the fold holds is what the lines so far declare, with the peer whose section is open set apart; `SectionsMore`, `PeersUpTo`: what a further line changes in a section, in the last value of a key and in the peers before it |
| `DaemonProofs!TypeCorrect` | `Spec => []TypeOK` | inductive |
| `IdlePacketsDirect` | `Spec => []IdleIsDirect` | `LinkInv`: the VPN table has no routes but those of the active tunnel or of the one client that connects, unless `recent` knows of an interface that was kept |
| `PacketsTold`, `LeaksBounded` | `Spec => []PacketsGoWhereTold`, `Spec => []LeaksOnlyInReload` | `KernelInv`: what a connect and a change of the settings have done to interface, rules, table and manager at each of their places; `Paths`: what each table does to each packet |
| `DnsFollows` | `Spec => []DnsFollowsTunnel` | `DnsInv`: the host's servers are in `resolv.conf` or in the backup, and the tunnel's in `resolv.conf` from the apply to the restore, unless it was a symbolic link and is gone |

The four theorems on `Daemon` share an argument. A request that overlaps another
is on record in `recent` until a connect has the daemon to itself (`Fresh`);
while none is, `AloneInv` makes the client that steps the only one at work, so an
invariant need only say what that client leaves behind (`StepAlone`), and a
failure shows in `recent` too (`StepRemembers`). `ControlInv` says at which
places a request of each kind can be, which is what excludes, say, a connect that
reaches `FlagDisabled`.

The three theorems on `ConfCodec` are about sequences of any length, so they need
induction. `AllNumbers` and `AllSequences` state it of sets (a set of sequences with
the empty one that is closed under `Append` is all of them), from the library's
well-founded minimum, and what is proved by it is put as such a set.
`ReadStates` and `StatesAreRead` give the fold over the lines as a sequence of
states, `ReadBoth` lets it go on where it stopped.

*Serial.* The theorems so marked are about behaviours in which requests do not
overlap, `OneAtATime`: no client sends one while another is served. Any number of
clients is allowed, background threads, failures, crashes and the environment
interleave as in `Spec`, and a single client satisfies it (`OneClientIsSerial`
in both modules), so the runs with one client are instances. The invariants
speak of a thread that is the only one at work (`Sole`, `OneAtWork`). Without it
each of these statements is false, as TLC finds with two clients: a second
connect of the same tunnel cleans up and deletes the interface between two
commands of the first, which goes on adding rules; a connect overtaken by a
disconnect and another connect sets the manager's interface to its own while
routes lead into the other's; a disable that an enable overtakes stores its
settings last, which then say disabled while the enable's monitor runs and adds
processes to its cgroup.

*Failures left out.* A theorem excludes a kind of failure only where the code
has no answer to it, and no other kind: `link` (an interface deleted by somebody
else is still the active tunnel and the one routed for), `wg` (a disconnect whose
`ip link` fails leaves the interface up without its table), `nft` (a table that
cannot be loaded is not there), `cgroup` (an enable that fails half-way).

Only model-checked. Liveness and everything under fairness is beyond the proof
system: `NamesRouted`, `FreshProcessCaptured`, and the liveness half of the two
slots, whose safety half is proved. Every invariant and action
property that a passing run checks has its theorem. `ConnectedIsRouted` and `ExclusiveBypasses` are false.

## 5. Where the code does not do what the repository says

Each has an entry under `findings`. The first and the third have runs,
`claim_exclusive` and `claim_one_tunnel`, that TLC ends with a counterexample; the
others are short paths through the model named.

- "Exclusive: listed apps/domains/IPs bypass VPN" (tui/src/index.tsx:895, also
  README.md:95 and contrib/settings.toml:9). `setup_base` marks the cgroup for
  the VPN in either mode, and in exclusive mode the listed direct applications
  are what is in the cgroup (`Daemon`, `ExclusiveBypasses`; `SplitTunnel`, `Listed`
  and `ScanProcesses`). `PacketsGoWhereTold` therefore speaks of the other modes.
- The same of names. A name moved from one list to the other keeps its kernel
  route, because `update_routes` runs no command for an address it already knows
  (host_routes.rs:41; `SplitTunnel`, `DnsUpdateRoutes`).
- "Already connected to '{}'. Disconnect first." (ipc.rs:146). Two connects can
  overlap, and the failing one removes the rules of the other (`WgSession`).
- "Updated resolv.conf with DNS servers" (dns_mgr.rs:72) is logged when
  `/etc/resolv.conf`, a symbolic link, is gone (`ResolvConf`, `RemoveEntry`).
- "Restored original resolv.conf" (dns_mgr.rs:103) is logged after a crash and a
  second connect, when what was restored is the tunnel's (`ResolvConf`).
- "saved" (ipc.rs:239). `UpdateSettings` writes the file and not the memory; the
  next `SetSplitTunneling` writes the memory, with the earlier `[daemon]`
  section, over it (ipc.rs:249-250; `SavedSettings`).
- "deleted" (ipc.rs:131), "Tunnel '{0}' not found" and "already exists"
  (error.rs:6, 8). An update that made its check before a delete creates the
  tunnel again, and two adds of one name both succeed (`TunnelStore`).

The models also show behaviour that no text of the repository denies outright,
and that the properties therefore leave room for:

- An update of the routes that waits for the write lock when the resolver is
  cancelled still happens, once, after `disable` has cleared them
  (split_tunnel.rs:300-304).
- An enabled request with empty lists leaves the resolver of the earlier lists
  running (split_tunnel.rs:114).
- With no interface, `update_routes` forgets addresses and leaves their routes in
  the kernel (host_routes.rs:68-77). After an interface is lost and the tunnel
  connected again, the labels say routed and the kernel does not
  (host_routes.rs:41, split_tunnel.rs:127-131).
- Pids are recorded before `add_pid` is tried, and never forgotten: a failed add is not retried
  (process_monitor.rs:91), a reused pid is not looked at (:157-161).
- A process that leaves the list stays in the cgroup, and so do its children
  (`remove_pid`, cgroup.rs:70, does nothing), also after disabling.
- Update and delete check the active tunnel before, and connect reads the store
  before, a step of the other (ipc.rs:113-133, 135-165).
- Every failing `ip` command that deletes is ignored. Undeleted policy rules stay,
  and make every later connect fail, since `ip rule add` refuses one that is there
  (wireguard.rs:228-251, 182-214); an undeleted host route stays, and the manager no
  longer knows of it (host_routes.rs:71, 84, routing.rs:39-46).
- A failing `ip link show` or listing counts as no interface: a disconnect then
  answers well and leaves the tunnel, a start leaves that of the crashed daemon
  (wireguard.rs:84, 151-159).
- The host routes to the endpoints of peers are never removed, and one the host
  had to the same address is replaced (wireguard.rs:260-265).
- A connect applies the settings it has read before, and stores them: a request
  that disables split tunnelling meanwhile is undone (split_tunnel.rs:118-137).
- A disconnect whose `ip link` command fails leaves an active tunnel without
  rules (wireguard.rs:89-92); an interface deleted by another program leaves its
  rules (:84-87).
- The daemon's copy of `resolv.conf` is the one of its start, not of the moment
  of connecting (dns_mgr.rs:14, 34); a backup that cannot be written is only
  logged (:39), and `restore` without a backup leaves the tunnel's servers (:104-107).
  So a crash while connected, or an interface lost and then a connect that fails,
  leaves a tunnel's servers in `resolv.conf` with nothing connected (`dnsRisk` in
  `Daemon`). A daemon that dies while it writes the backup of a second `apply`, with
  the first one's servers in `resolv.conf`, loses the host's configuration
  altogether (dns_mgr.rs:39). Failures of `apply` and `restore` are logged and the
  request succeeds (ipc.rs:160-162, 192-194).
- A crash while settings.toml is between truncation and writing loses all
  settings without a word: the empty file loads as the defaults (config.rs:43). A
  file cut short by a full disk, or written by two `UpdateSettings` at once, can
  keep the daemon from ever starting, and so can a saved `socket_path` that cannot be
  bound (ipc.rs:28).
- Two `SetSplitTunneling` can be applied in one order and saved in the other
  (ipc.rs:245-250): after a restart other settings are in force than before.
- Every reload of the nftables table lets packets out for as long as it takes
  nft to load the next (nftables_mgr.rs:26, 68).
- A table that is loaded by a request overtaken by a disconnect stays
  (split_tunnel.rs:106), and so does that of a daemon that crashed; with no rules
  neither does harm, and the next connect replaces it.
- The largest mark the settings accept makes the mark of WireGuard's packets 0
  in a release build (lib.rs:41), and the full table then marks nothing; the
  assumptions of `Daemon` exclude it.
- An imported `Address = a, b` stays one text (tunnel_store.rs:178), which `ip
  address add` is given as it is (wireguard.rs:48), while a `DNS` line of that
  form is split where it is used (dns_mgr.rs:24-27). An import without
  `AllowedIPs` answers with no entry, and a later read with one empty entry.
- Saving the edit form unchanged drops the preshared key, the MTU and all peers
  but the first, turns no keepalive into one of 25 s and no `AllowedIPs` into
  0.0.0.0/0 (tui/src/index.tsx:584-637).

## 6. Not modelled

IPC framing, one JSON line per message, without state of its own; `get_stats`,
`generate_keypair`, `list_running_processes` and the requests that only read (`get`
and `list` of the store among them); `enable_killswitch`, `RoutingManager`'s fwmark
rules and `remove_pid`, which nothing calls; the key files that `connect` writes
for `wg`; the rules for names of tunnels (`validate_name`) and for interface names;
of the terminal UI all but its edit form: it is a client whose requests the models
issue at will; packaging, save for the restart after a failure. The locks are
modelled where they are kept from one step to another (settings, nftables,
resolv.conf). Two are taken inside each other in one place only
(split_tunnel.rs:68-80), so that no cycle of waiting can arise and a model of it
would be a single edge. `SplitTunnel` has no crash; what a crash leaves of cgroup,
table and rules is in `Daemon`. Host routes are not in `Daemon`: those of listed
names are in `SplitTunnel`, where those through the tunnel vanish with its
interface, and those to endpoints in `WgSession`.

## 7. Plan

Done, in this order: `LoopSlot`, `SplitTunnel` with its properties and proofs,
`WgSession`, `ResolvConf`, `SavedSettings`, `SavedTunnels` and `TunnelStore` with
their proofs, `ConfCodec`, `Daemon`, and the proofs of both; then the commands and
file accesses whose failures the code ignores, in all of them.

Left, of the models: two processes in `MCApps`, with forks into the cgroup and scans
with several entries, and the liveness reduced to one slot.

No property of safety is left without a proof. Those proved of serial behaviours
only would need an invariant that says which overlaps are harmless, as `recent`
does in `Daemon`.
