------------------------ MODULE SavedSettingsProofs ------------------------
(***************************************************************************)
(* Theorems about SavedSettings, for every number of clients, all settings *)
(* and all failures.                                                       *)
(***************************************************************************)
EXTENDS SavedSettings, TLAPS

\* The write lock is exclusive.
LockInv ==
    \A c, d \in Clients : Setting(c) /\ (Setting(d) \/ Updating(d)) => c = d

\* Two UpdateSettings at work are on record.
TogetherInv ==
    None({"together"}) => \A c, d \in Clients : Updating(c) /\ Updating(d) => c = d

\* Who has the file to itself finds it as it opened it.
OpenedInv ==
    \A c \in Clients :
        pc[c] = "setWrite" \/ (pc[c] = "updateWrite" /\ None({"together"}))
            => file = Empty

\* What SetSplitTunneling put in memory stays there until it has saved it.
ConfigInv == \A c \in Clients : Setting(c) => config.split = arg[c].split

\* No thread outlives the daemon.
DownInv == ~up => \A c \in Clients : pc[c] = "idle"

LocksInv == LockInv /\ TogetherInv /\ OpenedInv /\ ConfigInv /\ DownInv

\* The type of a default, and of a file that holds it.
LEMMA DefaultTyped ==
    /\ Default \in Settings
    /\ Empty \in [loads : BOOLEAN, as : Settings, len : Nat]
  BY SettingsConstants DEF Default, Settings, Empty, Reads

\* What a write puts into the file has the type of a file.
LEMMA WrittenTyped ==
    ASSUME NEW s \in Settings, NEW n \in 0 .. Size[s],
           file \in [loads : BOOLEAN, as : Settings, len : Nat]
    PROVE  Written(s, n) \subseteq [loads : BOOLEAN, as : Settings, len : Nat]
<1>1. Size[s] \in Nat \ {0} /\ n \in Nat
  BY SettingsConstants
<1>2. (IF n < file.len THEN file.len ELSE n) \in Nat
  BY <1>1
<1>3. [s EXCEPT !.split = DefaultSplit] \in Settings
  BY SettingsConstants DEF Settings
<1>4. ASSUME NEW t \in Settings, NEW len \in Nat
      PROVE  {Reads(t, len), Bad(len)} \subseteq [loads : BOOLEAN, as : Settings, len : Nat]
  BY DefaultTyped DEF Reads, Bad
<1>5. Whole(s) \in [loads : BOOLEAN, as : Settings, len : Nat]
  BY <1>1, <1>4 DEF Whole
<1> QED
  BY <1>1, <1>2, <1>3, <1>4, <1>5 DEF Written, Over

\* A write into the emptied file leaves the whole text there.
LEMMA WrittenIntoEmpty ==
    ASSUME NEW s \in Settings, file = Empty
    PROVE  Written(s, Size[s]) = {Whole(s)}
<1>1. Size[s] \in Nat \ {0} /\ file.len = 0
  BY SettingsConstants DEF Empty, Reads
<1> QED
  BY <1>1 DEF Written

-----------------------------------------------------------------------------

\* The type of the state is kept by every step.
LEMMA NextTypeOK == TypeOK /\ [Next]_vars => TypeOK'
<1> SUFFICES ASSUME TypeOK, [Next]_vars PROVE TypeOK'
  OBVIOUS
<1> USE SettingsConstants, DefaultTyped DEF TypeOK
<1>1. ASSUME NEW c \in Clients, NEW s \in Settings, UpdateSettings(c, s)
      PROVE  TypeOK'
  BY <1>1 DEF UpdateSettings, Begin, Harm
<1>2. ASSUME NEW c \in Clients, NEW s \in Splits, SetSplitTunneling(c, s)
      PROVE  TypeOK'
  <2>1. [Default EXCEPT !.split = s] \in Settings
    BY DEF Settings
  <2> QED
    BY <1>2, <2>1 DEF SetSplitTunneling, Begin, Order
<1>11. ASSUME NEW c \in Clients, ConnectTunnel(c) PROVE TypeOK'
  <2>1. [Default EXCEPT !.split = inForce] \in Settings
    BY DEF Settings
  <2> QED
    BY <1>11, <2>1 DEF ConnectTunnel, Begin
<1>12. ASSUME NEW c \in Clients, Reapply(c) PROVE TypeOK'
  <2>1. inForce' \in Splits
    BY <1>12 DEF Reapply, Settings
  <2> QED
    BY <1>12, <2>1 DEF Reapply, Reply
<1>3. ASSUME NEW c \in Clients, SetConfig(c) PROVE TypeOK'
  <2>1. config' \in Settings
    BY <1>3 DEF SetConfig, Settings
  <2> QED
    BY <1>3, <2>1 DEF SetConfig, Goto
<1>4. ASSUME NEW c \in Clients, Open(c) PROVE TypeOK'
  BY <1>4 DEF Open, Goto
<1>5. ASSUME NEW c \in Clients, OpenFails(c) PROVE TypeOK'
  BY <1>5 DEF OpenFails, Reply, Harm
<1>6. ASSUME NEW c \in Clients, Write(c) PROVE TypeOK'
  <2>1. Text(c) \in Settings /\ Size[Text(c)] \in 0 .. Size[Text(c)]
    BY DEF Text
  <2>2. file' \in [loads : BOOLEAN, as : Settings, len : Nat]
    BY <1>6, <2>1, WrittenTyped DEF Write
  <2>3. last' \in Settings
    BY <1>6 DEF Write, Settings
  <2> QED
    BY <1>6, <2>2, <2>3 DEF Write, Reply
<1>7. ASSUME NEW c \in Clients, WriteFails(c) PROVE TypeOK'
  <2>1. Text(c) \in Settings
    BY DEF Text
  <2>2. file' \in [loads : BOOLEAN, as : Settings, len : Nat]
    <3>1. PICK n \in 0 .. Size[Text(c)] - 1 : file' \in Written(Text(c), n)
      BY <1>7 DEF WriteFails
    <3>2. n \in 0 .. Size[Text(c)]
      BY <2>1
    <3> QED
      BY <2>1, <3>1, <3>2, WrittenTyped
  <2> QED
    BY <1>7, <2>2 DEF WriteFails, Reply, Harm
<1>8. CASE Crash
  BY <1>8 DEF Crash
<1>9. CASE Start
  BY <1>9 DEF Start, Settings, Harm
<1>10. CASE UNCHANGED vars
  BY <1>10 DEF vars
<1> QED
  BY <1>1, <1>2, <1>3, <1>4, <1>5, <1>6, <1>7, <1>8, <1>9, <1>10, <1>11, <1>12
  DEF Next, ClientStep, Refused

\* Requests, files and settings always have their types.
THEOREM TypeCorrect == Spec => []TypeOK
<1>1. Init => TypeOK
  <2>1. ASSUME NEW s \in Settings
        PROVE  Whole(s) \in [loads : BOOLEAN, as : Settings, len : Nat]
    BY SettingsConstants DEF Whole, Reads
  <2>2. Init => file \in [loads : BOOLEAN, as : Settings, len : Nat]
    BY DefaultTyped, <2>1 DEF Init
  <2> QED
    BY SettingsConstants, DefaultTyped, <2>2 DEF Init, TypeOK
<1> QED
  BY <1>1, NextTypeOK, PTL DEF Spec

-----------------------------------------------------------------------------

\* The locks do what they are there for, step by step.
LEMMA NextLocksInv ==
    ASSUME TypeOK, LocksInv, [Next]_vars
    PROVE  LocksInv'
<1> USE SettingsConstants
    DEF TypeOK, LocksInv, LockInv, TogetherInv, OpenedInv, ConfigInv, DownInv,
        Setting, Updating, Writing, None
<1>1. ASSUME NEW c \in Clients, NEW s \in Settings, UpdateSettings(c, s)
      PROVE  LocksInv'
  <2>1. LockInv' /\ ConfigInv' /\ DownInv'
    BY <1>1 DEF UpdateSettings, Begin
  <2>2. TogetherInv' /\ OpenedInv'
    BY <1>1 DEF UpdateSettings, Begin, Harm
  <2> QED
    BY <2>1, <2>2
<1>2. ASSUME NEW c \in Clients, NEW s \in Splits, SetSplitTunneling(c, s)
      PROVE  LocksInv'
  <2>1. harm \ {"order", "apply"} \subseteq harm'
    BY <1>2 DEF SetSplitTunneling, Order
  <2> QED
    BY <1>2, <2>1 DEF SetSplitTunneling, Begin
<1>10. ASSUME NEW c \in Clients, ConnectTunnel(c) PROVE LocksInv'
  BY <1>10 DEF ConnectTunnel, Begin
<1>11. ASSUME NEW c \in Clients, Reapply(c) PROVE LocksInv'
  BY <1>11 DEF Reapply, Reply
<1>3. ASSUME NEW c \in Clients, SetConfig(c) PROVE LocksInv'
  BY <1>3 DEF SetConfig, Goto, Settings
<1>4. ASSUME NEW c \in Clients, Open(c) PROVE LocksInv'
  BY <1>4 DEF Open, Goto
<1>5. ASSUME NEW c \in Clients, OpenFails(c) PROVE LocksInv'
  BY <1>5 DEF OpenFails, Reply, Harm
<1>6. ASSUME NEW c \in Clients, Writing(c), Reply(c), harm \subseteq harm',
             UNCHANGED <<config, up>>
      PROVE  LocksInv'
  BY <1>6 DEF Reply
<1>7. CASE Crash
  BY <1>7 DEF Crash
<1>8. CASE Start
  <2>1. harm \subseteq harm' /\ UNCHANGED <<pc, arg, file>>
    BY <1>8 DEF Start, Harm
  <2>2. \A c \in Clients : ~Setting(c)
    BY <1>8 DEF Start
  <2> QED
    BY <1>8, <2>1, <2>2 DEF Start
<1>9. CASE UNCHANGED vars
  BY <1>9 DEF vars
<1> QED
  BY <1>1, <1>2, <1>3, <1>4, <1>5, <1>6, <1>7, <1>8, <1>9, <1>10, <1>11
  DEF Next, ClientStep, Refused, Write, WriteFails, Harm

\* In every reachable state the locks have done it.
THEOREM LocksHold == Spec => []LocksInv
<1>1. Init => LocksInv
  BY SettingsConstants
  DEF Init, LocksInv, LockInv, TogetherInv, OpenedInv, ConfigInv, DownInv,
      Setting, Updating
<1>2. TypeOK /\ LocksInv /\ [Next]_vars => LocksInv'
  BY NextLocksInv
<1> QED
  BY <1>1, <1>2, TypeCorrect, PTL DEF Spec

\* What a client writes that has the file to itself.
LEMMA WriteAlone ==
    ASSUME TypeOK, LocksInv, NEW c \in Clients, Write(c),
           pc[c] = "setWrite" \/ None({"together"})
    PROVE  file' = Whole(Text(c))
<1>1. file = Empty
  BY DEF LocksInv, OpenedInv, Write, Writing
<1>2. Text(c) \in Settings
  BY DEF TypeOK, Text
<1> QED
  BY <1>1, <1>2, WrittenIntoEmpty DEF Write

\* SetSplitTunneling has the file to itself, so it leaves there what is in
\* memory, however the requests of other clients fall.
THEOREM SetSavesWhatItSet == Spec => SetSavesConfig
<1> DEFINE Saves == \A c \in Clients :
                       pc[c] = "setWrite" /\ Write(c) => file' = Whole(config')
<1>1. TypeOK /\ LocksInv => [Saves]_vars
  <2>1. ASSUME TypeOK, LocksInv, NEW c \in Clients, pc[c] = "setWrite", Write(c)
        PROVE  file' = Whole(config')
    BY <2>1, WriteAlone DEF Text, Updating, Write
  <2> QED
    BY <2>1
<1> QED
  BY <1>1, TypeCorrect, LocksHold, PTL DEF SetSavesConfig

-----------------------------------------------------------------------------

\* A step that leaves the file alone, or leaves a readable one, or is on
\* record as a failure.
LEMMA NextLoadable ==
    ASSUME TypeOK, LocksInv, CrashLeavesLoadable, [Next]_vars
    PROVE  CrashLeavesLoadable'
<1> USE DEF CrashLeavesLoadable, None
<1>1. ASSUME NEW c \in Clients, Write(c) PROVE CrashLeavesLoadable'
  BY <1>1, WriteAlone DEF Whole, Reads, Write
<1>2. ASSUME NEW c \in Clients, Open(c) PROVE CrashLeavesLoadable'
  BY <1>2 DEF Open, Empty, Reads
<1>3. ASSUME NEW c \in Clients, OpenFails(c) \/ WriteFails(c)
      PROVE  CrashLeavesLoadable'
  BY <1>3 DEF OpenFails, WriteFails, Harm
<1>4. ASSUME UNCHANGED file, harm \ {"order", "apply"} \subseteq harm'
      PROVE  CrashLeavesLoadable'
  BY <1>4
<1> QED
  BY <1>1, <1>2, <1>3, <1>4
  DEF Next, ClientStep, UpdateSettings, SetSplitTunneling, ConnectTunnel, Reapply,
      SetConfig, Crash, Start, Refused, Harm, Order, vars

\* However often the daemon dies, and wherever, it finds a settings file that
\* it can start from, unless the disk was full or two updates overlapped.
THEOREM CrashNeverBlocksStart == Spec => []CrashLeavesLoadable
<1>1. Init => CrashLeavesLoadable
  BY DEF Init, CrashLeavesLoadable, Empty, Whole, Reads
<1> QED
  BY <1>1, NextLoadable, TypeCorrect, LocksHold, PTL DEF Spec

\* The induction step of AnsweredSurvives.
LEMMA NextAnswered ==
    ASSUME TypeOK, LocksInv, AnsweredIsKept, [Next]_vars
    PROVE  AnsweredIsKept'
<1> USE DEF AnsweredIsKept, None, Writing
<1>1. ASSUME NEW c \in Clients, Write(c) PROVE AnsweredIsKept'
  <2>1. None({"together"}) => file'.as = Text(c)
    BY <1>1, WriteAlone DEF Whole, Reads
  <2>2. Text(c).split = last'.split
    BY <1>1 DEF Write, Text, TypeOK, LocksInv, ConfigInv, Setting, Updating, Settings
  <2> QED
    BY <1>1, <2>1, <2>2 DEF Write
<1>2. ASSUME NEW c \in Clients, Open(c) PROVE AnsweredIsKept'
  BY <1>2 DEF Open, Goto, TypeOK
<1>3. ASSUME NEW c \in Clients, OpenFails(c) \/ WriteFails(c)
      PROVE  AnsweredIsKept'
  BY <1>3 DEF OpenFails, WriteFails, Harm
<1>4. CASE Crash
  BY <1>4 DEF Crash
<1>5. ASSUME UNCHANGED <<file, last>>, harm \ {"order", "apply"} \subseteq harm',
             \A d \in Clients : Writing(d) => Writing(d)'
      PROVE  AnsweredIsKept'
  BY <1>5
<1>6. ASSUME NEW c \in Clients, NEW s \in Settings, UpdateSettings(c, s)
      PROVE  AnsweredIsKept'
  BY <1>5, <1>6 DEF UpdateSettings, Begin, Harm, TypeOK
<1>7. ASSUME NEW c \in Clients, NEW s \in Splits, SetSplitTunneling(c, s)
      PROVE  AnsweredIsKept'
  BY <1>5, <1>7 DEF SetSplitTunneling, Begin, Order, TypeOK
<1>11. ASSUME NEW c \in Clients, ConnectTunnel(c) \/ Reapply(c) PROVE AnsweredIsKept'
  BY <1>5, <1>11 DEF ConnectTunnel, Reapply, Begin, Reply, TypeOK
<1>8. ASSUME NEW c \in Clients, SetConfig(c) PROVE AnsweredIsKept'
  BY <1>5, <1>8 DEF SetConfig, Goto, TypeOK
<1>9. CASE Start
  BY <1>5, <1>9 DEF Start, Harm
<1>10. CASE UNCHANGED vars
  BY <1>5, <1>10 DEF vars
<1> QED
  BY <1>1, <1>2, <1>3, <1>4, <1>6, <1>7, <1>8, <1>9, <1>10, <1>11
  DEF Next, ClientStep, Refused

\* What clients were told is saved of the split-tunnelling settings survives
\* every crash that does not cut a save in two.
THEOREM AnsweredSurvives == Spec => []AnsweredIsKept
<1>1. Init => AnsweredIsKept
  BY DEF Init, AnsweredIsKept
<1> QED
  BY <1>1, NextAnswered, TypeCorrect, LocksHold, PTL DEF Spec

-----------------------------------------------------------------------------

\* Settings that are enabled stand for themselves, the others for none.
Enabled(s) == IF s \in On THEN s ELSE DefaultSplit

\* Two SetSplitTunneling between applying and remembering are on record.
OrderInv ==
    None({"order"}) => \A c, d \in Clients : pc[c] = "setLock" /\ pc[d] = "setLock" => c = d

\* What is in force is what is remembered, or what somebody is about to remember;
\* and it is what a connect is about to apply again.
InForceInv ==
    up /\ None({"order", "apply"}) =>
        /\ \A c \in Clients : pc[c] \in {"setLock", "reapply"} => inForce = arg[c].split
        /\ (\A c \in Clients : pc[c] # "setLock") => Enabled(inForce) = Enabled(config.split)

\* The induction step of EnabledRemembered.
LEMMA NextInForce ==
    ASSUME TypeOK, LocksInv, OrderInv, InForceInv, [Next]_vars
    PROVE  OrderInv' /\ InForceInv'
<1> USE SettingsConstants DEF TypeOK, Settings, OrderInv, InForceInv, Enabled, None
<1>1. ASSUME NEW c \in Clients, NEW s \in Settings, UpdateSettings(c, s)
      PROVE  OrderInv' /\ InForceInv'
  BY <1>1 DEF UpdateSettings, Begin, Harm
<1>2. ASSUME NEW c \in Clients, NEW s \in Splits, SetSplitTunneling(c, s)
      PROVE  OrderInv' /\ InForceInv'
  <2>1. /\ pc' = [pc EXCEPT ![c] = "setLock"] /\ inForce' = s /\ UNCHANGED <<up, config>>
        /\ arg' = [arg EXCEPT ![c] = [Default EXCEPT !.split = s]]
    BY <1>2 DEF SetSplitTunneling, Begin
  <2>2. arg'[c].split = s
    BY <2>1, DefaultTyped
  <2>3. "order" \notin harm' => \A d \in Clients : pc[d] \notin {"setLock", "reapply"}
    BY <1>2 DEF SetSplitTunneling, Order
  <2>4. OrderInv'
    BY <2>1, <2>3
  <2>5. InForceInv'
    BY <2>1, <2>2, <2>3
  <2> QED
    BY <2>4, <2>5
<1>8. ASSUME NEW c \in Clients, ConnectTunnel(c) PROVE OrderInv' /\ InForceInv'
  <2>1. /\ pc[c] = "idle" /\ pc' = [pc EXCEPT ![c] = "reapply"]
        /\ arg' = [arg EXCEPT ![c] = [Default EXCEPT !.split = inForce]]
        /\ UNCHANGED <<up, config, inForce, harm>>
    BY <1>8 DEF ConnectTunnel, Begin
  <2>2. arg'[c].split = inForce
    BY <2>1, DefaultTyped
  <2> QED
    BY <2>1, <2>2
<1>9. ASSUME NEW c \in Clients, Reapply(c) PROVE OrderInv' /\ InForceInv'
  <2>1. /\ pc[c] = "reapply" /\ pc'[c] = "idle"
        /\ \A d \in Clients \ {c} : pc'[d] = pc[d] /\ arg'[d] = arg[d]
        /\ inForce' \in {inForce, arg[c].split} /\ UNCHANGED <<up, config, harm>>
    BY <1>9 DEF Reapply, Reply
  <2>2. ASSUME up, None({"order", "apply"}) PROVE inForce' = inForce
    <3>1. \A d \in Clients : pc[d] \in {"setLock", "reapply"} => inForce = arg[d].split
      BY <2>2
    <3> QED
      BY <2>1, <3>1
  <2>3. \A d \in Clients : pc'[d] # "idle" => pc'[d] = pc[d] /\ arg'[d] = arg[d]
    BY <2>1
  <2>4. (\A d \in Clients : pc'[d] # "setLock") => \A d \in Clients : pc[d] # "setLock"
    BY <2>1
  <2>5. OrderInv'
    BY <2>1, <2>3
  <2>6. InForceInv'
    BY <2>1, <2>2, <2>3, <2>4
  <2> QED
    BY <2>5, <2>6
<1>3. ASSUME NEW c \in Clients, SetConfig(c) PROVE OrderInv' /\ InForceInv'
  BY <1>3 DEF SetConfig, Goto
<1>4. ASSUME NEW c \in Clients, Open(c) \/ OpenFails(c) \/ Write(c) \/ WriteFails(c)
      PROVE  OrderInv' /\ InForceInv'
  <2>1. /\ pc[c] # "setLock" /\ pc'[c] # "setLock" /\ harm \subseteq harm'
        /\ \A d \in Clients \ {c} : pc'[d] = pc[d] /\ arg'[d] = arg[d]
        /\ UNCHANGED <<up, config, inForce>>
    BY <1>4 DEF Open, OpenFails, Write, WriteFails, Writing, Goto, Reply, Harm
  <2>2. \A d \in Clients : pc'[d] \in {"setLock", "reapply"} =>
            pc'[d] = pc[d] /\ arg'[d] = arg[d]
    <3>1. pc'[c] # "reapply"
      BY <1>4 DEF Open, OpenFails, Write, WriteFails, Writing, Goto, Reply
    <3> QED
      BY <2>1, <3>1
  <2>3. (\A d \in Clients : pc'[d] # "setLock") => \A d \in Clients : pc[d] # "setLock"
    BY <2>1
  <2>4. OrderInv'
    BY <2>1, <2>2
  <2>5. InForceInv'
    BY <2>1, <2>2, <2>3
  <2> QED
    BY <2>4, <2>5
<1>5. CASE Crash
  BY <1>5 DEF Crash
<1>6. CASE Start
  BY <1>6 DEF Start, Harm, LocksInv, DownInv
<1>7. CASE UNCHANGED vars
  BY <1>7 DEF vars
<1> QED
  BY <1>1, <1>2, <1>3, <1>4, <1>5, <1>6, <1>7, <1>8, <1>9 DEF Next, ClientStep, Refused

\* While no request is at work enabled settings are in force just when they are
\* remembered, after every restart too, unless a SetSplitTunneling overlapped another
\* one or a connect that had read the settings in force (ipc.rs, on_tunnel_connected);
\* and the next SetSplitTunneling made alone sets that right.
THEOREM EnabledRemembered == Spec => []EnabledIsRemembered
<1>1. Init => OrderInv /\ InForceInv
  BY DEF Init, OrderInv, InForceInv
<1>2. InForceInv => EnabledIsRemembered
  BY DEF InForceInv, EnabledIsRemembered, Enabled
<1> QED
  BY <1>1, <1>2, NextInForce, TypeCorrect, LocksHold, PTL DEF Spec

=============================================================================
