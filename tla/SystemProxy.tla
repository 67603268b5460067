----------------------------- MODULE SystemProxy -----------------------------
(***************************************************************************)
(* The Windows system proxy as TorJet borrows it (start-tor.cs): the       *)
(* user's registry values are captured in memory and in a backup file,     *)
(* replaced by TorJet's own tunnel, and put back when the launcher stops.  *)
(* Launchers of both kinds can crash, in the middle of a change too; the   *)
(* backup may not be written or deleted and a registry write may throw,    *)
(* all of which the code swallows; and the user can edit the settings.     *)
(***************************************************************************)
EXTENDS Naturals, Sequences

CONSTANTS
  Launchers,      \* launcher processes, each may be started again and again
  UserServers,    \* ProxyServer values of the user
  Ours,           \* "127.0.0.1:8118", or a racer's HTTP port
  Empty,          \* the empty ProxyServer
  MaxEdits        \* bound: times the user changes the settings

ServersAssumption == Ours \notin UserServers /\ Empty \in UserServers

UserSettings == [on : BOOLEAN, server : UserServers]

VARIABLES
  registry,   \* ProxyEnable and ProxyServer (ProxyOverride goes with it)
  backup,     \* contents of ProxyBackupFile: at most one record
  running,    \* running[p]: "no", or the kind of launcher p is
  saved,      \* saved[p]: savedProxyOn and savedProxy
  todo,       \* todo[p]: what SetSystemProxy has still to write
  leaving,    \* leaving[p]: Cleanup runs and the process then ends
  edits,      \* times the user changed the settings
  crashed,    \* ghost: a launcher died, or could not write while leaving, and
              \* none has ended cleanly since
  turnedOn,   \* ghost, turnedOn[p]: p has switched the proxy on
  wanted,     \* ghost: the settings the user last chose
  unsaved,    \* ghost: the last SaveProxyBackup failed
  lost        \* ghost: the settings were lost in one of the ways Loses names

vars == <<registry, backup, running, saved, todo, leaving, edits, crashed,
          turnedOn, wanted, unsaved, lost>>

Nothing == [on |-> FALSE, server |-> Empty]

Init ==
  /\ wanted \in UserSettings
  /\ registry = wanted
  /\ backup = {}
  /\ running = [p \in Launchers |-> "no"]
  /\ saved = [p \in Launchers |-> Nothing]
  /\ todo = [p \in Launchers |-> <<>>]
  /\ leaving = [p \in Launchers |-> FALSE]
  /\ edits = 0
  /\ crashed = FALSE
  /\ turnedOn = [p \in Launchers |-> FALSE]
  /\ unsaved = FALSE /\ lost = FALSE

-----------------------------------------------------------------------------
ProxyIsOurs == registry.on /\ registry.server = Ours

Idle(p) == running[p] # "no" /\ todo[p] = <<>> /\ ~leaving[p]

\* Mutant: the backup is never read.
LoadNothing(p) == Nothing

\* LoadProxyBackup: the file is believed only while the registry is ours.
LoadProxyBackup(p) ==
  IF ProxyIsOurs /\ backup # {} THEN CHOOSE s \in backup : TRUE ELSE Nothing

\* MainCli begins with LoadProxyBackup; RunGui does not call it, so a window
\* that finds the proxy ours has nothing but empty settings to give back.
Start(p, kind) ==
  /\ running[p] = "no"
  /\ running' = [running EXCEPT ![p] = kind]
  /\ saved' = [saved EXCEPT
                 ![p] = IF kind = "cli" THEN LoadProxyBackup(p) ELSE Nothing]
  /\ turnedOn' = [turnedOn EXCEPT ![p] = FALSE]
  /\ lost' = (lost \/ (kind = "gui" /\ ProxyIsOurs))
  /\ UNCHANGED <<registry, backup, todo, leaving, edits, crashed, wanted,
                 unsaved>>

\* SaveProxyBackup: the file holds the settings; or the write failed, which is
\* swallowed: the old file stays, nothing that LoadProxyBackup believes is
\* there, or the file is cut before its last line, "enabled=".
SaveProxyBackup ==
  \/ backup' = {registry} /\ unsaved' = FALSE
  \/ /\ backup' \in {backup, {}, {[registry EXCEPT !.on = FALSE]}}
     /\ unsaved' = TRUE

\* SetSystemProxy(true): capture the settings unless they are ours, save them,
\* then write ours one value at a time, whether they were saved or not.
SetProxyOn(p) ==
  /\ Idle(p)
  /\ IF ProxyIsOurs
     THEN UNCHANGED <<saved, backup, unsaved>>
     ELSE saved' = [saved EXCEPT ![p] = registry] /\ SaveProxyBackup
  /\ turnedOn' = [turnedOn EXCEPT ![p] = TRUE]
  /\ todo' = [todo EXCEPT ![p] = <<"enable", "point">>]
  /\ UNCHANGED <<registry, running, leaving, edits, crashed, wanted, lost>>

\* What SetSystemProxy(false) will write: nothing unless the proxy is ours.
RestoreWrites ==
  IF ProxyIsOurs THEN <<"switch back", "point back", "drop backup">> ELSE <<>>

\* SetSystemProxy(false), from the P key, StopTor or StopPreviousRun.
SetProxyOff(p) ==
  /\ Idle(p) /\ ProxyIsOurs
  /\ todo' = [todo EXCEPT ![p] = RestoreWrites]
  /\ UNCHANGED <<registry, backup, running, saved, leaving, edits, crashed,
                 turnedOn, wanted, unsaved, lost>>

\* One registry write, and DeleteProxyBackup, which may fail, at the end.
Write(p) ==
  /\ todo[p] # <<>>
  /\ LET w == Head(todo[p]) IN
     /\ registry' = CASE w = "enable"      -> [registry EXCEPT !.on = TRUE]
                      [] w = "point"       -> [registry EXCEPT !.server = Ours]
                      [] w = "switch back" ->
                           [registry EXCEPT !.on = saved[p].on]
                      [] w = "point back"  ->
                           [registry EXCEPT !.server = saved[p].server]
                      [] OTHER             -> registry
     /\ backup' \in IF w = "drop backup" THEN {{}, backup} ELSE {backup}
  /\ todo' = [todo EXCEPT ![p] = Tail(@)]
  /\ UNCHANGED <<running, saved, leaving, edits, crashed, turnedOn, wanted,
                 unsaved, lost>>

\* Cleanup: ProcessExit in the console launcher (whatever the command was),
\* the end of RunGui in the other.
Cleanup(p) ==
  /\ Idle(p)
  /\ leaving' = [leaving EXCEPT ![p] = TRUE]
  /\ todo' = [todo EXCEPT ![p] = RestoreWrites]
  /\ UNCHANGED <<registry, backup, running, saved, edits, crashed, turnedOn,
                 wanted, unsaved, lost>>

Exit(p) ==
  /\ leaving[p] /\ todo[p] = <<>>
  /\ running' = [running EXCEPT ![p] = "no"]
  /\ leaving' = [leaving EXCEPT ![p] = FALSE]
  /\ crashed' = FALSE
  /\ UNCHANGED <<registry, backup, saved, todo, edits, turnedOn, wanted,
                 unsaved, lost>>

\* The two registry values are neither the user's nor recognised as ours.
Torn(p) ==
  /\ todo[p] # <<>> /\ Head(todo[p]) \in {"point", "point back"}
  /\ registry # wanted /\ ~ProxyIsOurs

\* What p leaves behind if it stops writing here, and ends if ends: values torn
\* between two writes, or settings that were in its memory only.
Loses(p, ends) == Torn(p) \/ (ends /\ unsaved /\ registry # wanted)

\* p stops writing; if it ends, nobody has given the settings back.
Abandon(p, ends) ==
  /\ todo' = [todo EXCEPT ![p] = <<>>]
  /\ running' = [running EXCEPT ![p] = IF ends THEN "no" ELSE @]
  /\ leaving' = [leaving EXCEPT ![p] = FALSE]
  /\ crashed' = (crashed \/ ends)
  /\ lost' = (lost \/ Loses(p, ends))
  /\ UNCHANGED <<registry, backup, saved, edits, turnedOn, wanted, unsaved>>

\* The launcher is killed, perhaps between two writes: no handler runs.
Crash(p) == running[p] # "no" /\ Abandon(p, TRUE)

\* SetValue throws: SetSystemProxy swallows it and leaves the rest unwritten;
\* a launcher that was leaving ends.
WriteFails(p) ==
  /\ todo[p] # <<>> /\ Head(todo[p]) # "drop backup"
  /\ Abandon(p, leaving[p])

\* The user changes the settings in Windows.
UserEdits(s) ==
  /\ edits < MaxEdits
  /\ \A p \in Launchers : todo[p] = <<>>
  /\ registry' = s /\ wanted' = s
  /\ edits' = edits + 1
  /\ lost' = FALSE
  /\ UNCHANGED <<backup, running, saved, todo, leaving, crashed, turnedOn,
                 unsaved>>

Next ==
  \/ \E p \in Launchers :
       \/ \E kind \in {"cli", "gui"} : Start(p, kind)
       \/ SetProxyOn(p) \/ SetProxyOff(p) \/ Write(p) \/ WriteFails(p)
       \/ Cleanup(p) \/ Exit(p) \/ Crash(p)
  \/ \E s \in UserSettings : UserEdits(s)

Spec == Init /\ [][Next]_vars

-----------------------------------------------------------------------------
(* Properties.                                                              *)

\* Once every launcher has ended, the last one cleanly, the user has the
\* settings chosen last, even if an earlier launcher died with the proxy on
\* and even if the user changed them meanwhile.
Restored ==
  (~crashed /\ \A p \in Launchers : running[p] = "no") => registry = wanted

\* While the registry holds anything TorJet wrote, the backup file holds the
\* user's settings; if SaveProxyBackup failed, a launcher that runs does.
BackupCovers ==
  registry # wanted =>
    \/ wanted \in backup
    \/ unsaved /\ \E p \in Launchers : running[p] # "no" /\ saved[p] = wanted

\* The user's settings survive crashes, failed writes and failed backups, and
\* SetSystemProxy(false) gives back the settings chosen last, unless they were
\* lost in one of three ways: a launcher stopped between two registry writes;
\* one ended, its proxy on, after SaveProxyBackup had failed; or the window was
\* opened, which does not read the backup, with the proxy left on.
SettingsKept == lost \/ (BackupCovers /\ Restored)

-----------------------------------------------------------------------------
\* What a comment, an assertion or a name in the source says and the code does
\* not keep (README, section "Departures"): TLC refutes each of these.

\* A crash cannot lose the user's settings ("so a crash mid-session cannot
\* lose them").
NeverLost == ~lost

\* A launcher that ends gives the proxy back only if it had switched it on,
\* or if no launcher that had is still running: MainCli recovers the settings
\* "if a previous run crashed".
RecoverOnlyAfterCrash ==
  [][\A p \in Launchers :
       (leaving'[p] /\ ~leaving[p] /\ todo'[p] # <<>>)
       => turnedOn[p] \/ \A q \in Launchers \ {p} :
                           running[q] = "no" \/ ~turnedOn[q]]_vars
=============================================================================
