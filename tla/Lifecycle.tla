------------------------------ MODULE Lifecycle ------------------------------
(***************************************************************************)
(* The lifecycle program setup: what its commands do to the installed      *)
(* releases, the systemd unit, the configuration, the administration       *)
(* listener's certificate, the database and the backups, and to the        *)
(* service that runs from them.                                            *)
(*                                                                         *)
(* A command is a list of steps (Script); a step that the program checks   *)
(* may fail and is answered by the steps of Undo.  Any other failure ends  *)
(* the program where it is ("set -e"), as a kill or a power cut would:     *)
(* that is Die.  While a command runs, the service goes on: systemd may    *)
(* restart it and administrators may change its database.  The program     *)
(* takes no lock; one command at a time is assumed, and that a step of     *)
(* Undo does its work unless the program dies in it.                       *)
(*                                                                         *)
(* A configuration is reduced to the administration listener's address, a  *)
(* database to the set of changes it holds.  systemd, Node and the file    *)
(* system are external.                                                    *)
(***************************************************************************)
EXTENDS Integers, FiniteSets, Sequences

CONSTANTS Releases, Addresses, Loopback,
          Works,        \* the (release, address) pairs whose process comes up
          NoRelease, NoAddress, NoDb, NoBackup,
          MaxChanges,   \* bound: changes administrators make
          MaxBackups,   \* bound: different backups kept
          MaxFaults     \* bound: deaths of the program, or of the service under it

ASSUME WorksAssumption == Works \subseteq Releases \X Addresses
ASSUME LoopbackAssumption == Loopback \in Addresses
ASSUME BoundsAssumption == MaxChanges \in Nat

\* What is absent is not taken for something present.
ASSUME AbsentAssumption ==
    /\ NoRelease \notin Releases /\ NoAddress \notin Addresses
    /\ \A changes \in SUBSET (1..MaxChanges) : changes # NoDb

VARIABLES releases,     \* the complete release directories
          current,      \* the release that the link current names
          unit,         \* the release the installed unit file came from
          config, cert, \* the configured address; the one the certificate names
          db,           \* the changes in the database, or NoDb
          backups,      \* pairs of a configuration and a database
          proc,         \* the service as systemd last started it
          cmd,          \* the command that runs
          lastChange,   \* history: the changes made so far
          forfeited,    \* history: the changes an administrator gave up
          faults

files == <<releases, current, unit, config, cert, db, backups>>
vars == <<files, proc, cmd, lastChange, forfeited, faults>>

NoCommand == [name |-> "none", todo |-> <<>>, target |-> NoRelease, previous |-> NoRelease,
              wanted |-> NoAddress, saved |-> NoAddress, source |-> NoBackup,
              savedDb |-> NoDb, failed |-> "none", sound |-> FALSE, consistent |-> FALSE]

\* orphan: the database file was replaced under the running process
Stopped == [active |-> FALSE, release |-> NoRelease, config |-> NoAddress,
            cert |-> NoAddress, orphan |-> FALSE]

Init ==
    /\ releases = {} /\ current = NoRelease /\ unit = NoRelease
    /\ config = NoAddress /\ cert = NoAddress /\ db = NoDb /\ backups = {}
    /\ proc = Stopped /\ cmd = NoCommand
    /\ lastChange = 0 /\ forfeited = {} /\ faults = 0

-----------------------------------------------------------------------------
(* The service.                                                            *)

Running ==
    /\ proc.active
    /\ <<proc.release, proc.config>> \in Works
    /\ proc.config = Loopback \/ proc.cert # NoAddress

\* health_check asks the configured address and, over HTTPS, trusts only the
\* certificate file, which must name that address.
Healthy ==
    /\ Running
    /\ proc.config = config
    /\ config = Loopback \/ (proc.cert = cert /\ cert = config)

\* What runs is what is installed.
Consistent ==
    /\ unit \in {NoRelease, current}
    /\ proc.active => proc.release = current /\ proc.config = config

\* systemd starts what is on disk; a process that gets that far creates a
\* missing database.
Load ==
    /\ proc' = [active |-> TRUE, release |-> current, config |-> config,
                cert |-> IF config = Loopback THEN NoAddress ELSE cert, orphan |-> FALSE]
    /\ IF db # NoDb THEN db' = db
       ELSE IF Running' THEN db' = {} ELSE db' \in {NoDb, {}}

\* systemctl start and restart, which fail without a unit
Launch == IF unit = NoRelease THEN UNCHANGED <<proc, db>> ELSE Load

\* Restart=on-failure retries a service that does not come up, and an idle host
\* is booted or its service started by hand.
ServiceStarts ==
    /\ unit # NoRelease
    /\ (proc.active /\ ~Running) \/ cmd = NoCommand
    /\ Load
    /\ UNCHANGED <<releases, current, unit, config, cert, backups, cmd, lastChange,
                   forfeited, faults>>

\* The service crashes while a command runs, and is restarted.
ServiceCrashes ==
    /\ Running /\ cmd # NoCommand
    /\ faults < MaxFaults                                    \* bound
    /\ faults' = faults + 1
    /\ Load
    /\ UNCHANGED <<releases, current, unit, config, cert, backups, cmd, lastChange, forfeited>>

Upcoming == IF cmd.todo = <<>> THEN "end" ELSE Head(cmd.todo)

\* A restore whose backup is taken and whose service still runs, or whose
\* service runs already and may yet be undone.
Exposed == cmd.name = "restore" /\ Upcoming \in {"stop", "check", "config-back", "database-back"}

\* A change made through the administration page.  A process whose database
\* file was replaced goes on writing to the file that was removed.
Change ==
    LET c == lastChange + 1
    IN  /\ Running /\ db # NoDb
        /\ c <= MaxChanges                                   \* bound
        /\ db' = IF proc.orphan THEN db ELSE db \cup {c}
        /\ lastChange' = c
        /\ forfeited' = IF Exposed \/ proc.orphan THEN forfeited \cup {c} ELSE forfeited
        /\ UNCHANGED <<releases, current, unit, config, cert, backups, proc, cmd, faults>>

-----------------------------------------------------------------------------
(* The commands.                                                           *)

Body ==
    [install     |-> <<"release", "certificate", "configure", "unit", "start", "check">>,
     update      |-> <<"release", "unit", "restart", "check">>,
     rollback    |-> <<"link", "unit", "restart", "check">>,
     reconfigure |-> <<"certificate", "configure", "restart", "check">>,
     repair      |-> <<"unit", "start", "check">>,
     reset       |-> <<"stop", "reset", "start", "check">>,
     backup      |-> <<>>,
     restore     |-> <<"stop", "config", "database", "start", "check">>,
     uninstall   |-> <<"stop", "remove">>]

BacksUp == {"update", "rollback", "reset", "backup", "restore"}

\* Fault (mutation only): a restore begins without a backup of its own.
ScriptWithoutBackup(name) ==
    IF name \in BacksUp \ {"restore"} THEN <<"backup">> \o Body[name] ELSE Body[name]

Script(name) == IF name \in BacksUp THEN <<"backup">> \o Body[name] ELSE Body[name]

\* Fault (mutation only): the link is not set back.
UndoWithoutLink(name, step) ==
    IF name \in {"update", "rollback"} THEN <<"unit-back", "restart">>
    ELSE IF name \in {"reconfigure", "restore"} THEN <<"config-back", "restart">>
    ELSE <<>>

\* Fault (mutation only): the files are set back, the service is not restarted.
UndoWithoutRestart(name, step) ==
    IF name \in {"update", "rollback"} THEN <<"link-back", "unit-back">>
    ELSE IF name = "reconfigure" THEN <<"config-back">>
    ELSE IF name = "restore" THEN <<"config-back", "database-back">>
    ELSE <<>>

\* What follows the failure of a step.
Undo(name, step) ==
    CASE name = "update" /\ step = "unit" -> <<"link-back", "unit-back">>
      [] name = "update" /\ step = "check" -> <<"link-back", "unit-back", "restart">>
      [] name = "rollback" -> <<"link-back", "unit-back", "restart">>
      [] name = "reconfigure" /\ step = "check" -> <<"config-back", "restart">>
      [] name = "restore" -> <<"config-back", "database-back", "restart">>
      [] name = "reset" /\ step = "reset" -> <<"start">>
      [] OTHER -> <<>>

Begin(name, c) ==
    /\ cmd = NoCommand
    /\ cmd' = [c EXCEPT !.name = name, !.previous = current, !.saved = config,
                        !.todo = IF name = "install" /\ config # NoAddress
                                 THEN <<"release", "unit", "start", "check">>   \* initial_config
                                 ELSE Script(name),
                        !.sound = Healthy /\ proc.release = current,
                        !.consistent = Consistent]
    /\ UNCHANGED <<files, proc, lastChange, forfeited, faults>>

\* An installation that is complete is repaired instead.
Install(r, a) ==
    /\ current = NoRelease \/ config = NoAddress
    /\ r \notin releases
    /\ Begin("install", [NoCommand EXCEPT !.target = r, !.wanted = a])

Update(r) ==
    /\ current # NoRelease /\ r \notin releases
    /\ Begin("update", [NoCommand EXCEPT !.target = r])

Rollback(r) ==
    /\ current # NoRelease /\ r \in releases \ {current}
    /\ Begin("rollback", [NoCommand EXCEPT !.target = r])

Reconfigure(a) ==
    /\ current # NoRelease /\ config # NoAddress
    /\ Begin("reconfigure", [NoCommand EXCEPT !.wanted = a])

Repair == current # NoRelease /\ config # NoAddress /\ Begin("repair", NoCommand)

ResetAdmin == current # NoRelease /\ config # NoAddress /\ Begin("reset", NoCommand)

Backup == current # NoRelease /\ config # NoAddress /\ Begin("backup", NoCommand)

Restore(b) ==
    /\ current # NoRelease /\ config # NoAddress /\ b \in backups
    /\ Begin("restore", [NoCommand EXCEPT !.source = b])

Uninstall == Begin("uninstall", NoCommand)

-----------------------------------------------------------------------------
(* The steps.                                                              *)

Does(step) == Upcoming = step

Done == cmd' = [cmd EXCEPT !.todo = Tail(@)]

Fails(step) == cmd' = [cmd EXCEPT !.todo = Undo(cmd.name, step), !.failed = step]

Rest == <<lastChange, forfeited, faults>>

\* create_backup and backup.mjs: a consistent copy while the service runs.
MakeBackup ==
    /\ Does("backup") /\ config # NoAddress /\ db # NoDb
    /\ Cardinality(backups) < MaxBackups \/ [config |-> config, db |-> db] \in backups  \* bound
    /\ backups' = backups \cup {[config |-> config, db |-> db]}
    /\ cmd' = [cmd EXCEPT !.todo = Tail(@), !.savedDb = db]
    /\ UNCHANGED <<releases, current, unit, config, cert, db, proc, Rest>>

\* recover_interrupted_install_state, approved: the database was never created.
InitializeState ==
    /\ Does("backup") /\ cmd.name # "restore"
    /\ config # NoAddress /\ db = NoDb /\ ~Running /\ backups = {}
    /\ proc' = Stopped /\ db' = {}
    /\ UNCHANGED <<releases, current, unit, config, cert, backups, cmd, Rest>>

\* ... refused, or not approved, or there is no configuration.
NoState ==
    /\ Does("backup") /\ (config = NoAddress \/ db = NoDb)
    /\ cmd' = [cmd EXCEPT !.todo = <<>>, !.failed = "backup"]
    /\ UNCHANGED <<files, proc, Rest>>

\* install_release: copy, then switch the link in one rename.
PutRelease ==
    /\ Does("release")
    /\ releases' = releases \cup {cmd.target} /\ current' = cmd.target
    /\ Done
    /\ UNCHANGED <<unit, config, cert, db, backups, proc, Rest>>

Link ==
    /\ \/ Does("link") /\ current' = cmd.target
       \/ Does("link-back") /\ current' = cmd.previous
    /\ Done
    /\ UNCHANGED <<releases, unit, config, cert, db, backups, proc, Rest>>

PutUnit ==
    /\ Does("unit") \/ Does("unit-back")
    /\ unit' = current
    /\ Done
    /\ UNCHANGED <<releases, current, config, cert, db, backups, proc, Rest>>

\* install_unit fails before or after it copied the file.
UnitFails ==
    /\ Does("unit") /\ cmd.name \in {"update", "rollback"}
    /\ unit' \in {unit, current}
    /\ Fails("unit")
    /\ UNCHANGED <<releases, current, config, cert, db, backups, proc, Rest>>

Stop ==
    /\ Does("stop")
    /\ proc' = Stopped
    /\ Done
    /\ UNCHANGED <<files, Rest>>

\* systemctl start, or enable --now, leaves a service that is active alone.
Start ==
    /\ Does("start")
    /\ IF proc.active THEN UNCHANGED <<proc, db>> ELSE Launch
    /\ Done
    /\ UNCHANGED <<releases, current, unit, config, cert, backups, Rest>>

Restart ==
    /\ Does("restart")
    /\ Launch
    /\ Done
    /\ UNCHANGED <<releases, current, unit, config, cert, backups, Rest>>

CheckPasses ==
    /\ Does("check") /\ Healthy
    /\ Done
    /\ UNCHANGED <<files, proc, Rest>>

\* The service is not healthy, or too slow to show it.
CheckFails ==
    /\ Does("check")
    /\ Fails("check")
    /\ UNCHANGED <<files, proc, Rest>>

\* A private address that the certificate was not made for.
NewCertificate == cmd.wanted # Loopback /\ (cmd.saved \in {NoAddress, Loopback} \/ cmd.wanted # cmd.saved)

MakeCertificate ==
    /\ Does("certificate")
    /\ cert' = IF NewCertificate THEN cmd.wanted ELSE cert
    /\ Done
    /\ UNCHANGED <<releases, current, unit, config, db, backups, proc, Rest>>

Configure ==
    /\ \/ Does("configure") /\ config' = cmd.wanted
       \/ Does("config") /\ config' = cmd.source.config
       \/ Does("config-back") /\ config' = cmd.saved
    /\ Done
    /\ UNCHANGED <<releases, current, unit, cert, db, backups, proc, Rest>>

\* configure.mjs rejects what was entered.
ConfigureRejects ==
    /\ Does("configure")
    /\ Fails("configure")
    /\ UNCHANGED <<files, proc, Rest>>

PutDatabase ==
    /\ \/ Does("database") /\ db' = cmd.source.db
       \/ Does("database-back") /\ db' = cmd.savedDb
    /\ proc' = [proc EXCEPT !.orphan = proc.active]
    /\ Done
    /\ UNCHANGED <<releases, current, unit, config, cert, backups, Rest>>

\* reset-admin.mjs changes the account's row; it may fail after that.
Reset ==
    /\ Does("reset")
    /\ Done \/ Fails("reset")
    /\ UNCHANGED <<files, proc, Rest>>

Remove ==
    /\ Does("remove")
    /\ releases' = {} /\ current' = NoRelease /\ unit' = NoRelease
    /\ \E purge \in SUBSET {"config", "data", "backups"} :
          /\ config' = IF "config" \in purge THEN NoAddress ELSE config
          /\ cert' = IF "config" \in purge THEN NoAddress ELSE cert
          /\ db' = IF "data" \in purge THEN NoDb ELSE db
          /\ backups' = IF "backups" \in purge THEN {} ELSE backups
          /\ forfeited' = IF {"data", "backups"} \cap purge # {} THEN 1..lastChange
                          ELSE forfeited
    /\ Done
    /\ UNCHANGED <<proc, lastChange, faults>>

End ==
    /\ cmd # NoCommand /\ cmd.todo = <<>>
    /\ cmd' = NoCommand
    /\ UNCHANGED <<files, proc, Rest>>

\* An unchecked step fails, the program is killed, or the host goes down.
Die ==
    /\ cmd # NoCommand
    /\ faults < MaxFaults                                    \* bound
    /\ faults' = faults + 1
    /\ cmd' = NoCommand
    /\ UNCHANGED <<files, proc, lastChange, forfeited>>

BeginSome ==
    \/ \E r \in Releases : Update(r) \/ Rollback(r) \/ \E a \in Addresses : Install(r, a)
    \/ \E a \in Addresses : Reconfigure(a)
    \/ Repair \/ ResetAdmin \/ Backup \/ Uninstall
    \/ \E b \in backups : Restore(b)

Next ==
    \/ ServiceStarts \/ ServiceCrashes \/ Change
    \/ BeginSome \/ End \/ Die
    \/ MakeBackup \/ InitializeState \/ NoState
    \/ PutRelease \/ Link \/ PutUnit \/ UnitFails
    \/ Stop \/ Start \/ Restart \/ CheckPasses \/ CheckFails
    \/ MakeCertificate \/ Configure \/ ConfigureRejects \/ PutDatabase \/ Reset \/ Remove

Spec == Init /\ [][Next]_vars

-----------------------------------------------------------------------------
(* Properties.                                                             *)

Ended == cmd.name # "none" /\ cmd.todo = <<>>

\* A command that found the installed release running and healthy, and was not
\* cut short, leaves it healthy, whether it succeeded or failed: an update to a
\* release that does not come up, a restore of a configuration that this release
\* cannot serve, a service that crashes meanwhile.  The exceptions are a move from
\* one private address to another (FailedReconfigureRestores) and an update whose
\* unit does not install, which ends without the restart.
StaysHealthy ==
    Ended /\ cmd.sound /\ cmd.name # "uninstall"
          /\ ~(cmd.name = "reconfigure" /\ cmd.saved # Loopback /\ NewCertificate)
          /\ ~(cmd.name = "update" /\ cmd.failed = "unit")
    => Healthy

\* A command that fails puts back the link, the unit, the configuration and the
\* database, whichever of them it replaced.  The certificate is not among them
\* (FailedReconfigureRestores).
FailedReinstates ==
    Ended /\ cmd.failed \notin {"none", "backup"} =>
        /\ cmd.name \in {"update", "rollback"} => current = cmd.previous /\ unit = current
        /\ cmd.name \in {"reconfigure", "restore"} => config = cmd.saved
        /\ cmd.name = "restore" /\ cmd.failed = "check" => cmd.savedDb \subseteq db

\* No command, whether it succeeds or fails, and whatever systemd starts under
\* it, lets the process, the unit, the link and the configuration part.  The
\* exception is again an update whose unit does not install.
RunsInstalled ==
    Ended /\ cmd.consistent /\ ~(cmd.name = "update" /\ cmd.failed = "unit") => Consistent

\* Wherever a command is cut short, every change an administrator made is in the
\* database or in a backup.  The exceptions are changes that were purged, and
\* those made during a restore: between its backup and its stop of the service,
\* or after its start and before it is undone, which replaces the database file
\* under the running service.
NothingLost ==
    \A c \in (1..lastChange) \ forfeited :
        (db # NoDb /\ c \in db) \/ \E b \in backups : c \in b.db

\* docs/ADMIN_ACCESS.md: a failed restart or health check restores the previous
\* configuration.
FailedReconfigureRestores ==
    Ended /\ cmd.name = "reconfigure" /\ cmd.failed = "check" /\ cmd.sound => Healthy

\* docs/INSTALL.md: repair reapplies the unit, enablement, restart and health
\* check; after it the process is the installed release's.
RepairRestarts ==
    Ended /\ cmd.name = "repair" /\ cmd.failed = "none" => proc.release = current
=============================================================================
