------------------------------ MODULE Installer ------------------------------
(***************************************************************************)
(* The installer and manager script (install.sh) on one host: the binary,  *)
(* the configuration and its backups, the systemd unit and the process,    *)
(* while commands are run one after the other.  A command may fail, be     *)
(* interrupted between two steps (and run again), or be overtaken by a     *)
(* crash of the node or a reboot.                                          *)
(*                                                                         *)
(* From the command line the script runs under "set -e"; from the menu it  *)
(* does not, for run_menu_action is the condition of an if.  systemd is    *)
(* there and KNODE_SYSTEMD is not 0.                                       *)
(***************************************************************************)
EXTENDS Naturals, FiniteSets

CONSTANTS
    Versions,      \* releases, by their tag
    Owned,         \* configurations a person may write
    WithKboard,    \* the configurations that have a "kboard" key
    Accepts,       \* <<v, c>>: "knode check" of release v accepts c
    MaxCommands,   \* bound on the commands run
    MaxBoots,      \* bound on the reboots
    MaxReleases    \* bound on the changes of the latest release

Written  == {"env", "env-kboard"}            \* write_env_config
Contents == Owned \cup Written \cup {"sample", "broken"}
Absent   == "none"

ASSUME InstallerAssumption ==
    /\ Versions # {} /\ Absent \notin Versions /\ "partial" \notin Versions
    /\ Absent \notin Owned /\ Owned \cap (Written \cup {"sample", "broken"}) = {}
    /\ WithKboard \cap (Contents \ Owned) = {"env-kboard"}
    /\ Accepts \subseteq Versions \X (Owned \cup Written)
    /\ MaxCommands \in Nat /\ MaxBoots \in Nat /\ MaxReleases \in Nat

VARIABLES
    bin,        \* BIN_PATH: a release, a copy cut short, or absent
    config,     \* CONFIG_PATH
    backups,    \* CONFIG_PATH.bak.<second>
    second,     \* the second of the last backup
    unit,       \* SERVICE_PATH exists and is loaded
    enabled,    \* the unit is enabled
    wanted,     \* systemd has the unit started, or keeps restarting it
    process,    \* what runs: the release and the configuration it read
    cmd, pc,    \* the command and the function it is in
    menu,       \* it was chosen in the menu
    env,        \* which variables it was given
    target,     \* the release being installed
    latest,     \* the latest release
    left,       \* commands, reboots and releases that may still come
    own,        \* history: the last configuration a person has saved
    unsaved     \* history: the menu has gone on after a backup that failed

files   == <<bin, config, backups, second, own>>
systemd == <<unit, enabled, wanted, process>>
script  == <<cmd, menu, env, target, unsaved>>
world   == <<latest, left>>
vars    == <<files, systemd, script, pc, world>>
-----------------------------------------------------------------------------
Commands == {"install", "upgrade", "start", "restart", "enable", "stop",
             "disable", "uninstall", "gen-config", "edit"}
Places   == {"idle", "compare", "download", "place", "copy", "service", "config",
             "backup", "write", "written", "init", "unit", "activate", "act",
             "remove", "ask", "open", "editing", "edited", "done"}

NoEnv     == [kless |-> FALSE, kboard |-> FALSE]
NoProcess == [version |-> Absent, config |-> Absent]

Working(b) == b \in Versions

\* config_ready: the file is there and the installed binary accepts it.
Ready == Working(bin) /\ <<bin, config>> \in Accepts

\* What systemd gets when it starts the unit.
Started == IF Ready THEN [version |-> bin, config |-> config] ELSE NoProcess

\* A host without Knode, or one on which a node runs as a person set it up.
Init ==
    /\ latest \in Versions
    /\ \/ /\ bin = Absent /\ config = Absent /\ own = Absent
          /\ unit = FALSE /\ enabled = FALSE /\ wanted = FALSE
          /\ process = NoProcess
       \/ /\ bin = latest /\ config \in Owned /\ Ready /\ own = config
          /\ unit = TRUE /\ enabled = TRUE /\ wanted = TRUE
          /\ process = Started
    /\ backups = {} /\ second = 0
    /\ cmd = "none" /\ pc = "idle" /\ menu = FALSE
    /\ env = NoEnv /\ target = Absent /\ unsaved = FALSE
    /\ left = [commands |-> MaxCommands, boots |-> MaxBoots, releases |-> MaxReleases]
-----------------------------------------------------------------------------
(* Commands begin and end *)

Entry(c) ==
    CASE c = "install" -> "download"
      [] c = "upgrade" -> "compare"
      [] c = "gen-config" -> "ask"
      [] c = "edit" -> "open"
      [] c \in {"start", "restart", "enable"} -> IF unit THEN "act" ELSE "unit"
      [] OTHER -> "act"

\* The commands that may write a configuration, which look at the variables.
Writers == {"install", "upgrade", "gen-config"}

Begin(c) ==
    /\ pc = "idle"
    /\ left.commands > 0
    /\ left' = [left EXCEPT !.commands = @ - 1]
    /\ cmd' = c
    /\ menu' \in BOOLEAN
    /\ env' \in IF c \in Writers THEN [kless : BOOLEAN, kboard : BOOLEAN] ELSE {NoEnv}
    /\ pc' = Entry(c)
    /\ UNCHANGED <<files, systemd, target, unsaved, latest>>

\* The script is gone, with its variables.
Leaves ==
    /\ pc' = "idle" /\ cmd' = "none" /\ menu' = FALSE /\ env' = NoEnv
    /\ target' = Absent /\ unsaved' = FALSE

\* The command was successful.
End == pc = "done" /\ Leaves /\ UNCHANGED <<files, systemd, world>>

\* die, a command that fails under "set -e", Ctrl-C, a lost connection: the
\* command ends where it is.
Abandon ==
    /\ pc \notin {"idle", "done"}
    /\ Leaves
    /\ UNCHANGED <<files, systemd, world>>

Goes(from, to) == pc = from /\ pc' = to
-----------------------------------------------------------------------------
(* install_binary *)

\* Mutant: an upgrade to the release that is installed already does nothing.
CompareOnly ==
    /\ pc = "compare"
    /\ \/ ~Working(bin) /\ cmd' = "install" /\ pc' = "download"
       \/ Working(bin) /\ pc' = "download" /\ UNCHANGED cmd
       \/ Working(bin) /\ bin = latest /\ pc' = "done" /\ UNCHANGED cmd
    /\ UNCHANGED <<files, systemd, menu, env, target, unsaved, world>>

\* do_upgrade: nothing to download when the tag is known and installed; an
\* unknown tag means the latest release.
Compare ==
    /\ pc = "compare"
    /\ \/ ~Working(bin) /\ cmd' = "install" /\ pc' = "download"
       \/ Working(bin) /\ pc' = "download" /\ UNCHANGED cmd
       \/ Working(bin) /\ bin = latest /\ pc' = "service" /\ UNCHANGED cmd
    /\ UNCHANGED <<files, systemd, menu, env, target, unsaved, world>>

\* The archive and its digest are there and agree; otherwise die (Abandon).
\* KNODE_VERSION may name the release to install.
Download ==
    /\ Goes("download", "place")
    /\ target' \in IF cmd = "install" THEN Versions ELSE {latest}
    /\ UNCHANGED <<files, systemd, cmd, menu, env, unsaved, world>>

AfterBinary == IF cmd = "install" THEN "config" ELSE "service"

\* install -m 0755: the old file is unlinked, the new one not yet executable;
\* or nothing was extracted that could be installed, and the menu goes on.
Place ==
    /\ \/ Goes("place", "copy") /\ bin' = "partial"
       \/ menu /\ Goes("place", AfterBinary) /\ UNCHANGED bin
    /\ UNCHANGED <<config, backups, second, own, systemd, script, world>>

\* The copy is complete, or it failed and the menu goes on regardless.
Copy ==
    /\ Goes("copy", AfterBinary)
    /\ \/ bin' = target
       \/ menu /\ UNCHANGED bin
    /\ UNCHANGED <<config, backups, second, own, systemd, script, world>>

\* Mutant: the new binary is not asked about the configuration.
ServiceUnchecked ==
    /\ Goes("service", IF unit THEN "activate" ELSE "config")
    /\ wanted' = unit
    /\ process' = IF unit THEN Started ELSE process
    /\ UNCHANGED <<files, unit, enabled, script, world>>

\* The rest of do_upgrade: no unit yet, or a configuration to restart with.
Service ==
    /\ pc = "service"
    /\ pc' = IF ~unit THEN "config" ELSE IF Ready THEN "activate" ELSE "done"
    /\ UNCHANGED <<files, systemd, script, world>>
-----------------------------------------------------------------------------
(* ensure_config, do_generate_config, do_edit_config *)

\* Mutant: no test whether there is a file to back up.
DecisionUntested ==
    IF Ready
         THEN IF env.kboard /\ config \notin WithKboard THEN "backup" ELSE "unit"
         ELSE IF env.kless THEN "backup" ELSE "unit"

\* What ensure_config does with the configuration it finds.
Decision ==
    IF config = Absent THEN "write"
    ELSE IF Ready
         THEN IF env.kboard /\ config \notin WithKboard THEN "backup" ELSE "unit"
         ELSE IF env.kless THEN "backup" ELSE "unit"

EnsureConfig ==
    /\ Goes("config", Decision)
    /\ UNCHANGED <<files, systemd, script, world>>

\* Mutant: the backup is skipped.
BackupSkipped ==
    /\ Goes("backup", "write")
    /\ UNCHANGED <<files, systemd, script, world>>

\* cp to a name with the current second: a second backup within the same
\* second replaces the first one.
BackedUp(content) ==
    /\ second' \in {second, second + 1}
    /\ backups' = {b \in backups : b.at # second'}
                    \cup {[at |-> second', content |-> content]}

Backup ==
    /\ Goes("backup", "write")
    /\ BackedUp(config)
    /\ UNCHANGED <<bin, config, own, systemd, script, world>>

\* No file, or one cut short (a full disk): "set -e" ends the script, and the
\* menu goes on to overwrite the configuration.
BackupFails ==
    /\ pc = "backup"
    /\ BackedUp("broken") \/ UNCHANGED <<backups, second>>
    /\ \/ Leaves
       \/ menu /\ pc' = "write" /\ unsaved' = TRUE /\ UNCHANGED <<cmd, menu, env, target>>
    /\ UNCHANGED <<bin, config, own, systemd, world>>

AfterConfig == IF cmd = "gen-config" THEN "done" ELSE "unit"

\* write_env_config has what it needs: cat truncates the file ...
WriteBegins ==
    /\ env.kless
    /\ Goes("write", "written")
    /\ config' = "broken"
    /\ UNCHANGED <<bin, backups, second, own, systemd, script, world>>

\* ... and fills it.  A die in one of the substitutions of the here-document
\* ends a subshell only: the file lacks a part, and the script goes on.
WriteEnds ==
    /\ Goes("written", AfterConfig)
    /\ config' \in {"broken", IF env.kboard THEN "env-kboard" ELSE "env"}
    /\ UNCHANGED <<bin, backups, second, own, systemd, script, world>>

\* write_env_config returns 1.  As a condition that leads to "knode init"; as
\* a plain command it ends the script (Abandon), but not the menu.
WriteImpossible ==
    /\ pc = "write"
    /\ ~env.kless
    /\ \/ (cmd = "gen-config" \/ config = Absent) /\ pc' = "init"
       \/ cmd # "gen-config" /\ config # Absent /\ menu /\ pc' = "unit"
    /\ UNCHANGED <<files, systemd, script, world>>

\* "knode init" refuses a file that exists, which is no error here.
InitConfig ==
    /\ Goes("init", AfterConfig)
    /\ cmd = "gen-config" => Working(bin)
    /\ config' = IF Working(bin) /\ config = Absent THEN "sample" ELSE config
    /\ UNCHANGED <<bin, backups, second, own, systemd, script, world>>

\* do_generate_config asks before it overwrites.
Ask ==
    /\ pc = "ask"
    /\ pc' \in IF config = Absent THEN {"write"} ELSE {"backup", "done"}
    /\ UNCHANGED <<files, systemd, script, world>>

\* do_edit_config: a sample, or an empty file without a binary to write one.
Open ==
    /\ Goes("open", "editing")
    /\ config' = IF config # Absent THEN config
                 ELSE IF Working(bin) THEN "sample" ELSE "broken"
    /\ UNCHANGED <<bin, backups, second, own, systemd, script, world>>

\* The editor returns, with the file saved or as it was.
Save ==
    /\ Goes("editing", "edited")
    /\ \/ config' \in Owned /\ own' = config'
       \/ UNCHANGED <<config, own>>
    /\ UNCHANGED <<bin, backups, second, systemd, script, world>>

\* The person may agree to a restart if the configuration is ready.
Edited ==
    /\ pc = "edited"
    /\ pc' \in {"done"} \cup IF Ready /\ unit THEN {"activate"} ELSE {}
    /\ UNCHANGED <<files, systemd, script, world>>
-----------------------------------------------------------------------------
(* install_service, do_start, do_stop, ... *)

\* The unit is written, loaded and enabled.
InstallUnit ==
    /\ Goes("unit", "activate")
    /\ unit' = TRUE
    /\ enabled' = TRUE
    /\ UNCHANGED <<files, wanted, process, script, world>>

AfterUnit == IF cmd \in {"start", "restart", "enable"} THEN "act" ELSE "done"

\* systemctl restart, if the configuration is ready.
Activate ==
    /\ Goes("activate", AfterUnit)
    /\ wanted' = (wanted \/ Ready)
    /\ process' = IF Ready THEN Started ELSE process
    /\ UNCHANGED <<files, unit, enabled, script, world>>

Start ==
    /\ cmd \in {"start", "restart"}
    /\ Ready
    /\ Goes("act", "done")
    /\ wanted' = TRUE
    /\ process' = IF cmd = "start" /\ process # NoProcess THEN process ELSE Started
    /\ UNCHANGED <<files, unit, enabled, script, world>>

Stop ==
    /\ cmd = "stop"
    /\ unit
    /\ Goes("act", "done")
    /\ wanted' = FALSE
    /\ process' = NoProcess
    /\ UNCHANGED <<files, unit, enabled, script, world>>

Enable ==
    /\ cmd \in {"enable", "disable"}
    /\ unit
    /\ Goes("act", "done")
    /\ enabled' = (cmd = "enable")
    /\ UNCHANGED <<files, unit, wanted, process, script, world>>

\* do_uninstall: the unit with its process, then the binary; not the config.
RemoveUnit ==
    /\ cmd = "uninstall"
    /\ Goes("act", "remove")
    /\ unit' = FALSE
    /\ enabled' = FALSE
    /\ IF unit THEN wanted' = FALSE /\ process' = NoProcess
               ELSE UNCHANGED <<wanted, process>>
    /\ UNCHANGED <<files, script, world>>

RemoveBinary ==
    /\ Goes("remove", "done")
    /\ bin' = Absent
    /\ UNCHANGED <<config, backups, second, own, systemd, script, world>>
-----------------------------------------------------------------------------
(* The host *)

\* The node crashes; Restart=on-failure tries again every three seconds.
Crash ==
    /\ process # NoProcess
    /\ process' = NoProcess
    /\ UNCHANGED <<files, unit, enabled, wanted, script, pc, world>>

Respawn ==
    /\ wanted /\ process = NoProcess /\ Ready
    /\ process' = Started
    /\ UNCHANGED <<files, unit, enabled, wanted, script, pc, world>>

Reboot ==
    /\ left.boots > 0
    /\ left' = [left EXCEPT !.boots = @ - 1]
    /\ Leaves
    /\ wanted' = (unit /\ enabled)
    /\ process' = NoProcess
    /\ UNCHANGED <<files, unit, enabled, latest>>

Release ==
    /\ left.releases > 0
    /\ left' = [left EXCEPT !.releases = @ - 1]
    /\ latest' \in Versions \ {latest}
    /\ UNCHANGED <<files, systemd, script, pc>>

CommandStep ==
    \/ Compare \/ Download \/ Place \/ Copy \/ Service
    \/ EnsureConfig \/ Backup \/ BackupFails \/ WriteBegins \/ WriteEnds \/ WriteImpossible
    \/ InitConfig \/ Ask \/ Open \/ Save \/ Edited
    \/ InstallUnit \/ Activate \/ Start \/ Stop \/ Enable
    \/ RemoveUnit \/ RemoveBinary

Next ==
    \/ \E c \in Commands : Begin(c)
    \/ CommandStep \/ End \/ Abandon
    \/ Crash \/ Respawn \/ Reboot \/ Release

Spec == Init /\ [][Next]_vars
-----------------------------------------------------------------------------
(* Correctness *)

TypeOK ==
    /\ bin \in Versions \cup {Absent, "partial"}
    /\ config \in Contents \cup {Absent}
    /\ backups \subseteq [at : Nat, content : Contents]
    /\ second \in Nat
    /\ unit \in BOOLEAN /\ enabled \in BOOLEAN /\ wanted \in BOOLEAN
    /\ process = NoProcess \/ <<process.version, process.config>> \in Accepts
    /\ cmd \in Commands \cup {"none"} /\ pc \in Places /\ menu \in BOOLEAN
    /\ env \in [kless : BOOLEAN, kboard : BOOLEAN]
    /\ target \in Versions \cup {Absent} /\ latest \in Versions
    /\ pc \in {"place", "copy"} => target # Absent
    /\ own \in Owned \cup {Absent} /\ unsaved \in BOOLEAN
    /\ left \in [commands : Nat, boots : Nat, releases : Nat]

\* The last configuration that a person has saved, if any, is in place or in a
\* backup.
Kept == own = Absent \/ own = config \/ \E b \in backups : b.content = own

\* A second backup replaces the one that has it.
SameSecond ==
    /\ pc = "backup" /\ second' = second
    /\ \E b \in backups : b.at = second /\ b.content = own

\* What a person wrote survives every command, failed or interrupted anywhere,
\* an uninstallation included, in place or in a backup (install.sh:480-547,
\* 693-718, 877-887).  It is lost in two ways only: to a later backup within
\* the same second (482), and to the menu, which overwrites it after the backup
\* has failed (483, 500, 999).
ConfigIsKept ==
    [][Kept /\ ~Kept' => SameSecond \/ (pc = "write" /\ unsaved)]_vars

\* After a successful install, upgrade or restart with a ready configuration
\* the node runs, or is about to, as the files on disk say, also when an
\* earlier attempt was interrupted between the binary and the restart
\* (install.sh:554-591, 826-859).
ChangesTakeEffect ==
    pc = "done" /\ cmd \in {"install", "upgrade", "restart"} /\ Ready =>
        /\ wanted
        /\ process \in {NoProcess, [version |-> bin, config |-> config]}

\* No command takes a running node down but stop and uninstall: every restart
\* is with a configuration that the binary now on disk accepts, whatever a new
\* release rejects and whatever the script has rewritten (install.sh:583-590,
\* 720-744, 848-858).
NodeStaysUp ==
    [][process # NoProcess /\ process' = NoProcess /\ pc' # pc =>
            cmd \in {"stop", "uninstall"} \/ left'.boots # left.boots]_vars

\* "install keeps an existing configuration that passes the check" (README.md:
\* 117); ensure_config rewrites one without a "kboard" key when the Kboard
\* variables are set (install.sh:516-522).
InstallKeepsReadyConfig ==
    [][cmd = "install" /\ Ready => config' = config]_vars

\* "Back up and overwrite?" (install.sh:696), "backed up existing config" (484):
\* when a configuration is overwritten, a backup has what was in it.  From the
\* menu a cp that fails (483) is followed by both the message and the write.
OverwrittenIsBackedUp ==
    [][pc = "write" /\ config # Absent /\ config' # config =>
            \E b \in backups : b.content = config]_vars
=============================================================================
