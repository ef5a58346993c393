----------------------------- MODULE Deployment -----------------------------
(***************************************************************************)
(* vibegram on a server: the commands an administrator runs (init,         *)
(* install, service install, start, stop, upgrade), the files they write   *)
(* and the daemon systemd starts from them.                                *)
(*                                                                         *)
(* A command is a script of steps, each of which may fail; it may also be  *)
(* cut short between two of them.  Nothing is rolled back.  systemd does   *)
(* not wait for it: whatever a half-done command has left is what the next *)
(* start of the daemon finds.                                              *)
(*                                                                         *)
(* A release is a number, a configuration a value.  The work root, the     *)
(* PATH in the environment file, flags and prompts are left out.           *)
(***************************************************************************)
EXTENDS Naturals, Sequences

CONSTANTS
  Paths,        \* where copies of the program lie
  Versions,     \* releases
  Users,        \* accounts the service may run as
  Configs,      \* what install and init may be given
  Valid,        \* those LoadFromEnvFile accepts (numeric ids)
  NoUser, None, \* nobody's group; no file
  Torn,         \* a file of which only a part was written
  MaxTime,      \* bound: seconds
  MaxCommands   \* bound: commands run

ASSUME ValidAreConfigs == Valid \subseteq Configs
ASSUME BoundsAreNatural == MaxTime \in Nat /\ MaxCommands \in Nat

Units == [user : Users, exec : Paths]

ASSUME MarksAreDistinct ==
  /\ NoUser \notin Users
  /\ {None, Torn} \cap (Versions \cup Configs \cup Units) = {} /\ None # Torn

VARIABLES
  exe,       \* disk: the program at each path
  backups,   \* disk: [path, second, version] of each .bak- file
  env,       \* disk: the environment file: content, group, mode
  unitFile,  \* disk: the systemd unit: None, Torn or [user, exec]
  accounts,  \* system: accounts that exist
  loaded,    \* systemd: the unit as of the last daemon-reload
  enabled,   \* systemd: the unit starts at boot
  service,   \* systemd: "off", "starting", "running" or "waiting" to restart
  runs,      \* the daemon: the version and the configuration it runs with
  cmd,       \* the command: its arguments and the steps to do
  result,    \* how the last command ended
  now,       \* the clock, in seconds
  count,     \* commands begun
  held,      \* history: every version each path has held
  halfDone   \* history: an installation began and has not ended well

system == <<accounts, loaded, enabled, service, runs>>
files == <<exe, backups, env, unitFile>>
command == <<cmd, result, count>>
vars == <<files, system, command, now, held, halfDone>>

NoRun == [version |-> None, config |-> None]

Init ==
  /\ exe \in [Paths -> Versions] /\ backups = {}
  /\ env = [content |-> None, group |-> NoUser, mode |-> 0]
  /\ unitFile = None /\ accounts \in SUBSET Users
  /\ loaded = None /\ enabled = FALSE /\ service = "off" /\ runs = NoRun
  /\ cmd = [op |-> "none", todo |-> <<>>] /\ result = "none"
  /\ now = 0 /\ count = 0
  /\ held = [p \in Paths |-> {exe[p]}] /\ halfDone = FALSE

-----------------------------------------------------------------------------
(* The commands.                                                           *)

WriteEnv == <<"env_open", "env_write">>
InstallService == <<"env_stat", "account", "env_group", "env_mode",
                    "unit_open", "unit_write", "reload">>

(* Mutant: the service is restarted before the program is replaced.        *)
RestartsFirst == <<"backup_open", "backup_write", "restart", "replace", "status">>

Upgrade == <<"backup_open", "backup_write", "replace", "restart", "status">>

Script(op) ==
  CASE op = "init" -> WriteEnv
    [] op = "service_install" -> InstallService
    [] op = "install" -> WriteEnv \o InstallService \o <<"enable", "status">>
    [] op = "start" -> <<"enable">>
    [] op = "stop" -> <<"stop">>
    [] op = "upgrade" -> Upgrade

Installs(op) == op \in {"install", "service_install"}

Busy == cmd.todo # <<>>
At(step) == Busy /\ Head(cmd.todo) = step

(* A command is run from one of the copies, which is the one upgrade       *)
(* replaces and service install writes into the unit (os.Executable).      *)
Run(op, path, user, config, version) ==
  /\ ~Busy /\ count < MaxCommands /\ count' = count + 1
  /\ cmd' = [op |-> op, todo |-> Script(op), path |-> path, user |-> user,
             config |-> config, version |-> version,
             second |-> IF op = "upgrade" THEN now ELSE 0]
  /\ result' = "none"
  /\ halfDone' = (halfDone \/ Installs(op))
  /\ UNCHANGED <<files, system, now, held>>

RunInit(config) == Run("init", None, NoUser, config, None)
RunInstall(path, user, config) == Run("install", path, user, config, None)
RunServiceInstall(path, user) == Run("service_install", path, user, None, None)
RunStart == Run("start", None, NoUser, None, None)
RunStop == Run("stop", None, NoUser, None, None)

(* The release was downloaded and its checksum found right; otherwise      *)
(* nothing has been touched (verifyReleaseChecksum).                       *)
RunUpgrade(path, version) == Run("upgrade", path, NoUser, None, version)

(* The step is done; after the last one the command reports success.       *)
Done ==
  /\ cmd' = [cmd EXCEPT !.todo = Tail(@)]
  /\ result' = IF Len(cmd.todo) = 1 THEN "ok" ELSE result
  /\ halfDone' = IF Len(cmd.todo) = 1 /\ Installs(cmd.op) THEN FALSE ELSE halfDone
  /\ UNCHANGED count

Gives(how) ==
  /\ cmd' = [cmd EXCEPT !.todo = <<>>] /\ result' = how
  /\ UNCHANGED <<count, halfDone>>

(* A step fails without having done anything, or the terminal is gone.     *)
Fails == Busy /\ Gives("failed") /\ UNCHANGED <<files, system, now, held>>

-----------------------------------------------------------------------------
(* The environment file.  os.WriteFile empties it, then writes; only a     *)
(* file that it creates gets mode 600 and the group of root.               *)

EnvOpen ==
  /\ At("env_open") /\ Done
  /\ env' = IF env.content = None
              THEN [content |-> Torn, group |-> NoUser, mode |-> 600]
              ELSE [env EXCEPT !.content = Torn]
  /\ UNCHANGED <<exe, backups, unitFile, system, now, held>>

(* Mutant: the file is written beside the old one and renamed over it.     *)
EnvReplace ==
  /\ At("env_write") /\ Done
  /\ env' = [content |-> cmd.config, group |-> NoUser, mode |-> 600]
  /\ UNCHANGED <<exe, backups, unitFile, system, now, held>>

EnvWrite ==
  /\ At("env_write") /\ Done
  /\ env' = [env EXCEPT !.content = cmd.config]
  /\ UNCHANGED <<exe, backups, unitFile, system, now, held>>

(* installService goes on only with an environment file in place.          *)
EnvStat ==
  /\ At("env_stat")
  /\ IF env.content = None THEN Gives("failed") ELSE Done
  /\ UNCHANGED <<files, system, now, held>>

EnsureAccount ==
  /\ At("account") /\ Done
  /\ accounts' = accounts \cup {cmd.user}
  /\ UNCHANGED <<files, loaded, enabled, service, runs, now, held>>

EnvGroup ==
  /\ At("env_group") /\ Done
  /\ env' = [env EXCEPT !.group = cmd.user]
  /\ UNCHANGED <<exe, backups, unitFile, system, now, held>>

EnvMode ==
  /\ At("env_mode") /\ Done
  /\ env' = [env EXCEPT !.mode = 640]
  /\ UNCHANGED <<exe, backups, unitFile, system, now, held>>

-----------------------------------------------------------------------------
(* The unit.                                                               *)

UnitOpen ==
  /\ At("unit_open") /\ Done
  /\ unitFile' = Torn
  /\ UNCHANGED <<exe, backups, env, system, now, held>>

UnitWrite ==
  /\ At("unit_write") /\ Done
  /\ unitFile' = [user |-> cmd.user, exec |-> cmd.path]
  /\ UNCHANGED <<exe, backups, env, system, now, held>>

(* systemd takes no unit from a file cut short.                            *)
UnitOnDisk == IF unitFile = Torn THEN None ELSE unitFile

DaemonReload ==
  /\ At("reload") /\ Done
  /\ loaded' = UnitOnDisk
  /\ UNCHANGED <<files, accounts, enabled, service, runs, now, held>>

-----------------------------------------------------------------------------
(* systemctl.                                                              *)

(* enable --now starts a service that is off and leaves one that runs      *)
(* alone, whatever was installed meanwhile.                                *)
EnableNow ==
  /\ At("enable")
  /\ IF loaded = None
       THEN Gives("failed") /\ UNCHANGED <<enabled, service>>
       ELSE /\ Done /\ enabled' = TRUE
            /\ service' = IF service = "off" THEN "starting" ELSE service
  /\ UNCHANGED <<files, accounts, loaded, runs, now, held>>

Restart ==
  /\ At("restart")
  /\ IF loaded = None
       THEN Gives("failed") /\ UNCHANGED <<service, runs>>
       ELSE Done /\ service' = "starting" /\ runs' = NoRun
  /\ UNCHANGED <<files, accounts, loaded, enabled, now, held>>

Stop ==
  /\ At("stop") /\ Done
  /\ service' = "off" /\ runs' = NoRun
  /\ UNCHANGED <<files, accounts, loaded, enabled, now, held>>

(* status fails unless the service is active; one that was just forked is. *)
Status ==
  /\ At("status")
  /\ IF service \in {"starting", "running"} THEN Done ELSE Gives("failed")
  /\ UNCHANGED <<files, system, now, held>>

-----------------------------------------------------------------------------
(* The upgrade.                                                            *)

BackupOf(path, second) == {b \in backups : b.path = path /\ b.second = second}

(* Mutant: a backup of the same second is overwritten.                     *)
BackupReopen ==
  /\ At("backup_open") /\ Done
  /\ backups' = (backups \ BackupOf(cmd.path, cmd.second))
                \cup {[path |-> cmd.path, second |-> cmd.second, version |-> Torn]}
  /\ UNCHANGED <<exe, env, unitFile, system, now, held>>

(* O_EXCL: a backup of the same second stays, and the upgrade ends.        *)
BackupOpen ==
  /\ At("backup_open")
  /\ IF BackupOf(cmd.path, cmd.second) # {}
       THEN Gives("failed") /\ UNCHANGED backups
       ELSE /\ Done
            /\ backups' = backups \cup
                 {[path |-> cmd.path, second |-> cmd.second, version |-> Torn]}
  /\ UNCHANGED <<exe, env, unitFile, system, now, held>>

BackupWrite ==
  /\ At("backup_write") /\ Done
  /\ backups' = (backups \ BackupOf(cmd.path, cmd.second))
                \cup {[path |-> cmd.path, second |-> cmd.second, version |-> exe[cmd.path]]}
  /\ UNCHANGED <<exe, env, unitFile, system, now, held>>

(* Mutant: the program is written in place.                                *)
ReplaceInPlace ==
  /\ At("replace") /\ (Done \/ Gives("failed"))
  /\ exe' = [exe EXCEPT ![cmd.path] = IF result' = "failed" THEN Torn ELSE cmd.version]
  /\ held' = [held EXCEPT ![cmd.path] = @ \cup {cmd.version}]
  /\ UNCHANGED <<backups, env, unitFile, system, now>>

(* A whole temporary file is renamed over the program.                     *)
Replace ==
  /\ At("replace") /\ Done
  /\ exe' = [exe EXCEPT ![cmd.path] = cmd.version]
  /\ held' = [held EXCEPT ![cmd.path] = @ \cup {cmd.version}]
  /\ UNCHANGED <<backups, env, unitFile, system, now>>

-----------------------------------------------------------------------------
(* systemd and the daemon (Restart=on-failure).                            *)

CanRead(user) == env.content # None /\ env.group = user /\ env.mode = 640

(* What the daemon makes of the environment file: a part of one may hold   *)
(* the token and the chat id, which come first and are all it insists on.  *)
Loads(config) ==
  /\ CanRead(loaded.user)
  /\ config = env.content /\ config \in Valid \cup {Torn}

DaemonRuns ==
  /\ service = "starting" /\ loaded # None
  /\ \E config \in Valid \cup {Torn} :
       /\ Loads(config)
       /\ runs' = [version |-> exe[loaded.exec], config |-> config]
  /\ service' = "running"
  /\ UNCHANGED <<files, accounts, loaded, enabled, command, now, held, halfDone>>

(* The configuration is refused, or anything App.Run returns.              *)
DaemonFails ==
  /\ service \in {"starting", "running"}
  /\ service' = "waiting" /\ runs' = NoRun
  /\ UNCHANGED <<files, accounts, loaded, enabled, command, now, held, halfDone>>

AutoRestart ==
  /\ service = "waiting" /\ service' = "starting"
  /\ UNCHANGED <<files, accounts, loaded, enabled, runs, command, now, held, halfDone>>

Reboot ==
  /\ loaded' = UnitOnDisk
  /\ service' = IF enabled /\ loaded' # None THEN "starting" ELSE "off"
  /\ runs' = NoRun
  /\ cmd' = [cmd EXCEPT !.todo = <<>>]
  /\ result' = IF Busy THEN "failed" ELSE result
  /\ UNCHANGED <<files, accounts, enabled, count, now, held, halfDone>>

Tick ==
  /\ now < MaxTime /\ now' = now + 1
  /\ UNCHANGED <<files, system, command, held, halfDone>>

-----------------------------------------------------------------------------
Administrator ==
  \/ \E c \in Configs : RunInit(c)
  \/ \E p \in Paths, u \in Users : RunServiceInstall(p, u) \/ \E c \in Configs : RunInstall(p, u, c)
  \/ \E p \in Paths, v \in Versions : RunUpgrade(p, v)
  \/ RunStart \/ RunStop

Step ==
  \/ EnvOpen \/ EnvWrite \/ EnvStat \/ EnsureAccount \/ EnvGroup \/ EnvMode
  \/ UnitOpen \/ UnitWrite \/ DaemonReload
  \/ EnableNow \/ Restart \/ Stop \/ Status
  \/ BackupOpen \/ BackupWrite \/ Replace

Systemd == DaemonRuns \/ DaemonFails \/ AutoRestart \/ Reboot

Next == Administrator \/ Step \/ Fails \/ Systemd \/ Tick

Spec == Init /\ [][Next]_vars

-----------------------------------------------------------------------------
TypeOK ==
  /\ exe \in [Paths -> Versions]
  /\ backups \subseteq [path : Paths, second : 0 .. MaxTime, version : Versions \cup {Torn}]
  /\ env \in [content : Configs \cup {None, Torn}, group : Users \cup {NoUser},
              mode : {0, 600, 640}]
  /\ unitFile \in Units \cup {None, Torn} /\ loaded \in Units \cup {None}
  /\ accounts \subseteq Users /\ enabled \in BOOLEAN
  /\ service \in {"off", "starting", "running", "waiting"}
  /\ runs \in [version : Versions \cup {None}, config : Valid \cup {None, Torn}]
  /\ result \in {"none", "ok", "failed"}
  /\ now \in 0 .. MaxTime /\ count \in 0 .. MaxCommands
  /\ held \in [Paths -> SUBSET Versions] /\ halfDone \in BOOLEAN

(* Whatever an upgrade replaced can be put back: every version a path has  *)
(* held is there still or lies whole in a backup, also when upgrades       *)
(* follow each other within a second and when they are cut short           *)
(* (backupAndInstallExecutable).                                           *)
NoVersionIsLost ==
  \A p \in Paths : \A v \in held[p] :
    \/ exe[p] = v
    \/ \E b \in backups : b.path = p /\ b.version = v

(* An upgrade that reports success is what the service runs from then on,  *)
(* provided it replaced the copy the unit names (runUpgrade).              *)
UpgradeTakesEffect ==
  result = "ok" /\ cmd.op = "upgrade" /\ service = "running" /\ loaded.exec = cmd.path =>
    runs.version = cmd.version

(* Between installations the service's account can read the environment    *)
(* file, however often init rewrites it: only an installation that did not *)
(* end well can leave the daemon unable to start for that reason           *)
(* (ensureEnvFileAccess, writeEnvFile).                                    *)
InstalledServiceCanRead ==
  loaded # None /\ ~halfDone => loaded.user \in accounts /\ CanRead(loaded.user)
=============================================================================
