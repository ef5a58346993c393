-------------------------- MODULE Deployment_proofs --------------------------
(***************************************************************************)
(* The safety properties of Deployment for any number of copies, releases, *)
(* accounts, configurations, commands and seconds.  A command that is cut  *)
(* short leaves its traces where they are, so the inductive invariant says *)
(* of every point of a script what has been done by then (Installing,      *)
(* Backing, Upgrading) and what holds between commands (Readable).         *)
(***************************************************************************)
EXTENDS Deployment, SequenceTheorems, TLAPS

USE DEF vars, files, system, command


-----------------------------------------------------------------------------
(* The inductive invariant.                                                *)

Left == Len(cmd.todo)

(* What a command is given fits what it does, and it has no result before  *)
(* its last step.                                                          *)
Ops == {"init", "service_install", "install", "start", "stop", "upgrade"}
Steps == {"env_open", "env_write", "env_stat", "account", "env_group", "env_mode", "unit_open",
          "unit_write", "reload", "enable", "stop", "status", "backup_open", "backup_write",
          "replace", "restart"}
Commands == [op : Ops, todo : Seq(Steps), path : Paths \cup {None}, user : Users \cup {NoUser},
             config : Configs \cup {None}, version : Versions \cup {None}, second : 0 .. MaxTime]

CommandOK ==
  /\ cmd \in Commands \/ cmd = [op |-> "none", todo |-> <<>>]
  /\ cmd.op \in {"init", "install"} => cmd.config \in Configs
  /\ Installs(cmd.op) => cmd.path \in Paths /\ cmd.user \in Users
  /\ cmd.op = "upgrade" => cmd.path \in Paths /\ cmd.version \in Versions
  /\ Busy => result = "none"

(* The steps to do are the last of the script.                             *)
Plan == Script(cmd.op)

OnScript ==
  Busy => /\ Left <= Len(Plan)
          /\ \A j \in 1 .. Left : cmd.todo[j] = Plan[Len(Plan) - Left + j]

(* What an installation has done by the time so many steps are left;       *)
(* install has two more steps than service install.                        *)
More == IF cmd.op = "install" THEN 2 ELSE 0

Installing ==
  Busy /\ Installs(cmd.op) =>
    /\ halfDone
    /\ Left < 7 + More => env.content # None
    /\ Left < 6 + More => cmd.user \in accounts
    /\ Left < 5 + More => env.group = cmd.user
    /\ Left < 4 + More => env.mode = 640
    /\ Left < 2 + More => unitFile = [user |-> cmd.user, exec |-> cmd.path]
    /\ Left < 1 + More => loaded = unitFile

(* Between installations the unit is whole, and the accounts of the unit   *)
(* on disk and of the one systemd knows can read the environment file.     *)
ReadableBy(unit) == unit # None => unit.user \in accounts /\ CanRead(unit.user)

Readable == ~halfDone => unitFile # Torn /\ ReadableBy(unitFile) /\ ReadableBy(loaded)

(* What an upgrade has done: its backup is there, torn and then whole, the *)
(* program replaced, the daemon restarted.                                 *)
Backing ==
  cmd.op = "upgrade" /\ Busy =>
    /\ Left = 4 => \A b \in BackupOf(cmd.path, cmd.second) : b.version = Torn
    /\ Left = 3 => \E b \in backups : b.path = cmd.path /\ b.version = exe[cmd.path]

Past(left) == (Busy /\ Left <= left) \/ result = "ok"

Upgrading ==
  cmd.op = "upgrade" =>
    /\ Past(2) => exe[cmd.path] = cmd.version
    /\ Past(1) /\ service = "running" /\ loaded.exec = cmd.path => runs.version = cmd.version

RunningHasUnit == service = "running" => loaded # None
-----------------------------------------------------------------------------
(* The scripts.                                                            *)

(* The two scripts install is put together from.                           *)
LEMMA PartTypes ==
  /\ WriteEnv \in Seq(Steps) /\ Len(WriteEnv) = 2
  /\ InstallService \in Seq(Steps) /\ Len(InstallService) = 7
<1>1. WriteEnv \in Seq(Steps) /\ Len(WriteEnv) = 2 BY DEF WriteEnv, Steps
<1>2. Len(InstallService) = 7 BY DEF InstallService
<1>3. /\ InstallService[1] \in Steps /\ InstallService[2] \in Steps /\ InstallService[3] \in Steps
      /\ InstallService[4] \in Steps /\ InstallService[5] \in Steps /\ InstallService[6] \in Steps
      /\ InstallService[7] \in Steps
  BY DEF InstallService, Steps
<1>4. \A i \in 1 .. 7 : i \in {1, 2, 3, 4, 5, 6, 7} OBVIOUS
<1>5. \A i \in 1 .. 7 : InstallService[i] \in Steps BY <1>3, <1>4
<1>6. InstallService = [i \in 1 .. 7 |-> InstallService[i]] BY DEF InstallService
<1>7. [i \in 1 .. 7 |-> InstallService[i]] \in Seq(Steps) BY <1>5
<1>. QED BY <1>1, <1>2, <1>6, <1>7

(* The steps of install: those of init, those of service install, enable   *)
(* and status.                                                             *)
FirstPart == WriteEnv \o InstallService
LastPart == <<"enable", "status">>
InstallScript == FirstPart \o LastPart

(* The first of them.                                                      *)
LEMMA FirstPartIs ==
  /\ FirstPart \in Seq(Steps) /\ Len(FirstPart) = 9
  /\ \A i \in 1 .. 9 : FirstPart[i] = IF i <= 2 THEN WriteEnv[i] ELSE InstallService[i - 2]
<1>1. /\ FirstPart \in Seq(Steps) /\ Len(FirstPart) = Len(WriteEnv) + Len(InstallService)
      /\ \A i \in 1 .. Len(WriteEnv) + Len(InstallService) :
           FirstPart[i] = IF i <= Len(WriteEnv) THEN WriteEnv[i]
                          ELSE InstallService[i - Len(WriteEnv)]
  BY PartTypes, ConcatProperties, Zenon DEF FirstPart
<1>. QED BY <1>1, PartTypes

(* All of it.                                                             *)
LEMMA InstallScriptIs ==
  /\ InstallScript \in Seq(Steps) /\ Len(InstallScript) = 11
  /\ \A i \in 1 .. 11 : InstallScript[i] = IF i <= 9 THEN FirstPart[i] ELSE LastPart[i - 9]
<1>1. LastPart \in Seq(Steps) /\ Len(LastPart) = 2 BY DEF LastPart, Steps
<1>2. /\ InstallScript \in Seq(Steps) /\ Len(InstallScript) = Len(FirstPart) + Len(LastPart)
      /\ \A i \in 1 .. Len(FirstPart) + Len(LastPart) :
           InstallScript[i] = IF i <= Len(FirstPart) THEN FirstPart[i]
                              ELSE LastPart[i - Len(FirstPart)]
  BY <1>1, FirstPartIs, ConcatProperties, Zenon DEF InstallScript
<1>. QED BY <1>1, <1>2, FirstPartIs

(* Step by step.                                                           *)
LEMMA InstallStepsAre ==
  /\ InstallScript[1] = "env_open" /\ InstallScript[2] = "env_write"
  /\ InstallScript[3] = "env_stat" /\ InstallScript[4] = "account"
  /\ InstallScript[5] = "env_group" /\ InstallScript[6] = "env_mode"
  /\ InstallScript[7] = "unit_open" /\ InstallScript[8] = "unit_write"
  /\ InstallScript[9] = "reload"
  /\ InstallScript[10] = "enable" /\ InstallScript[11] = "status"
<1>1. WriteEnv[1] = "env_open" /\ WriteEnv[2] = "env_write" BY DEF WriteEnv
<1>2. /\ InstallService[1] = "env_stat" /\ InstallService[2] = "account"
      /\ InstallService[3] = "env_group" /\ InstallService[4] = "env_mode"
      /\ InstallService[5] = "unit_open" /\ InstallService[6] = "unit_write"
      /\ InstallService[7] = "reload"
  BY DEF InstallService
<1>3. LastPart[1] = "enable" /\ LastPart[2] = "status" BY DEF LastPart
<1>4. /\ FirstPart[1] = WriteEnv[1] /\ FirstPart[2] = WriteEnv[2]
      /\ FirstPart[3] = InstallService[1] /\ FirstPart[4] = InstallService[2]
      /\ FirstPart[5] = InstallService[3] /\ FirstPart[6] = InstallService[4]
      /\ FirstPart[7] = InstallService[5] /\ FirstPart[8] = InstallService[6]
      /\ FirstPart[9] = InstallService[7]
  BY FirstPartIs
<1>5. /\ InstallScript[1] = FirstPart[1] /\ InstallScript[2] = FirstPart[2]
      /\ InstallScript[3] = FirstPart[3] /\ InstallScript[4] = FirstPart[4]
      /\ InstallScript[5] = FirstPart[5] /\ InstallScript[6] = FirstPart[6]
      /\ InstallScript[7] = FirstPart[7] /\ InstallScript[8] = FirstPart[8]
      /\ InstallScript[9] = FirstPart[9]
      /\ InstallScript[10] = LastPart[1] /\ InstallScript[11] = LastPart[2]
  BY InstallScriptIs
<1>. QED BY <1>1, <1>2, <1>3, <1>4, <1>5

IsScript(s) == s \in Seq(Steps) /\ s # <<>>

(* A sequence that is long enough is a script.                             *)
LEMMA NotEmpty == ASSUME NEW s \in Seq(Steps), Len(s) >= 1 PROVE IsScript(s)
BY DEF IsScript

(* Every step of every script is one of Steps.                             *)
LEMMA ScriptType == ASSUME NEW op \in Ops PROVE IsScript(Script(op))
<1>1. CASE op = "init"
  <2>1. Script(op) = WriteEnv BY <1>1 DEF Script
  <2>2. IsScript(WriteEnv) BY DEF IsScript, WriteEnv, Steps
  <2>. QED BY <2>1, <2>2, Zenon
<1>2. CASE op = "service_install"
  <2>1. Script(op) = InstallService BY <1>2 DEF Script
  <2>2. IsScript(InstallService) BY PartTypes, NotEmpty
  <2>. QED BY <2>1, <2>2, Zenon
<1>3. CASE op = "install"
  <2>1. Script(op) = InstallScript BY <1>3 DEF Script, InstallScript, FirstPart, LastPart
  <2>2. InstallScript \in Seq(Steps) /\ Len(InstallScript) = 11 BY InstallScriptIs
  <2>3. IsScript(InstallScript) BY <2>2, NotEmpty
  <2>. QED BY <2>1, <2>3, Zenon
<1>4. CASE op = "start"
  <2>1. Script(op) = <<"enable">> BY <1>4 DEF Script
  <2>2. IsScript(<<"enable">>) BY DEF IsScript, Steps
  <2>. QED BY <2>1, <2>2, Zenon
<1>5. CASE op = "stop"
  <2>1. Script(op) = <<"stop">> BY <1>5 DEF Script
  <2>2. IsScript(<<"stop">>) BY DEF IsScript, Steps
  <2>. QED BY <2>1, <2>2, Zenon
<1>6. CASE op = "upgrade"
  <2>1. Script(op) = Upgrade BY <1>6 DEF Script
  <2>2. IsScript(Upgrade) BY DEF IsScript, Steps, Upgrade
  <2>. QED BY <2>1, <2>2, Zenon
<1>. QED BY <1>1, <1>2, <1>3, <1>4, <1>5, <1>6, Zenon DEF Ops

(* The next step of a command and how many are left tell each other.       *)
LEMMA NextIs ==
  ASSUME CommandOK, OnScript, Busy
  PROVE  /\ cmd \in Commands /\ cmd.op \in Ops /\ IsScript(Plan)
         /\ Left \in Nat /\ Left >= 1 /\ Left <= Len(Plan)
         /\ Head(cmd.todo) = Plan[Len(Plan) - Left + 1]
<1>1. cmd \in Commands BY DEF CommandOK, Busy
<1>2. cmd.todo \in Seq(Steps) /\ cmd.op \in Ops BY <1>1 DEF Commands
<1>3. Left \in Nat /\ Left >= 1 /\ Head(cmd.todo) = cmd.todo[1] BY <1>2 DEF Left, Busy
<1>4. IsScript(Plan) BY <1>2, ScriptType, Zenon DEF Plan
<1>. QED BY <1>1, <1>2, <1>3, <1>4 DEF OnScript

(* Where init stands.                                                      *)
LEMMA InitSteps ==
  ASSUME CommandOK, OnScript, Busy, cmd.op = "init"
  PROVE  \/ At("env_open") /\ Left = 2
         \/ At("env_write") /\ Left = 1
<1>1. Plan = <<"env_open", "env_write">> BY DEF Plan, Script, WriteEnv
<1>. QED BY <1>1, NextIs DEF At

(* Where service install stands.                                           *)
LEMMA ServiceInstallSteps ==
  ASSUME CommandOK, OnScript, Busy, cmd.op = "service_install"
  PROVE  \/ At("env_stat") /\ Left = 7
         \/ At("account") /\ Left = 6
         \/ At("env_group") /\ Left = 5
         \/ At("env_mode") /\ Left = 4
         \/ At("unit_open") /\ Left = 3
         \/ At("unit_write") /\ Left = 2
         \/ At("reload") /\ Left = 1
<1>1. Plan = InstallService BY DEF Plan, Script
<1>2. Left \in Nat /\ Left >= 1 /\ Left <= 7 BY <1>1, NextIs, PartTypes
<1>3. \/ Left = 1 \/ Left = 2 \/ Left = 3 \/ Left = 4 \/ Left = 5 \/ Left = 6 \/ Left = 7
  BY <1>2
<1>4. /\ InstallService[1] = "env_stat" /\ InstallService[2] = "account"
      /\ InstallService[3] = "env_group" /\ InstallService[4] = "env_mode"
      /\ InstallService[5] = "unit_open" /\ InstallService[6] = "unit_write"
      /\ InstallService[7] = "reload"
  BY DEF InstallService
<1>5. Head(cmd.todo) = InstallService[7 - Left + 1] BY <1>1, NextIs, PartTypes
<1>. QED BY <1>3, <1>4, <1>5 DEF At

(* Where install stands.                                                   *)
LEMMA InstallSteps ==
  ASSUME CommandOK, OnScript, Busy, cmd.op = "install"
  PROVE  \/ At("env_open") /\ Left = 11
         \/ At("env_write") /\ Left = 10
         \/ At("env_stat") /\ Left = 9
         \/ At("account") /\ Left = 8
         \/ At("env_group") /\ Left = 7
         \/ At("env_mode") /\ Left = 6
         \/ At("unit_open") /\ Left = 5
         \/ At("unit_write") /\ Left = 4
         \/ At("reload") /\ Left = 3
         \/ At("enable") /\ Left = 2
         \/ At("status") /\ Left = 1
<1>1. Plan = InstallScript BY DEF Plan, Script, InstallScript, FirstPart, LastPart
<1>2. Left \in Nat /\ Left >= 1 /\ Left <= 11 BY <1>1, NextIs, InstallScriptIs
<1>3. \/ Left = 1 \/ Left = 2 \/ Left = 3 \/ Left = 4 \/ Left = 5 \/ Left = 6 \/ Left = 7
      \/ Left = 8 \/ Left = 9 \/ Left = 10 \/ Left = 11
  BY <1>2
<1>4. Head(cmd.todo) = InstallScript[11 - Left + 1] BY <1>1, NextIs, InstallScriptIs
<1>. QED BY <1>3, <1>4, InstallStepsAre DEF At

(* Where an upgrade stands.                                                *)
LEMMA UpgradeSteps ==
  ASSUME CommandOK, OnScript, Busy, cmd.op = "upgrade"
  PROVE  \/ At("backup_open") /\ Left = 5
         \/ At("backup_write") /\ Left = 4
         \/ At("replace") /\ Left = 3
         \/ At("restart") /\ Left = 2
         \/ At("status") /\ Left = 1
<1>1. Plan = <<"backup_open", "backup_write", "replace", "restart", "status">>
  BY DEF Plan, Script, Upgrade
<1>. QED BY <1>1, NextIs DEF At

(* The one step of start and the one of stop.                              *)
LEMMA OtherSteps ==
  ASSUME CommandOK, OnScript, Busy
  PROVE  /\ cmd.op = "start" => At("enable") /\ Left = 1
         /\ cmd.op = "stop" => At("stop") /\ Left = 1
<1>1. ASSUME cmd.op = "start" PROVE At("enable") /\ Left = 1
  <2>1. Plan = <<"enable">> BY <1>1 DEF Plan, Script
  <2>2. Left = 1 BY <2>1, NextIs
  <2>. QED BY <2>1, <2>2, NextIs DEF At
<1>2. ASSUME cmd.op = "stop" PROVE At("stop") /\ Left = 1
  <2>1. Plan = <<"stop">> BY <1>2 DEF Plan, Script
  <2>2. Left = 1 BY <2>1, NextIs
  <2>. QED BY <2>1, <2>2, NextIs DEF At
<1>. QED BY <1>1, <1>2

(* The tail of a sequence.                                                 *)
LEMMA TailIs ==
  ASSUME NEW S, NEW s \in Seq(S), s # <<>>
  PROVE  /\ Len(s) \in Nat /\ Len(s) >= 1
         /\ Len(Tail(s)) = Len(s) - 1 /\ Tail(s) \in Seq(S)
         /\ \A j \in 1 .. Len(s) - 1 : Tail(s)[j] = s[j + 1]
<1>1. /\ Len(s) \in Nat /\ Len(s) >= 1
      /\ Len(Tail(s)) = Len(s) - 1 /\ Tail(s) \in Seq(S)
  OBVIOUS
<1>2. ASSUME NEW j \in 1 .. Len(s) - 1 PROVE Tail(s)[j] = s[j + 1] OBVIOUS
<1>. QED BY <1>1, <1>2

(* What stays of a command while it runs.                                  *)
SameCommand ==
  /\ cmd'.op = cmd.op /\ cmd'.path = cmd.path /\ cmd'.user = cmd.user
  /\ cmd'.config = cmd.config /\ cmd'.version = cmd.version /\ cmd'.second = cmd.second

(* A step that is done leaves the rest of the script.                      *)
LEMMA DoneEffect ==
  ASSUME CommandOK, OnScript, Busy, Done
  PROVE  /\ SameCommand /\ CommandOK' /\ OnScript' /\ Left' = Left - 1 /\ (Busy' <=> Left > 1)
         /\ Left = 1 => result' = "ok"
         /\ Left # 1 => result' = result /\ halfDone' = halfDone
         /\ halfDone' = IF Left = 1 /\ Installs(cmd.op) THEN FALSE ELSE halfDone
<1>1. /\ cmd \in Commands /\ cmd.todo \in Seq(Steps) /\ cmd.op \in Ops /\ cmd.todo # <<>>
      /\ Plan \in Seq(Steps)
  BY NextIs DEF Commands, Busy, IsScript
<1>2. cmd' = [cmd EXCEPT !.todo = Tail(cmd.todo)] BY DEF Done
<1>3. ASSUME NEW s \in Seq(Steps) PROVE s # <<>> <=> Len(s) >= 1
  OBVIOUS
<1>4. /\ cmd'.todo = Tail(cmd.todo) /\ cmd'.todo \in Seq(Steps) /\ Left' = Left - 1
      /\ Left \in Nat /\ Left >= 1
  BY <1>1, <1>2, TailIs DEF Commands, Left
<1>5. cmd' \in Commands /\ SameCommand
  BY <1>1, <1>2, <1>4 DEF Commands, SameCommand
<1>6. Busy' <=> Left > 1
  <2>1. Busy' <=> Len(cmd'.todo) >= 1 BY <1>3, <1>4, Zenon DEF Busy
  <2>2. Left' = Len(cmd'.todo) BY DEF Left
  <2>. QED BY <2>1, <2>2, <1>4
<1>7. CommandOK'
  <2>1. /\ cmd.op \in {"init", "install"} => cmd.config \in Configs
        /\ Installs(cmd.op) => cmd.path \in Paths /\ cmd.user \in Users
        /\ cmd.op = "upgrade" => cmd.path \in Paths /\ cmd.version \in Versions
        /\ result = "none"
    BY DEF CommandOK
  <2>2. Left > 1 => Left # 1 BY <1>4
  <2>3. Left > 1 => result' = result BY <2>2, Zenon DEF Done, Left
  <2>4. Busy' => result' = "none" BY <1>6, <2>1, <2>3, Zenon
  <2>. QED BY <1>5, <2>1, <2>4 DEF CommandOK, SameCommand, Installs
<1>8. OnScript'
  <2>1. Len(Plan) \in Nat BY <1>1
  <2>2. Plan' = Plan BY <1>5, Zenon DEF SameCommand, Plan, Script
  <2>3. ASSUME NEW j \in 1 .. Left' PROVE cmd'.todo[j] = Plan[Len(Plan) - Left' + j]
    <3>1. j + 1 \in 1 .. Left /\ j \in 1 .. Left - 1 BY <1>4
    <3>2. cmd.todo[j + 1] = Plan[Len(Plan) - Left + (j + 1)] BY <3>1 DEF OnScript
    <3>3. Len(Plan) - Left + (j + 1) = Len(Plan) - Left' + j BY <1>4, <2>1
    <3>4. cmd'.todo[j] = cmd.todo[j + 1] BY <1>1, <1>4, <3>1, TailIs DEF Left
    <3>. QED BY <3>2, <3>3, <3>4
  <2>4. Left' <= Len(Plan) BY <1>4, <2>1 DEF OnScript
  <2>. QED BY <2>2, <2>3, <2>4 DEF OnScript
<1>. QED BY <1>4, <1>5, <1>6, <1>7, <1>8 DEF Done, Left

(* A command that ends before its last step has done nothing more.         *)
LEMMA GivesEffect ==
  ASSUME CommandOK, OnScript, Busy, Gives("failed")
  PROVE  /\ SameCommand /\ CommandOK' /\ OnScript' /\ ~Busy' /\ result' = "failed"
         /\ halfDone' = halfDone
<1>1. cmd \in Commands BY NextIs
<1>2. <<>> \in Seq(Steps) OBVIOUS
<1>3. cmd' = [cmd EXCEPT !.todo = <<>>] /\ result' = "failed" /\ halfDone' = halfDone
  BY DEF Gives
<1>4. cmd' \in Commands /\ SameCommand /\ cmd'.todo = <<>>
  BY <1>1, <1>2, <1>3 DEF Commands, SameCommand
<1>. QED BY <1>3, <1>4 DEF CommandOK, OnScript, SameCommand, Installs, Busy

(* What the next step says of the command and of how much of it is left.   *)
LEMMA Where ==
  ASSUME CommandOK, OnScript, Busy
  PROVE  /\ Left \in Nat /\ Left >= 1 /\ More \in Nat /\ cmd \in Commands
         /\ At("env_open") => cmd.op \in {"init", "install"} /\ Left > 1
         /\ At("env_open") /\ cmd.op = "install" => Left = 9 + More
         /\ At("env_write") => cmd.op \in {"init", "install"}
         /\ At("env_write") /\ cmd.op = "install" => Left = 8 + More
         /\ At("env_stat") => Installs(cmd.op) /\ Left = 7 + More
         /\ At("account") => Installs(cmd.op) /\ Left = 6 + More
         /\ At("env_group") => Installs(cmd.op) /\ Left = 5 + More
         /\ At("env_mode") => Installs(cmd.op) /\ Left = 4 + More
         /\ At("unit_open") => Installs(cmd.op) /\ Left = 3 + More
         /\ At("unit_write") => Installs(cmd.op) /\ Left = 2 + More
         /\ At("reload") => Installs(cmd.op) /\ Left = 1 + More
         /\ At("enable") => cmd.op = "start" \/ (cmd.op = "install" /\ Left = 2)
         /\ At("status") => cmd.op \in {"install", "upgrade"} /\ Left = 1
         /\ At("stop") => cmd.op = "stop"
         /\ At("backup_open") => cmd.op = "upgrade" /\ Left = 5
         /\ At("backup_write") => cmd.op = "upgrade" /\ Left = 4
         /\ At("replace") => cmd.op = "upgrade" /\ Left = 3
         /\ At("restart") => cmd.op = "upgrade" /\ Left = 2
<1>1. Left \in Nat /\ Left >= 1 /\ More \in Nat /\ cmd \in Commands BY NextIs DEF More
<1>2. CASE cmd.op = "init"
  BY <1>1, <1>2, InitSteps DEF At, Installs, More
<1>3. CASE cmd.op = "service_install"
  BY <1>1, <1>3, ServiceInstallSteps DEF At, Installs, More
<1>4. CASE cmd.op = "install"
  BY <1>1, <1>4, InstallSteps DEF At, Installs, More
<1>5. CASE cmd.op \in {"start", "stop"}
  BY <1>1, <1>5, OtherSteps DEF At, Installs, More
<1>6. CASE cmd.op = "upgrade"
  BY <1>1, <1>6, UpgradeSteps DEF At, Installs, More
<1>. QED BY <1>1, <1>2, <1>3, <1>4, <1>5, <1>6, NextIs DEF Ops

(* How long the scripts are that the invariant counts from.                *)
LEMMA LengthsOf ==
  /\ Len(Script("service_install")) = 7
  /\ Len(Script("install")) = 11
  /\ Len(Script("upgrade")) = 5
<1>1. Len(Script("service_install")) = 7
  <2>1. Script("service_install") = InstallService BY DEF Script
  <2>. QED BY <2>1, PartTypes, Zenon
<1>2. Len(Script("install")) = 11
  <2>1. Script("install") = InstallScript BY DEF Script, InstallScript, FirstPart, LastPart
  <2>. QED BY <2>1, InstallScriptIs, Zenon
<1>3. Len(Script("upgrade")) = 5
  <2>1. Script("upgrade") = Upgrade /\ Len(Upgrade) = 5 BY DEF Script, Upgrade
  <2>. QED BY <2>1, Zenon
<1>. QED BY <1>1, <1>2, <1>3, Zenon
-----------------------------------------------------------------------------
(* The invariant is kept.                                                  *)

EnvFiles == [content : Configs \cup {None, Torn}, group : Users \cup {NoUser},
             mode : {0, 600, 640}]
Backups == [path : Paths, second : 0 .. MaxTime, version : Versions \cup {Torn}]
Runs == [version : Versions \cup {None}, config : Valid \cup {None, Torn}]

(* TypeOK, with its sets of records named.                                 *)
Typed ==
  /\ exe \in [Paths -> Versions] /\ backups \subseteq Backups /\ env \in EnvFiles
  /\ unitFile \in Units \cup {None, Torn} /\ loaded \in Units \cup {None}
  /\ accounts \subseteq Users /\ enabled \in BOOLEAN
  /\ service \in {"off", "starting", "running", "waiting"} /\ runs \in Runs
  /\ result \in {"none", "ok", "failed"} /\ now \in 0 .. MaxTime /\ count \in 0 .. MaxCommands
  /\ held \in [Paths -> SUBSET Versions] /\ halfDone \in BOOLEAN

IInv ==
  /\ Typed /\ CommandOK /\ OnScript /\ Installing /\ Readable
  /\ Backing /\ Upgrading /\ RunningHasUnit /\ NoVersionIsLost

(* What a step that is done makes of the command.                          *)
DoneFacts ==
  /\ SameCommand /\ CommandOK' /\ OnScript' /\ Left' = Left - 1 /\ (Busy' <=> Left > 1)
  /\ Left = 1 => result' = "ok"
  /\ Left # 1 => result' = result
  /\ halfDone' = (IF Left = 1 /\ Installs(cmd.op) THEN FALSE ELSE halfDone)
  /\ More' = More /\ result' \in {"none", "ok", "failed"} /\ halfDone' \in BOOLEAN
  /\ count' \in 0 .. MaxCommands

(* The facts of DoneEffect, and the types.                                 *)
LEMMA DoneGives == ASSUME IInv, Busy, Done PROVE DoneFacts
<1>1. CommandOK /\ OnScript BY DEF IInv
<1>2. More' = More BY <1>1, DoneEffect, Zenon DEF More, SameCommand
<1>3. count' = count BY DEF Done
<1>4. count' \in 0 .. MaxCommands BY <1>3, Zenon DEF IInv, Typed
<1>5. halfDone' \in BOOLEAN BY Zenon DEF IInv, Typed, Done
<1>6. result' \in {"none", "ok", "failed"} BY Zenon DEF IInv, Typed, Done
<1>. QED BY <1>1, <1>2, <1>3, <1>4, <1>5, <1>6, DoneEffect, Zenon DEF DoneFacts

(* A command that is no upgrade leaves nothing to say of backups.          *)
LEMMA NotAnUpgrade ==
  ASSUME DoneFacts, cmd.op # "upgrade" PROVE Backing' /\ Upgrading'
BY DEF DoneFacts, SameCommand, Backing, Upgrading

(* An upgrade touches nothing an installation has put in place.            *)
LEMMA NotAnInstallation ==
  ASSUME IInv, DoneFacts, cmd.op = "upgrade",
         UNCHANGED <<env, unitFile, accounts, loaded>>
  PROVE  Installing' /\ Readable'
<1>1. ~Installs(cmd.op) /\ ~Installs(cmd'.op) BY DEF DoneFacts, SameCommand, Installs
<1>2. Installing' BY <1>1 DEF Installing
<1>3. halfDone' = halfDone BY <1>1 DEF DoneFacts
<1>4. Readable' BY <1>3 DEF IInv, Readable, ReadableBy, CanRead
<1>. QED BY <1>2, <1>4

(* The environment file is emptied, by init or by an installation.         *)
LEMMA EnvOpenKeeps == ASSUME IInv, EnvOpen PROVE IInv'
<1>1. At("env_open") /\ Busy /\ Done /\ Typed /\ CommandOK /\ OnScript
  BY DEF IInv, EnvOpen, At
<1>2. DoneFacts /\ CommandOK' /\ OnScript' BY <1>1, DoneGives DEF DoneFacts
<1>3. /\ exe' = exe /\ backups' = backups /\ unitFile' = unitFile /\ accounts' = accounts
      /\ loaded' = loaded /\ enabled' = enabled /\ service' = service /\ runs' = runs
      /\ held' = held /\ now' = now
  BY DEF EnvOpen
<1>4. Typed'
  <2>1. env' \in EnvFiles BY <1>1 DEF EnvOpen, Typed, EnvFiles
  <2>. QED BY <1>1, <1>2, <1>3, <2>1 DEF Typed, DoneFacts
<1>5. Installing'
  BY <1>1, <1>2, <1>3, Where DEF IInv, EnvOpen, DoneFacts, SameCommand, Installing, Installs
<1>6. Readable'
  BY <1>1, <1>2, <1>3, Where, MarksAreDistinct
  DEF IInv, EnvOpen, DoneFacts, Typed, EnvFiles, Readable, ReadableBy, CanRead
<1>7. Backing' /\ Upgrading' BY <1>1, <1>2, Where, NotAnUpgrade DEF Installs
<1>8. RunningHasUnit' BY <1>3 DEF IInv, RunningHasUnit
<1>9. NoVersionIsLost' BY <1>3 DEF IInv, NoVersionIsLost
<1>. QED BY <1>2, <1>4, <1>5, <1>6, <1>7, <1>8, <1>9, Zenon DEF IInv

(* What init writes leaves the group and the mode as they were.            *)
LEMMA EnvWriteKeeps == ASSUME IInv, EnvWrite PROVE IInv'
<1>1. At("env_write") /\ Busy /\ Done /\ Typed /\ CommandOK /\ OnScript
  BY DEF IInv, EnvWrite, At
<1>2. DoneFacts /\ CommandOK' /\ OnScript' BY <1>1, DoneGives DEF DoneFacts
<1>3. /\ exe' = exe /\ backups' = backups /\ unitFile' = unitFile /\ accounts' = accounts
      /\ loaded' = loaded /\ enabled' = enabled /\ service' = service /\ runs' = runs
      /\ held' = held /\ now' = now
  BY DEF EnvWrite
<1>4. Typed'
  <2>1. cmd.config \in Configs BY <1>1, Where DEF CommandOK
  <2>2. env' = [env EXCEPT !.content = cmd.config] BY DEF EnvWrite
  <2>3. env' \in EnvFiles BY <1>1, <2>1, <2>2 DEF Typed, EnvFiles
  <2>. QED BY <1>1, <1>2, <1>3, <2>3 DEF Typed, DoneFacts
<1>5. Installing'
  BY <1>1, <1>2, <1>3, Where DEF IInv, EnvWrite, DoneFacts, SameCommand, Installing, Installs
<1>6. Readable'
  <2>1. SUFFICES ASSUME ~halfDone' PROVE Readable' BY DEF Readable
  <2>2. ~halfDone BY <1>1, <1>2, <2>1, Where DEF IInv, Installing, DoneFacts, Installs
  <2>3. cmd.config # None BY <1>1, Where, MarksAreDistinct DEF CommandOK
  <2>4. env'.content = cmd.config /\ env'.group = env.group /\ env'.mode = env.mode
    BY <1>1 DEF EnvWrite, Typed, EnvFiles
  <2>. QED BY <1>3, <2>2, <2>3, <2>4 DEF IInv, Readable, ReadableBy, CanRead
<1>7. Backing' /\ Upgrading' BY <1>1, <1>2, Where, NotAnUpgrade DEF Installs
<1>8. RunningHasUnit' BY <1>3 DEF IInv, RunningHasUnit
<1>9. NoVersionIsLost' BY <1>3 DEF IInv, NoVersionIsLost
<1>. QED BY <1>2, <1>4, <1>5, <1>6, <1>7, <1>8, <1>9, Zenon DEF IInv

(* There is an environment file.                                           *)
LEMMA EnvStatKeeps == ASSUME IInv, EnvStat, env.content # None PROVE IInv'
<1>1. At("env_stat") /\ Busy /\ Done /\ Typed /\ CommandOK /\ OnScript
  BY DEF IInv, EnvStat, At
<1>2. DoneFacts /\ CommandOK' /\ OnScript' BY <1>1, DoneGives DEF DoneFacts
<1>3. /\ exe' = exe /\ backups' = backups /\ env' = env /\ unitFile' = unitFile
      /\ accounts' = accounts /\ loaded' = loaded /\ enabled' = enabled /\ service' = service
      /\ runs' = runs /\ held' = held /\ now' = now
  BY DEF EnvStat
<1>4. Typed' BY <1>1, <1>2, <1>3 DEF Typed, DoneFacts
<1>5. Installing'
  BY <1>1, <1>2, <1>3, Where DEF IInv, DoneFacts, SameCommand, Installing, Installs
<1>6. Readable' BY <1>1, <1>2, Where DEF IInv, DoneFacts, Installing, Readable
<1>7. Backing' /\ Upgrading' BY <1>1, <1>2, Where, NotAnUpgrade DEF Installs
<1>8. RunningHasUnit' BY <1>3 DEF IInv, RunningHasUnit
<1>9. NoVersionIsLost' BY <1>3 DEF IInv, NoVersionIsLost
<1>. QED BY <1>2, <1>4, <1>5, <1>6, <1>7, <1>8, <1>9, Zenon DEF IInv

(* From here on the account exists.                                        *)
LEMMA EnsureAccountKeeps == ASSUME IInv, EnsureAccount PROVE IInv'
<1>1. At("account") /\ Busy /\ Done /\ Typed /\ CommandOK /\ OnScript
  BY DEF IInv, EnsureAccount, At
<1>2. DoneFacts /\ CommandOK' /\ OnScript' BY <1>1, DoneGives DEF DoneFacts
<1>3. /\ exe' = exe /\ backups' = backups /\ env' = env /\ unitFile' = unitFile /\ loaded' = loaded
      /\ enabled' = enabled /\ service' = service /\ runs' = runs /\ held' = held /\ now' = now
  BY DEF EnsureAccount
<1>4. Typed'
  <2>1. accounts' \subseteq Users BY <1>1, Where DEF EnsureAccount, Typed, CommandOK
  <2>. QED BY <1>1, <1>2, <1>3, <2>1 DEF Typed, DoneFacts
<1>5. Installing'
  BY <1>1, <1>2, <1>3, Where DEF IInv, EnsureAccount, DoneFacts, SameCommand, Installing, Installs
<1>6. Readable' BY <1>1, <1>2, Where DEF IInv, DoneFacts, Installing, Readable
<1>7. Backing' /\ Upgrading' BY <1>1, <1>2, Where, NotAnUpgrade DEF Installs
<1>8. RunningHasUnit' BY <1>3 DEF IInv, RunningHasUnit
<1>9. NoVersionIsLost' BY <1>3 DEF IInv, NoVersionIsLost
<1>. QED BY <1>2, <1>4, <1>5, <1>6, <1>7, <1>8, <1>9, Zenon DEF IInv

(* The environment file gets the group of the account.                     *)
LEMMA EnvGroupKeeps == ASSUME IInv, EnvGroup PROVE IInv'
<1>1. At("env_group") /\ Busy /\ Done /\ Typed /\ CommandOK /\ OnScript
  BY DEF IInv, EnvGroup, At
<1>2. DoneFacts /\ CommandOK' /\ OnScript' BY <1>1, DoneGives DEF DoneFacts
<1>3. /\ exe' = exe /\ backups' = backups /\ unitFile' = unitFile /\ accounts' = accounts
      /\ loaded' = loaded /\ enabled' = enabled /\ service' = service /\ runs' = runs
      /\ held' = held /\ now' = now
  BY DEF EnvGroup
<1>4. Typed'
  <2>1. env' \in EnvFiles BY <1>1, Where DEF EnvGroup, Typed, EnvFiles, CommandOK
  <2>. QED BY <1>1, <1>2, <1>3, <2>1 DEF Typed, DoneFacts
<1>5. Installing'
  BY <1>1, <1>2, <1>3, Where DEF IInv, EnvGroup, DoneFacts, SameCommand, Installing, Installs
<1>6. Readable' BY <1>1, <1>2, Where DEF IInv, DoneFacts, Installing, Readable
<1>7. Backing' /\ Upgrading' BY <1>1, <1>2, Where, NotAnUpgrade DEF Installs
<1>8. RunningHasUnit' BY <1>3 DEF IInv, RunningHasUnit
<1>9. NoVersionIsLost' BY <1>3 DEF IInv, NoVersionIsLost
<1>. QED BY <1>2, <1>4, <1>5, <1>6, <1>7, <1>8, <1>9, Zenon DEF IInv

(* The group may read it.                                                  *)
LEMMA EnvModeKeeps == ASSUME IInv, EnvMode PROVE IInv'
<1>1. At("env_mode") /\ Busy /\ Done /\ Typed /\ CommandOK /\ OnScript
  BY DEF IInv, EnvMode, At
<1>2. DoneFacts /\ CommandOK' /\ OnScript' BY <1>1, DoneGives DEF DoneFacts
<1>3. /\ exe' = exe /\ backups' = backups /\ unitFile' = unitFile /\ accounts' = accounts
      /\ loaded' = loaded /\ enabled' = enabled /\ service' = service /\ runs' = runs
      /\ held' = held /\ now' = now
  BY DEF EnvMode
<1>4. Typed'
  <2>1. env' \in EnvFiles BY <1>1 DEF EnvMode, Typed, EnvFiles
  <2>. QED BY <1>1, <1>2, <1>3, <2>1 DEF Typed, DoneFacts
<1>5. Installing'
  BY <1>1, <1>2, <1>3, Where DEF IInv, EnvMode, DoneFacts, SameCommand, Installing, Installs
<1>6. Readable' BY <1>1, <1>2, Where DEF IInv, DoneFacts, Installing, Readable
<1>7. Backing' /\ Upgrading' BY <1>1, <1>2, Where, NotAnUpgrade DEF Installs
<1>8. RunningHasUnit' BY <1>3 DEF IInv, RunningHasUnit
<1>9. NoVersionIsLost' BY <1>3 DEF IInv, NoVersionIsLost
<1>. QED BY <1>2, <1>4, <1>5, <1>6, <1>7, <1>8, <1>9, Zenon DEF IInv

(* The unit is cut short only under an installation.                       *)
LEMMA UnitOpenKeeps == ASSUME IInv, UnitOpen PROVE IInv'
<1>1. At("unit_open") /\ Busy /\ Done /\ Typed /\ CommandOK /\ OnScript
  BY DEF IInv, UnitOpen, At
<1>2. DoneFacts /\ CommandOK' /\ OnScript' BY <1>1, DoneGives DEF DoneFacts
<1>3. /\ exe' = exe /\ backups' = backups /\ env' = env /\ accounts' = accounts /\ loaded' = loaded
      /\ enabled' = enabled /\ service' = service /\ runs' = runs /\ held' = held /\ now' = now
  BY DEF UnitOpen
<1>4. Typed'
  <2>1. unitFile' \in Units \cup {None, Torn} BY DEF UnitOpen
  <2>. QED BY <1>1, <1>2, <1>3, <2>1 DEF Typed, DoneFacts
<1>5. Installing'
  BY <1>1, <1>2, <1>3, Where DEF IInv, UnitOpen, DoneFacts, SameCommand, Installing, Installs
<1>6. Readable' BY <1>1, <1>2, Where DEF IInv, DoneFacts, Installing, Readable
<1>7. Backing' /\ Upgrading' BY <1>1, <1>2, Where, NotAnUpgrade DEF Installs
<1>8. RunningHasUnit' BY <1>3 DEF IInv, RunningHasUnit
<1>9. NoVersionIsLost' BY <1>3 DEF IInv, NoVersionIsLost
<1>. QED BY <1>2, <1>4, <1>5, <1>6, <1>7, <1>8, <1>9, Zenon DEF IInv

(* The unit names the account that has been given the environment file.    *)
LEMMA UnitWriteKeeps == ASSUME IInv, UnitWrite PROVE IInv'
<1>1. At("unit_write") /\ Busy /\ Done /\ Typed /\ CommandOK /\ OnScript
  BY DEF IInv, UnitWrite, At
<1>2. DoneFacts /\ CommandOK' /\ OnScript' BY <1>1, DoneGives DEF DoneFacts
<1>3. /\ exe' = exe /\ backups' = backups /\ env' = env /\ accounts' = accounts /\ loaded' = loaded
      /\ enabled' = enabled /\ service' = service /\ runs' = runs /\ held' = held /\ now' = now
  BY DEF UnitWrite
<1>4. Typed'
  <2>1. unitFile' \in Units \cup {None, Torn} BY <1>1, Where DEF UnitWrite, Units, CommandOK
  <2>. QED BY <1>1, <1>2, <1>3, <2>1 DEF Typed, DoneFacts
<1>5. Installing'
  BY <1>1, <1>2, <1>3, Where DEF IInv, UnitWrite, DoneFacts, SameCommand, Installing, Installs
<1>6. Readable' BY <1>1, <1>2, Where DEF IInv, DoneFacts, Installing, Readable
<1>7. Backing' /\ Upgrading' BY <1>1, <1>2, Where, NotAnUpgrade DEF Installs
<1>8. RunningHasUnit' BY <1>3 DEF IInv, RunningHasUnit
<1>9. NoVersionIsLost' BY <1>3 DEF IInv, NoVersionIsLost
<1>. QED BY <1>2, <1>4, <1>5, <1>6, <1>7, <1>8, <1>9, Zenon DEF IInv

(* systemd takes the unit just written: the end of service install.        *)
LEMMA DaemonReloadKeeps == ASSUME IInv, DaemonReload PROVE IInv'
<1>1. At("reload") /\ Busy /\ Done /\ Typed /\ CommandOK /\ OnScript
  BY DEF IInv, DaemonReload, At
<1>2. DoneFacts /\ CommandOK' /\ OnScript' BY <1>1, DoneGives DEF DoneFacts
<1>3. /\ exe' = exe /\ backups' = backups /\ env' = env /\ unitFile' = unitFile
      /\ accounts' = accounts /\ enabled' = enabled /\ service' = service /\ runs' = runs
      /\ held' = held /\ now' = now
  BY DEF DaemonReload
<1>4. Typed'
  <2>1. loaded' \in Units \cup {None} BY <1>1 DEF DaemonReload, UnitOnDisk, Typed
  <2>. QED BY <1>1, <1>2, <1>3, <2>1 DEF Typed, DoneFacts
<1>a. /\ unitFile = [user |-> cmd.user, exec |-> cmd.path] /\ unitFile \in Units /\ halfDone
      /\ env.content # None /\ cmd.user \in accounts /\ env.group = cmd.user /\ env.mode = 640
  BY <1>1, Where DEF IInv, Installing, CommandOK, Units
<1>b. unitFile # None /\ unitFile # Torn /\ loaded' = unitFile
  BY <1>a, MarksAreDistinct DEF DaemonReload, UnitOnDisk
<1>5. Installing'
  <2>1. /\ unitFile' = [user |-> cmd'.user, exec |-> cmd'.path] /\ loaded' = unitFile'
        /\ env'.content # None /\ cmd'.user \in accounts' /\ env'.group = cmd'.user
        /\ env'.mode = 640
    BY <1>2, <1>3, <1>a, <1>b DEF DoneFacts, SameCommand
  <2>2. Busy' => halfDone' BY <1>1, <1>2, <1>a, Where DEF DoneFacts
  <2>. QED BY <2>1, <2>2 DEF Installing
<1>6. Readable'
  BY <1>1, <1>2, <1>3, <1>a, <1>b, Where
  DEF IInv, DoneFacts, Installing, Installs, Readable, ReadableBy, CanRead
<1>7. Backing' /\ Upgrading' BY <1>1, <1>2, Where, NotAnUpgrade DEF Installs
<1>8. RunningHasUnit' BY <1>b DEF RunningHasUnit
<1>9. NoVersionIsLost' BY <1>3 DEF IInv, NoVersionIsLost
<1>. QED BY <1>2, <1>4, <1>5, <1>6, <1>7, <1>8, <1>9, Zenon DEF IInv

(* The unit is there.                                                      *)
LEMMA EnableNowKeeps == ASSUME IInv, EnableNow, loaded # None PROVE IInv'
<1>1. At("enable") /\ Busy /\ Done /\ Typed /\ CommandOK /\ OnScript
  BY DEF IInv, EnableNow, At
<1>2. DoneFacts /\ CommandOK' /\ OnScript' BY <1>1, DoneGives DEF DoneFacts
<1>3. /\ exe' = exe /\ backups' = backups /\ env' = env /\ unitFile' = unitFile
      /\ accounts' = accounts /\ loaded' = loaded /\ runs' = runs /\ held' = held /\ now' = now
  BY DEF EnableNow
<1>4. Typed'
  <2>1. enabled' \in BOOLEAN BY DEF EnableNow
  <2>2. service' \in {"off", "starting", "running", "waiting"} BY <1>1 DEF EnableNow, Typed
  <2>. QED BY <1>1, <1>2, <1>3, <2>1, <2>2 DEF Typed, DoneFacts
<1>5. Installing'
  <2>1. SUFFICES ASSUME Installs(cmd.op) PROVE Installing'
    BY <1>2 DEF Installing, DoneFacts, SameCommand
  <2>2. Left = 2 /\ More = 2 BY <1>1, <2>1, Where DEF Installs, More
  <2>3. /\ env.content # None /\ cmd.user \in accounts /\ env.group = cmd.user /\ env.mode = 640
        /\ unitFile = [user |-> cmd.user, exec |-> cmd.path] /\ loaded = unitFile /\ halfDone
    BY <1>1, <2>1, <2>2 DEF IInv, Installing
  <2>4. halfDone' = halfDone BY <1>2, <2>2 DEF DoneFacts
  <2>. QED BY <1>2, <1>3, <2>3, <2>4 DEF Installing, DoneFacts, SameCommand
<1>6. Readable'
  BY <1>1, <1>2, <1>3, Where
  DEF IInv, DoneFacts, Installing, Installs, Readable, ReadableBy, CanRead
<1>7. Backing' /\ Upgrading' BY <1>1, <1>2, Where, NotAnUpgrade DEF Installs
<1>8. RunningHasUnit' BY <1>3 DEF IInv, EnableNow, RunningHasUnit
<1>9. NoVersionIsLost' BY <1>3 DEF IInv, NoVersionIsLost
<1>. QED BY <1>2, <1>4, <1>5, <1>6, <1>7, <1>8, <1>9, Zenon DEF IInv

(* Nothing runs until systemd has forked the program anew.                 *)
LEMMA RestartKeeps == ASSUME IInv, Restart, loaded # None PROVE IInv'
<1>1. At("restart") /\ Busy /\ Done /\ Typed /\ CommandOK /\ OnScript
  BY DEF IInv, Restart, At
<1>2. DoneFacts /\ CommandOK' /\ OnScript' BY <1>1, DoneGives DEF DoneFacts
<1>3. /\ exe' = exe /\ backups' = backups /\ env' = env /\ unitFile' = unitFile
      /\ accounts' = accounts /\ loaded' = loaded /\ enabled' = enabled /\ held' = held
      /\ now' = now
  BY DEF Restart
<1>4. Typed'
  <2>1. service' \in {"off", "starting", "running", "waiting"} BY DEF Restart
  <2>2. runs' \in Runs BY DEF Restart, Runs, NoRun
  <2>. QED BY <1>1, <1>2, <1>3, <2>1, <2>2 DEF Typed, DoneFacts
<1>5. Installing' /\ Readable' BY <1>1, <1>2, <1>3, Where, NotAnInstallation
<1>6. Backing' BY <1>1, <1>2, Where DEF DoneFacts, Backing
<1>7. Upgrading'
  <2>1. Left = 2 /\ service' = "starting" BY <1>1, Where DEF Restart
  <2>2. cmd.op = "upgrade" => exe[cmd.path] = cmd.version BY <1>1, <2>1 DEF IInv, Upgrading, Past
  <2>. QED BY <1>2, <1>3, <2>1, <2>2 DEF Upgrading, DoneFacts, SameCommand
<1>8. RunningHasUnit' BY <1>3 DEF IInv, Restart, RunningHasUnit
<1>9. NoVersionIsLost' BY <1>3 DEF IInv, NoVersionIsLost
<1>. QED BY <1>2, <1>4, <1>5, <1>6, <1>7, <1>8, <1>9, Zenon DEF IInv

(* Nothing runs.                                                           *)
LEMMA StopKeeps == ASSUME IInv, Stop PROVE IInv'
<1>1. At("stop") /\ Busy /\ Done /\ Typed /\ CommandOK /\ OnScript
  BY DEF IInv, Stop, At
<1>2. DoneFacts /\ CommandOK' /\ OnScript' BY <1>1, DoneGives DEF DoneFacts
<1>3. /\ exe' = exe /\ backups' = backups /\ env' = env /\ unitFile' = unitFile
      /\ accounts' = accounts /\ loaded' = loaded /\ enabled' = enabled /\ held' = held
      /\ now' = now
  BY DEF Stop
<1>4. Typed'
  <2>1. service' \in {"off", "starting", "running", "waiting"} BY DEF Stop
  <2>2. runs' \in Runs BY DEF Stop, Runs, NoRun
  <2>. QED BY <1>1, <1>2, <1>3, <2>1, <2>2 DEF Typed, DoneFacts
<1>5. Installing'
  BY <1>1, <1>2, <1>3, Where DEF IInv, DoneFacts, SameCommand, Installing, Installs
<1>6. Readable'
  BY <1>1, <1>2, <1>3, Where
  DEF IInv, DoneFacts, Installing, Installs, Readable, ReadableBy, CanRead
<1>7. Backing' /\ Upgrading' BY <1>1, <1>2, Where, NotAnUpgrade DEF Installs
<1>8. RunningHasUnit' BY <1>3 DEF IInv, Stop, RunningHasUnit
<1>9. NoVersionIsLost' BY <1>3 DEF IInv, NoVersionIsLost
<1>. QED BY <1>2, <1>4, <1>5, <1>6, <1>7, <1>8, <1>9, Zenon DEF IInv

(* The last step of an installation and of an upgrade.                     *)
LEMMA StatusKeeps == ASSUME IInv, Status, service \in {"starting", "running"} PROVE IInv'
<1>1. At("status") /\ Busy /\ Done /\ Typed /\ CommandOK /\ OnScript
  BY DEF IInv, Status, At
<1>2. DoneFacts /\ CommandOK' /\ OnScript' BY <1>1, DoneGives DEF DoneFacts
<1>3. /\ exe' = exe /\ backups' = backups /\ env' = env /\ unitFile' = unitFile
      /\ accounts' = accounts /\ loaded' = loaded /\ enabled' = enabled /\ service' = service
      /\ runs' = runs /\ held' = held /\ now' = now
  BY DEF Status
<1>4. Typed' BY <1>1, <1>2, <1>3 DEF Typed, DoneFacts
<1>5. Installing'
  BY <1>1, <1>2, <1>3, Where DEF IInv, DoneFacts, SameCommand, Installing, Installs
<1>6. Readable'
  <2>1. SUFFICES ASSUME ~halfDone' PROVE Readable' BY DEF Readable
  <2>2. CASE ~halfDone BY <1>3, <2>2 DEF IInv, Readable, ReadableBy, CanRead
  <2>3. CASE halfDone
    <3>1. Left = 1 /\ Installs(cmd.op) BY <1>2, <2>1, <2>3, Zenon DEF DoneFacts
    <3>2. cmd.op = "install" BY <1>1, <3>1, Where DEF Installs
    <3>3. /\ env.content # None /\ cmd.user \in accounts /\ env.group = cmd.user /\ env.mode = 640
          /\ unitFile = [user |-> cmd.user, exec |-> cmd.path] /\ loaded = unitFile
      BY <1>1, <3>1, <3>2 DEF IInv, Installing, Installs, More
    <3>4. unitFile # Torn
      BY <1>1, <3>1, <3>3, MarksAreDistinct DEF CommandOK, Units
    <3>. QED BY <1>3, <3>3, <3>4 DEF Readable, ReadableBy, CanRead
  <2>. QED BY <2>2, <2>3
<1>7. Backing' /\ Upgrading'
  BY <1>1, <1>2, <1>3, Where DEF IInv, DoneFacts, SameCommand, Backing, Upgrading, Past
<1>8. RunningHasUnit' BY <1>3 DEF IInv, RunningHasUnit
<1>9. NoVersionIsLost' BY <1>3 DEF IInv, NoVersionIsLost
<1>. QED BY <1>2, <1>4, <1>5, <1>6, <1>7, <1>8, <1>9, Zenon DEF IInv

(* There is no backup of this second: the one begun is the only one.       *)
LEMMA BackupOpenKeeps == ASSUME IInv, BackupOpen, BackupOf(cmd.path, cmd.second) = {} PROVE IInv'
<1>1. At("backup_open") /\ Busy /\ Done /\ Typed /\ CommandOK /\ OnScript
  BY DEF IInv, BackupOpen, At
<1>2. DoneFacts /\ CommandOK' /\ OnScript' BY <1>1, DoneGives DEF DoneFacts
<1>3. /\ exe' = exe /\ env' = env /\ unitFile' = unitFile /\ accounts' = accounts
      /\ loaded' = loaded /\ enabled' = enabled /\ service' = service /\ runs' = runs
      /\ held' = held /\ now' = now
  BY DEF BackupOpen
<1>4. Typed'
  <2>1. backups' \subseteq Backups
    BY <1>1, Where DEF BackupOpen, Typed, CommandOK, Commands, Backups
  <2>. QED BY <1>1, <1>2, <1>3, <2>1 DEF Typed, DoneFacts
<1>5. Installing' /\ Readable' BY <1>1, <1>2, <1>3, Where, NotAnInstallation
<1>6. Backing'
  <2>1. backups' = backups \cup {[path |-> cmd.path, second |-> cmd.second, version |-> Torn]}
    BY DEF BackupOpen
  <2>2. ASSUME NEW b \in backups', b.path = cmd.path, b.second = cmd.second
        PROVE  b.version = Torn
    <3>1. b \notin backups BY <2>2 DEF BackupOf
    <3>. QED BY <2>1, <3>1
  <2>3. cmd'.path = cmd.path /\ cmd'.second = cmd.second /\ Left' = 4
    BY <1>1, <1>2, Where DEF DoneFacts, SameCommand
  <2>. QED BY <2>2, <2>3 DEF Backing, BackupOf
<1>7. Upgrading' BY <1>1, <1>2, Where DEF CommandOK, DoneFacts, Upgrading, Past
<1>8. RunningHasUnit' BY <1>3 DEF IInv, RunningHasUnit
<1>9. NoVersionIsLost'
  <2>1. backups \subseteq backups' BY DEF BackupOpen
  <2>. QED BY <1>3, <2>1 DEF IInv, NoVersionIsLost
<1>. QED BY <1>2, <1>4, <1>5, <1>6, <1>7, <1>8, <1>9, Zenon DEF IInv

(* A torn backup is replaced by a whole one.                               *)
LEMMA BackupWriteKeeps == ASSUME IInv, BackupWrite PROVE IInv'
<1>1. At("backup_write") /\ Busy /\ Done /\ Typed /\ CommandOK /\ OnScript
  BY DEF IInv, BackupWrite, At
<1>2. DoneFacts /\ CommandOK' /\ OnScript' BY <1>1, DoneGives DEF DoneFacts
<1>3. /\ exe' = exe /\ env' = env /\ unitFile' = unitFile /\ accounts' = accounts
      /\ loaded' = loaded /\ enabled' = enabled /\ service' = service /\ runs' = runs
      /\ held' = held /\ now' = now
  BY DEF BackupWrite
<1>4. Typed'
  <2>1. backups' \subseteq Backups
    BY <1>1, Where DEF BackupWrite, Typed, CommandOK, Commands, Backups
  <2>. QED BY <1>1, <1>2, <1>3, <2>1 DEF Typed, DoneFacts
<1>5. Installing' /\ Readable' BY <1>1, <1>2, <1>3, Where, NotAnInstallation
<1>a. Left = 4 /\ cmd.op = "upgrade" BY <1>1, Where
<1>b. backups' = (backups \ BackupOf(cmd.path, cmd.second))
        \cup {[path |-> cmd.path, second |-> cmd.second, version |-> exe[cmd.path]]}
  BY DEF BackupWrite
<1>6. Backing'
  <2>1. cmd'.path = cmd.path /\ Left' = 3
    BY <1>2, <1>a DEF DoneFacts, SameCommand
  <2>2. \E b \in backups' : b.path = cmd.path /\ b.version = exe[cmd.path]
    <3>. DEFINE whole == [path |-> cmd.path, second |-> cmd.second, version |-> exe[cmd.path]]
    <3>1. whole \in backups' BY <1>b
    <3>2. whole.path = cmd.path /\ whole.version = exe[cmd.path] OBVIOUS
    <3>. QED BY <3>1, <3>2
  <2>. QED BY <1>3, <2>1, <2>2 DEF Backing
<1>7. Upgrading' BY <1>1, <1>2, Where DEF CommandOK, DoneFacts, Upgrading, Past
<1>8. RunningHasUnit' BY <1>3 DEF IInv, RunningHasUnit
<1>9. NoVersionIsLost'
  <2>1. \A b \in BackupOf(cmd.path, cmd.second) : b.version = Torn
    BY <1>1, <1>a DEF IInv, Backing
  <2>2. SUFFICES ASSUME NEW p \in Paths, NEW v \in held[p], exe[p] # v
                 PROVE  \E b \in backups' : b.path = p /\ b.version = v
    BY <1>3 DEF NoVersionIsLost
  <2>3. PICK b \in backups : b.path = p /\ b.version = v
    BY <2>2 DEF IInv, NoVersionIsLost
  <2>4. v # Torn BY <1>1, <2>2, MarksAreDistinct DEF Typed
  <2>5. b \in backups' BY <1>b, <2>1, <2>3, <2>4
  <2>. QED BY <2>3, <2>5
<1>. QED BY <1>2, <1>4, <1>5, <1>6, <1>7, <1>8, <1>9, Zenon DEF IInv

(* The version that goes lies in the backup.                               *)
LEMMA ReplaceKeeps == ASSUME IInv, Replace PROVE IInv'
<1>1. At("replace") /\ Busy /\ Done /\ Typed /\ CommandOK /\ OnScript
  BY DEF IInv, Replace, At
<1>2. DoneFacts /\ CommandOK' /\ OnScript' BY <1>1, DoneGives DEF DoneFacts
<1>3. /\ backups' = backups /\ env' = env /\ unitFile' = unitFile /\ accounts' = accounts
      /\ loaded' = loaded /\ enabled' = enabled /\ service' = service /\ runs' = runs
      /\ now' = now
  BY DEF Replace
<1>4. Typed'
  <2>1. exe' \in [Paths -> Versions] BY <1>1, Where DEF Replace, Typed, CommandOK
  <2>2. held' \in [Paths -> SUBSET Versions] BY <1>1, Where DEF Replace, Typed, CommandOK
  <2>. QED BY <1>1, <1>2, <1>3, <2>1, <2>2 DEF Typed, DoneFacts
<1>5. Installing' /\ Readable' BY <1>1, <1>2, <1>3, Where, NotAnInstallation
<1>6. Backing' BY <1>1, <1>2, Where DEF DoneFacts, Backing
<1>a. /\ Left = 3 /\ cmd.op = "upgrade" /\ cmd.path \in Paths /\ cmd.version \in Versions
      /\ result = "none"
  BY <1>1, Where DEF CommandOK
<1>b. exe' = [exe EXCEPT ![cmd.path] = cmd.version] BY DEF Replace
<1>7. Upgrading'
  <2>1. exe'[cmd.path] = cmd.version BY <1>1, <1>a, <1>b DEF Typed
  <2>2. /\ cmd'.path = cmd.path /\ cmd'.version = cmd.version /\ Left' = 2 /\ result' = "none"
    BY <1>2, <1>a DEF DoneFacts, SameCommand
  <2>. QED BY <2>1, <2>2 DEF Upgrading, Past
<1>8. RunningHasUnit' BY <1>3 DEF IInv, RunningHasUnit
<1>9. NoVersionIsLost'
  <2>1. SUFFICES ASSUME NEW p \in Paths, NEW v \in held'[p], exe'[p] # v
                 PROVE  \E b \in backups : b.path = p /\ b.version = v
    BY <1>3 DEF NoVersionIsLost
  <2>2. CASE p # cmd.path
    <3>1. held'[p] = held[p] /\ exe'[p] = exe[p] BY <1>1, <1>b, <2>2 DEF Replace, Typed
    <3>. QED BY <2>1, <3>1 DEF IInv, NoVersionIsLost
  <2>3. CASE p = cmd.path
    <3>1. v \in held[p] BY <1>1, <1>a, <1>b, <2>1, <2>3 DEF Replace, Typed
    <3>2. CASE exe[p] = v BY <1>1, <1>a, <2>3, <3>2 DEF IInv, Backing
    <3>3. CASE exe[p] # v BY <3>1, <3>3 DEF IInv, NoVersionIsLost
    <3>. QED BY <3>2, <3>3
  <2>. QED BY <2>2, <2>3
<1>. QED BY <1>2, <1>4, <1>5, <1>6, <1>7, <1>8, <1>9, Zenon DEF IInv

(* A command that ends early leaves everything where it is.                *)
LEMMA GivesKeeps ==
  ASSUME IInv, Busy, Gives("failed"), UNCHANGED <<files, system, now, held>>
  PROVE  IInv'
<1>1. CommandOK /\ OnScript /\ Typed BY DEF IInv
<1>2. /\ SameCommand /\ CommandOK' /\ OnScript' /\ ~Busy' /\ result' = "failed"
      /\ halfDone' = halfDone /\ count' = count
  BY <1>1, GivesEffect DEF Gives
<1>3. /\ exe' = exe /\ backups' = backups /\ env' = env /\ unitFile' = unitFile
      /\ accounts' = accounts /\ loaded' = loaded /\ enabled' = enabled /\ service' = service
      /\ runs' = runs /\ now' = now /\ held' = held
  OBVIOUS
<1>4. Typed' BY <1>1, <1>2, <1>3 DEF Typed
<1>5. Installing' /\ Backing' BY <1>2 DEF Installing, Backing
<1>6. Readable' BY <1>2, <1>3 DEF IInv, Readable, ReadableBy, CanRead
<1>7. Upgrading' BY <1>2 DEF Upgrading, Past
<1>8. RunningHasUnit' /\ NoVersionIsLost' BY <1>3 DEF IInv, RunningHasUnit, NoVersionIsLost
<1>. QED BY <1>2, <1>4, <1>5, <1>6, <1>7, <1>8, Zenon DEF IInv

(* What a command may be given.                                            *)
Given(op, path, user, config, version) ==
  /\ op \in Ops /\ path \in Paths \cup {None} /\ user \in Users \cup {NoUser}
  /\ config \in Configs \cup {None} /\ version \in Versions \cup {None}
  /\ op \in {"init", "install"} => config \in Configs
  /\ Installs(op) => path \in Paths /\ user \in Users
  /\ op = "upgrade" => path \in Paths /\ version \in Versions

(* A command begins with its whole script before it.                       *)
LEMMA RunKeeps ==
  ASSUME IInv, NEW op, NEW path, NEW user, NEW config, NEW version,
         Given(op, path, user, config, version), Run(op, path, user, config, version)
  PROVE  IInv'
<1>. DEFINE script == Script(op)
            second == IF op = "upgrade" THEN now ELSE 0
<1>1. /\ Typed /\ count' \in 0 .. MaxCommands /\ result' = "none"
      /\ halfDone' = (halfDone \/ Installs(op))
  BY BoundsAreNatural DEF IInv, Typed, Run
<1>2. cmd' = [op |-> op, todo |-> script, path |-> path, user |-> user, config |-> config,
              version |-> version, second |-> second]
  BY DEF Run
<1>3. script \in Seq(Steps) /\ script # <<>> BY ScriptType DEF Given, IsScript
<1>4. second \in 0 .. MaxTime BY <1>1, BoundsAreNatural DEF Typed
<1>. HIDE DEF script, second
<1>5. /\ cmd' \in Commands /\ Busy' /\ cmd'.todo = script /\ cmd'.op = op /\ cmd'.path = path
      /\ cmd'.user = user /\ cmd'.config = config /\ cmd'.version = version
  BY <1>2, <1>3, <1>4 DEF Commands, Busy, Given
<1>6. CommandOK' BY <1>1, <1>5 DEF CommandOK, Given, Installs
<1>7. Plan' = script BY <1>5 DEF Plan, script
<1>8. OnScript'
  <2>1. Left' = Len(script) /\ Left' \in Nat BY <1>3, <1>5 DEF Left
  <2>2. \A j \in 1 .. Left' : Len(script) - Left' + j = j BY <2>1
  <2>. QED BY <1>5, <1>7, <2>1, <2>2 DEF OnScript
<1>9. /\ op = "service_install" => Left' = 7
      /\ op = "install" => Left' = 11
      /\ op = "upgrade" => Left' = 5
  BY <1>5, <1>7, LengthsOf DEF Left, script
<1>10. /\ exe' = exe /\ backups' = backups /\ env' = env /\ unitFile' = unitFile
       /\ accounts' = accounts /\ loaded' = loaded /\ enabled' = enabled /\ service' = service
       /\ runs' = runs /\ now' = now /\ held' = held
  BY DEF Run
<1>11. Typed'
  <2>1. halfDone' \in BOOLEAN BY <1>1, Zenon DEF Installs
  <2>. QED BY <1>1, <1>10, <2>1 DEF Typed
<1>12. Installing'
  <2>1. CASE Installs(op)
    <3>0. halfDone' BY <1>1, <2>1, Zenon
    <3>1. CASE op = "install"
      <4>1. More' = 2 /\ Left' = 11 BY <1>5, <1>9, <3>1 DEF More
      <4>. QED BY <3>0, <4>1 DEF Installing
    <3>2. CASE op = "service_install"
      <4>1. More' = 0 /\ Left' = 7 BY <1>5, <1>9, <3>2 DEF More
      <4>. QED BY <3>0, <4>1 DEF Installing
    <3>. QED BY <2>1, <3>1, <3>2 DEF Installs
  <2>2. CASE ~Installs(op) BY <1>5, <2>2, Zenon DEF Installing
  <2>. QED BY <2>1, <2>2
<1>13. Readable'
  <2>1. ~halfDone' => ~halfDone BY <1>1, Zenon
  <2>. QED BY <1>10, <2>1 DEF IInv, Readable, ReadableBy, CanRead
<1>14. Backing' BY <1>5, <1>9 DEF Backing
<1>15. Upgrading' BY <1>1, <1>5, <1>9 DEF Upgrading, Past
<1>16. RunningHasUnit' /\ NoVersionIsLost' BY <1>10 DEF IInv, RunningHasUnit, NoVersionIsLost
<1>. QED BY <1>6, <1>8, <1>11, <1>12, <1>13, <1>14, <1>15, <1>16, Zenon DEF IInv

(* The commands, with what each is given.                                  *)
LEMMA AdministratorKeeps == ASSUME IInv, Administrator PROVE IInv'
<1>1. CASE \E c \in Configs : RunInit(c)
  <2>1. PICK c \in Configs : RunInit(c) BY <1>1
  <2>2. Given("init", None, NoUser, c, None) BY DEF Given, Ops, Installs
  <2>. QED BY <2>1, <2>2, RunKeeps, Zenon DEF RunInit
<1>2. CASE \E p \in Paths, u \in Users : RunServiceInstall(p, u)
  <2>1. PICK p \in Paths, u \in Users : RunServiceInstall(p, u) BY <1>2
  <2>2. Given("service_install", p, u, None, None) BY DEF Given, Ops, Installs
  <2>. QED BY <2>1, <2>2, RunKeeps, Zenon DEF RunServiceInstall
<1>3. CASE \E p \in Paths, u \in Users, c \in Configs : RunInstall(p, u, c)
  <2>1. PICK p \in Paths, u \in Users, c \in Configs : RunInstall(p, u, c) BY <1>3
  <2>2. Given("install", p, u, c, None) BY DEF Given, Ops, Installs
  <2>. QED BY <2>1, <2>2, RunKeeps, Zenon DEF RunInstall
<1>4. CASE \E p \in Paths, v \in Versions : RunUpgrade(p, v)
  <2>1. PICK p \in Paths, v \in Versions : RunUpgrade(p, v) BY <1>4
  <2>2. Given("upgrade", p, NoUser, None, v) BY DEF Given, Ops, Installs
  <2>. QED BY <2>1, <2>2, RunKeeps, Zenon DEF RunUpgrade
<1>5. CASE RunStart
  <2>1. Given("start", None, NoUser, None, None) BY DEF Given, Ops, Installs
  <2>. QED BY <1>5, <2>1, RunKeeps, Zenon DEF RunStart
<1>6. CASE RunStop
  <2>1. Given("stop", None, NoUser, None, None) BY DEF Given, Ops, Installs
  <2>. QED BY <1>6, <2>1, RunKeeps, Zenon DEF RunStop
<1>. QED BY <1>1, <1>2, <1>3, <1>4, <1>5, <1>6, Zenon DEF Administrator

(* A step that can turn out either way is done or ends the command.        *)
LEMMA StepKeeps == ASSUME IInv, Step PROVE IInv'
<1>1. CASE EnvStat
  <2>1. CASE env.content # None BY <1>1, <2>1, EnvStatKeeps
  <2>2. CASE env.content = None
    <3>1. Busy /\ Gives("failed") /\ UNCHANGED <<files, system, now, held>>
      BY <1>1, <2>2 DEF EnvStat, At
    <3>. QED BY <3>1, GivesKeeps
  <2>. QED BY <2>1, <2>2
<1>2. CASE EnableNow
  <2>1. CASE loaded # None BY <1>2, <2>1, EnableNowKeeps
  <2>2. CASE loaded = None
    <3>1. Busy /\ Gives("failed") /\ UNCHANGED <<files, system, now, held>>
      BY <1>2, <2>2 DEF EnableNow, At
    <3>. QED BY <3>1, GivesKeeps
  <2>. QED BY <2>1, <2>2
<1>3. CASE Restart
  <2>1. CASE loaded # None BY <1>3, <2>1, RestartKeeps
  <2>2. CASE loaded = None
    <3>1. Busy /\ Gives("failed") /\ UNCHANGED <<files, system, now, held>>
      BY <1>3, <2>2 DEF Restart, At
    <3>. QED BY <3>1, GivesKeeps
  <2>. QED BY <2>1, <2>2
<1>4. CASE Status
  <2>1. CASE service \in {"starting", "running"} BY <1>4, <2>1, StatusKeeps
  <2>2. CASE service \notin {"starting", "running"}
    <3>1. Busy /\ Gives("failed") /\ UNCHANGED <<files, system, now, held>>
      BY <1>4, <2>2 DEF Status, At
    <3>. QED BY <3>1, GivesKeeps
  <2>. QED BY <2>1, <2>2
<1>5. CASE BackupOpen
  <2>1. CASE BackupOf(cmd.path, cmd.second) = {} BY <1>5, <2>1, BackupOpenKeeps
  <2>2. CASE BackupOf(cmd.path, cmd.second) # {}
    <3>1. Busy /\ Gives("failed") /\ UNCHANGED <<files, system, now, held>>
      BY <1>5, <2>2 DEF BackupOpen, At
    <3>. QED BY <3>1, GivesKeeps
  <2>. QED BY <2>1, <2>2
<1>. QED
  BY <1>1, <1>2, <1>3, <1>4, <1>5, EnvOpenKeeps, EnvWriteKeeps, EnsureAccountKeeps,
     EnvGroupKeeps, EnvModeKeeps, UnitOpenKeeps, UnitWriteKeeps, DaemonReloadKeeps, StopKeeps,
     BackupWriteKeeps, ReplaceKeeps, Zenon
  DEF Step

(* A daemon starts from the copy its unit names, which is the one an       *)
(* upgrade of it has replaced; it stops without touching a file.           *)
LEMMA DaemonKeeps == ASSUME IInv, DaemonRuns \/ DaemonFails \/ AutoRestart PROVE IInv'
<1>1. /\ exe' = exe /\ backups' = backups /\ env' = env /\ unitFile' = unitFile
      /\ accounts' = accounts /\ loaded' = loaded /\ enabled' = enabled /\ cmd' = cmd
      /\ result' = result /\ count' = count /\ now' = now /\ held' = held /\ halfDone' = halfDone
  BY DEF DaemonRuns, DaemonFails, AutoRestart
<1>2. /\ service' \in {"off", "starting", "running", "waiting"}
      /\ service' = "running" =>
           loaded # None /\ \E config \in Valid \cup {Torn} :
                              runs' = [version |-> exe[loaded.exec], config |-> config]
      /\ service' # "running" => runs' = NoRun \/ runs' = runs
  BY DEF DaemonRuns, DaemonFails, AutoRestart
<1>3. Typed'
  <2>1. service' = "running" => loaded \in Units /\ exe[loaded.exec] \in Versions
    BY <1>2 DEF IInv, Typed, Units
  <2>2. runs' \in Runs BY <1>2, <2>1 DEF IInv, Typed, Runs, NoRun
  <2>. QED BY <1>1, <1>2, <2>2 DEF IInv, Typed
<1>4. CommandOK' /\ OnScript'
  BY <1>1 DEF IInv, CommandOK, OnScript, Busy, Left, Plan, Installs
<1>5. Installing' BY <1>1 DEF IInv, Installing, Busy, Left, More, Installs
<1>6. Readable' BY <1>1 DEF IInv, Readable, ReadableBy, CanRead
<1>7. Backing' BY <1>1 DEF IInv, Backing, Busy, Left, BackupOf
<1>8. Upgrading'
  <2>1. SUFFICES ASSUME cmd.op = "upgrade" PROVE Upgrading' BY <1>1 DEF Upgrading
  <2>2. /\ Past(2) => exe[cmd.path] = cmd.version
        /\ Past(1) => Past(2) /\ Left' = Left /\ (Past(1)' <=> Past(1)) /\ (Past(2)' <=> Past(2))
    BY <1>1, <2>1 DEF IInv, Upgrading, Past, Busy, Left
  <2>3. ASSUME service' = "running", loaded.exec = cmd.path, exe[cmd.path] = cmd.version
        PROVE  runs'.version = cmd.version
    BY <1>2, <2>3
  <2>. QED BY <1>1, <2>2, <2>3 DEF Upgrading, Past, Busy, Left
<1>9. RunningHasUnit' BY <1>1, <1>2 DEF RunningHasUnit
<1>10. NoVersionIsLost' BY <1>1 DEF IInv, NoVersionIsLost
<1>. QED BY <1>3, <1>4, <1>5, <1>6, <1>7, <1>8, <1>9, <1>10, Zenon DEF IInv

(* After a reboot there is no command and no daemon yet.                   *)
LEMMA RebootKeeps == ASSUME IInv, Reboot PROVE IInv'
<1>1. /\ exe' = exe /\ backups' = backups /\ env' = env /\ unitFile' = unitFile
      /\ accounts' = accounts /\ enabled' = enabled
      /\ count' = count /\ now' = now /\ held' = held /\ halfDone' = halfDone
      /\ loaded' = UnitOnDisk /\ service' \in {"starting", "off"} /\ runs' = NoRun
      /\ cmd' = [cmd EXCEPT !.todo = <<>>] /\ result' = IF Busy THEN "failed" ELSE result
  BY DEF Reboot
<1>2. /\ cmd'.todo = <<>> /\ cmd'.op = cmd.op /\ cmd'.path = cmd.path /\ cmd'.version = cmd.version
      /\ cmd'.user = cmd.user /\ cmd'.config = cmd.config
      /\ cmd' \in Commands \/ cmd' = [op |-> "none", todo |-> <<>>]
  <2>1. <<>> \in Seq(Steps) OBVIOUS
  <2>2. CASE cmd \in Commands BY <1>1, <2>1, <2>2 DEF Commands
  <2>3. CASE cmd = [op |-> "none", todo |-> <<>>] BY <1>1, <2>3
  <2>. QED BY <2>2, <2>3 DEF IInv, CommandOK
<1>3. ~Busy' BY <1>2 DEF Busy
<1>4. Typed'
  <2>1. loaded' \in Units \cup {None} BY <1>1 DEF IInv, Typed, UnitOnDisk
  <2>2. runs' \in Runs BY <1>1 DEF Runs, NoRun
  <2>. QED BY <1>1, <2>1, <2>2 DEF IInv, Typed
<1>5. CommandOK' BY <1>2, <1>3 DEF IInv, CommandOK, Installs
<1>6. OnScript' /\ Installing' /\ Backing' BY <1>3 DEF OnScript, Installing, Backing
<1>7. Readable' BY <1>1 DEF IInv, Readable, ReadableBy, CanRead, UnitOnDisk
<1>8. Upgrading' BY <1>1, <1>2, <1>3 DEF IInv, Upgrading, Past
<1>9. RunningHasUnit' /\ NoVersionIsLost' BY <1>1 DEF IInv, RunningHasUnit, NoVersionIsLost
<1>. QED BY <1>4, <1>5, <1>6, <1>7, <1>8, <1>9, Zenon DEF IInv

(* Time passes, or nothing happens.                                        *)
LEMMA IdleKeeps ==
  ASSUME IInv, UNCHANGED <<files, system, command, held, halfDone>>, now' \in 0 .. MaxTime
  PROVE  IInv'
<1>1. /\ exe' = exe /\ backups' = backups /\ env' = env /\ unitFile' = unitFile
      /\ accounts' = accounts /\ loaded' = loaded /\ enabled' = enabled /\ service' = service
      /\ runs' = runs /\ cmd' = cmd /\ result' = result /\ count' = count
      /\ held' = held /\ halfDone' = halfDone
  OBVIOUS
<1>2. Typed' BY <1>1 DEF IInv, Typed
<1>3. CommandOK' /\ OnScript'
  BY <1>1 DEF IInv, CommandOK, OnScript, Busy, Left, Plan, Installs
<1>4. Installing' BY <1>1 DEF IInv, Installing, Busy, Left, More, Installs
<1>5. Readable' BY <1>1 DEF IInv, Readable, ReadableBy, CanRead
<1>6. Backing' BY <1>1 DEF IInv, Backing, Busy, Left, BackupOf
<1>7. Upgrading' BY <1>1 DEF IInv, Upgrading, Past, Busy, Left
<1>8. RunningHasUnit' /\ NoVersionIsLost' BY <1>1 DEF IInv, RunningHasUnit, NoVersionIsLost
<1>. QED BY <1>2, <1>3, <1>4, <1>5, <1>6, <1>7, <1>8, Zenon DEF IInv

-----------------------------------------------------------------------------
(* The theorems.                                                           *)

(* The invariant holds at first.                                           *)
LEMMA InitHolds == Init => IInv
<1>. SUFFICES ASSUME Init PROVE IInv OBVIOUS
<1>1. ~Busy /\ cmd.op = "none" /\ Left = 0 BY DEF Init, Busy, Left
<1>2. Typed
  <2>1. env \in EnvFiles /\ runs \in Runs BY DEF Init, EnvFiles, Runs, NoRun
  <2>2. held \in [Paths -> SUBSET Versions] BY DEF Init
  <2>3. enabled \in BOOLEAN /\ halfDone \in BOOLEAN BY Zenon DEF Init
  <2>. QED BY <2>1, <2>2, <2>3, BoundsAreNatural DEF Init, Typed
<1>3. CommandOK /\ OnScript /\ Installing /\ Backing /\ Upgrading
  BY <1>1 DEF Init, CommandOK, OnScript, Installing, Backing, Upgrading, Installs
<1>4. Readable /\ RunningHasUnit
  BY MarksAreDistinct DEF Init, Readable, ReadableBy, RunningHasUnit
<1>5. NoVersionIsLost BY DEF Init, NoVersionIsLost
<1>. QED BY <1>2, <1>3, <1>4, <1>5, Zenon DEF IInv

(* Every step keeps it.                                                    *)
LEMMA StepHolds == IInv /\ [Next]_vars => IInv'
<1>. SUFFICES ASSUME IInv, [Next]_vars PROVE IInv' OBVIOUS
<1>1. CASE Administrator BY <1>1, AdministratorKeeps
<1>2. CASE Step BY <1>2, StepKeeps
<1>3. CASE Fails BY <1>3, GivesKeeps, Zenon DEF Fails
<1>4. CASE Systemd BY <1>4, DaemonKeeps, RebootKeeps, Zenon DEF Systemd
<1>5. CASE Tick
  <2>1. now' \in 0 .. MaxTime BY <1>5, BoundsAreNatural DEF IInv, Typed, Tick
  <2>. QED BY <1>5, <2>1, IdleKeeps DEF Tick
<1>6. CASE UNCHANGED vars
  <2>1. now' \in 0 .. MaxTime BY <1>6 DEF IInv, Typed
  <2>. QED BY <1>6, <2>1, IdleKeeps
<1>. QED BY <1>1, <1>2, <1>3, <1>4, <1>5, <1>6, Zenon DEF Next

(* The invariant.                                                          *)
LEMMA Inductive == Spec => []IInv
BY InitHolds, StepHolds, PTL DEF Spec

(* The types: in particular no program is ever half written, whatever      *)
(* command is cut short (backupAndInstallExecutable renames a whole file). *)
THEOREM TypeCorrect == Spec => []TypeOK
<1>1. IInv => TypeOK BY Zenon DEF IInv, Typed, TypeOK, EnvFiles, Backups, Runs
<1>. QED BY <1>1, Inductive, PTL

(* No upgrade loses the version it replaces, at whatever point it is cut   *)
(* short and however many follow each other within a second                *)
(* (backupAndInstallExecutable).                                           *)
THEOREM NoVersionLost == Spec => []NoVersionIsLost
<1>1. IInv => NoVersionIsLost BY DEF IInv
<1>. QED BY <1>1, Inductive, PTL

(* An upgrade that reports success is what the service runs, also after    *)
(* the daemon has failed and started anew (runUpgrade).                    *)
THEOREM UpgradeHolds == Spec => []UpgradeTakesEffect
<1>1. IInv => UpgradeTakesEffect BY DEF IInv, Upgrading, Past, UpgradeTakesEffect
<1>. QED BY <1>1, Inductive, PTL

(* Between installations the service's account can read the environment    *)
(* file, whatever commands failed in the meantime (ensureEnvFileAccess,    *)
(* writeEnvFile).                                                          *)
THEOREM ServiceCanRead == Spec => []InstalledServiceCanRead
<1>1. IInv => InstalledServiceCanRead
  BY DEF IInv, Readable, ReadableBy, InstalledServiceCanRead
<1>. QED BY <1>1, Inductive, PTL
=============================================================================
