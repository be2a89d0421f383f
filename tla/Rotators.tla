------------------------------ MODULE Rotators ------------------------------
(***************************************************************************)
(* The credential adapters, statement by statement:                        *)
(* internal/infrastructure/credential.                                     *)
(*                                                                         *)
(* The pipeline calls Apply, then Verify, and, when either Verify or a     *)
(* later step fails, Restore.  A server has the password it accepts now    *)
(* and the one it will accept after a restart; a connection stays logged   *)
(* in when the password changes, and is lost when the server restarts.  A  *)
(* command is a program that may hang, may leave a helper running, and may *)
(* be killed with its process group when its time is up.                   *)
(***************************************************************************)
EXTENDS FiniteSets

CONSTANT Faults   \* the failures the environment may produce

FaultKinds == {"network", "lost", "rewrite", "restart", "start"}

ASSUME FaultsAssumption == Faults \subseteq FaultKinds

Fault(f) == f \in Faults

VARIABLES
  kind,       \* the secret's type
  self,       \* adminIsTarget: the account rotated is the administrative one
  dedicated,  \* command.restore is configured
  verified,   \* Verify proves something: it is not a command without verify
  memory,     \* the password the service accepts
  disk,       \* the password it will accept after a restart
  stage,      \* how far the rotation is
  call,       \* the method the pipeline is in
  pc,         \* the statement the method is at
  client,     \* the open client: the password it logs in with, and whether it is logged in
  program,    \* the state of the command's process
  helper,     \* a process it left in the background, in its group or detached
  late,       \* the command's timeout has passed
  mishaps     \* history: what went wrong during the last call

target  == <<kind, self, dedicated, verified>>
server  == <<memory, disk>>
process == <<program, helper, late>>
vars    == <<target, server, stage, call, pc, client, process, mishaps>>

Kinds == {"mysql", "postgres", "redis", "command"}
SQL   == {"mysql", "postgres"}

NoClient == [password |-> "none", alive |-> FALSE]

\* The administrative password resolveAdminPassword found when the attempt began.
AdminPassword == IF self THEN "previous" ELSE "root"

\* The service takes a login: of the account rotated, or of one nothing rotates.
Accepts(password) == password = (IF self \/ call = "verify" THEN memory ELSE "root")

Init ==
  /\ kind \in Kinds
  /\ self \in BOOLEAN /\ (kind = "redis" => self)
  /\ dedicated \in BOOLEAN /\ (kind # "command" => ~dedicated)
  /\ verified \in BOOLEAN /\ (kind # "command" => verified)
  /\ memory = "previous" /\ disk = "previous"
  /\ stage = "begun" /\ call = "none" /\ pc = "idle"
  /\ client = NoClient
  /\ program = "none" /\ helper = "none" /\ late = FALSE
  /\ mishaps = {}

-----------------------------------------------------------------------------
(* The pipeline.                                                           *)
FirstStatement(method) ==
  CASE kind = "command" -> "run"
    [] kind = "redis"   -> [apply |-> "set", verify |-> "ping", restore |-> "ping_previous"][method]
    [] OTHER            -> "connect"

\* The password a method logs in with first.
FirstPassword(method) ==
  CASE method = "verify"                   -> "next"
    [] kind = "redis" /\ method = "restore" -> "previous"
    [] OTHER                                -> AdminPassword

Call(method) ==
  /\ call = "none"
  /\ call' = method
  /\ pc'   = FirstStatement(method)
  /\ client'  = [password |-> FirstPassword(method), alive |-> FALSE]
  /\ mishaps' = {}
  /\ UNCHANGED <<target, server, stage, process>>

Apply   == stage = "begun" /\ Call("apply")
Verify  == stage = "applied" /\ Call("verify")
Restore == stage \in {"verified", "unverified"} /\ Call("restore")

\* The rest of the pipeline succeeds: nothing is restored.
Keep ==
  /\ call = "none" /\ stage = "verified"
  /\ stage' = "kept"
  /\ UNCHANGED <<target, server, call, pc, client, process, mishaps>>

\* A method returns to the pipeline; its deferred Close ends the connection.
Return(outcome) ==
  /\ stage'  = outcome
  /\ call'   = "none"
  /\ pc'     = "idle"
  /\ client' = NoClient

Succeeded == [apply |-> "applied", verify |-> "verified", restore |-> "restored"][call]
Failed    == [apply |-> "refused", verify |-> "unverified", restore |-> "not_restored"][call]

-----------------------------------------------------------------------------
(* A statement sent to the server.  A client that is not logged in logs in *)
(* first, with the password it was built with; pgx does not come back from *)
(* a lost connection.                                                      *)
CanRun == client.alive \/ (Accepts(client.password) /\ (kind = "postgres" => pc = "connect"))

(* The statement is done and answered; or done and the answer is lost; or  *)
(* not done, because the login or the network or the server refuses.       *)
Done(effect)   == CanRun /\ effect /\ mishaps' = mishaps
Lost(effect)   == CanRun /\ Fault("lost") /\ effect /\ mishaps' = mishaps \cup {"lost"}
Refused(fault) ==
  /\ UNCHANGED server
  /\ \/ ~CanRun /\ mishaps' = mishaps
     \/ Fault(fault) /\ mishaps' = mishaps \cup {fault}
Error(effect, fault) == Lost(effect) \/ Refused(fault)

Proceed(label) ==
  /\ pc' = label
  /\ client' = [client EXCEPT !.alive = TRUE]
  /\ UNCHANGED <<stage, call>>

\* Go on with a new client.
Retry(label, password) ==
  /\ pc' = label
  /\ client' = [password |-> password, alive |-> FALSE]
  /\ UNCHANGED <<stage, call>>

ConnectOnce ==
  /\ kind \in SQL /\ pc = "connect"
  /\ \/ Done(UNCHANGED server) /\ (IF call = "verify" THEN Return("verified") ELSE Proceed("alter"))
     \/ Refused("network") /\ Return(Failed)
  /\ UNCHANGED <<target, process>>

\* MySQLRotator.connect (open and ping), PostgresRotator.connect.
Connect ==
  /\ kind \in SQL /\ pc = "connect"
  /\ \/ Done(UNCHANGED server) /\ (IF call = "verify" THEN Return("verified") ELSE Proceed("alter"))
     \/ /\ Refused("network")
        \* Restore tries again with the new password when the account administers itself.
        /\ IF call = "restore" /\ self /\ client.password # "next"
           THEN Retry("connect", "next")
           ELSE Return(Failed)
  /\ UNCHANGED <<target, process>>

\* alterPassword: ALTER USER, ALTER ROLE; in force and durable at once.
Alter ==
  LET password == IF call = "restore" THEN "previous" ELSE "next"
      effect   == memory' = password /\ disk' = password
  IN  /\ kind \in SQL /\ pc = "alter"
      /\ \/ Done(effect) /\ Return(Succeeded)
         \/ Error(effect, "network") /\ Return(Failed)
      /\ UNCHANGED <<target, process>>

ConfigSetReturns ==
  LET effect == memory' = (IF call = "restore" THEN "previous" ELSE "next") /\ UNCHANGED disk
  IN  /\ kind = "redis" /\ pc = "set"
      /\ \/ Done(effect) /\ Return(Succeeded)
         \/ Error(effect, "network") /\ Return(Failed)
      /\ UNCHANGED <<target, process>>

\* CONFIG SET requirepass, of Apply and of Restore: in memory only.
ConfigSet ==
  LET effect == memory' = (IF call = "restore" THEN "previous" ELSE "next") /\ UNCHANGED disk
  IN  /\ kind = "redis" /\ pc = "set"
      /\ \/ Done(effect) /\ Proceed("rewrite")
         \/ Error(effect, "network") /\ Return(Failed)
      /\ UNCHANGED <<target, process>>

ConfigRewriteWithoutRevert ==
  LET effect == disk' = memory /\ UNCHANGED memory
  IN  /\ kind = "redis" /\ pc = "rewrite"
      /\ \/ Done(effect) /\ Return(Succeeded)
         \/ (Error(effect, "network") \/ Refused("rewrite")) /\ Return(Failed)
      /\ UNCHANGED <<target, process>>

(* CONFIG REWRITE persists what is in memory; a server without a           *)
(* configuration file refuses.  Apply then takes the new password back.    *)
ConfigRewrite ==
  LET effect == disk' = memory /\ UNCHANGED memory
  IN  /\ kind = "redis" /\ pc = "rewrite"
      /\ \/ Done(effect) /\ Return(Succeeded)
         \/ /\ Error(effect, "network") \/ Refused("rewrite")
            /\ IF call = "apply" THEN Retry("revert", "next") ELSE Return(Failed)
      /\ UNCHANGED <<target, process>>

\* The revert logs in with the new password, which is what the server accepts by now.
Revert ==
  LET effect == memory' = "previous" /\ UNCHANGED disk
  IN  /\ kind = "redis" /\ pc = "revert"
      /\ \/ Done(effect) /\ Return("refused")
         \/ Error(effect, "network") /\ Return("stuck")
      /\ UNCHANGED <<target, process>>

\* PING: proves a password, and finds the one that Restore can log in with.
Ping ==
  /\ kind = "redis" /\ pc \in {"ping", "ping_previous", "ping_current"}
  /\ \/ Done(UNCHANGED server) /\ (IF call = "verify" THEN Return("verified") ELSE Proceed("set"))
     \/ /\ Refused("network")
        /\ IF pc = "ping_previous" THEN Retry("ping_current", "next") ELSE Return(Failed)
  /\ UNCHANGED <<target, process>>

\* The server restarts: connections are lost, and what is on disk is in force.
Restart ==
  /\ Fault("restart") /\ kind # "command"
  /\ memory' = disk
  /\ client' = [client EXCEPT !.alive = FALSE]
  /\ mishaps' = IF call = "none" THEN mishaps ELSE mishaps \cup {"restart"}
  /\ UNCHANGED <<target, disk, stage, call, pc, process>>

-----------------------------------------------------------------------------
EnvironmentWithoutNew ==
  IF call = "restore" THEN [current |-> "next", previous |-> "previous"]
                      ELSE [new |-> "next"]

EnvironmentKeepingNew ==
  IF call = "restore" THEN [current |-> "next", previous |-> "previous", new |-> "next"]
                      ELSE [new |-> "next"]

(* Commands.  The values an invocation hands to the program, by variable.  *)
Environment ==
  CASE call = "restore" /\ dedicated -> [current |-> "next", previous |-> "previous"]
    [] call = "restore"              -> [current |-> "next", previous |-> "previous", new |-> "previous"]
    [] OTHER                         -> [new |-> "next"]

\* What the script puts in force: an apply script knows ROTATOR_NEW_SECRET only.
ScriptValue ==
  LET variable == IF call = "restore" /\ dedicated THEN "previous" ELSE "new"
  IN  IF variable \in DOMAIN Environment THEN Environment[variable] ELSE "empty"

\* run: no verify command is no error; the program may not start at all.
Run ==
  /\ kind = "command" /\ pc = "run"
  /\ \/ /\ call = "verify" /\ ~verified
        /\ Return("verified")
        /\ UNCHANGED <<process, mishaps>>
     \/ /\ call = "verify" => verified
        /\ Fault("start") /\ Return(Failed)
        /\ mishaps' = mishaps \cup {"start"}
        /\ UNCHANGED process
     \/ /\ call = "verify" => verified
        /\ pc' = "wait"
        /\ program' = "running" /\ helper' = "none" /\ late' = FALSE
        /\ UNCHANGED <<stage, call, client, mishaps>>
  /\ UNCHANGED <<target, server>>

Running == pc = "wait" /\ program = "running"

\* The script changes the password, when it is there to do that.
ScriptSets ==
  /\ Running /\ call # "verify"
  /\ memory' = ScriptValue /\ disk' = ScriptValue
  /\ UNCHANGED <<target, stage, call, pc, client, process, mishaps>>

\* It leaves a process in the background, in its process group or in one of its own.
ScriptForks ==
  /\ Running /\ helper = "none"
  /\ helper' \in {"in_group", "detached"}
  /\ UNCHANGED <<target, server, stage, call, pc, client, program, late, mishaps>>

(* It exits: with 0 when it did what it is for, or with an error.          *)
ScriptExits ==
  /\ Running
  /\ \/ program' = "succeeded"
        /\ memory = (IF call = "verify" THEN Environment.new ELSE ScriptValue)
     \/ program' = "failed"
  /\ UNCHANGED <<target, server, stage, call, pc, client, helper, late, mishaps>>

HelperExits ==
  /\ helper \in {"in_group", "detached"}
  /\ helper' = "gone"
  /\ UNCHANGED <<target, server, stage, call, pc, client, program, late, mishaps>>

\* The context of the invocation runs out: command.timeout, or the caller's deadline.
Deadline ==
  /\ pc = "wait" /\ ~late
  /\ late' = TRUE
  /\ UNCHANGED <<target, server, stage, call, pc, client, program, helper, mishaps>>

KillProgramOnly ==
  /\ pc = "wait" /\ late /\ "timeout" \notin mishaps
  /\ program' = IF Running THEN "killed" ELSE program
  /\ mishaps' = mishaps \cup {"timeout"}
  /\ UNCHANGED <<target, server, stage, call, pc, client, helper, late>>

(* cmd.Cancel kills the process group.  A program that has exited and is   *)
(* not waited for yet is still in it, so the kill succeeds all the same.   *)
Cancel ==
  /\ pc = "wait" /\ late /\ "timeout" \notin mishaps
  /\ program' = IF Running THEN "killed" ELSE program
  /\ helper'  = IF helper = "in_group" THEN "gone" ELSE helper
  /\ mishaps' = mishaps \cup {"timeout"}
  /\ UNCHANGED <<target, server, stage, call, pc, client, late>>

WaitForPipe ==
  /\ pc = "wait" /\ ~Running /\ helper \in {"none", "gone"}
  /\ IF program = "succeeded" /\ "timeout" \notin mishaps THEN Return(Succeeded) ELSE Return(Failed)
  /\ UNCHANGED <<target, server, process, mishaps>>

(* cmd.Wait: output goes to a file, so only the program is waited for.  An *)
(* invocation that was cancelled is an error however the program ended.    *)
Wait ==
  /\ pc = "wait" /\ ~Running
  /\ IF program = "succeeded" /\ "timeout" \notin mishaps THEN Return(Succeeded) ELSE Return(Failed)
  /\ UNCHANGED <<target, server, process, mishaps>>

-----------------------------------------------------------------------------
Statement == Connect \/ Alter \/ ConfigSet \/ ConfigRewrite \/ Revert \/ Ping

Ended == call = "none" /\ stage \in {"kept", "refused", "stuck", "restored", "not_restored"}

Rest == Ended /\ UNCHANGED vars

Next ==
  \/ Apply \/ Verify \/ Restore \/ Keep
  \/ Statement \/ Restart
  \/ Run \/ ScriptSets \/ ScriptForks \/ ScriptExits \/ HelperExits
  \/ Deadline \/ Cancel \/ Wait
  \/ Rest

(* The adapters take their next step, time passes, and a kill is carried   *)
(* out.  Of scripts nothing is assumed: they may hang.                     *)
Fairness == WF_vars(Statement) /\ WF_vars(Run) /\ WF_vars(Deadline) /\ WF_vars(Cancel) /\ WF_vars(Wait)

Spec == Init /\ [][Next]_vars /\ Fairness

-----------------------------------------------------------------------------
Passwords == {"previous", "next"}

TypeOK ==
  /\ kind \in Kinds /\ self \in BOOLEAN /\ dedicated \in BOOLEAN /\ verified \in BOOLEAN
  /\ memory \in Passwords /\ disk \in Passwords
  /\ stage \in {"begun", "applied", "verified", "unverified", "kept", "refused", "stuck",
                "restored", "not_restored"}
  /\ call \in {"none", "apply", "verify", "restore"}
  /\ client \in [password : Passwords \cup {"root", "none"}, alive : BOOLEAN]
  /\ program \in {"none", "running", "succeeded", "failed", "killed"}
  /\ helper \in {"none", "in_group", "detached", "gone"}
  /\ late \in BOOLEAN
  /\ mishaps \subseteq FaultKinds \cup {"timeout"}
  /\ pc = "idle" <=> call = "none"

(* A password that was applied and verified is still the password after a  *)
(* restart of the server (redis.go:18-22: Apply does not leave "the new    *)
(* password in memory only, where a restart would silently revert it").    *)
VerifiedSurvivesRestart == stage = "kept" /\ verified => disk = "next"

(* An Apply that fails leaves the old password in force and on disk, or    *)
(* says that it could not (redis.go:36-47), unless an answer was lost, a   *)
(* command that failed had changed it, or was killed.                      *)
FailedApplyLeavesOld ==
  stage = "refused" /\ kind # "command" /\ "lost" \notin mishaps =>
    memory = "previous" /\ disk = "previous"

(* A Restore that meets no failure of its own succeeds, whichever of the   *)
(* two passwords the server accepts by then: the account that administers  *)
(* itself, a server that restarted in between (mysql.go:42-51,             *)
(* postgres.go:44-46, redis.go:62-73).                                     *)
RollbackIsPossible ==
  stage = "not_restored" /\ kind # "command" => mishaps # {}

(* A Restore that returns nil has put the old password back, in force and  *)
(* for good, unless the server restarted under it.                         *)
RestoredIsInForce ==
  stage = "restored" /\ "restart" \notin mishaps => memory = "previous" /\ disk = "previous"

(* No call hangs: not on a program that never ends, not on a process it    *)
(* left behind (command.go:32-34).                                         *)
CallsReturn == call # "none" ~> call = "none"

(* A command that was cancelled leaves nothing of its process group        *)
(* running (command_unix.go:17-19).                                        *)
NothingOutlivesTimeout ==
  pc = "idle" /\ "timeout" \in mishaps => program # "running" /\ helper # "in_group"
=============================================================================
