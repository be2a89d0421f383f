--------------------------- MODULE RotatorsProofs ---------------------------
(***************************************************************************)
(* The safety properties of the credential adapters, whatever faults the   *)
(* environment may produce, by one inductive invariant.                    *)
(***************************************************************************)
EXTENDS Rotators, TLAPS

-----------------------------------------------------------------------------
(* The invariant, by what each part is needed for.                         *)

\* Which stage of the rotation a method belongs to, and what a call starts from.
StageOK ==
  /\ call = "apply"   => stage = "begun"
  /\ call = "verify"  => stage = "applied"
  /\ call = "restore" => stage \in {"verified", "unverified"}
  /\ stage = "begun" /\ call = "none" => mishaps = {}
  /\ pc = "run" => mishaps = {}
  /\ call = "verify" => pc \in {"connect", "ping", "run", "wait"}
  /\ pc = "ping" => call = "verify"
  /\ pc \in {"ping_previous", "ping_current"} => call = "restore"
  /\ pc = "revert" => call = "apply"
  /\ pc \in {"run", "wait"} => kind = "command"
  /\ kind = "redis" => self

\* A statement that logs in finds a client that is not logged in yet.
ClientOK ==
  /\ pc \in {"connect", "ping", "ping_previous", "ping_current"} => ~client.alive
  /\ call = "verify" => client.password = "next"

\* The rotation went through Apply, and Restore has not begun.
InForce == stage \in {"applied", "verified", "unverified", "kept"} /\ call # "restore"

(* Memory and disk: they differ in Redis only, between CONFIG SET and      *)
(* CONFIG REWRITE; and what has been verified is what is on disk.          *)
DurableOK ==
  /\ kind # "redis" => memory = disk
  /\ InForce => memory = disk
  /\ InForce /\ kind \in SQL => memory = "next"
  /\ InForce /\ stage \in {"verified", "kept"} /\ verified => memory = "next"

(* During Apply the old password is the one on disk, and until the         *)
(* statement that changes it the one in force.                             *)
ApplyOK ==
  kind # "command" /\ stage = "begun" /\ "lost" \notin mishaps =>
    /\ disk = "previous"
    /\ pc \notin {"rewrite", "revert"} => memory = "previous"

(* During Restore, as long as nothing went wrong: a password that is still *)
(* to be tried is accepted, and the client that found one stays logged in. *)
RestoreOK ==
  kind # "command" /\ call = "restore" /\ mishaps = {} =>
    /\ pc = "connect" => \/ client.password = AdminPassword
                         \/ self /\ client.password = "next" /\ memory = "next"
    /\ pc = "ping_previous" => client.password = "previous"
    /\ pc = "ping_current"  => client.password = "next" /\ memory = "next"
    /\ pc \in {"alter", "set", "rewrite"} => client.alive

\* What Restore has put back is in force.
RestoringOK ==
  call = "restore" /\ pc = "rewrite" /\ "restart" \notin mishaps => memory = "previous"

\* A command that ended well has done what it is for, and one that was cancelled is gone.
CommandOK ==
  /\ pc = "wait" /\ program = "succeeded" =>
       memory = (IF call = "restore" THEN "previous" ELSE "next")
  /\ "timeout" \in mishaps => program # "running" /\ helper # "in_group"

RotatorsInv ==
  /\ TypeOK /\ StageOK /\ ClientOK /\ DurableOK
  /\ ApplyOK /\ RestoreOK /\ RestoringOK /\ CommandOK
  /\ FailedApplyLeavesOld /\ RollbackIsPossible /\ RestoredIsInForce

-----------------------------------------------------------------------------
(* Types.                                                                  *)

Clients == [password : Passwords \cup {"root", "none"}, alive : BOOLEAN]

Stages  == {"begun", "applied", "verified", "unverified", "kept", "refused", "stuck",
            "restored", "not_restored"}

Mishaps == SUBSET (FaultKinds \cup {"timeout"})

\* The clients that a statement leaves behind: none, a new one, or itself.
LEMMA ClientTypes ==
  ASSUME TypeOK
  PROVE  /\ NoClient \in Clients
         /\ \A p \in Passwords : [password |-> p, alive |-> FALSE] \in Clients
         /\ \A b \in BOOLEAN : [client EXCEPT !.alive = b] \in Clients
<1>1. NoClient \in Clients
  BY DEF NoClient, Clients
<1>2. ASSUME NEW p \in Passwords PROVE [password |-> p, alive |-> FALSE] \in Clients
  BY DEF Clients
<1>3. ASSUME NEW b \in BOOLEAN PROVE [client EXCEPT !.alive = b] \in Clients
  BY DEF TypeOK, Clients
<1>4. QED
  BY <1>1, <1>2, <1>3

\* The stages that a call can end in.
LEMMA OutcomeTypes ==
  ASSUME TypeOK, call # "none"
  PROVE  Succeeded \in Stages /\ Failed \in Stages
  BY DEF Succeeded, Failed, Stages, TypeOK

LEMMA StatementTypes == ASSUME TypeOK, Statement PROVE TypeOK'
<1>1. client' \in Clients
  BY ClientTypes DEF Passwords, Statement, Connect, Alter, ConfigSet,
     ConfigRewrite, Revert, Ping, Return, Retry, Proceed
<1>2. /\ stage' \in Stages
      /\ pc' = "idle" <=> call' = "none"
      /\ call' \in {"none", "apply", "verify", "restore"}
  BY OutcomeTypes DEF TypeOK, Stages, Statement, Connect, Alter, ConfigSet,
     ConfigRewrite, Revert, Ping, Return, Retry, Proceed
<1>3. mishaps' \in Mishaps
  BY DEF TypeOK, Mishaps, FaultKinds, Statement, Connect, Alter, ConfigSet,
     ConfigRewrite, Revert, Ping, Done, Error, Lost, Refused
<1>4. memory' \in Passwords /\ disk' \in Passwords
  BY DEF TypeOK, Passwords, Statement, Connect, Alter, ConfigSet,
     ConfigRewrite, Revert, Ping, Done, Error, Lost, Refused, server
<1>5. UNCHANGED <<target, process>>
  BY DEF Statement, Connect, Alter, ConfigSet, ConfigRewrite, Revert, Ping
<1>6. QED
  BY <1>1, <1>2, <1>3, <1>4, <1>5 DEF TypeOK, target, process, Clients,
     Stages, Mishaps

LEMMA RestartTypes == ASSUME TypeOK, Restart PROVE TypeOK'
<1>1. client' \in Clients
  BY ClientTypes DEF Restart
<1>2. mishaps' \in Mishaps
  BY DEF TypeOK, Restart, Mishaps, FaultKinds
<1>3. memory' \in Passwords
  BY DEF TypeOK, Restart
<1>4. UNCHANGED <<target, disk, stage, call, pc, process>>
  BY DEF Restart
<1>5. QED
  BY <1>1, <1>2, <1>3, <1>4 DEF TypeOK, target, process, Clients, Mishaps

LEMMA RunTypes == ASSUME TypeOK, Run PROVE TypeOK'
<1>1. client' \in Clients
  BY ClientTypes DEF TypeOK, Clients, Run, Return
<1>2. /\ stage' \in Stages
      /\ pc' = "idle" <=> call' = "none"
      /\ call' \in {"none", "apply", "verify", "restore"}
  BY OutcomeTypes DEF TypeOK, Stages, Run, Return
<1>3. mishaps' \in Mishaps
  BY DEF TypeOK, Run, Mishaps, FaultKinds
<1>4. /\ program' \in {"none", "running", "succeeded", "failed", "killed"}
      /\ helper' \in {"none", "in_group", "detached", "gone"}
      /\ late' \in BOOLEAN
  BY DEF TypeOK, Run, process
<1>5. UNCHANGED <<target, server>>
  BY DEF Run
<1>6. QED
  BY <1>1, <1>2, <1>3, <1>4, <1>5 DEF TypeOK, target, server, Clients, Stages,
     Mishaps

LEMMA WaitTypes == ASSUME TypeOK, Wait PROVE TypeOK'
<1>1. client' \in Clients /\ stage' \in Stages /\ call' = "none" /\ pc' = "idle"
  BY ClientTypes, OutcomeTypes DEF TypeOK, Wait, Return, Running
<1>2. UNCHANGED <<target, server, process, mishaps>>
  BY DEF Wait, Return
<1>3. QED
  BY <1>1, <1>2 DEF TypeOK, target, server, process, Clients, Stages

-----------------------------------------------------------------------------
(* Each action keeps it.                                                   *)

LEMMA InitOK == Init => RotatorsInv
<1> SUFFICES ASSUME Init PROVE RotatorsInv
  OBVIOUS
<1>1. TypeOK
  <2>1. client \in Clients
    BY DEF Init, NoClient, Clients
  <2>2. memory \in Passwords /\ disk \in Passwords
    BY DEF Init, Passwords
  <2>3. QED
    BY <2>1, <2>2 DEF Init, TypeOK, Clients
<1>2. StageOK /\ ClientOK /\ DurableOK /\ CommandOK
  BY <1>1 DEF Init, StageOK, ClientOK, InForce, DurableOK, CommandOK
<1>3. ApplyOK /\ RestoreOK /\ RestoringOK
  BY DEF Init, ApplyOK, RestoreOK, RestoringOK
<1>4. FailedApplyLeavesOld /\ RollbackIsPossible /\ RestoredIsInForce
  BY DEF Init, FailedApplyLeavesOld, RollbackIsPossible, RestoredIsInForce
<1>5. QED
  BY <1>1, <1>2, <1>3, <1>4 DEF RotatorsInv

LEMMA ApplyKeeps == ASSUME RotatorsInv, Apply PROVE RotatorsInv'
  BY DEF Apply, Call, FirstStatement, FirstPassword, AdminPassword, target,
     server, process, RotatorsInv, TypeOK, StageOK, ClientOK, DurableOK,
     ApplyOK, RestoreOK, RestoringOK, CommandOK, FailedApplyLeavesOld,
     RollbackIsPossible, RestoredIsInForce, InForce, Passwords

LEMMA VerifyKeeps == ASSUME RotatorsInv, Verify PROVE RotatorsInv'
  BY DEF Verify, Call, FirstStatement, FirstPassword, target, server, process,
     RotatorsInv, TypeOK, StageOK, ClientOK, DurableOK, ApplyOK, RestoreOK,
     RestoringOK, CommandOK, FailedApplyLeavesOld, RollbackIsPossible,
     RestoredIsInForce, InForce, Passwords

LEMMA RestoreKeeps == ASSUME RotatorsInv, Restore PROVE RotatorsInv'
  BY DEF Restore, Call, FirstStatement, FirstPassword, AdminPassword, target,
     server, process, RotatorsInv, TypeOK, StageOK, ClientOK, DurableOK,
     ApplyOK, RestoreOK, RestoringOK, CommandOK, FailedApplyLeavesOld,
     RollbackIsPossible, RestoredIsInForce, InForce, Passwords

LEMMA KeepKeeps == ASSUME RotatorsInv, Keep PROVE RotatorsInv'
  BY DEF Keep, target, server, process, RotatorsInv, TypeOK, StageOK,
     ClientOK, DurableOK, ApplyOK, RestoreOK, RestoringOK, CommandOK,
     FailedApplyLeavesOld, RollbackIsPossible, RestoredIsInForce, InForce

LEMMA ConnectKeeps == ASSUME RotatorsInv, Connect PROVE RotatorsInv'
<1>1. TypeOK'
  BY StatementTypes DEF RotatorsInv, Statement
<1>2. StageOK'
  BY DEF Connect, Return, Retry, Proceed, Failed, target, RotatorsInv, TypeOK,
     StageOK
<1>3. ClientOK'
  BY DEF Connect, Return, Retry, Proceed, ClientOK
<1>4. DurableOK'
  BY DEF Connect, Done, Refused, Return, Retry, Proceed, Failed, target,
     server, RotatorsInv, TypeOK, StageOK, DurableOK, InForce
<1>5. ApplyOK'
  BY DEF Connect, Done, Refused, Return, Retry, Proceed, Failed, target,
     server, RotatorsInv, TypeOK, ApplyOK
<1>6. RestoreOK'
  BY DEF Connect, Done, Refused, Return, Retry, Proceed, CanRun, Accepts,
     AdminPassword, target, server, RotatorsInv, TypeOK, RestoreOK, Passwords
<1>7. RestoringOK'
  BY DEF Connect, Return, Retry, Proceed, RestoringOK
<1>8. CommandOK'
  BY DEF Connect, Done, Refused, Return, Retry, Proceed, process, RotatorsInv,
     CommandOK
<1>9. FailedApplyLeavesOld'
  BY DEF Connect, Done, Refused, Return, Retry, Proceed, Failed, target,
     server, RotatorsInv, TypeOK, StageOK, ApplyOK, FailedApplyLeavesOld
<1>10. RollbackIsPossible'
  BY DEF Connect, Done, Refused, Return, Retry, Proceed, CanRun, Accepts,
     Failed, AdminPassword, target, RotatorsInv, TypeOK, RestoreOK,
     RollbackIsPossible
<1>11. RestoredIsInForce'
  BY DEF Connect, Done, Refused, Return, Retry, Proceed, Failed, server,
     RotatorsInv, TypeOK, RestoredIsInForce
<1>12. QED
  BY <1>1, <1>2, <1>3, <1>4, <1>5, <1>6, <1>7, <1>8, <1>9, <1>10, <1>11 DEF RotatorsInv

LEMMA AlterKeeps == ASSUME RotatorsInv, Alter PROVE RotatorsInv'
<1>1. TypeOK'
  BY StatementTypes DEF RotatorsInv, Statement
<1>2. StageOK'
  BY DEF Alter, Return, Failed, Succeeded, target, RotatorsInv, TypeOK,
     StageOK
<1>3. ClientOK'
  BY DEF Alter, Return, ClientOK
<1>4. DurableOK'
  BY DEF Alter, Done, Error, Lost, Refused, Return, Failed, Succeeded, target,
     server, RotatorsInv, TypeOK, StageOK, DurableOK, InForce
<1>5. ApplyOK'
  BY DEF Alter, Return, Failed, Succeeded, RotatorsInv, TypeOK, ApplyOK
<1>6. RestoreOK'
  BY DEF Alter, Return, RestoreOK
<1>7. RestoringOK'
  BY DEF Alter, Return, RestoringOK
<1>8. CommandOK'
  BY DEF Alter, Done, Error, Lost, Refused, Return, process, RotatorsInv,
     CommandOK
<1>9. FailedApplyLeavesOld'
  BY DEF Alter, Error, Lost, Refused, Return, Failed, Succeeded, target,
     server, RotatorsInv, TypeOK, StageOK, ApplyOK, FailedApplyLeavesOld
<1>10. RollbackIsPossible'
  BY DEF Alter, Error, Lost, Refused, Return, CanRun, Failed, Succeeded,
     target, RotatorsInv, TypeOK, RestoreOK, RollbackIsPossible
<1>11. RestoredIsInForce'
  BY DEF Alter, Done, Return, Failed, Succeeded, RotatorsInv, TypeOK,
     RestoredIsInForce
<1>12. QED
  BY <1>1, <1>2, <1>3, <1>4, <1>5, <1>6, <1>7, <1>8, <1>9, <1>10, <1>11 DEF RotatorsInv

LEMMA ConfigSetKeeps == ASSUME RotatorsInv, ConfigSet PROVE RotatorsInv'
<1>1. TypeOK'
  BY StatementTypes DEF RotatorsInv, Statement
<1>2. StageOK'
  BY DEF ConfigSet, Return, Proceed, Failed, target, RotatorsInv, TypeOK,
     StageOK
<1>3. ClientOK'
  BY DEF ConfigSet, Return, Proceed, RotatorsInv, TypeOK, ClientOK
<1>4. DurableOK'
  BY DEF ConfigSet, Return, Proceed, Failed, target, RotatorsInv, TypeOK,
     StageOK, DurableOK, InForce
<1>5. ApplyOK'
  BY DEF ConfigSet, Done, Return, Proceed, Failed, RotatorsInv, TypeOK,
     ApplyOK
<1>6. RestoreOK'
  BY DEF ConfigSet, Return, Proceed, RotatorsInv, TypeOK, RestoreOK
<1>7. RestoringOK'
  BY DEF ConfigSet, Done, Return, Proceed, RestoringOK
<1>8. CommandOK'
  BY DEF ConfigSet, Done, Error, Lost, Refused, Return, Proceed, process,
     RotatorsInv, CommandOK
<1>9. FailedApplyLeavesOld'
  BY DEF ConfigSet, Error, Lost, Refused, Return, Proceed, Failed, server,
     RotatorsInv, TypeOK, StageOK, ApplyOK, FailedApplyLeavesOld
<1>10. RollbackIsPossible'
  BY DEF ConfigSet, Done, Error, Lost, Refused, Return, Proceed, CanRun,
     Failed, RotatorsInv, TypeOK, RestoreOK, RollbackIsPossible
<1>11. RestoredIsInForce'
  BY DEF ConfigSet, Return, Proceed, Failed, RotatorsInv, TypeOK, StageOK,
     RestoredIsInForce
<1>12. QED
  BY <1>1, <1>2, <1>3, <1>4, <1>5, <1>6, <1>7, <1>8, <1>9, <1>10, <1>11 DEF RotatorsInv

LEMMA ConfigRewriteKeeps == ASSUME RotatorsInv, ConfigRewrite PROVE RotatorsInv'
<1>1. TypeOK'
  BY StatementTypes DEF RotatorsInv, Statement
<1>2. StageOK'
  BY DEF ConfigRewrite, Return, Retry, Failed, Succeeded, target, RotatorsInv,
     TypeOK, StageOK
<1>3. ClientOK'
  BY DEF ConfigRewrite, Return, Retry, ClientOK
<1>4. DurableOK'
  BY DEF ConfigRewrite, Done, Return, Retry, Failed, Succeeded, target,
     RotatorsInv, TypeOK, StageOK, DurableOK, InForce, SQL
<1>5. ApplyOK'
  BY DEF ConfigRewrite, Error, Lost, Refused, Return, Retry, Failed,
     Succeeded, server, RotatorsInv, TypeOK, ApplyOK
<1>6. RestoreOK'
  BY DEF ConfigRewrite, Return, Retry, RestoreOK
<1>7. RestoringOK'
  BY DEF ConfigRewrite, Return, Retry, RestoringOK
<1>8. CommandOK'
  BY DEF ConfigRewrite, Done, Error, Lost, Refused, Return, Retry, process,
     RotatorsInv, CommandOK
<1>9. FailedApplyLeavesOld'
  BY DEF ConfigRewrite, Error, Lost, Refused, Return, Retry, Failed,
     Succeeded, server, RotatorsInv, TypeOK, FailedApplyLeavesOld
<1>10. RollbackIsPossible'
  BY DEF ConfigRewrite, Error, Lost, Refused, Return, Retry, CanRun, Failed,
     Succeeded, RotatorsInv, TypeOK, RestoreOK, RollbackIsPossible
<1>11. RestoredIsInForce'
  BY DEF ConfigRewrite, Done, Error, Lost, Refused, Return, Retry, Failed,
     Succeeded, server, RotatorsInv, TypeOK, RestoringOK, RestoredIsInForce
<1>12. QED
  BY <1>1, <1>2, <1>3, <1>4, <1>5, <1>6, <1>7, <1>8, <1>9, <1>10, <1>11 DEF RotatorsInv

LEMMA RevertKeeps == ASSUME RotatorsInv, Revert PROVE RotatorsInv'
<1>1. TypeOK'
  BY StatementTypes DEF RotatorsInv, Statement
<1>2. StageOK'
  BY DEF Revert, Return, target, RotatorsInv, StageOK
<1>3. ClientOK'
  BY DEF Revert, Return, ClientOK
<1>4. DurableOK'
  BY DEF Revert, Return, target, DurableOK, InForce
<1>5. ApplyOK'
  BY DEF Revert, Return, ApplyOK
<1>6. RestoreOK'
  BY DEF Revert, Return, RestoreOK
<1>7. RestoringOK'
  BY DEF Revert, Return, RestoringOK
<1>8. CommandOK'
  BY DEF Revert, Done, Error, Lost, Refused, Return, process, RotatorsInv,
     CommandOK
<1>9. FailedApplyLeavesOld'
  BY DEF Revert, Done, Return, RotatorsInv, StageOK, ApplyOK,
     FailedApplyLeavesOld
<1>10. RollbackIsPossible'
  BY DEF Revert, Return, RollbackIsPossible
<1>11. RestoredIsInForce'
  BY DEF Revert, Return, RestoredIsInForce
<1>12. QED
  BY <1>1, <1>2, <1>3, <1>4, <1>5, <1>6, <1>7, <1>8, <1>9, <1>10, <1>11 DEF RotatorsInv

LEMMA PingKeeps == ASSUME RotatorsInv, Ping PROVE RotatorsInv'
<1>1. TypeOK'
  BY StatementTypes DEF RotatorsInv, Statement
<1>2. StageOK'
  BY DEF Ping, Return, Retry, Proceed, Failed, target, RotatorsInv, StageOK
<1>3. ClientOK'
  BY DEF Ping, Return, Retry, Proceed, ClientOK
<1>4. DurableOK'
  BY DEF Ping, Done, Refused, Return, Retry, Proceed, CanRun, Accepts, Failed,
     target, server, RotatorsInv, StageOK, ClientOK, DurableOK, InForce
<1>5. ApplyOK'
  BY DEF Ping, Done, Refused, Return, Retry, Proceed, Failed, server,
     RotatorsInv, TypeOK, ApplyOK
<1>6. RestoreOK'
  BY DEF Ping, Done, Refused, Return, Retry, Proceed, CanRun, Accepts, server,
     RotatorsInv, TypeOK, StageOK, RestoreOK, Passwords
<1>7. RestoringOK'
  BY DEF Ping, Return, Retry, Proceed, RestoringOK
<1>8. CommandOK'
  BY DEF Ping, Done, Refused, Return, Retry, Proceed, process, RotatorsInv,
     CommandOK
<1>9. FailedApplyLeavesOld'
  BY DEF Ping, Return, Retry, Proceed, Failed, RotatorsInv, StageOK,
     FailedApplyLeavesOld
<1>10. RollbackIsPossible'
  BY DEF Ping, Refused, Return, Retry, Proceed, CanRun, Accepts, Failed,
     RotatorsInv, StageOK, RestoreOK, RollbackIsPossible
<1>11. RestoredIsInForce'
  BY DEF Ping, Done, Refused, Return, Retry, Proceed, Failed, server,
     RotatorsInv, TypeOK, RestoredIsInForce
<1>12. QED
  BY <1>1, <1>2, <1>3, <1>4, <1>5, <1>6, <1>7, <1>8, <1>9, <1>10, <1>11 DEF RotatorsInv

LEMMA RestartKeeps == ASSUME RotatorsInv, Restart PROVE RotatorsInv'
<1>1. TypeOK'
  BY RestartTypes DEF RotatorsInv
<1>2. StageOK'
  BY DEF Restart, target, RotatorsInv, StageOK
<1>3. ClientOK'
  BY DEF Restart, RotatorsInv, ClientOK
<1>4. DurableOK'
  BY DEF Restart, target, RotatorsInv, DurableOK, InForce
<1>5. ApplyOK'
  BY DEF Restart, RotatorsInv, ApplyOK
<1>6. RestoreOK'
  BY DEF Restart, RestoreOK
<1>7. RestoringOK'
  BY DEF Restart, RestoringOK
<1>8. CommandOK'
  BY DEF Restart, process, RotatorsInv, StageOK, CommandOK
<1>9. FailedApplyLeavesOld'
  BY DEF Restart, RotatorsInv, FailedApplyLeavesOld
<1>10. RollbackIsPossible'
  BY DEF Restart, RotatorsInv, RollbackIsPossible
<1>11. RestoredIsInForce'
  BY DEF Restart, RotatorsInv, RestoredIsInForce
<1>12. QED
  BY <1>1, <1>2, <1>3, <1>4, <1>5, <1>6, <1>7, <1>8, <1>9, <1>10, <1>11 DEF RotatorsInv

LEMMA RunKeeps == ASSUME RotatorsInv, Run PROVE RotatorsInv'
<1>1. TypeOK'
  BY RunTypes DEF RotatorsInv
<1>2. StageOK'
  BY DEF Run, Return, Failed, target, RotatorsInv, TypeOK, StageOK
<1>3. ClientOK'
  BY DEF Run, Return, RotatorsInv, ClientOK
<1>4. DurableOK'
  BY DEF Run, Return, Failed, target, server, RotatorsInv, TypeOK, StageOK,
     DurableOK, InForce
<1>5. ApplyOK'
  BY DEF Run, target, ApplyOK
<1>6. RestoreOK'
  BY DEF Run, Return, RestoreOK
<1>7. RestoringOK'
  BY DEF Run, Return, RestoringOK
<1>8. CommandOK'
  BY DEF Run, Return, RotatorsInv, StageOK, CommandOK
<1>9. FailedApplyLeavesOld'
  BY DEF Run, target, FailedApplyLeavesOld
<1>10. RollbackIsPossible'
  BY DEF Run, target, RollbackIsPossible
<1>11. RestoredIsInForce'
  BY DEF Run, Return, Failed, server, RotatorsInv, TypeOK, RestoredIsInForce
<1>12. QED
  BY <1>1, <1>2, <1>3, <1>4, <1>5, <1>6, <1>7, <1>8, <1>9, <1>10, <1>11 DEF RotatorsInv

LEMMA ScriptSetsKeeps == ASSUME RotatorsInv, ScriptSets PROVE RotatorsInv'
  BY DEF ScriptSets, Running, ScriptValue, Environment, target, process,
     RotatorsInv, TypeOK, StageOK, ClientOK, DurableOK, ApplyOK, RestoreOK,
     RestoringOK, CommandOK, FailedApplyLeavesOld, RollbackIsPossible,
     RestoredIsInForce, InForce, Passwords

LEMMA ScriptForksKeeps == ASSUME RotatorsInv, ScriptForks PROVE RotatorsInv'
  BY DEF ScriptForks, Running, target, server, RotatorsInv, TypeOK, StageOK,
     ClientOK, DurableOK, ApplyOK, RestoreOK, RestoringOK, CommandOK,
     FailedApplyLeavesOld, RollbackIsPossible, RestoredIsInForce, InForce

LEMMA ScriptExitsKeeps == ASSUME RotatorsInv, ScriptExits PROVE RotatorsInv'
  BY DEF ScriptExits, Running, ScriptValue, Environment, target, server,
     RotatorsInv, TypeOK, StageOK, ClientOK, DurableOK, ApplyOK, RestoreOK,
     RestoringOK, CommandOK, FailedApplyLeavesOld, RollbackIsPossible,
     RestoredIsInForce, InForce

LEMMA HelperExitsKeeps == ASSUME RotatorsInv, HelperExits PROVE RotatorsInv'
  BY DEF HelperExits, target, server, AdminPassword, RotatorsInv, TypeOK,
     StageOK, ClientOK, DurableOK, ApplyOK, RestoreOK, RestoringOK, CommandOK,
     FailedApplyLeavesOld, RollbackIsPossible, RestoredIsInForce, InForce

LEMMA DeadlineKeeps == ASSUME RotatorsInv, Deadline PROVE RotatorsInv'
  BY DEF Deadline, target, server, RotatorsInv, TypeOK, StageOK, ClientOK,
     DurableOK, ApplyOK, RestoreOK, RestoringOK, CommandOK,
     FailedApplyLeavesOld, RollbackIsPossible, RestoredIsInForce, InForce

LEMMA CancelKeeps == ASSUME RotatorsInv, Cancel PROVE RotatorsInv'
  BY DEF Cancel, Running, target, server, RotatorsInv, TypeOK, StageOK,
     ClientOK, DurableOK, ApplyOK, RestoreOK, RestoringOK, CommandOK,
     FailedApplyLeavesOld, RollbackIsPossible, RestoredIsInForce, InForce

LEMMA WaitKeeps == ASSUME RotatorsInv, Wait PROVE RotatorsInv'
<1>1. TypeOK'
  BY WaitTypes DEF RotatorsInv
<1>2. StageOK'
  BY DEF Wait, Return, Succeeded, Failed, target, RotatorsInv, TypeOK, StageOK
<1>3. ClientOK'
  BY DEF Wait, Return, ClientOK
<1>4. DurableOK'
  BY DEF Wait, Return, Succeeded, Failed, target, server, RotatorsInv, TypeOK,
     StageOK, DurableOK, CommandOK, InForce
<1>5. ApplyOK'
  BY DEF Wait, Return, Succeeded, Failed, RotatorsInv, TypeOK, ApplyOK
<1>6. RestoreOK'
  BY DEF Wait, Return, RestoreOK
<1>7. RestoringOK'
  BY DEF Wait, Return, RestoringOK
<1>8. CommandOK'
  BY DEF Wait, Return, process, RotatorsInv, CommandOK
<1>9. FailedApplyLeavesOld'
  BY DEF Wait, target, RotatorsInv, StageOK, FailedApplyLeavesOld
<1>10. RollbackIsPossible'
  BY DEF Wait, target, RotatorsInv, StageOK, RollbackIsPossible
<1>11. RestoredIsInForce'
  BY DEF Wait, Return, Succeeded, Failed, server, RotatorsInv, TypeOK,
     StageOK, DurableOK, CommandOK, RestoredIsInForce
<1>12. QED
  BY <1>1, <1>2, <1>3, <1>4, <1>5, <1>6, <1>7, <1>8, <1>9, <1>10, <1>11 DEF RotatorsInv

-----------------------------------------------------------------------------
(* The theorems.                                                           *)

LEMMA StepKeeps == ASSUME RotatorsInv, [Next]_vars PROVE RotatorsInv'
<1>1. CASE Apply \/ Verify \/ Restore \/ Keep
  BY <1>1, ApplyKeeps, VerifyKeeps, RestoreKeeps, KeepKeeps
<1>2. CASE Statement
  BY <1>2, ConnectKeeps, AlterKeeps, ConfigSetKeeps, ConfigRewriteKeeps, RevertKeeps, PingKeeps
     DEF Statement
<1>3. CASE Restart
  BY <1>3, RestartKeeps
<1>4. CASE Run \/ ScriptSets \/ ScriptForks \/ ScriptExits \/ HelperExits
  BY <1>4, RunKeeps, ScriptSetsKeeps, ScriptForksKeeps, ScriptExitsKeeps, HelperExitsKeeps
<1>5. CASE Deadline \/ Cancel \/ Wait
  BY <1>5, DeadlineKeeps, CancelKeeps, WaitKeeps
<1>6. CASE Rest \/ UNCHANGED vars
  <2>1. UNCHANGED vars
    BY <1>6 DEF Rest
  <2>2. QED
    BY <2>1 DEF vars, target, server, process, RotatorsInv, TypeOK, StageOK,
       ClientOK, InForce, DurableOK, ApplyOK, RestoreOK, AdminPassword,
       RestoringOK, CommandOK, FailedApplyLeavesOld, RollbackIsPossible,
       RestoredIsInForce
<1>7. QED
  BY <1>1, <1>2, <1>3, <1>4, <1>5, <1>6 DEF Next

LEMMA RotatorsInvariant == Spec => []RotatorsInv
  BY InitOK, StepKeeps, PTL DEF Spec

(* A call is one of apply, verify and restore exactly while a statement is *)
(* to be executed, a server accepts one of the two passwords, now and      *)
(* after a restart, and a script puts no third one in force: what Restore  *)
(* hands to an apply script is the password it knows as the new one.       *)
THEOREM AdaptersTypeCorrect == Spec => []TypeOK
<1>1. RotatorsInv => TypeOK
  BY DEF RotatorsInv
<1>2. QED
  BY <1>1, RotatorsInvariant, PTL

(* Whatever faults there are, a password that was applied and verified is  *)
(* still the password after a restart of the server.                       *)
THEOREM VerifiedIsDurable == Spec => []VerifiedSurvivesRestart
<1>1. RotatorsInv => VerifiedSurvivesRestart
  BY DEF RotatorsInv, StageOK, DurableOK, InForce, VerifiedSurvivesRestart
<1>2. QED
  BY <1>1, RotatorsInvariant, PTL

(* An Apply that fails and says no more than that leaves the old password  *)
(* in force and on disk, unless an answer was lost.                        *)
THEOREM FailedApplyIsHarmless == Spec => []FailedApplyLeavesOld
<1>1. RotatorsInv => FailedApplyLeavesOld
  BY DEF RotatorsInv
<1>2. QED
  BY <1>1, RotatorsInvariant, PTL

(* A Restore that meets no failure of its own succeeds, whatever happened  *)
(* before it.                                                              *)
THEOREM RollbackSucceeds == Spec => []RollbackIsPossible
<1>1. RotatorsInv => RollbackIsPossible
  BY DEF RotatorsInv
<1>2. QED
  BY <1>1, RotatorsInvariant, PTL

(* A Restore that returns nil has put the old password back, in force and  *)
(* for good, unless the server restarted under it.                         *)
THEOREM RestoreIsInForce == Spec => []RestoredIsInForce
<1>1. RotatorsInv => RestoredIsInForce
  BY DEF RotatorsInv
<1>2. QED
  BY <1>1, RotatorsInvariant, PTL

(* A command that was cancelled leaves nothing of its process group        *)
(* running.                                                                *)
THEOREM CancelledIsGone == Spec => []NothingOutlivesTimeout
<1>1. RotatorsInv => NothingOutlivesTimeout
  BY DEF RotatorsInv, CommandOK, NothingOutlivesTimeout
<1>2. QED
  BY <1>1, RotatorsInvariant, PTL
=============================================================================
