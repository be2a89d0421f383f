---------------------------- MODULE RotateSecret ----------------------------
(***************************************************************************)
(* The rotation pipeline: internal/application/rotate.go.                  *)
(*                                                                         *)
(* Each secret has at most one attempt in flight (the scheduler's lock per *)
(* secret, or the CLI's loop); attempts at different secrets interleave at *)
(* every file, service, container and audit operation, because the code    *)
(* holds no other lock.  An attempt drives the journal of module Rotation  *)
(* forward and, on any failure after a value was generated, runs the       *)
(* compensation plan that the journal yields.                              *)
(*                                                                         *)
(* The world it acts on is shared: the .env files (whole contents, because *)
(* a write and a restore replace whole files), the passwords the backing   *)
(* services accept, and the values the running containers loaded.  A       *)
(* password is a number: 0 the initial one, n the one generated by the     *)
(* n-th attempt at that secret, Absent the zero Credential.                *)
(***************************************************************************)
EXTENDS Rotation, FiniteSets

CONSTANTS
  Secrets,           \* the configured secrets; each names its key and its account
  Accounts,          \* Secrets and the accounts nothing rotates (a root user)
  Files,             \* the .env files
  Containers,        \* real container names
  KindOf,            \* [Secrets -> Kind]
  EnvFiles,          \* [Secrets -> Seq(Files)], the primary file first
  ContainersOf,      \* [Secrets -> Seq(Containers)], resolved, in restart order
  Reads,             \* [Containers -> [Secrets -> Files]]: where c takes s's value from
  Probing,           \* containers whose health check uses their credentials
  AdminAccount,      \* [Secrets -> Accounts]: the account rotator connects as
  AdminPassword,     \* [Secrets -> Int]: an explicit provider.password, or Absent
  AdminPasswordEnv,  \* [Secrets -> Accounts \cup {Absent}]: provider.password_env's key
  HasVerifyCommand,  \* the command secrets with a verify command
  InitialFiles,      \* [Files -> [Accounts -> Int]]
  MayOverlap,        \* the daemon overlaps attempts, the CLI runs them one by one
  Faults,            \* the failures the environment may produce
  MaxAttempts        \* BOUND: [Secrets -> Nat], attempts at each secret

Kind == {"mysql", "postgres", "redis", "generic", "command"}

FaultKinds ==
  {"resolve", "open", "generate", "apply", "apply_lost", "apply_noop", "verify",
   "write", "restart", "health", "restore_file", "restore_credential",
   "restore_noop", "audit", "expire", "crash"}

Content == [Accounts -> Int]

Elements(seq) == {seq[i] : i \in DOMAIN seq}

(* What newEnvFileSet and the configuration guarantee: a secret has at     *)
(* least one file and lists none twice.                                    *)
ASSUME ConfigurationAssumption ==
  /\ Secrets \subseteq Accounts
  /\ KindOf \in [Secrets -> Kind]
  /\ EnvFiles \in [Secrets -> Seq(Files)]
  /\ \A s \in Secrets : /\ Len(EnvFiles[s]) > 0
                        /\ \A i, j \in DOMAIN EnvFiles[s] :
                             EnvFiles[s][i] = EnvFiles[s][j] => i = j
  /\ ContainersOf \in [Secrets -> Seq(Containers)]
  /\ Reads \in [Containers -> [Secrets -> Files]]
  /\ AdminAccount \in [Secrets -> Accounts]
  /\ AdminPassword \in [Secrets -> Int]
  /\ AdminPasswordEnv \in [Secrets -> Accounts \cup {Absent}]
  /\ InitialFiles \in [Files -> Content]
  /\ MayOverlap \in BOOLEAN
  /\ Faults \subseteq FaultKinds
  /\ MaxAttempts \in [Secrets -> Nat]

HasBackingService(s) == KindOf[s] # "generic"
PrimaryEnvFile(s)    == EnvFiles[s][1]

VARIABLES
  files,     \* the .env files on disk
  svc,       \* the password each account accepts
  loaded,    \* the value of each secret that each running container holds
  trail,     \* the newest audit record of each secret, of the log module Audit keeps
  attempts,  \* how many attempts at each secret have begun
  pc,        \* where in Execute each attempt is
  journal,   \* its Rotation
  admin,     \* the admin password it resolved
  at,        \* the file, or the undo action, it is working on
  pos,       \* the container it is restarting
  buffer,    \* the content that Write has read and is about to replace
  failures,  \* has an undo action failed
  expired,   \* is its context cancelled or past its deadline
  result,    \* what the last attempt returned
  standing,  \* history: what is known of the secret since its last success
  prior      \* history: the value all parties agreed on when the attempt began

world == <<files, svc, loaded>>
local == <<journal, admin, at, pos, buffer, failures>>
past  == <<result, standing, prior>>
vars  == <<world, trail, attempts, pc, local, expired, past>>

\* A secret that the audit trail does not mention yet.
NoRecord == [outcome |-> "none", lastStep |-> StepPending, previous |-> Absent]

AuditRecord == [outcome : Outcome \cup {NoRecord.outcome}, lastStep : Step, previous : Int]

Labels == {"idle", "resolve", "open", "generate", "apply", "verify", "read_file",
           "replace_file", "restart", "wait_healthy", "record_success",
           "undo", "undo_wait", "record_failure"}
Results == {"none", "untouched", "failed", "success", "rolled_back", "rollback_failed"}

(* settled: since the last success (or the start) nothing happened that    *)
(* excuses a disagreement.  inherited: the configuration started with one. *)
(* reported: an attempt returned ErrRollbackFailed.  interrupted: the      *)
(* process died in an attempt.  deceived: the service answered the         *)
(* opposite of what it did, and nothing in the pipeline checks it.         *)
Standings == {"settled", "inherited", "reported", "interrupted", "deceived"}

-----------------------------------------------------------------------------
(* What the parties hold.  A generic secret lives in its files only.       *)
InForce(s) == IF HasBackingService(s) THEN svc[s] ELSE files[PrimaryEnvFile(s)][s]

FilesAgree(s) == \A f \in Elements(EnvFiles[s]) : files[f][s] = InForce(s)

ContainersAgree(s) == \A c \in Elements(ContainersOf[s]) : loaded[c][s] = InForce(s)

Agreement(s) == IF FilesAgree(s) /\ ContainersAgree(s) THEN InForce(s) ELSE Absent

Init ==
  /\ files    = InitialFiles
  /\ svc      = [a \in Accounts |-> 0]
  /\ loaded   = [c \in Containers |-> [s \in Secrets |-> InitialFiles[Reads[c][s]][s]]]
  /\ trail    = [s \in Secrets |-> NoRecord]
  /\ attempts = [s \in Secrets |-> 0]
  /\ pc       = [s \in Secrets |-> "idle"]
  /\ journal  = [s \in Secrets |-> BeginRotation]
  /\ admin    = [s \in Secrets |-> Absent]
  /\ at       = [s \in Secrets |-> 1]
  /\ pos      = [s \in Secrets |-> 1]
  /\ buffer   = [s \in Secrets |-> [a \in Accounts |-> Absent]]
  /\ failures = [s \in Secrets |-> FALSE]
  /\ expired  = [s \in Secrets |-> FALSE]
  /\ result   = [s \in Secrets |-> "none"]
  /\ standing = [s \in Secrets |-> IF Agreement(s) = 0 THEN "settled" ELSE "inherited"]
  /\ prior    = [s \in Secrets |-> Absent]

-----------------------------------------------------------------------------
Fault(f) == f \in Faults

Goto(s, label) == pc' = [pc EXCEPT ![s] = label]

Note(s, r) == journal' = [journal EXCEPT ![s] = r]

\* The local variables of Execute go out of scope when it returns.
Forget(s) ==
  /\ journal'  = [journal  EXCEPT ![s] = BeginRotation]
  /\ admin'    = [admin    EXCEPT ![s] = Absent]
  /\ at'       = [at       EXCEPT ![s] = 1]
  /\ pos'      = [pos      EXCEPT ![s] = 1]
  /\ buffer'   = [buffer   EXCEPT ![s] = [a \in Accounts |-> Absent]]
  /\ failures' = [failures EXCEPT ![s] = FALSE]

Return(s, outcome) ==
  /\ Goto(s, "idle")
  /\ result' = [result EXCEPT ![s] = outcome]
  /\ Forget(s)

\* Audit is best effort: a record that cannot be written is only warned about.
RecordOutcome(s, record) ==
  \/ trail' = [trail EXCEPT ![s] = record]
  \/ Fault("audit") /\ UNCHANGED trail

\* compensate starts: the plan is computed from the journal, no failure yet.
Compensate(s) ==
  /\ Goto(s, "undo")
  /\ at'  = [at EXCEPT ![s] = 1]
  /\ pos' = [pos EXCEPT ![s] = 1]

(* Calls that take the context fail once it is done: Docker, the database  *)
(* drivers and the command runner do.  File operations and the audit trail *)
(* do not look at it.                                                      *)
Live(s) == ~expired[s]

-----------------------------------------------------------------------------
(* The caller: the lock per secret keeps one attempt of s in flight.       *)
Begin(s) ==
  /\ pc[s] = "idle"
  /\ attempts[s] < MaxAttempts[s]
  /\ MayOverlap \/ \A t \in Secrets : pc[t] = "idle"
  /\ Goto(s, "resolve")
  /\ attempts' = [attempts EXCEPT ![s] = @ + 1]
  /\ expired'  = [expired EXCEPT ![s] = FALSE]
  /\ prior'    = [prior EXCEPT ![s] = Agreement(s)]
  /\ UNCHANGED <<world, trail, local, result, standing>>

\* The job's deadline passes, or the daemon cancels the policy runner's context.
Expire(s) ==
  /\ Fault("expire")
  /\ pc[s] # "idle"
  /\ Live(s)
  /\ expired' = [expired EXCEPT ![s] = TRUE]
  /\ UNCHANGED <<world, trail, attempts, pc, local, past>>

\* fleet.Resolve, before anything is read or changed.
Resolve(s) ==
  /\ pc[s] = "resolve"
  /\ \/ /\ Live(s)
        /\ Goto(s, "open")
        /\ UNCHANGED <<local, result>>
     \/ /\ ~Live(s) \/ Fault("resolve")
        /\ Return(s, "untouched")
  /\ UNCHANGED <<world, trail, attempts, expired, standing, prior>>

\* Mutant: password_env is looked up in the environment the daemon started with.
resolveAdminPasswordFromProcess(s, doc, current) ==
  IF AdminPassword[s] # Absent THEN AdminPassword[s]
  ELSE IF AdminPasswordEnv[s] # Absent
  THEN InitialFiles[PrimaryEnvFile(s)][AdminPasswordEnv[s]]
  ELSE IF AdminAccount[s] = s THEN current
  ELSE Absent

(* Three sources, in order: an explicit password, the .env entry that      *)
(* password_env names, the secret's own value when the account rotates     *)
(* itself.                                                                 *)
resolveAdminPassword(s, doc, current) ==
  IF AdminPassword[s] # Absent THEN AdminPassword[s]
  ELSE IF AdminPasswordEnv[s] # Absent THEN doc[AdminPasswordEnv[s]]
  ELSE IF AdminAccount[s] = s THEN current
  ELSE Absent

\* Open and Lookup on the primary file; a missing file or key ends the attempt.
OpenPrimary(s) ==
  LET primary == PrimaryEnvFile(s)
      doc     == files[primary]
  IN  /\ pc[s] = "open"
      /\ \/ /\ doc[s] # Absent
            /\ Note(s, RecordCurrentValue(BeginRotation, primary, doc[s], doc))
            /\ admin' = [admin EXCEPT ![s] = resolveAdminPassword(s, doc, doc[s])]
            /\ Goto(s, "generate")
            /\ UNCHANGED <<at, pos, buffer, failures, result>>
         \/ /\ doc[s] = Absent \/ Fault("open")
            /\ Return(s, "untouched")
      /\ UNCHANGED <<world, trail, attempts, expired, standing, prior>>

\* A failure here changed nothing, so it is recorded and not compensated.
Generate(s) ==
  /\ pc[s] = "generate"
  /\ \/ /\ Note(s, RecordGenerated(journal[s], attempts[s]))
        /\ Goto(s, IF HasBackingService(s) THEN "apply" ELSE "read_file")
        /\ UNCHANGED <<trail, admin, at, pos, buffer, failures, result>>
     \/ /\ Fault("generate")
        /\ RecordOutcome(s, Failed(journal[s]))
        /\ Return(s, "failed")
  /\ UNCHANGED <<world, attempts, expired, standing, prior>>

-----------------------------------------------------------------------------
(* CredentialRotator, as mysql, postgres, redis and command implement it.  *)

\* Does connecting with this password reach the service?  A command needs none.
Accepts(s, password) == KindOf[s] = "command" \/ svc[AdminAccount[s]] = password

\* The service accepts the new credential and says so.
ApplyAccepted(s) ==
  /\ Live(s) /\ Accepts(s, admin[s])
  /\ svc' = [svc EXCEPT ![s] = journal[s].next]
  /\ Note(s, RecordApplied(journal[s]))
  /\ Goto(s, "verify")
  /\ UNCHANGED <<at, pos, standing>>

\* A command with no verify command is never asked again whether it worked.
Unproven(s) == KindOf[s] = "command" /\ s \notin HasVerifyCommand

\* It says so, but the target account still has its old password.
ApplyWithoutEffect(s) ==
  /\ Fault("apply_noop")
  /\ Live(s) /\ Accepts(s, admin[s])
  /\ standing' = [standing EXCEPT ![s] = IF Unproven(s) THEN "deceived" ELSE @]
  /\ Note(s, RecordApplied(journal[s]))
  /\ Goto(s, "verify")
  /\ UNCHANGED <<svc, at, pos>>

ApplyRefused(s) ==
  /\ ~Live(s) \/ ~Accepts(s, admin[s]) \/ Fault("apply")
  /\ Compensate(s)
  /\ UNCHANGED <<svc, journal, standing>>

\* The change took effect, but its answer was an error, a timeout or lost.
ApplyAnswerLost(s) ==
  /\ Fault("apply_lost")
  /\ Live(s) /\ Accepts(s, admin[s])
  /\ svc' = [svc EXCEPT ![s] = journal[s].next]
  /\ standing' = [standing EXCEPT ![s] = "deceived"]
  /\ Compensate(s)
  /\ UNCHANGED journal

Apply(s) ==
  /\ pc[s] = "apply"
  /\ ApplyAccepted(s) \/ ApplyWithoutEffect(s) \/ ApplyRefused(s) \/ ApplyAnswerLost(s)
  /\ UNCHANGED <<files, loaded, trail, attempts, admin, buffer, failures, expired, result, prior>>

\* Mutant: the new credential is never tried out.
VerifySucceedsAlways(s) == TRUE

VerifySucceeds(s) == Unproven(s) \/ (Live(s) /\ svc[s] = journal[s].next)

VerifyFails(s) == ~Unproven(s) /\ (~Live(s) \/ svc[s] # journal[s].next \/ Fault("verify"))

Verify(s) ==
  /\ pc[s] = "verify"
  /\ \/ /\ VerifySucceeds(s)
        /\ Note(s, RecordVerified(journal[s]))
        /\ Goto(s, "read_file")
        /\ UNCHANGED <<at, pos>>
     \/ /\ VerifyFails(s)
        /\ Compensate(s)
        /\ UNCHANGED journal
  /\ UNCHANGED <<world, trail, attempts, admin, buffer, failures, expired, past>>

-----------------------------------------------------------------------------
(* env.Write of the file at[s]: read it whole, then replace it whole.      *)
Path(s) == EnvFiles[s][at[s]]

ReadFile(s) ==
  /\ pc[s] = "read_file"
  /\ \/ /\ files[Path(s)][s] # Absent
        /\ buffer' = [buffer EXCEPT ![s] = files[Path(s)]]
        /\ Goto(s, "replace_file")
        /\ UNCHANGED <<at, pos>>
     \/ /\ files[Path(s)][s] = Absent \/ Fault("write")
        /\ Compensate(s)
        /\ UNCHANGED buffer
  /\ UNCHANGED <<world, trail, attempts, journal, admin, failures, expired, past>>

\* What follows the write of file i.
NextAfterFile(s, i) ==
  IF i < Len(EnvFiles[s]) THEN "read_file"
  ELSE IF Len(ContainersOf[s]) > 0 THEN "restart"
  ELSE "record_success"

ReplaceFile(s) ==
  /\ pc[s] = "replace_file"
  /\ \/ /\ files' = [files EXCEPT ![Path(s)] = [buffer[s] EXCEPT ![s] = journal[s].next]]
        /\ Note(s, RecordFileWritten(journal[s], Path(s), buffer[s]))
        /\ at' = [at EXCEPT ![s] = @ + 1]
        /\ Goto(s, NextAfterFile(s, at[s]))
        /\ UNCHANGED pos
     \/ /\ Fault("write")
        /\ Compensate(s)
        /\ UNCHANGED <<files, journal>>
  /\ UNCHANGED <<svc, loaded, trail, attempts, admin, buffer, failures, expired, past>>

-----------------------------------------------------------------------------
(* fleet.Restart: RestartInOrder bounces a container, waits until it is    *)
(* healthy, and goes on to the next.                                       *)

\* External: a container takes its credentials from its .env files when it starts.
LoadFrom(c) == loaded' = [loaded EXCEPT ![c] = [s \in Secrets |-> files[Reads[c][s]][s]]]

\* External: a health check that logs in is healthy only with valid credentials.
Healthy(c) ==
  c \in Probing =>
    \A s \in Secrets : c \in Elements(ContainersOf[s]) /\ HasBackingService(s)
                        => loaded[c][s] = svc[s]

\* Recorded before compensating, so that what did come back is restarted again.
RestartFailed(s) ==
  /\ Note(s, RecordRestarted(journal[s], ContainersOf[s]))
  /\ Compensate(s)

RestartContainer(s) ==
  /\ pc[s] = "restart"
  /\ \/ /\ Live(s)
        /\ LoadFrom(ContainersOf[s][pos[s]])
        /\ Goto(s, "wait_healthy")
        /\ UNCHANGED <<journal, at, pos>>
     \/ /\ ~Live(s) \/ Fault("restart")
        /\ RestartFailed(s)
        /\ UNCHANGED loaded
  /\ UNCHANGED <<files, svc, trail, attempts, admin, buffer, failures, expired, past>>

WaitHealthy(s) ==
  LET c == ContainersOf[s][pos[s]]
  IN  /\ pc[s] = "wait_healthy"
      /\ \/ /\ Live(s) /\ Healthy(c)
            /\ pos[s] < Len(ContainersOf[s])
            /\ pos' = [pos EXCEPT ![s] = @ + 1]
            /\ Goto(s, "restart")
            /\ UNCHANGED <<journal, at>>
         \/ /\ Live(s) /\ Healthy(c)
            /\ pos[s] = Len(ContainersOf[s])
            /\ Note(s, RecordRestarted(journal[s], ContainersOf[s]))
            /\ Goto(s, "record_success")
            /\ UNCHANGED <<at, pos>>
         \/ /\ ~Live(s) \/ ~Healthy(c) \/ Fault("health")
            /\ RestartFailed(s)
      /\ UNCHANGED <<world, trail, attempts, admin, buffer, failures, expired, past>>

RecordSuccess(s) ==
  /\ pc[s] = "record_success"
  /\ RecordOutcome(s, Succeeded(RecordDone(journal[s])))
  /\ Return(s, "success")
  /\ standing' = [standing EXCEPT ![s] =
                    IF Unproven(s) /\ svc[s] # journal[s].next THEN "deceived" ELSE "settled"]
  /\ UNCHANGED <<world, attempts, expired, prior>>

-----------------------------------------------------------------------------
(* compensate: the plan's actions one after the other; a failed one is     *)
(* counted and the rest still run.                                         *)
Plan(s) == CompensationPlan(journal[s], HasBackingService(s))

Undoing(s, type) ==
  /\ pc[s] = "undo"
  /\ at[s] \in DOMAIN Plan(s)
  /\ Plan(s)[at[s]].type = type

\* Mutant: a failed action is retried instead of skipped.
UndoRetry(s, failed) ==
  /\ Goto(s, "undo")
  /\ at'  = [at EXCEPT ![s] = IF failed THEN @ ELSE @ + 1]
  /\ pos' = [pos EXCEPT ![s] = 1]
  /\ failures' = [failures EXCEPT ![s] = @ \/ failed]

\* Mutant: the last action's outcome stands for the whole compensation.
UndoKeepsLastOutcome(s, failed) ==
  /\ Goto(s, "undo")
  /\ at'  = [at EXCEPT ![s] = @ + 1]
  /\ pos' = [pos EXCEPT ![s] = 1]
  /\ failures' = [failures EXCEPT ![s] = failed]

\* On to the next action, which starts with its first container if it has any.
UndoNext(s, failed) ==
  /\ Goto(s, "undo")
  /\ at'  = [at EXCEPT ![s] = @ + 1]
  /\ pos' = [pos EXCEPT ![s] = 1]
  /\ failures' = [failures EXCEPT ![s] = @ \/ failed]

UndoFile(s) ==
  /\ Undoing(s, RestoreFile)
  /\ LET path == Plan(s)[at[s]].path
     IN  \/ /\ files' = [files EXCEPT ![path] = journal[s].fileBackups[path]]
            /\ UndoNext(s, FALSE)
         \/ /\ Fault("restore_file")
            /\ UndoNext(s, TRUE)
            /\ UNCHANGED files
  /\ UNCHANGED <<svc, loaded, trail, attempts, journal, admin, buffer, expired, past>>

UndoRestart(s) ==
  /\ Undoing(s, RestartContainers)
  /\ \/ /\ Live(s)
        /\ LoadFrom(Plan(s)[at[s]].containers[pos[s]])
        /\ Goto(s, "undo_wait")
        /\ UNCHANGED <<at, pos, failures>>
     \/ /\ ~Live(s) \/ Fault("restart")
        /\ UndoNext(s, TRUE)
        /\ UNCHANGED loaded
  /\ UNCHANGED <<files, svc, trail, attempts, journal, admin, buffer, expired, past>>

UndoWaitHealthy(s) ==
  LET containers == Plan(s)[at[s]].containers
  IN  /\ pc[s] = "undo_wait"
      /\ \/ /\ Live(s) /\ Healthy(containers[pos[s]])
            /\ pos[s] < Len(containers)
            /\ pos' = [pos EXCEPT ![s] = @ + 1]
            /\ Goto(s, "undo")
            /\ UNCHANGED <<at, failures>>
         \/ /\ Live(s) /\ Healthy(containers[pos[s]])
            /\ pos[s] = Len(containers)
            /\ UndoNext(s, FALSE)
         \/ /\ ~Live(s) \/ ~Healthy(containers[pos[s]]) \/ Fault("health")
            /\ UndoNext(s, TRUE)
      /\ UNCHANGED <<world, trail, attempts, journal, admin, buffer, expired, past>>

(* The passwords that Restore tries: redis the previous and the new one,   *)
(* the databases the admin password, and the new one only if the admin     *)
(* account is the one that was rotated.                                    *)
RestorePasswords(s) ==
  CASE KindOf[s] = "redis" -> {journal[s].previous, journal[s].next}
    [] KindOf[s] # "redis" /\ AdminAccount[s] = s -> {admin[s], journal[s].next}
    [] KindOf[s] # "redis" /\ AdminAccount[s] # s -> {admin[s]}

RestoreReaches(s) == \E password \in RestorePasswords(s) : Accepts(s, password)

UndoCredential(s) ==
  /\ Undoing(s, RestoreCredential)
  /\ \/ /\ Live(s) /\ RestoreReaches(s)
        /\ svc' = [svc EXCEPT ![s] = journal[s].previous]
        /\ UndoNext(s, FALSE)
        /\ UNCHANGED standing
     \/ /\ Fault("restore_noop")
        /\ Live(s) /\ RestoreReaches(s)
        /\ standing' = [standing EXCEPT ![s] = "deceived"]
        /\ UndoNext(s, FALSE)
        /\ UNCHANGED svc
     \/ /\ ~Live(s) \/ ~RestoreReaches(s) \/ Fault("restore_credential")
        /\ UndoNext(s, TRUE)
        /\ UNCHANGED <<svc, standing>>
  /\ UNCHANGED <<files, loaded, trail, attempts, journal, admin, buffer, expired, result, prior>>

UndoDone(s) ==
  /\ pc[s] = "undo"
  /\ at[s] \notin DOMAIN Plan(s)
  /\ Goto(s, "record_failure")
  /\ UNCHANGED <<world, trail, attempts, local, expired, past>>

RecordFailure(s) ==
  /\ pc[s] = "record_failure"
  /\ RecordOutcome(s, Failed(journal[s]))
  /\ Return(s, IF failures[s] THEN "rollback_failed" ELSE "rolled_back")
  /\ standing' = [standing EXCEPT ![s] = IF failures[s] THEN "reported" ELSE @]
  /\ UNCHANGED <<world, attempts, expired, prior>>

-----------------------------------------------------------------------------
(* The process dies: disk, services and containers stay as they are, and   *)
(* nothing of an attempt survives, because no journal is persisted.        *)
Crash ==
  /\ Fault("crash")
  /\ \E s \in Secrets : pc[s] # "idle"
  /\ pc'       = [s \in Secrets |-> "idle"]
  /\ journal'  = [s \in Secrets |-> BeginRotation]
  /\ admin'    = [s \in Secrets |-> Absent]
  /\ at'       = [s \in Secrets |-> 1]
  /\ pos'      = [s \in Secrets |-> 1]
  /\ buffer'   = [s \in Secrets |-> [a \in Accounts |-> Absent]]
  /\ failures' = [s \in Secrets |-> FALSE]
  /\ expired'  = [s \in Secrets |-> FALSE]
  /\ standing' = [s \in Secrets |-> IF pc[s] = "idle" THEN standing[s] ELSE "interrupted"]
  /\ UNCHANGED <<world, trail, attempts, result, prior>>

Attempt(s) ==
  \/ Resolve(s) \/ OpenPrimary(s) \/ Generate(s) \/ Apply(s) \/ Verify(s)
  \/ ReadFile(s) \/ ReplaceFile(s) \/ RestartContainer(s) \/ WaitHealthy(s)
  \/ RecordSuccess(s)
  \/ UndoFile(s) \/ UndoRestart(s) \/ UndoWaitHealthy(s) \/ UndoCredential(s)
  \/ UndoDone(s) \/ RecordFailure(s)

\* The bound: nothing begins any more once every secret has used its attempts.
Rest ==
  /\ \A s \in Secrets : pc[s] = "idle" /\ attempts[s] = MaxAttempts[s]
  /\ UNCHANGED vars

Next ==
  \/ \E s \in Secrets : Begin(s) \/ Expire(s) \/ Attempt(s)
  \/ Crash
  \/ Rest

Spec == Init /\ [][Next]_vars

(* Every call an attempt makes returns: the file operations do not block,  *)
(* and the others carry a context with a deadline or a timeout of their    *)
(* own.  Nothing obliges a trigger to fire, so Begin is not fair.          *)
Fairness == \A s \in Secrets : WF_vars(Attempt(s))

FairSpec == Spec /\ Fairness

-----------------------------------------------------------------------------
(* The journal can always be carried out: every file it says was written   *)
(* has a snapshot to restore, and it restarts the containers of its secret.*)
JournalOK(s, r) ==
  /\ r \in [step : Step, previous : Int, next : Int, fileBackups : {r.fileBackups},
            writtenFiles : Seq(Files), restarted : Seq(Containers)]
  /\ \E paths \in SUBSET Files : r.fileBackups \in [paths -> Content]
  /\ Elements(r.writtenFiles) \subseteq DOMAIN r.fileBackups
  /\ r.restarted \in {<<>>, ContainersOf[s]}

(* An attempt that is writing has a file to work on, one that is           *)
(* restarting a container, and before that the loops have not begun.       *)
IndicesOK(s) ==
  /\ pc[s] \in {"idle", "resolve", "open", "generate", "apply", "verify"} =>
       at[s] = 1 /\ pos[s] = 1
  /\ pc[s] \in {"read_file", "replace_file"} => at[s] \in DOMAIN EnvFiles[s] /\ pos[s] = 1
  /\ pc[s] \in {"restart", "wait_healthy"} => pos[s] \in DOMAIN ContainersOf[s]

(* Types, the shape of the journals and the ranges of the indices.         *)
TypeOK ==
  /\ files \in [Files -> Content]
  /\ svc \in [Accounts -> Int]
  /\ loaded \in [Containers -> [Secrets -> Int]]
  /\ trail \in [Secrets -> AuditRecord]
  /\ attempts \in [Secrets -> Nat]
  /\ pc \in [Secrets -> Labels]
  /\ admin \in [Secrets -> Int]
  /\ at \in [Secrets -> Nat \ {0}]
  /\ pos \in [Secrets -> Nat \ {0}]
  /\ buffer \in [Secrets -> Content]
  /\ failures \in [Secrets -> BOOLEAN]
  /\ expired \in [Secrets -> BOOLEAN]
  /\ result \in [Secrets -> Results]
  /\ standing \in [Secrets -> Standings]
  /\ prior \in [Secrets -> Int]
  /\ DOMAIN journal = Secrets
  /\ \A s \in Secrets : JournalOK(s, journal[s]) /\ IndicesOK(s)

(* Execute never leaves a secret half rotated without saying so: between   *)
(* attempts, unless a rollback failure was returned, the process died or   *)
(* the service lied, the service, every .env file and every container of   *)
(* the secret hold one and the same value.                                 *)
AgreedUnlessReported ==
  \A s \in Secrets : pc[s] = "idle" /\ standing[s] = "settled" => Agreement(s) # Absent

(* The order of the pipeline and of the plan: as long as no undo action    *)
(* failed, a file or a container of the secret that carries the value      *)
(* being rotated to carries one that the service accepts, going forward    *)
(* (apply and verify come before the files) and going back (the service    *)
(* is restored last).                                                      *)
NewValueIsAccepted ==
  \A s \in Secrets :
    LET new == journal[s].next
    IN  HasBackingService(s) /\ ~Unproven(s) /\ new # Absent /\ ~failures[s]
        => \/ svc[s] = new
           \/ /\ \A f \in Elements(EnvFiles[s]) : files[f][s] # new
              /\ \A c \in Elements(ContainersOf[s]) : loaded[c][s] # new

(* Rotating again works: where nothing fails, no attempt fails, the first  *)
(* one or a later one, whichever secret administers whichever.  The admin  *)
(* password each attempt resolves is therefore still the accepted one.     *)
RepeatRotationsWork == \A s \in Secrets : result[s] \in {"none", "success"}

(* StepFilesUpdated means every .env file carries the new value: at least  *)
(* from the last write until the success is recorded.                      *)
FilesCarryNewValue ==
  \A s \in Secrets :
    pc[s] \in {"restart", "wait_healthy", "record_success"} =>
      \A f \in Elements(EnvFiles[s]) : files[f][s] = journal[s].next

(* Any failure after the first change is compensated, the service put back *)
(* included: an attempt that returned leaves the parties in agreement.     *)
FailureIsCompensated ==
  \A s \in Secrets : pc[s] = "idle" => Agreement(s) # Absent

(* The pipeline keeps the promise of AtomicRotation.  While an attempt is  *)
(* in progress its secret still counts as holding the value it started     *)
(* from: a success replaces it by the new one everywhere, a rollback       *)
(* leaves it everywhere.                                                   *)
PromisedValue(s) ==
  IF standing[s] # "settled" THEN Absent
  ELSE IF pc[s] = "idle" THEN Agreement(s)
  ELSE prior[s]

Promise == INSTANCE AtomicRotation WITH
             value <- [s \in Secrets |-> PromisedValue(s)],
             busy  <- [s \in Secrets |-> pc[s] # "idle"]

RotatesAtomically == Promise!Spec

(* Every attempt that begins ends, whatever fails on the way.              *)
AttemptsTerminate == \A s \in Secrets : pc[s] # "idle" ~> pc[s] = "idle"
=============================================================================
