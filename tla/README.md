# A verification of secret-rotator

`secret-rotator` changes a password in the service that checks it, in every
`.env` file that carries it and in every container that uses it, on demand or
on a schedule, and puts everything back when a step fails. This directory holds
TLA+ models of it, translated from the Go source, the TLC configurations that
check them on small instances, and proofs that TLAPS checks for every instance.

The code is cited as `rotate.go:111`; the paths are those of `map` in
`PROJECT.json`, which names the source lines of every definition.

## The system

| component | state it keeps | operations | hard behaviour |
|---|---|---|---|
| rotation journal (`domain/rotation.go`) | step, previous and next value, a backup per file, files written, containers restarted | `Record*`, `CompensationPlan`, `Succeeded`, `Failed` | must be able to undo exactly what was done, however far the attempt got |
| rotate use case (`application/rotate.go`) | none between calls; the journal during one | `Execute`, `compensate`, `resolveAdminPassword` | every step can fail, the context can expire between any two, attempts at different secrets overlap |
| env store (`infrastructure/envstore`) | the `.env` files | `Open`, `Write`, `Restore` | a write is a read, then a replacement of the whole file; no lock on the path |
| credential rotators (`infrastructure/credential`) | what the services accept | `Apply`, `Verify`, `Restore` per kind | a change can take effect and still be answered by an error; one account may administer another |
| container fleet (`infrastructure/container`) | what the containers loaded | `Resolve`, `Restart` (one by one, waiting for health) | stops half way |
| restart order (`container/compose.go`, `container/resolve.go`, `cli/rotate.go`) | none | `topoSort`, `FilterDependencyOrder`, `ResolveContainerNames`, `applyDependencyOrder` | replicas, names Compose does not know, cycles, undefined dependencies |
| scheduler and policy runner (`infrastructure/scheduling`) | a mutex per secret, cron entries, the due list of an evaluation | `Execute`, `Run`, `evaluate`, `Stop` | two triggers for one secret, a due list that ages, a deadline per job |
| daemon (`interfaces/cli/daemon.go`) | signal context, policy goroutine | start, wait for the signal, stop | which running work is waited for |
| audit trail and history (`infrastructure/audit`, `infrastructure/crypto`) | the encrypted log, a cached key and salt, a cache of last successes | `Append`, `List`, `LastSuccess`, `Record` | concurrent read-modify-write, key generation without a lock, a stale cache, a process that dies in a write |
| compliance and policy (`application/compliance.go`, `domain/policy.go`, `cli/status.go`) | none | `Execute`, `Evaluate`, `DueForRotation`, `ParseMaxAge` | unreadable history, overflow of durations |
| configuration (`infrastructure/configfile`, `domain/secret.go`) | none after loading | discovery, normalisation of deprecated keys, translation to secrets, warnings | relative paths resolved at two places, keys that mean the same |
| notifier, plan and scan use cases, the rest of the CLI | none that matters over time | | |

How they interact: a trigger (the CLI, a cron entry, a policy check) calls
`Scheduler.Execute` or the use case directly; the use case calls the env store,
a rotator, the fleet and the audit trail in a fixed order; the policy runner
asks compliance, which reads the history the use case writes. The files, the
services, the containers and the log are shared by every attempt and, but for
the mutex per secret, nothing is locked.

What makes each correct: an attempt changes a secret everywhere or nowhere, or
says that it did neither; the journal can always be carried out; rotations can
be repeated; attempts at one secret do not overlap; every attempt ends and frees
its lock; every ended attempt is in the log; what is due is rotated, and only
that; shutdown interrupts nothing; a configuration means the same from wherever
it is found, and a write of a file happens whole or not at all. `hazards` in `PROJECT.json` lists where each
of these is at risk, and by which property it is covered.

## Modules

| module | what it models |
|---|---|
| `Rotation` | `domain/rotation.go`: the journal of an attempt as a record, each recorder as an operator on it, and `CompensationPlan` |
| `RotateSecret` | `application/rotate.go` with the adapters it calls: attempts at several secrets over shared files, services and containers |
| `AtomicRotation` | the promise, without the mechanism: a secret has one value, and an attempt replaces it everywhere or leaves it |
| `RotateAgreement` | the inductive invariants behind agreement, the order of the pipeline and repeated rotations, and the hypotheses they need |
| `Rotators` | `infrastructure/credential`: `Apply`, `Verify` and `Restore` statement by statement, with a server that restarts and a script that hangs |
| `Daemon` | `infrastructure/scheduling`, `interfaces/cli/daemon.go`, and the compliance check they act on: what triggers rotations, the mutex per secret, shutdown |
| `AuditLog` | `infrastructure/audit`: the log's file, the caches in front of it, several threads in several processes |
| `RestartOrder` | the dependency sort, the resolution of names to containers, and the order a rotation uses |
| `EnvFile` | `infrastructure/envstore`: reading, `Set`, and `writeAtomic` with a failure or a crash after any step |
| `Policy` | `ParseMaxAge` with arithmetic that wraps, the standing of a secret, what the daemon takes for due and what `status` exits with |
| `Configuration` | `infrastructure/configfile` and `NewSecret`: from the working directory and the flag to secrets, paths and warnings |
| `Inputs` | one behaviour per input of the last four, which keep no state: what their callers can hand them, and the properties that relate answer and input |
| `MCRotateSecret`, `MCDaemon`, `MCAuditLog`, `MCInputs` | configurations for TLC |
| `RotateSecretProofs`, `RotateAgreementProofs`, `RotateServiceProofs` | the theorems about the pipeline: types; agreement; atomicity, order and repetition |
| `DaemonProofs`, `AuditLogProofs`, `RotatorsProofs` | the theorems about those components |
| `InputLemmas`, `InputsProofs` | what the operators behind `Inputs` compute for every input, and the theorems that rest on it |

### State and actions of `RotateSecret`

* `files` are the `.env` files, each a function from keys to values; a write or a
  restore replaces the whole function, as the code renames a whole file.
* `svc` is the password each account accepts; `loaded` what each running
  container took from its files when it last started.
* `pc[s]`, `journal[s]`, `admin[s]`, `at[s]`, `pos[s]`, `buffer[s]`, `failures[s]`
  are the position in `Execute` of the attempt at `s` and its local variables:
  `at` is the loop index over files or undo actions, `pos` over containers,
  `buffer` the bytes that `Write` has read and is about to replace.
* `expired[s]`: its context is done. From then on every call that takes the
  context fails; file operations and the audit trail do not look at it.
* `result`, `standing` and `prior` are history: what the last attempt returned,
  whether something excuses a disagreement, and the value that all parties
  agreed on when the attempt began.

A value is a number: 0 is the initial one, `n` the one the `n`-th attempt at that
secret generated; `-1` is the zero `Credential` and a missing key. Every action
is one call of `Execute` or `compensate`, split where another attempt, a
deadline or a crash can come in between: `Write` is `ReadFile` and
`ReplaceFile`, `RestartInOrder` is `RestartContainer` and `WaitHealthy` for each
container. Each call has its success, the failures the code distinguishes
(`Faults` says which the environment may produce), and, for a service, the two
outcomes in which its answer is the opposite of what it did.

`CompensationPlan` in the code skips a written file that has no backup;
`TypeOK` shows that there is none, so the operator has no such case.

### The promise

`AtomicRotation` has one value per secret. `Commit` replaces it by a fresh one,
`Abort` keeps it. The other ends are named: `Report` (the caller gets
`ErrRollbackFailed`), `Interrupt` (the process dies), `Deceive` and `Misjudge`
(the service lied, and nothing in the pipeline asks it again). After those
nothing is promised until an attempt succeeds. The refinement maps `value` to
what service, files and containers all hold between attempts and, during one, to
what they held when it began.

### State and actions of `Daemon`

* `main` is where `runDaemon` is, from the start of the policy runner to the
  exit; `cancelled` is the signal context; `runner` is where `PolicyRunner.Run`
  is, and `due` what is left of the list its evaluation computed. The list's
  order, that of `rotator.yml`, is left open.
* `pc[e]`, `target[e]`, `expired[e]` belong to a goroutine `e` in
  `Scheduler.Execute`: where it is, the secret it was called with, and whether
  its `JobTimeout` has passed. `Jobs` are the goroutines cron has started, one
  per firing, and `Policy` is the policy runner's, which calls `Execute` for one
  due secret after the other.
* `locked` is the table of mutexes: the secrets whose `TryLock` succeeded.
* `record[s]` is what the history says of the last success of `s` ("none",
  "fresh", or "stale" once it is older than `max_age`); `readable` says whether
  the history file can be parsed at all. Where it cannot, answers still in the
  cache may be given, so an evaluation may see either.

`Execute` is `TryLock` (a trigger that finds the mutex held is dropped), the
rotation, `Notify`, and the deferred `Unlock`. A rotation is one long step of
which only the outcome matters; `RotateSecret` is its inside. The two meet in
two places: `RotateSecret` never starts an attempt at a secret while one is in
flight, which is `NoOverlap` here; and `Daemon` takes it that a rotation
returns, which is `AttemptsTerminate` there. A cron rotation has a context of
its own, a policy rotation a child of the signal context (`Done`), so a signal
fails the one and not the other.

### State and actions of `Rotators`

A behaviour is one rotation of one target, chosen in `Init`: the kind, whether
the account that is rotated is the one that logs in (`self`), and for a command
whether it has `restore` and `verify`. `memory` is the password the service
accepts, `disk` the one it will accept after a restart: `ALTER USER` sets both,
`CONFIG SET` the first, `CONFIG REWRITE` copies it to the second. `stage` and
`call` are where the pipeline is, `pc` the statement inside the call, `client`
the open connection. A statement is done and answered, done and its answer lost,
or refused. `program`, `helper` and `late` are a command's process, what it left
in the background, and whether its deadline passed; `Cancel` is the kill of the
process group, `Wait` what `cmd.Wait` waits for. What the script itself does is
left open: it may set the password, fork, hang, and exit either way.

### State and actions of `AuditLog`

* `file` is the log: a salt and sealed entries. An entry opens for the passphrase
  and the salt it was sealed under, and for nothing else; salts are numbers,
  and `ZeroSalt` is the buffer before `rand.Reader` has filled it.
* `salt[p]`, `derived[p]`, `loaded[p]`, `last[p]` are the caches of process `p`,
  shared by its threads; `mu[p]` is the mutex of `History`, which guards the last
  two. A crash empties them.
* `Record` and `Ask` are the two calls. `Append` is `ReadFile`, `CheckKey`, the
  steps of `ensureKey` (`TakeSalt`, `AllocateSalt`, `FillSalt`, `DeriveKey`),
  `SealEntry` and `ReplaceFile`; a load is the same without the last two. Every
  step is one that another thread, another process or a crash can come before.
  No lock surrounds any of this: what keeps two outcomes apart is only the
  scheduler's mutex of one secret in one process, which is `Record`'s guard.
* The log may hold the success of an earlier process at the start (`Earlier`,
  `LogFound`), or not exist.
* `recorded`, `overlapped` and `split` are history: whose `Record` returned nil
  for which entry; which entries, by their dates, were appended while another
  append was in progress; and whether a first append began in such a way that the
  log may get two salts (beside another, or beside a process that has kept
  the salt of a write that failed). `Exposed` is what the code can lose: the
  entries of `overlapped`, and every entry once `split`. The properties except
  these and nothing else; `NextCheckSeesRotation` is the promise without the
  exception, which the code does not keep.

### The modules without state

`RestartOrder`, `EnvFile`, `Policy` and `Configuration` are operators: what the
functions of the code return for an input, errors included. In `EnvFile` a write
is the list of its steps, and a call says how many of them succeed and whether
the next one fails or the process dies there. In `Policy` a duration is a
number from `-MaxDuration - 1` to `MaxDuration` that wraps as Go's does. `Inputs`
takes one of the `Questions`, a constant, and answers it, so that a property is an
invariant over `input` and `answer`. `QuestionsAssumption` says what the callers
can hand the code (any project, fleet, file, max_age, history, configuration);
`MCInputs` gives TLC bounded sets of such questions, and TLC checks that they
satisfy the assumption.

## Runs

| run | instance | checks |
|---|---|---|
| `rotate_overlap` | a self-administered MySQL account (two files, two containers, one probing) and a command secret without verify, overlapping at every step; 12 kinds of failure | `TypeOK`, `AgreedUnlessReported`, `NewValueIsAccepted`, and under fairness `AttemptsTerminate` |
| `rotate_serial` | two secrets over one file and one container, one administering the other and rotated twice, one attempt at a time; crashes, lost answers, failing undo actions | `AgreedUnlessReported`, `NewValueIsAccepted`, and that the pipeline implements `AtomicRotation` |
| `rotate_repeat` | one secret of every kind, each rotated twice in every order, nothing fails | `RepeatRotationsWork` |
| `shared_env_file` | two secrets in one file, attempts overlap, nothing fails | `FilesCarryNewValue` is violated |
| `expired_context` | one secret, the context may expire | `FailureIsCompensated` is violated |
| `daemon` | a secret with a schedule, a schedule label and a `max_age`, one with a `max_age` only; two cron goroutines and the policy runner; rotations fail or time out, records get lost, the history becomes unreadable, a signal comes at any time | `TypeOK`, `NoOverlap`, `CronRotationsFinish`, and under fairness `LocksAreReleased`, `ShutdownCompletes`, `OverdueIsAttempted` |
| `daemon_shutdown` | the same secrets, nothing fails | `RunningRotationsFinish` is violated |
| `timed_out_webhook` | the same secrets, only deadlines pass | `EveryOutcomeIsSent` is violated |
| `audit_log` | a daemon with a job and a policy goroutine and a `rotate` command beside it, no log or one with a success in it, two more records that may overlap at every step, one crash of either process, reads and writes that fail | `TypeOK`, `EntriesReadable`, `AnswersAreFresh`, `ReadableOnlyGrows`, and under fairness `CallsReturn` |
| `audit_overlap` | the daemon's two goroutines alone, nothing fails | `NextCheckSeesRotation` is violated |
| `rotators` | all four kinds, every shape of target, every failure | `TypeOK`, `VerifiedSurvivesRestart`, `FailedApplyLeavesOld`, `RollbackIsPossible`, `RestoredIsInForce`, `NothingOutlivesTimeout`, and under fairness `CallsReturn` |
| `inputs` | every project of three services, every file of three lines, every `max_age` on both sides of overflow, every standing of two secrets, configurations found from several directories under absolute and relative paths, with aliases of one file | restart order: `DependenciesFirst`, `NothingDropped`, `SortedUnlessCyclic`; files: `WriteIsAllOrNothing`, `WrittenValueIsRead`, `RestoreIsExact`; policy: `AgeMeansWhatIsWritten`, `StatusGateIsSound`, `DueIsExactlyTooOld`; configuration: `UpgradeKeepsMeaning`, `LoadedSecretsAreSound`, `SameFilesFromAnywhere`, `NothingIsSilentlyIgnored`, `ProgramIsTheScript` |

What the violated ones show, with the line each contradicts, is in `findings`:

* **shared .env file.** `Store.Write` (`store.go:35`) reads and replaces a whole
  file without a lock, and the daemon locks per secret. Two rotations that share
  a file can lose the value of the one that wrote first, whose attempt still
  succeeds.
* **expired context.** `compensate` uses the context of the attempt. A rotation
  that fails because its time ran out cannot put the service back.
* **shutdown.** At a signal `runDaemon` waits for cron's jobs and not for the
  policy goroutine (`daemon.go:130`): the process can exit in the middle of a
  rotation the policy started, and of its compensation.
* **webhook of a timed-out job.** The notification is sent with the context of
  the rotation (`scheduler.go:101`), which is done when the job timed out: the
  outcome that most needs a notification is the one that gets none.
* **outcomes that end together.** `Append` (`store.go:37`) reads the whole log and
  renames a longer one into place, and neither `History.Record` nor the scheduler
  keeps two outcomes apart. A job and the policy runner of one daemon that record two
  secrets together both read the same list; the second rename takes the first
  entry away, both calls return nil, and the next check takes the secret for one
  that was never rotated, against `history.go:48`.

### Seen while modelling

Behaviour that the models contain and that no run refutes, either because no
line of the repository says otherwise or because it is a detail of wording:

* `Set` writes a line anew: an `export `, indentation or a carriage return on it
  is gone, although `store.go:32` speaks of formatting as preserved. A remark after an unquoted value is read as part of the value.
* A relative `program` is joined with the directory of the configuration
  (`translate.go:218`) and the command then runs in that directory
  (`command.go:122`). Where the directory is itself relative, because `--config` is,
  this contradicts `translate.go:157`: `./rotate.sh` beside `--config rotator.yml`
  becomes the bare name `rotate.sh`, which is looked up on `PATH`, and beside
  `--config conf/rotator.yml` it becomes `conf/rotate.sh`, executed after the change
  to `conf`. `ProgramIsTheScript` says what holds: under an absolute path it is the script.
  TLC refutes it at once without that condition.
* Paths are compared as they are written (`secret.go:113`). Relative ones were
  joined and cleaned before, so `.env` and `./.env` are one file; of absolute
  ones `/a/./b` and `/a/b` pass for two, and under `--config conf/rotator.yml` so do
  `.env` and its absolute spelling. `MissedAlias` is exactly this, and the only way
  in which `LoadedSecretsAreSound` lets a secret have a file twice.
* Of two names that differ in surrounding space, only the trimmed one
  survives `NewSecretName`, after the check for duplicates.
* `env_files` is ignored without a warning when `env_file` is given.
* Names that Compose does not know are restarted last, and twice if they are
  listed twice.
* A large `max_age` wraps (`213504d` is an age, another one) and is not refused.
* Redis that restarts between the `CONFIG SET` and the `CONFIG REWRITE` of a
  `Restore` has the new password again, and `Restore` returns nil. If the answer
  of a `CONFIG REWRITE` is lost, `Apply` reverts the memory and the disk keeps the
  new one.
* Two first `Append`s can generate two salts, and a process whose first write
  failed keeps a salt that no file has and may put it in place of the one the file
  got meanwhile: the entries sealed under the other salt never open again.
* Two processes lose entries as two goroutines do (`audit_overlap`), which
  the repository's README.md says of rotations in general (`README.md:287`).
* `provider.password` wins over the file (`rotate.go:187`), so an account that
  rotates itself can be rotated with it once.

### Bounds, and why they are enough

* Secrets, accounts, files, containers: two files and two containers make
  "some, not all" possible in both loops, which is where the journal matters;
  a second secret is what an attempt can interfere with. No action counts more
  than that.
* `MaxAttempts` bounds the attempts at each secret: two of them let one attempt
  start from what another left behind (`rotate_serial` rotates the administering
  secret twice, before and after the other). In `rotate_overlap` each secret is
  rotated once: interference needs one attempt of each.
* `Faults` is split over the runs so that each finishes in under a minute.
  `rotate_overlap` has every failure that can only refuse; `rotate_serial` those
  that need an excuse too (crash, lost answer, failed undo).
* In `Daemon` nothing is counted. Two `Jobs` let an entry fire while an earlier
  firing of it runs, and while the policy rotates; a third would only be one
  more trigger to drop. Two secrets with a `max_age`, one of which cron rotates
  too, make a due list that ages while its first secret is rotated.
* `AuditLog`: an earlier entry and two records (`MaxRecords` counts all three) are
  what an append can lose, keep or shadow, two processes with two threads in one
  of them what can share a file and a cache, one crash what can come between any
  two steps of it. Nothing keeps the two records apart, so an entry that
  overlaps another, one that does not and one from before are all in reach.
* `Rotators` has no bound: one call follows another, a server may restart any
  number of times, and the passwords are two.
* `inputs`: three services can be a chain, a fork and a cycle, and three entries
  list one twice; three lines have a key above and below itself with something
  in between; a `MaxDuration` of 511 hours has days and weeks on both sides of it; two groups make an age and an ill-ordered one.
  A path has at most one redundant part, `./` in front of a relative one and `/./`
  inside an absolute one, so every file that is listed can be listed under a second
  spelling; `..` and symbolic links are left out.
  Every behaviour is one input and its answer, which is why this run, and only
  it, does not check deadlock.
* `Rest` is the stuttering of a system that used up its attempts, `Gone` that of
  a process that has exited; deadlock is checked in every other run.

### Fairness

In `RotateSecret`, `FairSpec` assumes that an attempt in flight takes its next step. That is what
the code does: file operations do not block, every other call carries a context
with a deadline or a timeout of its own (`WaitHealthy` stops at its timeout), and
no attempt waits for another. Nothing is assumed of triggers, failures, crashes
or expiry.

In `Daemon` it assumes that each goroutine in `Execute` takes its next step,
that the policy runner does (it is computing, or its ticker ticks), and that
`runDaemon` does. A rotation returns because of `AttemptsTerminate`, a
notification because the HTTP client has a timeout, and nothing waits for a
mutex: `TryLock` does not block. No fairness is assumed of `Fire`, `Signal`,
`Age`, `Expire` or `Corrupt`: cron entries may never fire, so what is overdue is
attempted by the policy alone.

In `AuditLog` a thread inside a call takes its next step, and one that waits for
the mutex gets it if it is free again and again (strong fairness of each
thread's `Step`, of which `Lock` and `Invalidate` wait for the mutex): a Go mutex hands itself over to a waiter that has starved for a
millisecond. In `Rotators` the adapter takes its next step, deadlines pass and a
kill is carried out; of scripts nothing is assumed, they may hang for ever.

## Proofs

* `TypeCorrect`: `Spec => []TypeOK`, for any configuration that satisfies
  `ConfigurationAssumption` (what `NewSecret` and `newEnvFileSet` guarantee).
  Beyond types it says that every file the journal lists has a snapshot to
  restore and that no loop index leaves its sequence.
* `AgreementKept`: `Apart => (Spec => []AgreedUnlessReported)`. The property
  speaks of idle secrets only, so it is far from inductive. The inductive
  invariant is `AttemptsAccountable` of `RotateAgreement`, for each secret:
  - `BookOK`: the written files are the first ones of the configured sequence,
    as many as the loop has passed, and the journal's step covers what was done;
  - `ForwardOK`: the written files hold the new value, the restarted containers
    too, and the service since `Verify`;
  - `SettledOK`: where nothing excuses a disagreement, what was not reached
    holds the old value, every backup does, and during compensation what was
    already undone holds it again (`UndoneOK`);
  - `ForeignOK`: the buffer and the backups of another attempt hold the present
    values of this secret, so writing them back changes nothing.

  `ForeignOK` is what `Apart` is for: attempts do not overlap, or secrets share
  no file and no container. Run `shared_env_file` shows what happens otherwise.

* `PipelineIsAtomic`: `Apart => (Spec => RotatesAtomically)`, the refinement of
  `AtomicRotation`. Each action of an attempt is classified by what it does to
  what is promised of its own secret (`OwnStep`: it goes on, is deceived, or ends
  undone, done, reported or misled), each class is one abstract action or a
  stutter, and the other secrets keep their promise by `ForeignOK`. `Commit` must
  install a value that was not there before, which needs a second invariant,
  `ValuesFresh` (`IntroducedValuesAreFresh`): the value an attempt introduces is
  its number, and the one it replaces came from an earlier attempt.

* `ServiceAcceptsWhatIsHeld`: `NewValueIsAccepted`, under `Apart` and `StartsOld`
  (no file starts with a value that an attempt will generate: values are numbered
  from 1). Three facts carry it, the parts of `OrderKept`: until the service has
  proven the new value no file and no container has it; once forward work is over
  it either is accepted or is gone from every holder (`AcceptedOrGone`); and while
  the plan is carried out the files already restored and the containers already
  restarted are back on older values (`UndoneOld`), so that the account, which is
  last in the plan, goes back when nothing needs the new value any more. That a
  backup is older than the attempt comes from `ValuesFresh`.
* `RotationsRepeat`: `RepeatRotationsWork`, under `Apart`, `NoFault`,
  `StartsTogether` (the files start with the password the service accepts) and
  `AdminIsKnown`: the admin password is the account's own entry, or the entry of
  another rotated secret in a primary file that the other has too, or a fixed one.
  `NothingFails` says that each step finds what it needs; the resolved password
  is accepted because `AttemptsAccountable` keeps the file of the admin's secret in
  step with its service between attempts. The shared
  file is needed: where the admin's rotation does not write the file that the
  password is read from, the next attempt logs in with one that is no longer
  accepted, which is for the operator's configuration to avoid.

* `LockTableCorrect`, `MutualExclusion`, `CronJobsFinish`: `TypeOK`, `NoOverlap`
  and `CronRotationsFinish` of `Daemon`, for any secrets, entries and number of
  goroutines. `NoOverlap` is inductive together with the part of `TypeOK` that
  says which mutexes are held, `locked = {target[e] : pc[e] \in Held}`: that is
  what lets a successful `TryLock` conclude that no other goroutine works on the
  secret, and `NoOverlap` in turn is what lets an `Unlock` keep that equation.
  `CronRotationsFinish` needs only that no entry fires after `StopCron`.

* `LogTypeCorrect`: `TypeOK` of `AuditLog`, which includes that the mutex is held
  exactly by the thread inside `LastSuccess`, the paths that return an error
  included.
* `ConfirmedIsReadable`, `LogOnlyGrows`, `NoStaleAnswer`: `EntriesReadable`,
  `ReadableOnlyGrows` and `AnswersAreFresh`, for any processes, threads, faults and
  overlaps, without a hypothesis. The inductive invariant `LogInv` has two parts:
  `Overlaps`, that whoever appends while another does has its entry in `overlapped`,
  and, until the log is `split`, `Sound`, which has beside the two properties
  - `FileOK`, `FirstOK`: a log without a salt is an empty one, and gets its salt
    from one append, in the only process that has one;
  - `KeyOK`: a process's key is that of its salt, and its salt is the file's;
  - `RecorderOK`: what a recorder has read agrees with the file on every entry that
    is not in `overlapped` (`Kept`). That is what makes appends that overlap
    harmless to the others: an append whose entry is not excepted is alone, so
    while it runs nobody else renames;
  - `AskerOK`: what a load has read holds every success that its process has
    recorded and that is not excepted: none can be confirmed before the load lets
    the mutex go.

* `VerifiedIsDurable`, `FailedApplyIsHarmless`, `RollbackSucceeds`,
  `RestoreIsInForce`, `CancelledIsGone`, `AdaptersTypeCorrect`: the six safety
  properties of `Rotators`, for any set of faults and without a hypothesis. The
  properties speak of the ends of calls; `RotatorsInv` follows the statements
  between them:
  - `DurableOK`: memory and disk differ in Redis only, between `CONFIG SET` and
    `CONFIG REWRITE`, and what was verified is what is on disk;
  - `ApplyOK`: as long as no answer was lost, the old password stays on disk
    during `Apply`, and in force until the statement that changes it;
  - `RestoreOK`: as long as nothing went wrong, one of the logins that `Restore`
    has still to try is accepted, and the client that got in stays logged in;
  - `RestoringOK`, `CommandOK`: what `Restore` has set is in force before it is
    rewritten; a script that ended well has done what it is for, and one that was
    cancelled has left nothing of its group.

The proofs have a step per action and, under it, a lemma per part of the
invariant that the action can disturb.

### The theorems about every input

The invariant `InputsInv` says only that an answer is the code's for its input.
Everything else is in `InputLemmas`, about the operators: there is nothing to
strengthen and much to compute. `InputsProofs` has one theorem for each of the
fourteen properties of `inputs`; the sets of questions are any that satisfy
`QuestionsAssumption`, so projects, fleets, files, ages, histories and
configurations have any size.

* Induction. The library's induction theorems take the property as an operator,
  which the provers cannot instantiate. `Induction` and `Least` state it of a set of
  numbers instead, and are proved from the theorem on minimal elements of
  well-founded relations. `Recursion` shows that a function on `0..n` is
  determined by a first value and a step, so that the `CHOOSE` behind a recursive
  definition has a witness; the loops of the code (`Those`, `Pop`, `After`, `Sum`)
  are followed from there.
* Restart order. `TopoSortIs`: each `Pop` takes a service whose dependencies have
  all been taken, so the result is ordered whatever was popped first; where it stops
  early, the service that is left and needs the fewest would need one that is
  left and needs fewer, so no order exists (`SortsUnlessCyclic`). `Needs` is reached through
  services that are not listed, so `NeededAreRestartedFirst` takes `Needs` as the least
  set closed under dependencies and shows that the services sorted before
  one contain it. `ResolvedNames` carries the order over to the replicas.
* Files. `WriteAtomicIs` follows the seven steps: the path changes in the last of them and
  in no other. `WritesAreRead` is about the last line of a key, which both `Set` and
  the parser take.
* Ages. `WrappedSumIsSum`: a sum that fits has partial sums that fit, since its
  terms are natural, so arithmetic that can wrap does not. `SumSplits` puts the
  leading groups, which the code adds itself, and the rest together again.
* Configuration. `FoundIs`, `DirectoryIs`, `ResolvedIs`, `LoadedIs`: what is found,
  what is anchored and where, and which definitions load. `UpgradesKeepMeaning` and
  `EveryKeyCounts` compare the canonical form of a provider block with that of a
  block that has a key renamed or removed.
* `PathsNameTheirPrograms` is about every configuration that is found under an
  absolute path, a condition of the property. `LoadingIsSound` is about every
  configuration that loads: `AnchoredApart` shows that two files of a secret whose
  spellings differ are two files unless they are a `MissedAlias`, because a relative
  path comes out of `Join` clean (`AnchoredIsClean`); `AcceptedAgeIsWritten` that an
  accepted age is the written one if that fits.

### Only model-checked

Liveness (`AttemptsTerminate`, `LocksAreReleased`, `ShutdownCompletes`,
`OverdueIsAttempted`, both `CallsReturn`) is beyond the prover: TLC checks it under
the fairness stated above. Every safety property that a passing run checks is
proved.

## Plan

1. (done) the journal, the pipeline, the promise, agreement and its proof.
2. (done) `Daemon`: triggers, the mutex table, the policy runner, deadlines,
   notification and shutdown; mutual exclusion and its proof.
3. (done) `AuditLog`: the log's read-modify-write, salt and key generation, the
   history cache; what is confirmed stays readable, and its proof.
4. (done) `RestartOrder`, `EnvFile`, `Policy`, `Configuration`: the parts without
   state, on every input of bounded sets.
5. (done) `Rotators`: the statements of each rotator, restarts of the server,
   commands and their process groups.
6. (done) the proof that the pipeline implements `AtomicRotation`.
7. (done) proofs of `NewValueIsAccepted` and `RepeatRotationsWork`, so that every
   safety property of the pipeline is proved.
8. (done) proofs of the safety properties of `Rotators` and, for inputs of any
   size, of the fourteen of `inputs`: every safety property of a passing run is
   proved.
9. (done) overlapping records in `AuditLog` and aliases of paths in
   `Configuration`, with the properties and theorems restated for them.
10. Left: the composition of `AuditLog` with `Daemon`, whose `record` is one
   variable per secret; a run of `RotateSecret` in which overlapping secrets share
   a container and no file.

## Not modelled

* Text: the quoting of SQL literals, argument vectors (`validateArgv`), the letters
  of an environment key, YAML and the overlay of environment variables, the
  reading of cron schedules and labels. Which schedule or label exists is a
  constant, a value is a model value.
* Cryptography beyond "the same passphrase and salt open what they sealed":
  Argon2id and AES-GCM are library calls. `Encrypt` and `Decrypt`, which take a
  passphrase, are not called by the program.
* Password generation and its entropy; the strength and pattern scores of `scan`.
* The plan and scan use cases, which read and describe; the notifier, whose call
  and failure are in `Daemon`; `init`, which writes a first `rotator.yml`; flags, tables and all other output.
* The Docker client, the database drivers, the cron library and the Compose
  loader, which are modelled from how the code uses them.
