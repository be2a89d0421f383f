------------------------------- MODULE Daemon -------------------------------
(***************************************************************************)
(* What triggers rotations while the daemon runs: the scheduler            *)
(* (infrastructure/scheduling/scheduler.go), the policy runner             *)
(* (scheduling/policy.go) with the compliance check behind it, and the     *)
(* life of the process (interfaces/cli/daemon.go).                         *)
(*                                                                         *)
(* Every firing of a cron entry is a goroutine of its own; the policy      *)
(* runner is one more.  Both kinds of goroutine call Scheduler.Execute,    *)
(* which the secret's mutex guards.  A rotation is one long step here, of  *)
(* which only the outcome matters: module RotateSecret is its inside, and  *)
(* relies on what is shown here, that attempts at a secret do not overlap. *)
(***************************************************************************)
CONSTANTS
  Secrets,
  Schedules,     \* the secrets with a schedule in rotator.yml
  Labels,        \* what the schedule labels of the containers name
  AnySecret,     \* a label that names no secret
  NoSecret,      \* what a goroutine that is not in Execute works on
  WithMaxAge,    \* the secrets with a max_age
  Jobs,          \* BOUND: cron goroutines alive at the same time
  Policy,        \* the goroutine of the policy runner
  Faults         \* the failures the environment may produce

ASSUME DaemonAssumption ==
  /\ Schedules \subseteq Secrets
  /\ Labels \subseteq Secrets \cup {AnySecret}
  /\ AnySecret \notin Secrets /\ NoSecret \notin Secrets
  /\ WithMaxAge \subseteq Secrets
  /\ Policy \notin Jobs
  /\ Faults \subseteq {"rotate", "expire", "audit", "webhook", "history"}

Executors == Jobs \cup {Policy}

\* LoadFromConfig and LoadFromLabels: the secrets that some cron entry rotates.
Entries == Schedules \cup {s \in Secrets : s \in Labels \/ AnySecret \in Labels}

VARIABLES
  main,       \* where runDaemon is
  cancelled,  \* has the signal context been cancelled
  runner,     \* where the policy runner's Run is
  due,        \* what is left of the secrets its evaluation found due
  pc,         \* where in Execute each goroutine is
  target,     \* the secret it was called with
  expired,    \* has its job's deadline passed
  locked,     \* the secrets whose mutex is held
  record,     \* what the history says of each secret's last success
  readable    \* can the history file be parsed

vars == <<main, cancelled, runner, due, pc, target, expired, locked, record, readable>>

MainLabels   == {"starting", "serving", "stopping", "exited"}
RunnerLabels == {"evaluate", "rotate_due", "select", "returned"}
JobLabels    == {"idle", "try_lock", "rotate", "notify", "send_failed", "unlock"}
Records      == {"none", "fresh", "stale"}

Init ==
  /\ main = "starting"
  /\ cancelled = FALSE
  /\ runner = IF WithMaxAge = {} THEN "returned" ELSE "evaluate"
  /\ due = {}
  /\ pc = [e \in Executors |-> "idle"]
  /\ target = [e \in Executors |-> NoSecret]
  /\ expired = [e \in Executors |-> FALSE]
  /\ locked = {}
  /\ record \in [Secrets -> Records]
  /\ readable = TRUE

Fault(f) == f \in Faults

\* Nothing runs any more once the process has exited.
Alive == main # "exited"

Goto(e, label) == pc' = [pc EXCEPT ![e] = label]

\* Execute returns: its arguments and its context go out of scope.
Return(e) ==
  /\ Goto(e, "idle")
  /\ target' = [target EXCEPT ![e] = NoSecret]
  /\ expired' = [expired EXCEPT ![e] = FALSE]

-----------------------------------------------------------------------------
(* Compliance: the standing of a secret and what it requires.              *)
Evaluate(s, historyReadable) ==
  CASE s \notin WithMaxAge -> "no policy"
    [] s \in WithMaxAge /\ ~historyReadable -> "unknown"
    [] s \in WithMaxAge /\ historyReadable /\ record[s] = "none"  -> "never rotated"
    [] s \in WithMaxAge /\ historyReadable /\ record[s] = "stale" -> "overdue"
    [] s \in WithMaxAge /\ historyReadable /\ record[s] = "fresh" -> "ok"

\* Mutant: a secret without a record has no age to compare.
DueForRotationIgnoringNever(s, historyReadable) == Evaluate(s, historyReadable) = "overdue"

DueForRotation(s, historyReadable) ==
  Evaluate(s, historyReadable) \in {"overdue", "never rotated"}

-----------------------------------------------------------------------------
(* Scheduler.Execute, as called by goroutine e.                            *)

\* Is the context of the execution done?  A policy rotation's is a child of
\* the signal context, a cron rotation's is not.
Done(e) == expired[e] \/ (e = Policy /\ cancelled)

\* The secrets a goroutine is between TryLock and Unlock of.
Held == {"rotate", "notify", "send_failed", "unlock"}

\* Mutant: the policy runner has a lock table of its own.
TryLockSeparateTables(e) ==
  /\ Alive /\ pc[e] = "try_lock"
  /\ \/ /\ target[e] \notin locked \/ e = Policy
        /\ locked' = locked \cup {target[e]}
        /\ Goto(e, "rotate")
        /\ UNCHANGED <<target, expired>>
     \/ /\ target[e] \in locked /\ e # Policy
        /\ Return(e)
        /\ UNCHANGED locked
  /\ UNCHANGED <<main, cancelled, runner, due, record, readable>>

\* A trigger that finds the mutex held is dropped, not queued.
TryLock(e) ==
  /\ Alive /\ pc[e] = "try_lock"
  /\ \/ /\ target[e] \notin locked
        /\ locked' = locked \cup {target[e]}
        /\ Goto(e, "rotate")
        /\ UNCHANGED <<target, expired>>
     \/ /\ target[e] \in locked
        /\ Return(e)
        /\ UNCHANGED locked
  /\ UNCHANGED <<main, cancelled, runner, due, record, readable>>

\* JobTimeout has passed since the mutex was taken.
Expire(e) ==
  /\ Alive /\ Fault("expire")
  /\ pc[e] \in {"rotate", "notify"} /\ ~expired[e]
  /\ expired' = [expired EXCEPT ![e] = TRUE]
  /\ UNCHANGED <<main, cancelled, runner, due, pc, target, locked, record, readable>>

\* A success is recorded in the history, or only warned about.
RotateSucceeds(e) ==
  /\ Alive /\ pc[e] = "rotate"
  /\ \/ readable /\ record' = [record EXCEPT ![target[e]] = "fresh"]
     \/ (~readable \/ Fault("audit")) /\ UNCHANGED record
  /\ Goto(e, "notify")
  /\ UNCHANGED <<main, cancelled, runner, due, target, expired, locked, readable>>

\* Mutant: a failure returns early, and the mutex is not released by defer.
RotateFailsKeepingLock(e) ==
  /\ Alive /\ pc[e] = "rotate"
  /\ Fault("rotate") \/ Done(e)
  /\ Return(e)
  /\ UNCHANGED <<main, cancelled, runner, due, locked, record, readable>>

RotateFails(e) ==
  /\ Alive /\ pc[e] = "rotate"
  /\ Fault("rotate") \/ Done(e)
  /\ Goto(e, "notify")
  /\ UNCHANGED <<main, cancelled, runner, due, target, expired, locked, record, readable>>

\* The webhook is called with the context of the rotation.
Notify(e) ==
  /\ Alive /\ pc[e] = "notify"
  /\ \/ ~Done(e) /\ Goto(e, "unlock")
     \/ (Done(e) \/ Fault("webhook")) /\ Goto(e, "send_failed")
  /\ UNCHANGED <<main, cancelled, runner, due, target, expired, locked, record, readable>>

\* A failed notification is logged, and not tried again.
LogSendError(e) ==
  /\ Alive /\ pc[e] = "send_failed"
  /\ Goto(e, "unlock")
  /\ UNCHANGED <<main, cancelled, runner, due, target, expired, locked, record, readable>>

\* The deferred calls: cancel, and Unlock.
Unlock(e) ==
  /\ Alive /\ pc[e] = "unlock"
  /\ locked' = locked \ {target[e]}
  /\ Return(e)
  /\ UNCHANGED <<main, cancelled, runner, due, record, readable>>

Execute(e) ==
  \/ TryLock(e) \/ RotateSucceeds(e) \/ RotateFails(e)
  \/ Notify(e) \/ LogSendError(e) \/ Unlock(e)

-----------------------------------------------------------------------------
(* Triggers.                                                               *)

\* Mutant: Stop waits for the running jobs and entries go on firing.
FireWhileStopping(e, s) ==
  /\ main \in {"serving", "stopping"}
  /\ e \in Jobs /\ pc[e] = "idle" /\ s \in Entries
  /\ Goto(e, "try_lock")
  /\ target' = [target EXCEPT ![e] = s]
  /\ UNCHANGED <<main, cancelled, runner, due, expired, locked, record, readable>>

\* An entry fires: cron runs its job in a goroutine of its own, and does not
\* wait for an earlier firing of the same entry.
Fire(e, s) ==
  /\ main = "serving"
  /\ e \in Jobs /\ pc[e] = "idle" /\ s \in Entries
  /\ Goto(e, "try_lock")
  /\ target' = [target EXCEPT ![e] = s]
  /\ UNCHANGED <<main, cancelled, runner, due, expired, locked, record, readable>>

\* evaluate asks once what is due.  A history that cannot be read makes no
\* secret due, unless the answers are still cached.
EvaluatePolicies ==
  /\ Alive /\ runner = "evaluate"
  /\ \E answered \in {readable, TRUE} :
       due' = {s \in Secrets : DueForRotation(s, answered)}
  /\ runner' = "rotate_due"
  /\ UNCHANGED <<main, cancelled, pc, target, expired, locked, record, readable>>

\* The next of them, after Execute of the one before has returned.  The order
\* of the list, which is that of rotator.yml, is left open.
RotateNextDue(s) ==
  /\ Alive /\ runner = "rotate_due" /\ pc[Policy] = "idle"
  /\ s \in due /\ ~cancelled
  /\ Goto(Policy, "try_lock")
  /\ target' = [target EXCEPT ![Policy] = s]
  /\ due' = due \ {s}
  /\ UNCHANGED <<main, cancelled, runner, expired, locked, record, readable>>

EvaluationEnds ==
  /\ Alive /\ runner = "rotate_due" /\ pc[Policy] = "idle"
  /\ due = {} \/ cancelled
  /\ runner' = "select"
  /\ due' = {}
  /\ UNCHANGED <<main, cancelled, pc, target, expired, locked, record, readable>>

\* The ticker ticks.  A tick that came during an evaluation waits in its channel.
NextInterval ==
  /\ Alive /\ runner = "select"
  /\ runner' = "evaluate"
  /\ UNCHANGED <<main, cancelled, due, pc, target, expired, locked, record, readable>>

RunReturns ==
  /\ Alive /\ runner = "select" /\ cancelled
  /\ runner' = "returned"
  /\ UNCHANGED <<main, cancelled, due, pc, target, expired, locked, record, readable>>

Run ==
  \/ EvaluatePolicies \/ EvaluationEnds \/ NextInterval \/ RunReturns
  \/ \E s \in Secrets : RotateNextDue(s)

-----------------------------------------------------------------------------
(* runDaemon, from the start of the policy runner on.                      *)
StartCron ==
  /\ main = "starting"
  /\ main' = "serving"
  /\ UNCHANGED <<cancelled, runner, due, pc, target, expired, locked, record, readable>>

\* SIGINT or SIGTERM.
Signal ==
  /\ Alive /\ ~cancelled
  /\ cancelled' = TRUE
  /\ UNCHANGED <<main, runner, due, pc, target, expired, locked, record, readable>>

\* cron.Stop: no entry fires any more.
StopCron ==
  /\ main = "serving" /\ cancelled
  /\ main' = "stopping"
  /\ UNCHANGED <<cancelled, runner, due, pc, target, expired, locked, record, readable>>

\* Mutant: the context that cron.Stop returns is not waited for.
ExitAtOnce ==
  /\ main = "stopping"
  /\ main' = "exited"
  /\ UNCHANGED <<cancelled, runner, due, pc, target, expired, locked, record, readable>>

\* The context that cron.Stop returned is done: its running jobs have ended.
Exit ==
  /\ main = "stopping" /\ \A e \in Jobs : pc[e] = "idle"
  /\ main' = "exited"
  /\ UNCHANGED <<cancelled, runner, due, pc, target, expired, locked, record, readable>>

\* A credential outlives its max_age.
Age(s) ==
  /\ Alive /\ s \in WithMaxAge /\ record[s] = "fresh"
  /\ record' = [record EXCEPT ![s] = "stale"]
  /\ UNCHANGED <<main, cancelled, runner, due, pc, target, expired, locked, readable>>

\* The history file is damaged: neither Append nor List can parse it.
Corrupt ==
  /\ Alive /\ Fault("history") /\ readable
  /\ readable' = FALSE
  /\ UNCHANGED <<main, cancelled, runner, due, pc, target, expired, locked, record>>

\* The process is gone.
Gone == ~Alive /\ UNCHANGED vars

Next ==
  \/ \E e \in Executors : Execute(e) \/ Expire(e) \/ \E s \in Secrets : Fire(e, s)
  \/ Run
  \/ StartCron \/ Signal \/ StopCron \/ Exit
  \/ \E s \in Secrets : Age(s)
  \/ Corrupt
  \/ Gone

Spec == Init /\ [][Next]_vars

(* Goroutines run, tickers tick, and a rotation returns: RotateSecret      *)
(* shows that an attempt ends.  No cron entry has to fire and no signal    *)
(* has to come.                                                            *)
Fairness ==
  /\ \A e \in Executors : WF_vars(Execute(e))
  /\ WF_vars(Run)
  /\ WF_vars(StartCron \/ StopCron \/ Exit)

FairSpec == Spec /\ Fairness

-----------------------------------------------------------------------------
(* Types, and the bookkeeping of the mutexes: the ones held are those of   *)
(* the rotations in progress.                                              *)
TypeOK ==
  /\ main \in MainLabels
  /\ cancelled \in BOOLEAN
  /\ runner \in RunnerLabels
  /\ due \subseteq Secrets
  /\ pc \in [Executors -> JobLabels]
  /\ target \in [Executors -> Secrets \cup {NoSecret}]
  /\ \A e \in Executors : pc[e] # "idle" => target[e] \in Secrets
  /\ expired \in [Executors -> BOOLEAN]
  /\ locked = {target[e] : e \in {f \in Executors : pc[f] \in Held}}
  /\ record \in [Secrets -> Records]
  /\ readable \in BOOLEAN

(* Rotations of the same secret never overlap, whichever trigger fired:    *)
(* two firings of one entry, a label's entry and the configured one, a     *)
(* cron entry and the policy.                                              *)
NoOverlap ==
  \A e, f \in Executors :
    e # f /\ pc[e] \in Held /\ pc[f] \in Held => target[e] # target[f]

(* The daemon exits only after the jobs cron had started have returned.    *)
CronRotationsFinish == ~Alive => \A e \in Jobs : pc[e] = "idle"

(* A mutex that was taken is released, however the rotation ended: the     *)
(* triggers dropped meanwhile are the only ones that are lost.             *)
LocksAreReleased == \A s \in Secrets : s \in locked ~> s \notin locked \/ ~Alive

(* A signal ends the daemon: no firing or evaluation keeps it alive.       *)
ShutdownCompletes == cancelled ~> ~Alive

(* While the daemon runs, a secret past its max_age or without a record is *)
(* rotated, or some rotation of it is under way: a trigger dropped because *)
(* the mutex was held is made up for.                                      *)
OverdueIsAttempted ==
  \A s \in WithMaxAge :
    record[s] \in {"none", "stale"} ~>
      s \in locked \/ record[s] = "fresh" \/ cancelled \/ ~readable

(* At a shutdown signal the daemon waits for the running rotations.        *)
RunningRotationsFinish == ~Alive => \A e \in Executors : pc[e] # "rotate"

(* Webhook notifications are sent on every outcome: where no webhook       *)
(* fails, none is missed.                                                  *)
EveryOutcomeIsSent == \A e \in Executors : pc[e] # "send_failed"
=============================================================================
