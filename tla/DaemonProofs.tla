---------------------------- MODULE DaemonProofs ----------------------------
(***************************************************************************)
(* Mutual exclusion per secret, whichever trigger fires and however many   *)
(* cron entries and goroutines there are, and what a shutdown waits for.   *)
(*                                                                         *)
(* TypeOK says that the held mutexes are those of the rotations in         *)
(* progress.  With that NoOverlap is inductive, because TryLock is the     *)
(* only way into a rotation; and CronRotationsFinish is, because no entry  *)
(* fires and no goroutine moves once the process has exited.               *)
(***************************************************************************)
EXTENDS Daemon, TLAPS

\* The bookkeeping of the mutexes, as TypeOK states it.
MutexesOf(p, t) == {t[e] : e \in {f \in Executors : p[f] \in Held}}

DaemonInv == TypeOK /\ NoOverlap /\ CronRotationsFinish

(* A step that moves goroutines neither into nor out of a rotation keeps   *)
(* the bookkeeping and the exclusion.                                      *)
LEMMA MutexesKept ==
  ASSUME TypeOK, NoOverlap,
         UNCHANGED locked,
         \A e \in Executors : pc'[e] \in Held <=> pc[e] \in Held,
         \A e \in Executors : pc[e] \in Held => target'[e] = target[e]
  PROVE  locked' = MutexesOf(pc, target)' /\ NoOverlap'
<1>1. locked = MutexesOf(pc, target)
  BY DEF TypeOK, MutexesOf
<1>2. MutexesOf(pc, target)' = MutexesOf(pc, target)
  BY DEF MutexesOf
<1>3. NoOverlap'
  BY DEF NoOverlap
<1> QED
  BY <1>1, <1>2, <1>3

LEMMA InitDaemonInv == Init => DaemonInv
<1> SUFFICES ASSUME Init PROVE DaemonInv
  OBVIOUS
<1>1. \A e \in Executors : pc[e] = "idle"
  BY DEF Init
<1>2. \A e \in Executors : pc[e] \notin Held
  BY <1>1 DEF Held
<1>3. locked = MutexesOf(pc, target)
  BY <1>2 DEF Init, MutexesOf
<1>4. TypeOK
  BY <1>1, <1>3 DEF Init, TypeOK, MutexesOf, MainLabels, RunnerLabels, JobLabels, Records
<1>5. NoOverlap
  BY <1>2 DEF NoOverlap
<1>6. CronRotationsFinish
  BY <1>1, DaemonAssumption DEF CronRotationsFinish, Executors
<1> QED
  BY <1>4, <1>5, <1>6 DEF DaemonInv

(* TryLock: the goroutine that enters finds the mutex free, so no other    *)
(* goroutine is in a rotation of that secret.                              *)
LEMMA TryLockKeeps ==
  ASSUME DaemonInv, NEW e \in Executors, TryLock(e)
  PROVE  DaemonInv'
<1>0. TypeOK /\ NoOverlap /\ CronRotationsFinish
  BY DEF DaemonInv
<1>1. pc[e] \notin Held /\ target[e] \in Secrets
  BY <1>0 DEF TryLock, Held, TypeOK
<1>2. locked = MutexesOf(pc, target)
  BY <1>0 DEF TypeOK, MutexesOf
<1>3. CronRotationsFinish'
  BY DEF TryLock, Alive, CronRotationsFinish
<1>4. CASE target[e] \notin locked /\ locked' = locked \cup {target[e]} /\ Goto(e, "rotate")
           /\ UNCHANGED <<target, expired>>
  <2>1. /\ \A f \in Executors : pc'[f] = IF f = e THEN "rotate" ELSE pc[f]
        /\ pc' \in [Executors -> JobLabels]
    BY <1>4, <1>0 DEF Goto, TypeOK, JobLabels
  <2>2. \A f \in Executors : pc'[f] \in Held <=> (f = e \/ pc[f] \in Held)
    BY <2>1 DEF Held
  <2>3. locked' = MutexesOf(pc, target)'
    BY <2>2, <1>2, <1>4 DEF MutexesOf
  <2>4. \A f \in Executors : pc[f] \in Held => target[f] # target[e]
    BY <1>2, <1>4 DEF MutexesOf
  <2>5. NoOverlap'
    BY <2>2, <2>4, <1>4, <1>0 DEF NoOverlap
  <2>6. TypeOK'
    BY <2>1, <2>3, <1>4, <1>1, <1>0 DEF TryLock, TypeOK, MutexesOf
  <2> QED
    BY <2>5, <2>6, <1>3 DEF DaemonInv
<1>5. CASE target[e] \in locked /\ Return(e) /\ UNCHANGED locked
  <2>1. /\ \A f \in Executors : pc'[f] = IF f = e THEN "idle" ELSE pc[f]
        /\ \A f \in Executors : target'[f] = IF f = e THEN NoSecret ELSE target[f]
        /\ pc' \in [Executors -> JobLabels]
        /\ target' \in [Executors -> Secrets \cup {NoSecret}]
        /\ expired' \in [Executors -> BOOLEAN]
    BY <1>5, <1>0 DEF Return, Goto, TypeOK, JobLabels
  <2>2. \A f \in Executors : pc'[f] \in Held <=> pc[f] \in Held
    BY <2>1, <1>1 DEF Held
  <2>3. \A f \in Executors : pc[f] \in Held => target'[f] = target[f]
    BY <2>1, <1>1
  <2>4. locked' = MutexesOf(pc, target)' /\ NoOverlap'
    BY <2>2, <2>3, <1>0, <1>5, MutexesKept
  <2>5. TypeOK'
    BY <2>1, <2>4, <1>5, <1>0 DEF TryLock, TypeOK, MutexesOf
  <2> QED
    BY <2>4, <2>5, <1>3 DEF DaemonInv
<1> QED
  BY <1>4, <1>5 DEF TryLock

(* A step inside a rotation: e goes from one label of Held to another.     *)
LEMMA InsideKeeps ==
  ASSUME DaemonInv, NEW e \in Executors, Alive, NEW label \in Held,
         pc[e] \in Held, Goto(e, label),
         record' \in [Secrets -> Records],
         UNCHANGED <<main, cancelled, runner, due, target, expired, locked, readable>>
  PROVE  DaemonInv'
<1>0. TypeOK /\ NoOverlap /\ CronRotationsFinish
  BY DEF DaemonInv
<1>1. /\ \A f \in Executors : pc'[f] = IF f = e THEN label ELSE pc[f]
      /\ pc' \in [Executors -> JobLabels]
  BY <1>0 DEF Goto, TypeOK, JobLabels, Held
<1>2. locked' = MutexesOf(pc, target)' /\ NoOverlap'
  <2>1. \A f \in Executors : pc'[f] \in Held <=> pc[f] \in Held
    BY <1>1
  <2>2. \A f \in Executors : pc[f] \in Held => target'[f] = target[f]
    OBVIOUS
  <2> QED
    BY <2>1, <2>2, <1>0, MutexesKept
<1>3. target[e] \in Secrets
  BY <1>0 DEF TypeOK, Held
<1>4. TypeOK'
  BY <1>0, <1>1, <1>2, <1>3 DEF TypeOK, MutexesOf
<1>5. CronRotationsFinish'
  BY DEF CronRotationsFinish, Alive
<1> QED
  BY <1>2, <1>4, <1>5 DEF DaemonInv

(* Unlock: e was the only goroutine in a rotation of its secret, so the    *)
(* mutex it frees is not one that another still holds.                     *)
LEMMA UnlockKeeps ==
  ASSUME DaemonInv, NEW e \in Executors, Unlock(e)
  PROVE  DaemonInv'
<1>0. TypeOK /\ NoOverlap /\ CronRotationsFinish
  BY DEF DaemonInv
<1>1. /\ \A f \in Executors : pc'[f] = IF f = e THEN "idle" ELSE pc[f]
      /\ \A f \in Executors : target'[f] = IF f = e THEN NoSecret ELSE target[f]
      /\ pc' \in [Executors -> JobLabels]
      /\ target' \in [Executors -> Secrets \cup {NoSecret}]
      /\ expired' \in [Executors -> BOOLEAN]
  BY <1>0 DEF Unlock, Return, Goto, TypeOK, JobLabels
<1>2. \A f \in Executors : pc'[f] \in Held <=> (f # e /\ pc[f] \in Held)
  BY <1>1 DEF Held
<1>3. \A f \in Executors : f # e /\ pc[f] \in Held => target[f] # target[e]
  BY <1>0 DEF NoOverlap, Unlock, Held
<1>4. locked' = MutexesOf(pc, target)'
  <2>1. locked = MutexesOf(pc, target) /\ locked' = locked \ {target[e]}
    BY <1>0 DEF TypeOK, MutexesOf, Unlock
  <2> QED
    BY <2>1, <1>1, <1>2, <1>3 DEF MutexesOf
<1>5. NoOverlap'
  BY <1>0, <1>1, <1>2 DEF NoOverlap
<1>6. TypeOK'
  BY <1>0, <1>1, <1>4 DEF Unlock, TypeOK, MutexesOf
<1>7. CronRotationsFinish'
  BY DEF CronRotationsFinish, Unlock, Alive
<1> QED
  BY <1>5, <1>6, <1>7 DEF DaemonInv

\* A trigger: an idle goroutine is about to try the mutex of s.
LEMMA TriggerKeeps ==
  ASSUME DaemonInv, NEW e \in Executors, NEW s \in Secrets, Alive,
         pc[e] = "idle", Goto(e, "try_lock"), target' = [target EXCEPT ![e] = s],
         due' \in SUBSET Secrets,
         UNCHANGED <<main, cancelled, runner, expired, locked, record, readable>>
  PROVE  DaemonInv'
<1>0. TypeOK /\ NoOverlap /\ CronRotationsFinish
  BY DEF DaemonInv
<1>1. /\ \A f \in Executors : pc'[f] = IF f = e THEN "try_lock" ELSE pc[f]
      /\ \A f \in Executors : target'[f] = IF f = e THEN s ELSE target[f]
      /\ pc' \in [Executors -> JobLabels]
      /\ target' \in [Executors -> Secrets \cup {NoSecret}]
  BY <1>0 DEF Goto, TypeOK, JobLabels
<1>2. locked' = MutexesOf(pc, target)' /\ NoOverlap'
  <2>1. \A f \in Executors : pc'[f] \in Held <=> pc[f] \in Held
    BY <1>1 DEF Held
  <2>2. \A f \in Executors : pc[f] \in Held => target'[f] = target[f]
    BY <1>1 DEF Held
  <2> QED
    BY <2>1, <2>2, <1>0, MutexesKept
<1>3. TypeOK'
  BY <1>0, <1>1, <1>2 DEF TypeOK, MutexesOf
<1>4. CronRotationsFinish'
  BY DEF CronRotationsFinish, Alive
<1> QED
  BY <1>2, <1>3, <1>4 DEF DaemonInv

\* A step of the rest of the process, which moves no goroutine of Execute.
LEMMA OutsideKeeps ==
  ASSUME DaemonInv, UNCHANGED <<pc, target, locked>>,
         main' \in MainLabels, cancelled' \in BOOLEAN, runner' \in RunnerLabels,
         due' \in SUBSET Secrets, expired' \in [Executors -> BOOLEAN],
         record' \in [Secrets -> Records], readable' \in BOOLEAN,
         ~Alive' => \A e \in Jobs : pc[e] = "idle"
  PROVE  DaemonInv'
<1>0. TypeOK /\ NoOverlap
  BY DEF DaemonInv
<1>1. TypeOK'
  BY <1>0 DEF TypeOK
<1>2. NoOverlap'
  BY <1>0 DEF NoOverlap
<1>3. CronRotationsFinish'
  BY DEF CronRotationsFinish
<1> QED
  BY <1>1, <1>2, <1>3 DEF DaemonInv

LEMMA NextKeeps == DaemonInv /\ [Next]_vars => DaemonInv'
<1> SUFFICES ASSUME DaemonInv, [Next]_vars PROVE DaemonInv'
  OBVIOUS
<1>0. TypeOK /\ NoOverlap /\ CronRotationsFinish
  BY DEF DaemonInv
<1>t. /\ main \in MainLabels /\ cancelled \in BOOLEAN /\ runner \in RunnerLabels
      /\ due \in SUBSET Secrets /\ expired \in [Executors -> BOOLEAN]
      /\ record \in [Secrets -> Records] /\ readable \in BOOLEAN
      /\ ~Alive => \A e \in Jobs : pc[e] = "idle"
  BY <1>0 DEF TypeOK, CronRotationsFinish
<1>1. ASSUME NEW e \in Executors, Execute(e) PROVE DaemonInv'
  <2>1. CASE TryLock(e)
    BY <2>1, TryLockKeeps
  <2>2. CASE RotateSucceeds(e)
    <3>1. record' \in [Secrets -> Records]
      BY <2>2, <1>t DEF RotateSucceeds, Records
    <3>2. pc[e] \in Held /\ "notify" \in Held
      BY <2>2 DEF RotateSucceeds, Held
    <3> QED
      BY <2>2, <3>1, <3>2, InsideKeeps DEF RotateSucceeds
  <2>3. CASE RotateFails(e)
    <3>1. record' \in [Secrets -> Records]
      BY <2>3, <1>t DEF RotateFails
    <3>2. pc[e] \in Held /\ "notify" \in Held
      BY <2>3 DEF RotateFails, Held
    <3> QED
      BY <2>3, <3>1, <3>2, InsideKeeps DEF RotateFails
  <2>4. CASE Notify(e)
    <3>1. record' \in [Secrets -> Records]
      BY <2>4, <1>t DEF Notify
    <3>2. pc[e] \in Held /\ "unlock" \in Held /\ "send_failed" \in Held
      BY <2>4 DEF Notify, Held
    <3> QED
      BY <2>4, <3>1, <3>2, InsideKeeps DEF Notify
  <2>5. CASE LogSendError(e)
    <3>1. record' \in [Secrets -> Records]
      BY <2>5, <1>t DEF LogSendError
    <3>2. pc[e] \in Held /\ "unlock" \in Held
      BY <2>5 DEF LogSendError, Held
    <3> QED
      BY <2>5, <3>1, <3>2, InsideKeeps DEF LogSendError
  <2>6. CASE Unlock(e)
    BY <2>6, UnlockKeeps
  <2> QED
    BY <1>1, <2>1, <2>2, <2>3, <2>4, <2>5, <2>6 DEF Execute
<1>2. ASSUME NEW e \in Executors, Expire(e) PROVE DaemonInv'
  <2>1. expired' \in [Executors -> BOOLEAN]
    BY <1>2, <1>t DEF Expire
  <2> QED
    BY <1>2, <1>t, <2>1, OutsideKeeps DEF Expire, Alive
<1>3. ASSUME NEW e \in Executors, NEW s \in Secrets, Fire(e, s) PROVE DaemonInv'
  <2>1. Alive
    BY <1>3 DEF Fire, Alive
  <2> QED
    BY <1>3, <1>t, <2>1, TriggerKeeps DEF Fire
<1>4. CASE Run
  <2>1. CASE EvaluatePolicies
    <3>1. due' \in SUBSET Secrets /\ runner' \in RunnerLabels
      BY <2>1 DEF EvaluatePolicies, RunnerLabels
    <3> QED
      BY <2>1, <1>t, <3>1, OutsideKeeps DEF EvaluatePolicies, Alive
  <2>2. ASSUME NEW s \in Secrets, RotateNextDue(s) PROVE DaemonInv'
    <3>1. Policy \in Executors /\ due' \in SUBSET Secrets
      BY <2>2, <1>t DEF RotateNextDue, Executors
    <3> QED
      BY <2>2, <3>1, TriggerKeeps DEF RotateNextDue
  <2>3. CASE EvaluationEnds
    <3>1. due' \in SUBSET Secrets /\ runner' \in RunnerLabels
      BY <2>3 DEF EvaluationEnds, RunnerLabels
    <3> QED
      BY <2>3, <1>t, <3>1, OutsideKeeps DEF EvaluationEnds, Alive
  <2>4. CASE NextInterval
    <3>1. runner' \in RunnerLabels
      BY <2>4 DEF NextInterval, RunnerLabels
    <3> QED
      BY <2>4, <1>t, <3>1, OutsideKeeps DEF NextInterval, Alive
  <2>5. CASE RunReturns
    <3>1. runner' \in RunnerLabels
      BY <2>5 DEF RunReturns, RunnerLabels
    <3> QED
      BY <2>5, <1>t, <3>1, OutsideKeeps DEF RunReturns, Alive
  <2> QED
    BY <1>4, <2>1, <2>2, <2>3, <2>4, <2>5 DEF Run
<1>5. CASE StartCron
  BY <1>5, <1>t, OutsideKeeps DEF StartCron, MainLabels, Alive
<1>6. CASE Signal
  BY <1>6, <1>t, OutsideKeeps DEF Signal, Alive
<1>7. CASE StopCron
  BY <1>7, <1>t, OutsideKeeps DEF StopCron, MainLabels, Alive
<1>8. CASE Exit
  BY <1>8, <1>t, OutsideKeeps DEF Exit, MainLabels
<1>9. ASSUME NEW s \in Secrets, Age(s) PROVE DaemonInv'
  <2>1. record' \in [Secrets -> Records]
    BY <1>9, <1>t DEF Age, Records
  <2> QED
    BY <1>9, <1>t, <2>1, OutsideKeeps DEF Age, Alive
<1>10. CASE Corrupt
  BY <1>10, <1>t, OutsideKeeps DEF Corrupt, Alive
<1>11. CASE UNCHANGED vars
  BY <1>11, <1>t, OutsideKeeps DEF vars, Alive
<1> QED
  BY <1>1, <1>2, <1>3, <1>4, <1>5, <1>6, <1>7, <1>8, <1>9, <1>10, <1>11 DEF Next, Gone

(* The held mutexes are always those of the rotations in progress.         *)
THEOREM LockTableCorrect == Spec => []TypeOK
<1>1. DaemonInv => TypeOK
  BY DEF DaemonInv
<1> QED
  BY <1>1, InitDaemonInv, NextKeeps, PTL DEF Spec

(* However many cron entries, firings and secrets there are, two           *)
(* goroutines are never in a rotation of the same secret.                  *)
THEOREM MutualExclusion == Spec => []NoOverlap
<1>1. DaemonInv => NoOverlap
  BY DEF DaemonInv
<1> QED
  BY <1>1, InitDaemonInv, NextKeeps, PTL DEF Spec

(* When the process exits, every job that cron started has returned.       *)
THEOREM CronJobsFinish == Spec => []CronRotationsFinish
<1>1. DaemonInv => CronRotationsFinish
  BY DEF DaemonInv
<1> QED
  BY <1>1, InitDaemonInv, NextKeeps, PTL DEF Spec
=============================================================================
