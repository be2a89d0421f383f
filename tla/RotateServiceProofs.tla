------------------------ MODULE RotateServiceProofs ------------------------
(***************************************************************************)
(* Proofs of what the users of a secret see of its rotation.               *)
(*                                                                         *)
(* Parts 1 to 5: the pipeline implements AtomicRotation, for every         *)
(* configuration in which attempts that overlap share neither files nor    *)
(* containers.  Which value is agreed on (1); what a step of the attempt   *)
(* at s does to what is promised of s, action by action (2); the values    *)
(* attempts introduce stay fresh (3); every step of the pipeline is one of *)
(* the abstract steps, or none (4); the theorems (5).                      *)
(*                                                                         *)
(* Parts 6 to 10: NewValueIsAccepted, for the same configurations.  What   *)
(* the holders of a secret carry (6); an attempt at another secret (7);    *)
(* forward, the new value is introduced after the service accepted it (8); *)
(* backward, the service is put back after every holder (9); the theorem   *)
(* (10).                                                                   *)
(*                                                                         *)
(* Parts 11 to 13: RepeatRotationsWork, for every configuration in which   *)
(* attempts do not overlap, nothing fails and the admin passwords can be   *)
(* known.  What the other secrets are like (11); the steps (12); the       *)
(* theorem (13).                                                           *)
(***************************************************************************)
EXTENDS RotateAgreementProofs

-----------------------------------------------------------------------------
(* Part 1: what is held everywhere is what is agreed on.                   *)

LEMMA HeldIsAgreed ==
  ASSUME TypeOK, NEW s \in Secrets, NEW v, v # Absent, AllHold(s, v)
  PROVE  Agreement(s) = v
<1>1. InForce(s) = v
  BY FilesOf DEF AllHold, FilesHold, ServiceHolds, InForce
<1>2. QED
  BY <1>1, AllHoldAgree DEF Agreement

(* An idle secret keeps the value it is in agreement on, whatever other    *)
(* attempts do.                                                            *)
LEMMA IdleKeepsItsValue ==
  ASSUME TypeOK, Apart, NEW s \in Secrets, Unharmed(s), Agreement(s) # Absent
  PROVE  Agreement(s)' = Agreement(s)
<1>1. Agreement(s) = InForce(s)
  BY DEF Agreement
<1>2. Agreement(s)' = InForce(s)'
  BY IdleKeepsAgreement DEF Agreement
<1>3. InForce(s)' = InForce(s)
  <2>1. /\ svc'[s] = svc[s]
        /\ files'[EnvFiles[s][1]][s] = files[EnvFiles[s][1]][s]
    BY FilesOf DEF Unharmed
  <2>2. QED
    BY <2>1 DEF InForce, PrimaryEnvFile
<1>4. QED
  BY <1>1, <1>2, <1>3

(* What an attempt at t leaves of another secret: all that is promised.    *)
LEMMA OtherKeepsPromise ==
  ASSUME TypeOK, Apart, AttemptsAccountable, NEW t \in Secrets, Attempt(t), pc[t] # "idle",
         NEW s \in Secrets, s # t
  PROVE  /\ LocalsKept(s)
         /\ PromisedValue(s)' = PromisedValue(s)
         /\ FreshOK(s) /\ attempts'[s] = attempts[s] => FreshOK(s)'
<1>1. LocalsKept(s)
  BY TouchesOwnLocals
<1>2. BookOK(t) /\ ForeignOK(t) /\ SettledOK(s) /\ OneAtATime
  BY DEF AttemptsAccountable, SecretOK
<1>3. Unharmed(s)
  BY <1>2, LeavesOthersUnharmed
<1>4. standing[s] = "settled" /\ pc[s] = "idle" => Agreement(s)' = Agreement(s)
  BY <1>2, <1>3, IdleKeepsItsValue DEF SettledOK
<1>5. PromisedValue(s)' = PromisedValue(s)
  BY <1>1, <1>4 DEF LocalsKept, PromisedValue
<1>6. ASSUME FreshOK(s), attempts'[s] = attempts[s] PROVE FreshOK(s)'
  BY <1>1, <1>4, <1>6 DEF FreshOK, LocalsKept
<1>7. QED
  BY <1>1, <1>5, <1>6

-----------------------------------------------------------------------------
(* Part 2: what a step of the attempt at s does to what is promised of s.  *)

\* The attempt goes on, and nothing is known of s that was not before.
GoesOn(s) ==
  /\ pc'[s] # "idle" /\ standing'[s] = standing[s] /\ prior'[s] = prior[s]
  /\ \/ pc'[s] \in {"resolve", "open", "generate"}
     \/ journal'[s].next = journal[s].next /\ pc[s] \notin {"resolve", "open", "generate"}
     \/ journal'[s].next = attempts[s]

\* The service did the opposite of what it said, and the attempt goes on.
IsDeceived(s) ==
  /\ pc'[s] # "idle" /\ standing'[s] = "deceived"
  /\ journal'[s].next = journal[s].next /\ pc[s] \notin {"resolve", "open", "generate"}

\* The attempt ends and its secret is where it was.
EndsUndone(s) ==
  /\ pc'[s] = "idle" /\ standing'[s] = standing[s]
  /\ standing[s] = "settled" => Agreement(s)' = prior[s]

\* The attempt ends with the new value everywhere.
EndsDone(s) ==
  /\ pc'[s] = "idle" /\ standing'[s] = "settled"
  /\ Agreement(s)' = journal[s].next
  /\ pc[s] \notin {"resolve", "open", "generate"}
  /\ journal[s].next \in Nat

\* The attempt ends with a rollback failure, or with a success that is none.
EndsReported(s) == pc'[s] = "idle" /\ standing'[s] = "reported"
EndsMisled(s)   == pc'[s] = "idle" /\ standing'[s] = "deceived"

OwnStep(s) ==
  \/ GoesOn(s) \/ IsDeceived(s)
  \/ EndsUndone(s) \/ EndsDone(s) \/ EndsReported(s) \/ EndsMisled(s)

(* An attempt that changed nothing ends, and the secret is as it was.      *)
LEMMA ReturnsUntouched ==
  ASSUME TypeOK, NEW s \in Secrets, SettledOK(s), NEW outcome, Return(s, outcome),
         UNCHANGED <<world, standing>>, pc[s] # "idle",
         standing[s] = "settled" => AllHold(s, prior[s])
  PROVE  EndsUndone(s)
<1>1. pc'[s] = "idle"
  BY DEF Return, Goto, TypeOK
<1>2. standing[s] = "settled" => Agreement(s) = prior[s]
  BY HeldIsAgreed DEF SettledOK
<1>3. Agreement(s)' = Agreement(s)
  BY SameWorld
<1>4. QED
  BY <1>1, <1>2, <1>3 DEF EndsUndone

LEMMA EarlyOwnStep ==
  ASSUME TypeOK, NEW s \in Secrets, SecretOK(s),
         Resolve(s) \/ OpenPrimary(s) \/ Generate(s)
  PROVE  OwnStep(s)
<1>1. SettledOK(s) /\ BookOK(s)
  BY DEF SecretOK
<1>2. /\ pc[s] \in {"resolve", "open", "generate"} /\ UNCHANGED <<world, standing, prior>>
  BY DEF Resolve, OpenPrimary, Generate
<1>3. standing[s] = "settled" => AllHold(s, prior[s])
  BY <1>1, <1>2 DEF SettledOK
<1>4. CASE \E outcome : Return(s, outcome)
  BY <1>1, <1>2, <1>3, <1>4, ReturnsUntouched DEF OwnStep
<1>5. CASE pc'[s] \in {"open", "generate"}
  BY <1>2, <1>5 DEF OwnStep, GoesOn
<1>6. CASE /\ Note(s, RecordGenerated(journal[s], attempts[s]))
           /\ Goto(s, IF HasBackingService(s) THEN "apply" ELSE "read_file")
  <2>1. journal[s] \in Journal /\ attempts[s] \in Int
    BY <1>1, JournalFacts DEF TypeOK
  <2>2. RecordGenerated(journal[s], attempts[s]).next = attempts[s]
    BY <2>1, RecordStepsAreJournals
  <2>3. journal'[s].next = attempts[s]
    BY <1>6, <2>2 DEF Note, TypeOK
  <2>4. pc'[s] # "idle"
    BY <1>6 DEF Goto, TypeOK
  <2>5. QED
    BY <1>2, <2>3, <2>4 DEF OwnStep, GoesOn
<1>7. QED
  <2>1. ASSUME Resolve(s) PROVE (\E outcome : Return(s, outcome)) \/ pc'[s] = "open"
    BY <2>1 DEF Resolve, Goto, TypeOK
  <2>2. ASSUME OpenPrimary(s) PROVE (\E outcome : Return(s, outcome)) \/ pc'[s] = "generate"
    BY <2>2 DEF OpenPrimary, Goto, TypeOK
  <2>3. ASSUME Generate(s)
        PROVE \/ \E outcome : Return(s, outcome)
              \/ /\ Note(s, RecordGenerated(journal[s], attempts[s]))
                 /\ Goto(s, IF HasBackingService(s) THEN "apply" ELSE "read_file")
    BY <2>3 DEF Generate
  <2>4. QED
    BY <1>4, <1>5, <1>6, <2>1, <2>2, <2>3

(* A step in the middle of an attempt keeps the new value in the journal   *)
(* and does not return.                                                    *)
LEMMA MiddleKeepsNext ==
  ASSUME TypeOK, NEW s \in Secrets, BookOK(s),
         \/ UNCHANGED journal
         \/ Note(s, RecordApplied(journal[s]))
         \/ Note(s, RecordVerified(journal[s]))
         \/ Note(s, RecordRestarted(journal[s], ContainersOf[s]))
         \/ Note(s, RecordFileWritten(journal[s], Path(s), buffer[s]))
  PROVE  journal'[s].next = journal[s].next
<1>1. CASE UNCHANGED journal
  BY <1>1
<1>2. CASE Note(s, RecordApplied(journal[s]))
  <2>1. journal'[s] = RecordApplied(journal[s])
    BY <1>2 DEF Note, TypeOK
  <2>2. QED
    BY <2>1, RecordFacts
<1>3. CASE Note(s, RecordVerified(journal[s]))
  <2>1. journal'[s] = RecordVerified(journal[s])
    BY <1>3 DEF Note, TypeOK
  <2>2. QED
    BY <2>1, RecordFacts
<1>4. CASE Note(s, RecordRestarted(journal[s], ContainersOf[s]))
  <2>1. journal'[s] = RecordRestarted(journal[s], ContainersOf[s])
    BY <1>4 DEF Note, TypeOK
  <2>2. QED
    BY <2>1, RecordFacts
<1>5. CASE Note(s, RecordFileWritten(journal[s], Path(s), buffer[s]))
  <2>1. journal[s] \in Journal
    BY JournalFacts
  <2>2. journal'[s] = RecordFileWritten(journal[s], Path(s), buffer[s])
    BY <1>5 DEF Note, TypeOK
  <2>3. QED
    BY <2>1, <2>2 DEF RecordFileWritten, Journal
<1>6. QED
  BY <1>1, <1>2, <1>3, <1>4, <1>5

LEMMA MiddleOwnStep ==
  ASSUME TypeOK, NEW s \in Secrets, SecretOK(s),
         \/ Apply(s) \/ Verify(s) \/ ReadFile(s) \/ ReplaceFile(s)
         \/ RestartContainer(s) \/ WaitHealthy(s)
         \/ UndoFile(s) \/ UndoRestart(s) \/ UndoWaitHealthy(s) \/ UndoCredential(s) \/ UndoDone(s)
  PROVE  OwnStep(s)
<1>1. BookOK(s)
  BY DEF SecretOK
<1>2. pc[s] \notin {"resolve", "open", "generate"}
  BY DEF Apply, Verify, ReadFile, ReplaceFile, RestartContainer, WaitHealthy,
     UndoFile, UndoRestart, UndoWaitHealthy, UndoCredential, UndoDone, Undoing
<1>3. \/ UNCHANGED journal
      \/ Note(s, RecordApplied(journal[s]))
      \/ Note(s, RecordVerified(journal[s]))
      \/ Note(s, RecordRestarted(journal[s], ContainersOf[s]))
      \/ Note(s, RecordFileWritten(journal[s], Path(s), buffer[s]))
  BY DEF Apply, ApplyAccepted, ApplyWithoutEffect, ApplyRefused, ApplyAnswerLost, Verify,
     ReadFile, ReplaceFile, RestartContainer, WaitHealthy, RestartFailed,
     UndoFile, UndoRestart, UndoWaitHealthy, UndoCredential, UndoDone, local
<1>4. journal'[s].next = journal[s].next
  BY <1>1, <1>3, MiddleKeepsNext
<1>5. prior'[s] = prior[s]
  BY DEF Apply, Verify, ReadFile, ReplaceFile, RestartContainer, WaitHealthy,
     UndoFile, UndoRestart, UndoWaitHealthy, UndoCredential, UndoDone, past
<1>6. standing'[s] \in {standing[s], "deceived"}
  BY DEF Apply, ApplyAccepted, ApplyWithoutEffect, ApplyRefused, ApplyAnswerLost, Verify,
     ReadFile, ReplaceFile, RestartContainer, WaitHealthy,
     UndoFile, UndoRestart, UndoWaitHealthy, UndoCredential, UndoDone, past, TypeOK
<1>7. pc'[s] # "idle"
  <2>1. CASE Apply(s) \/ Verify(s)
    BY <2>1 DEF Apply, ApplyAccepted, ApplyWithoutEffect, ApplyRefused, ApplyAnswerLost, Verify,
       Compensate, Goto, TypeOK
  <2>2. CASE ReadFile(s) \/ ReplaceFile(s)
    BY <2>2 DEF ReadFile, ReplaceFile, NextAfterFile, Compensate, Goto, TypeOK
  <2>3. CASE RestartContainer(s) \/ WaitHealthy(s)
    BY <2>3 DEF RestartContainer, WaitHealthy, RestartFailed, Compensate, Goto, TypeOK
  <2>4. CASE UndoFile(s) \/ UndoRestart(s) \/ UndoWaitHealthy(s) \/ UndoCredential(s) \/ UndoDone(s)
    BY <2>4 DEF UndoFile, UndoRestart, UndoWaitHealthy, UndoCredential, UndoDone, UndoNext, Goto, TypeOK
  <2>5. QED
    BY <2>1, <2>2, <2>3, <2>4
<1>8. QED
  BY <1>2, <1>4, <1>5, <1>6, <1>7 DEF OwnStep, GoesOn, IsDeceived

LEMMA SuccessOwnStep ==
  ASSUME TypeOK, NEW s \in Secrets, SecretOK(s), RecordSuccess(s)
  PROVE  OwnStep(s)
<1> USE DEF SecretOK
<1>1. pc[s] = "record_success" /\ UNCHANGED world /\ Return(s, "success")
  BY DEF RecordSuccess
<1>2. standing'[s] = IF Unproven(s) /\ svc[s] # journal[s].next THEN "deceived" ELSE "settled"
  BY DEF RecordSuccess, TypeOK
<1>3. pc'[s] = "idle"
  BY <1>1 DEF Return, Goto, TypeOK
<1>4. journal[s].next \in Nat /\ journal[s].next # Absent
  BY <1>1 DEF BookOK, Absent
<1>5. CASE standing'[s] = "settled"
  <2>1. FilesHold(s, 1, NFiles(s), journal[s].next) /\ ContainersHold(s, NContainers(s), journal[s].next)
    BY <1>1 DEF BookOK, ForwardOK
  <2>2. ~Unproven(s) => ServiceHolds(s, journal[s].next)
    BY <1>1 DEF ForwardOK
  <2>3. Unproven(s) => svc[s] = journal[s].next
    BY <1>2, <1>5
  <2>4. AllHold(s, journal[s].next)
    BY <2>1, <2>2, <2>3 DEF AllHold, ServiceHolds
  <2>5. Agreement(s)' = journal[s].next
    BY <1>1, <1>4, <2>4, HeldIsAgreed, SameWorld
  <2>6. QED
    BY <1>1, <1>3, <1>4, <1>5, <2>5 DEF OwnStep, EndsDone
<1>6. CASE standing'[s] = "deceived"
  BY <1>3, <1>6 DEF OwnStep, EndsMisled
<1>7. QED
  BY <1>2, <1>5, <1>6

LEMMA FailureOwnStep ==
  ASSUME TypeOK, NEW s \in Secrets, SecretOK(s), RecordFailure(s)
  PROVE  OwnStep(s)
<1>1. /\ pc[s] = "record_failure" /\ UNCHANGED world
      /\ \E outcome : Return(s, outcome)
  BY DEF RecordFailure
<1>2. standing'[s] = IF failures[s] THEN "reported" ELSE standing[s]
  BY DEF RecordFailure, TypeOK
<1>3. pc'[s] = "idle"
  BY <1>1 DEF Return, Goto, TypeOK
<1>4. CASE failures[s]
  BY <1>2, <1>3, <1>4 DEF OwnStep, EndsReported
<1>5. CASE ~failures[s]
  <2>1. standing[s] = "settled" => prior[s] # Absent /\ AllHold(s, prior[s])
    BY <1>1, <1>5 DEF SecretOK, SettledOK
  <2>2. standing[s] = "settled" => Agreement(s)' = prior[s]
    BY <1>1, <2>1, HeldIsAgreed, SameWorld
  <2>3. QED
    BY <1>2, <1>3, <1>5, <2>2 DEF OwnStep, EndsUndone
<1>6. QED
  BY <1>4, <1>5

(* What a step of an attempt can do to what is promised of its own secret. *)
LEMMA AttemptOwnStep ==
  ASSUME TypeOK, NEW s \in Secrets, SecretOK(s), Attempt(s)
  PROVE  OwnStep(s) /\ pc[s] # "idle" /\ attempts' = attempts
<1>1. pc[s] # "idle"
  BY DEF Attempt, Resolve, OpenPrimary, Generate, Apply, Verify, ReadFile, ReplaceFile,
     RestartContainer, WaitHealthy, RecordSuccess, UndoFile, UndoRestart, UndoWaitHealthy,
     UndoCredential, UndoDone, RecordFailure, Undoing
<1>2. attempts' = attempts
  BY DEF Attempt, Resolve, OpenPrimary, Generate, Apply, Verify, ReadFile, ReplaceFile,
     RestartContainer, WaitHealthy, RecordSuccess, UndoFile, UndoRestart, UndoWaitHealthy,
     UndoCredential, UndoDone, RecordFailure
<1>3. QED
  BY <1>1, <1>2, EarlyOwnStep, MiddleOwnStep, SuccessOwnStep, FailureOwnStep DEF Attempt

-----------------------------------------------------------------------------
(* Part 3: the values attempts introduce are fresh.                        *)

LEMMA AttemptKeepsFresh ==
  ASSUME TypeOK, Apart, AttemptsAccountable, ValuesFresh, NEW t \in Secrets, Attempt(t)
  PROVE  ValuesFresh'
<1>1. SecretOK(t) /\ FreshOK(t)
  BY DEF AttemptsAccountable, ValuesFresh
<1>2. OwnStep(t) /\ pc[t] # "idle" /\ attempts' = attempts
  BY <1>1, AttemptOwnStep
<1>3. ASSUME NEW s \in Secrets, s # t PROVE FreshOK(s)'
  BY <1>2, <1>3, OtherKeepsPromise DEF ValuesFresh
<1>4. FreshOK(t)'
  <2>1. attempts[t] \in Int /\ prior[t] \in Int
    BY DEF TypeOK
  <2>2. CASE GoesOn(t) \/ IsDeceived(t)
    BY <1>1, <1>2, <2>2 DEF GoesOn, IsDeceived, FreshOK
  <2>3. CASE EndsUndone(t)
    BY <1>1, <1>2, <2>1, <2>3 DEF EndsUndone, FreshOK
  <2>4. CASE EndsDone(t)
    BY <1>1, <1>2, <2>1, <2>4 DEF EndsDone, FreshOK
  <2>5. CASE EndsReported(t) \/ EndsMisled(t)
    BY <2>5 DEF EndsReported, EndsMisled, FreshOK
  <2>6. QED
    BY <1>2, <2>2, <2>3, <2>4, <2>5 DEF OwnStep
<1>5. QED
  BY <1>3, <1>4 DEF ValuesFresh

LEMMA BeginKeepsFresh ==
  ASSUME TypeOK, ValuesFresh, NEW t \in Secrets, Begin(t)
  PROVE  ValuesFresh'
<1>1. /\ pc[t] = "idle" /\ pc'[t] = "resolve" /\ prior'[t] = Agreement(t)
      /\ attempts'[t] = attempts[t] + 1
      /\ UNCHANGED <<world, local, standing>>
      /\ \A s \in Secrets : s # t => /\ pc'[s] = pc[s] /\ prior'[s] = prior[s]
                                     /\ attempts'[s] = attempts[s]
  BY DEF Begin, Goto, TypeOK
<1>2. ASSUME NEW s \in Secrets PROVE FreshOK(s)'
  <2>1. FreshOK(s) /\ Agreement(s) \in Int /\ attempts[s] \in Int
    BY AgreementIsInt, TypeOKParts DEF ValuesFresh, TypeOK
  <2>2. Agreement(s)' = Agreement(s)
    BY <1>1, SameWorld
  <2>3. journal' = journal
    BY <1>1 DEF local
  <2>4. CASE s = t
    BY <1>1, <2>1, <2>3, <2>4 DEF FreshOK
  <2>5. CASE s # t
    BY <1>1, <2>1, <2>2, <2>3, <2>5 DEF FreshOK
  <2>6. QED
    BY <2>4, <2>5
<1>3. QED
  BY <1>2 DEF ValuesFresh

LEMMA CrashKeepsFresh ==
  ASSUME ValuesFresh, Crash
  PROVE  ValuesFresh'
<1>1. ASSUME NEW s \in Secrets PROVE FreshOK(s)'
  <2>1. /\ pc'[s] = "idle" /\ attempts'[s] = attempts[s]
        /\ standing'[s] = "settled" => pc[s] = "idle" /\ standing[s] = "settled"
        /\ Agreement(s)' = Agreement(s)
    BY SameWorld DEF Crash
  <2>2. QED
    BY <2>1 DEF ValuesFresh, FreshOK
<1>2. QED
  BY <1>1 DEF ValuesFresh

LEMMA StutterKeepsFresh ==
  ASSUME ValuesFresh, UNCHANGED <<world, attempts, pc, local, standing, prior>>
  PROVE  ValuesFresh'
<1>1. ASSUME NEW s \in Secrets PROVE FreshOK(s)'
  <2>1. Agreement(s)' = Agreement(s)
    BY SameWorld
  <2>2. QED
    BY <2>1 DEF ValuesFresh, FreshOK, local
<1>2. QED
  BY <1>1 DEF ValuesFresh

-----------------------------------------------------------------------------
(* Part 4: every step is a step of AtomicRotation, or none.                *)

PromiseOf == [s \in Secrets |-> PromisedValue(s)]
BusyOf    == [s \in Secrets |-> pc[s] # "idle"]

(* A step of an attempt, as AtomicRotation sees it.                        *)
LEMMA AttemptIsPromised ==
  ASSUME TypeOK, TypeOK', Apart, AttemptsAccountable, ValuesFresh, NEW t \in Secrets, Attempt(t)
  PROVE  [Promise!Next]_(Promise!vars)
<1>1. SecretOK(t) /\ FreshOK(t)
  BY DEF AttemptsAccountable, ValuesFresh
<1>2. OwnStep(t) /\ pc[t] # "idle"
  BY <1>1, AttemptOwnStep
<1>3. ASSUME NEW s \in Secrets, s # t
      PROVE /\ pc'[s] = pc[s] /\ standing'[s] = standing[s]
            /\ PromisedValue(s)' = PromisedValue(s)
  BY <1>2, <1>3, OtherKeepsPromise DEF LocalsKept
<1>4. standing \in [Secrets -> Standings] /\ standing' \in [Secrets -> Standings]
  BY DEF TypeOK
<1>5. /\ PromiseOf' = [PromiseOf EXCEPT ![t] = PromisedValue(t)']
      /\ BusyOf' = [BusyOf EXCEPT ![t] = pc'[t] # "idle"]
      /\ standing' = [standing EXCEPT ![t] = standing'[t]]
      /\ PromiseOf[t] = PromisedValue(t) /\ PromiseOf'[t] = PromisedValue(t)'
      /\ BusyOf[t] = TRUE
  BY <1>2, <1>3, <1>4 DEF PromiseOf, BusyOf
<1>6. CASE GoesOn(t)
  <2>1. PromisedValue(t)' = PromisedValue(t) /\ standing'[t] = standing[t]
    BY <1>2, <1>6 DEF GoesOn, PromisedValue
  <2>2. UNCHANGED <<PromiseOf, BusyOf, standing>>
    BY <1>2, <1>3, <1>4, <1>6, <2>1 DEF GoesOn, PromiseOf, BusyOf
  <2>3. QED
    BY <2>2 DEF Promise!vars, PromiseOf, BusyOf
<1>7. CASE IsDeceived(t)
  <2>1. PromisedValue(t)' = Promise!NoValue
    BY <1>7 DEF IsDeceived, PromisedValue, Promise!NoValue, Absent
  <2>2. Promise!Deceive(t)
    BY <1>2, <1>5, <1>7, <2>1 DEF IsDeceived, Promise!Deceive, PromiseOf, BusyOf
  <2>3. QED
    BY <2>2 DEF Promise!Next
<1>8. CASE EndsUndone(t)
  <2>1. PromisedValue(t)' = PromisedValue(t)
    BY <1>2, <1>8 DEF EndsUndone, PromisedValue
  <2>2. UNCHANGED <<PromiseOf, standing>>
    BY <1>3, <1>4, <1>8, <2>1 DEF EndsUndone, PromiseOf
  <2>3. Promise!Abort(t)
    BY <1>2, <1>5, <1>8, <2>2 DEF EndsUndone, Promise!Abort, PromiseOf, BusyOf
  <2>4. QED
    BY <2>3 DEF Promise!Next
<1>9. CASE EndsDone(t)
  <2>1. PromisedValue(t)' = journal[t].next /\ journal[t].next \in Nat
    BY <1>9 DEF EndsDone, PromisedValue
  <2>2. PromisedValue(t) < journal[t].next
    BY <1>1, <1>2, <1>9 DEF EndsDone, FreshOK, PromisedValue, Absent
  <2>3. Promise!Commit(t)
    BY <1>2, <1>5, <1>9, <2>1, <2>2 DEF EndsDone, Promise!Commit, PromiseOf, BusyOf
  <2>4. QED
    BY <2>3 DEF Promise!Next
<1>10. CASE EndsReported(t)
  <2>1. PromisedValue(t)' = Promise!NoValue
    BY <1>10 DEF EndsReported, PromisedValue, Promise!NoValue, Absent
  <2>2. Promise!Report(t)
    BY <1>2, <1>5, <1>10, <2>1 DEF EndsReported, Promise!Report, PromiseOf, BusyOf
  <2>3. QED
    BY <2>2 DEF Promise!Next
<1>11. CASE EndsMisled(t)
  <2>1. PromisedValue(t)' = Promise!NoValue
    BY <1>11 DEF EndsMisled, PromisedValue, Promise!NoValue, Absent
  <2>2. Promise!Misjudge(t)
    BY <1>2, <1>5, <1>11, <2>1 DEF EndsMisled, Promise!Misjudge, PromiseOf, BusyOf
  <2>3. QED
    BY <2>2 DEF Promise!Next
<1>12. QED
  BY <1>2, <1>6, <1>7, <1>8, <1>9, <1>10, <1>11 DEF OwnStep

LEMMA BeginIsPromised ==
  ASSUME TypeOK, NEW t \in Secrets, Begin(t)
  PROVE  Promise!Start(t)
<1>1. /\ pc[t] = "idle" /\ pc'[t] = "resolve" /\ prior'[t] = Agreement(t)
      /\ UNCHANGED <<world, standing>>
      /\ \A s \in Secrets : s # t => pc'[s] = pc[s] /\ prior'[s] = prior[s]
  BY DEF Begin, Goto, TypeOK
<1>2. ASSUME NEW s \in Secrets PROVE PromisedValue(s)' = PromisedValue(s)
  <2>1. Agreement(s)' = Agreement(s)
    BY <1>1, SameWorld
  <2>2. CASE s = t
    BY <1>1, <2>2 DEF PromisedValue
  <2>3. CASE s # t
    BY <1>1, <2>1, <2>3 DEF PromisedValue
  <2>4. QED
    BY <2>2, <2>3
<1>3. UNCHANGED <<PromiseOf, standing>>
  BY <1>1, <1>2 DEF PromiseOf
<1>4. BusyOf' = [BusyOf EXCEPT ![t] = TRUE] /\ ~BusyOf[t]
  BY <1>1 DEF BusyOf
<1>5. QED
  BY <1>3, <1>4 DEF Promise!Start, PromiseOf, BusyOf

LEMMA CrashIsPromised ==
  ASSUME TypeOK, Crash
  PROVE  Promise!Interrupt
<1>1. ASSUME NEW s \in Secrets
      PROVE  PromisedValue(s)' = IF BusyOf[s] THEN Promise!NoValue ELSE PromiseOf[s]
  <2>1. /\ pc'[s] = "idle" /\ Agreement(s)' = Agreement(s)
        /\ standing'[s] = IF pc[s] = "idle" THEN standing[s] ELSE "interrupted"
    BY SameWorld DEF Crash
  <2>2. QED
    BY <2>1 DEF PromisedValue, BusyOf, PromiseOf, Promise!NoValue, Absent
<1>2. PromiseOf' = [s \in Secrets |-> IF BusyOf[s] THEN Promise!NoValue ELSE PromiseOf[s]]
  BY <1>1 DEF PromiseOf
<1>3. BusyOf' = [s \in Secrets |-> FALSE]
  BY DEF Crash, BusyOf
<1>4. standing' = [s \in Secrets |-> IF BusyOf[s] THEN "interrupted" ELSE standing[s]]
  BY DEF Crash, BusyOf
<1>5. QED
  BY <1>2, <1>3, <1>4 DEF Promise!Interrupt, PromiseOf, BusyOf

LEMMA StutterIsPromised ==
  ASSUME UNCHANGED <<world, pc, standing, prior>>
  PROVE  UNCHANGED Promise!vars
<1>1. ASSUME NEW s \in Secrets PROVE PromisedValue(s)' = PromisedValue(s)
  BY SameWorld DEF PromisedValue
<1>2. UNCHANGED <<PromiseOf, BusyOf, standing>>
  BY <1>1 DEF PromiseOf, BusyOf
<1>3. QED
  BY <1>2 DEF Promise!vars, PromiseOf, BusyOf

LEMMA InitIsPromised ==
  ASSUME Init
  PROVE  Promise!Init /\ ValuesFresh
<1>1. ASSUME NEW s \in Secrets
      PROVE  /\ pc[s] = "idle" /\ attempts[s] = 0
             /\ standing[s] = IF Agreement(s) = 0 THEN "settled" ELSE "inherited"
  BY DEF Init
<1>2. standing \in [Secrets -> {"settled", "inherited"}]
  BY DEF Init
<1>3. BusyOf = [s \in Secrets |-> FALSE]
  BY <1>1 DEF BusyOf
<1>4. PromiseOf = [s \in Secrets |-> IF standing[s] = "settled" THEN 0 ELSE Promise!NoValue]
  BY <1>1 DEF PromiseOf, PromisedValue, Promise!NoValue, Absent
<1>5. ValuesFresh
  BY <1>1 DEF ValuesFresh, FreshOK
<1>6. QED
  BY <1>2, <1>3, <1>4, <1>5 DEF Promise!Init, PromiseOf, BusyOf

-----------------------------------------------------------------------------
(* Part 5: the theorems.                                                   *)

(* What an attempt generates is new: the value a settled secret has was    *)
(* introduced by an earlier attempt than the one that is in flight.        *)
THEOREM IntroducedValuesAreFresh ==
  ASSUME Apart
  PROVE  Spec => [](TypeOK /\ AttemptsAccountable /\ ValuesFresh)
<1>1. Init => ValuesFresh
  BY InitIsPromised
<1>2. TypeOK /\ AttemptsAccountable /\ ValuesFresh /\ [Next]_vars => ValuesFresh'
  <2> SUFFICES ASSUME TypeOK, AttemptsAccountable, ValuesFresh, [Next]_vars
               PROVE  ValuesFresh'
    OBVIOUS
  <2>1. ASSUME NEW s \in Secrets, Begin(s) PROVE ValuesFresh'
    BY <2>1, BeginKeepsFresh
  <2>2. ASSUME NEW s \in Secrets, Expire(s) PROVE ValuesFresh'
    BY <2>2, StutterKeepsFresh DEF Expire, past
  <2>3. ASSUME NEW s \in Secrets, Attempt(s) PROVE ValuesFresh'
    BY <2>3, AttemptKeepsFresh
  <2>4. CASE Crash
    BY <2>4, CrashKeepsFresh
  <2>5. CASE Rest \/ UNCHANGED vars
    BY <2>5, StutterKeepsFresh DEF Rest, vars, past
  <2>6. QED
    BY <2>1, <2>2, <2>3, <2>4, <2>5 DEF Next
<1>3. QED
  BY <1>1, <1>2, TypeCorrect, AccountabilityKept, PTL DEF Spec

(* The pipeline implements AtomicRotation, for any number of secrets,      *)
(* files and containers, whatever fails in whatever order, as long as      *)
(* overlapping attempts share neither files nor containers: an attempt     *)
(* replaces the one value of its secret by a fresh one everywhere, or      *)
(* leaves it everywhere, or ends in one of the named ways in which nothing *)
(* is promised.                                                            *)
THEOREM PipelineIsAtomic ==
  ASSUME Apart
  PROVE  Spec => RotatesAtomically
<1>1. Init => Promise!Init
  BY InitIsPromised
<1>2. TypeOK /\ TypeOK' /\ AttemptsAccountable /\ ValuesFresh /\ [Next]_vars
        => [Promise!Next]_(Promise!vars)
  <2> SUFFICES ASSUME TypeOK, TypeOK', AttemptsAccountable, ValuesFresh, [Next]_vars
               PROVE  [Promise!Next]_(Promise!vars)
    OBVIOUS
  <2>1. ASSUME NEW s \in Secrets, Begin(s) PROVE [Promise!Next]_(Promise!vars)
    BY <2>1, BeginIsPromised DEF Promise!Next
  <2>2. ASSUME NEW s \in Secrets, Expire(s) PROVE UNCHANGED Promise!vars
    BY <2>2, StutterIsPromised DEF Expire, past
  <2>3. ASSUME NEW s \in Secrets, Attempt(s) PROVE [Promise!Next]_(Promise!vars)
    BY <2>3, AttemptIsPromised
  <2>4. CASE Crash
    BY <2>4, CrashIsPromised DEF Promise!Next
  <2>5. CASE Rest \/ UNCHANGED vars
    BY <2>5, StutterIsPromised DEF Rest, vars, past
  <2>6. QED
    BY <2>1, <2>2, <2>3, <2>4, <2>5 DEF Next
<1>3. QED
  BY <1>1, <1>2, IntroducedValuesAreFresh, PTL DEF Spec, RotatesAtomically, Promise!Spec

-----------------------------------------------------------------------------
(* Part 6: what the holders of a secret carry.                             *)

LEMMA HoldersAreInts ==
  ASSUME TypeOK, NEW s \in Secrets
  PROVE  /\ attempts[s] \in Nat /\ journal[s].next \in Int /\ svc[s] \in Int
         /\ \A f \in Files : files[f][s] \in Int
         /\ \A c \in Containers : loaded[c][s] \in Int
BY FilesOf, JournalsKept DEF TypeOK, Content

LEMMA HoldersTyped ==
  ASSUME TypeOK, NEW s \in Secrets
  PROVE  /\ \A i \in 1 .. NFiles(s) : files[EnvFiles[s][i]][s] \in Int
         /\ \A i \in 1 .. NContainers(s) : loaded[ContainersOf[s][i]][s] \in Int
<1>1. \A i \in 1 .. NFiles(s) : EnvFiles[s][i] \in Files
  BY FilesOf
<1>2. \A i \in 1 .. NContainers(s) : ContainersOf[s][i] \in Containers
  BY ContainersAre
<1>3. QED
  BY <1>1, <1>2, HoldersAreInts

(* A container of s takes the value of s from a file of s.                 *)
LEMMA ReadsOwnFile ==
  ASSUME Apart, NEW s \in Secrets, NEW k \in 1 .. NContainers(s)
  PROVE  \E i \in 1 .. NFiles(s) : Reads[ContainersOf[s][k]][s] = EnvFiles[s][i]
<1>1. Reads[ContainersOf[s][k]][s] \in Elements(EnvFiles[s])
  BY ContainersAre DEF Apart
<1>2. \A f \in Elements(EnvFiles[s]) : \E i \in 1 .. NFiles(s) : f = EnvFiles[s][i]
  BY FilesOf
<1>3. QED
  BY ONLY <1>1, <1>2

LEMMA SameHolders ==
  ASSUME UNCHANGED <<files, loaded, attempts>>, NEW s
  PROVE  /\ NoneAhead(s) => NoneAhead(s)'
         /\ HoldersOld(s) => HoldersOld(s)'
         /\ \A from, to : FilesOld(s, from, to) => FilesOld(s, from, to)'
         /\ \A upTo : ContainersOld(s, upTo) => ContainersOld(s, upTo)'
BY DEF NoneAhead, HoldersOld, FilesOld, ContainersOld

(* A container of s that starts takes a value that some file of s holds.   *)
LEMMA StartsWithOldValue ==
  ASSUME TypeOK, Apart, NEW s \in Secrets, NEW k \in 1 .. NContainers(s), NEW m,
         LoadFrom(ContainersOf[s][k]),
         \A i \in 1 .. NFiles(s) : files[EnvFiles[s][i]][s] < m
  PROVE  \A i \in 1 .. NContainers(s) :
           i = k \/ loaded[ContainersOf[s][i]][s] < m => loaded'[ContainersOf[s][i]][s] < m
<1> DEFINE c == ContainersOf[s][k]
<1>1. c \in Containers
  BY ContainersAre
<1>2. PICK i \in 1 .. NFiles(s) : Reads[c][s] = EnvFiles[s][i]
  BY ReadsOwnFile
<1>3. files[Reads[c][s]][s] < m
  BY <1>2
<1>4. loaded'[c][s] < m
  BY <1>1, <1>3 DEF LoadFrom, TypeOK
<1>5. \A d \in Containers : d # c => loaded'[d] = loaded[d]
  BY <1>1 DEF LoadFrom, TypeOK
<1>6. QED
  BY <1>4, <1>5, ContainersAre

LEMMA RestartKeepsBehind ==
  ASSUME TypeOK, Apart, NEW s \in Secrets, NEW k \in 1 .. NContainers(s),
         LoadFrom(ContainersOf[s][k]), UNCHANGED <<files, attempts>>, NoneAhead(s)
  PROVE  NoneAhead(s)'
<1>1. PICK m : m = attempts[s] + 1
  OBVIOUS
<1>2. \A i \in 1 .. NFiles(s) : files[EnvFiles[s][i]][s] < m
  BY <1>1, HoldersTyped, HoldersAreInts DEF NoneAhead
<1>3. \A i \in 1 .. NContainers(s) : loaded[ContainersOf[s][i]][s] < m
  BY <1>1, HoldersTyped, HoldersAreInts DEF NoneAhead
<1>4. \A i \in 1 .. NContainers(s) : loaded'[ContainersOf[s][i]][s] < m
  BY <1>2, <1>3, StartsWithOldValue
<1>5. \A c \in Containers : loaded'[c][s] \in Int
  <2>1. SUFFICES ASSUME NEW c \in Containers PROVE loaded'[c][s] \in Int
    OBVIOUS
  <2>2. \A d \in Containers : Reads[d][s] \in Files
    BY ConfigurationAssumption
  <2>3. files[Reads[ContainersOf[s][k]][s]][s] \in Int
    BY <2>2, ContainersAre, HoldersAreInts
  <2>4. QED
    BY <2>3, HoldersAreInts DEF LoadFrom, TypeOK
<1>6. \A i \in 1 .. NContainers(s) : loaded'[ContainersOf[s][i]][s] <= attempts[s]
  <2>1. SUFFICES ASSUME NEW i \in 1 .. NContainers(s)
                 PROVE  loaded'[ContainersOf[s][i]][s] <= attempts[s]
    OBVIOUS
  <2>2. loaded'[ContainersOf[s][i]][s] \in Int
    BY <1>5, ContainersAre
  <2>3. QED
    BY <1>1, <1>4, <2>2, HoldersAreInts
<1>7. QED
  BY <1>6 DEF NoneAhead

(* No step of an attempt begins another one.                               *)
LEMMA AttemptsStand ==
  ASSUME NEW t \in Secrets, Attempt(t)
  PROVE  UNCHANGED attempts
<1>1. Resolve(t) \/ OpenPrimary(t) \/ Generate(t) \/ Verify(t) \/ WaitHealthy(t)
      \/ RecordSuccess(t) \/ UndoWaitHealthy(t) \/ UndoDone(t) \/ RecordFailure(t)
      => UNCHANGED attempts
  BY DEF Resolve, OpenPrimary, Generate, Verify, WaitHealthy, RecordSuccess,
     UndoWaitHealthy, UndoDone, RecordFailure
<1>2. Apply(t) \/ ReadFile(t) \/ ReplaceFile(t) \/ RestartContainer(t) \/ UndoFile(t)
      \/ UndoRestart(t) \/ UndoCredential(t) => UNCHANGED attempts
  BY DEF Apply, ReadFile, ReplaceFile, RestartContainer, UndoFile, UndoRestart, UndoCredential
<1>3. QED
  BY <1>1, <1>2 DEF Attempt

-----------------------------------------------------------------------------
(* Part 7: an attempt at another secret.                                   *)

LEMMA OtherKeepsOrder ==
  ASSUME TypeOK, Apart, AttemptsAccountable, NEW t \in Secrets, Attempt(t), pc[t] # "idle",
         NEW s \in Secrets, s # t, OrderOK(s)
  PROVE  OrderOK(s)'
<1>1. LocalsKept(s) /\ attempts'[s] = attempts[s]
  BY TouchesOwnLocals, AttemptsStand
<1>2. Unharmed(s)
  BY LeavesOthersUnharmed DEF AttemptsAccountable, SecretOK
<1>3. NoneAhead(s)'
  <2>1. \A i \in 1 .. NFiles(s) : files'[EnvFiles[s][i]][s] <= attempts[s]
    BY <1>2 DEF OrderOK, NoneAhead, Unharmed
  <2>2. ASSUME NEW i \in 1 .. NContainers(s)
        PROVE  loaded'[ContainersOf[s][i]][s] <= attempts[s]
    <3>1. CASE loaded'[ContainersOf[s][i]][s] = loaded[ContainersOf[s][i]][s]
      BY <3>1 DEF OrderOK, NoneAhead
    <3>2. CASE loaded'[ContainersOf[s][i]][s] = files[Reads[ContainersOf[s][i]][s]][s]
      <4>1. PICK n \in 1 .. NFiles(s) : Reads[ContainersOf[s][i]][s] = EnvFiles[s][n]
        BY ReadsOwnFile
      <4>2. QED
        BY <3>2, <4>1 DEF OrderOK, NoneAhead
    <3>3. QED
      BY <1>2, <3>1, <3>2 DEF Unharmed
  <2>3. QED
    BY <1>1, <2>1, <2>2 DEF NoneAhead
<1>4. CASE pc[s] = "idle"
  BY <1>1, <1>3, <1>4 DEF OrderOK, LocalsKept
<1>5. CASE pc[s] # "idle"
  <2>1. /\ \A i \in 1 .. NFiles(s) : files'[EnvFiles[s][i]][s] = files[EnvFiles[s][i]][s]
        /\ \A i \in 1 .. NContainers(s) :
             loaded'[ContainersOf[s][i]][s] = loaded[ContainersOf[s][i]][s]
        /\ svc'[s] = svc[s]
    BY <1>2, <1>5 DEF Unharmed
  <2>2. /\ HoldersOld(s) => HoldersOld(s)'
        /\ \A from \in Nat \ {0} : FilesOld(s, from, NFiles(s)) => FilesOld(s, from, NFiles(s))'
        /\ ContainersOld(s, NContainers(s)) => ContainersOld(s, NContainers(s))'
    <3>1. \A from \in Nat \ {0} : FilesOld(s, from, NFiles(s)) => FilesOld(s, from, NFiles(s))'
      BY <1>1, <2>1, FilesOf DEF FilesOld
    <3>2. ContainersOld(s, NContainers(s)) => ContainersOld(s, NContainers(s))'
      BY <1>1, <2>1 DEF ContainersOld
    <3>3. QED
      BY <3>1, <3>2 DEF HoldersOld
  <2>3. /\ Written(s)' = Written(s) /\ PlansRestart(s)' = PlansRestart(s)
        /\ RestartAt(s)' = RestartAt(s)
    BY <1>1 DEF LocalsKept, Written, PlansRestart, RestartAt
  <2>4. BookOK(s)
    BY DEF AttemptsAccountable, SecretOK
  <2>5. Written(s) + 1 \in Nat \ {0}
    BY <2>4, JournalFacts
  <2>6. AcceptedOrGone(s) => AcceptedOrGone(s)'
    BY <1>1, <2>1, <2>2 DEF AcceptedOrGone, LocalsKept, Unproven
  <2>7. ASSUME UndoneOld(s), pc[s] \in {"undo", "undo_wait"} PROVE UndoneOld(s)'
    <3>1. PlansRestart(s) /\ at[s] = RestartAt(s) =>
            ContainersOld(s, IF pc[s] = "undo_wait" THEN pos[s] ELSE pos[s] - 1)'
      <4>1. SUFFICES ASSUME PlansRestart(s), at[s] = RestartAt(s),
                            NEW i \in 1 .. IF pc[s] = "undo_wait" THEN pos[s] ELSE pos[s] - 1
                     PROVE  loaded'[ContainersOf[s][i]][s] < attempts[s]
        BY <1>1 DEF ContainersOld, LocalsKept
      <4>2. i \in 1 .. NContainers(s)
        BY <2>4, <2>7, <4>1, UndoFacts DEF BookOK
      <4>3. QED
        BY <2>1, <2>7, <4>1, <4>2 DEF UndoneOld, ContainersOld
    <3>2. \A i \in 1 .. NFiles(s) :
            i < at[s] \/ i > Written(s) => files'[EnvFiles[s][i]][s] < attempts[s]
      BY <2>1, <2>7 DEF UndoneOld
    <3>3. ~PlansRestart(s) \/ at[s] > RestartAt(s) => ContainersOld(s, NContainers(s))'
      BY <2>2, <2>7 DEF UndoneOld
    <3>4. QED
      BY <1>1, <2>3, <3>1, <3>2, <3>3 DEF UndoneOld, LocalsKept
  <2>8. QED
    BY <1>1, <1>3, <2>2, <2>3, <2>5, <2>6, <2>7 DEF OrderOK, LocalsKept
<1>6. QED
  BY <1>4, <1>5

-----------------------------------------------------------------------------
(* Part 8: forward.                                                        *)

LEMMA ReturnKeepsOrder ==
  ASSUME TypeOK, NEW s \in Secrets, NoneAhead(s), NEW outcome, Return(s, outcome),
         UNCHANGED <<files, loaded, attempts>>
  PROVE  OrderOK(s)'
<1>1. pc'[s] = "idle"
  BY DEF Return, Goto, TypeOK
<1>2. NoneAhead(s)'
  BY SameHolders
<1>3. QED
  BY <1>1, <1>2 DEF OrderOK

(* An attempt that starts to compensate: either the service accepts the    *)
(* new value, or no holder carries it.                                     *)
LEMMA CompensateKeepsOrder ==
  ASSUME TypeOK, NEW s \in Secrets, BookOK(s), NoneAhead(s), Compensate(s),
         UNCHANGED <<files, loaded, attempts>>,
         UNCHANGED journal \/ Note(s, RecordRestarted(journal[s], ContainersOf[s])),
         \A p \in DOMAIN journal[s].fileBackups : journal[s].fileBackups[p][s] < attempts[s],
         FilesOld(s, Written(s) + 1, NFiles(s)),
         PlansRestart(s)' \/ ContainersOld(s, NContainers(s)),
         AcceptedOrGone(s)'
  PROVE  OrderOK(s)'
<1>1. pc'[s] = "undo" /\ at'[s] = 1 /\ pos'[s] = 1
  BY DEF Compensate, Goto, TypeOK
<1>2. journal'[s] = journal[s] \/ journal'[s] = RecordRestarted(journal[s], ContainersOf[s])
  BY DEF Note, TypeOK
<1>3. journal'[s].fileBackups = journal[s].fileBackups /\ Written(s)' = Written(s)
  BY <1>2, RecordFacts DEF Written
<1>4. Written(s) \in Nat
  BY JournalFacts
<1>5. \A i \in 1 .. NFiles(s) : i < 1 \/ i > Written(s) => files'[EnvFiles[s][i]][s] < attempts'[s]
  BY <1>4, FilesOf DEF FilesOld
<1>6. ~(1 > RestartAt(s)')
  BY <1>3, <1>4 DEF RestartAt
<1>7. ContainersOld(s, 0)'
  BY DEF ContainersOld
<1>8. ~PlansRestart(s)' => ContainersOld(s, NContainers(s))'
  BY SameHolders
<1>9. UndoneOld(s)'
  BY <1>1, <1>3, <1>5, <1>6, <1>7, <1>8 DEF UndoneOld
<1>10. NoneAhead(s)'
  BY SameHolders
<1>11. QED
  BY <1>1, <1>3, <1>9, <1>10 DEF OrderOK

LEMMA EarlyKeepsOrder ==
  ASSUME TypeOK, NEW s \in Secrets, BookOK(s), OrderOK(s),
         Resolve(s) \/ OpenPrimary(s) \/ Generate(s)
  PROVE  OrderOK(s)'
<1>1. /\ pc[s] \in {"resolve", "open", "generate"}
      /\ UNCHANGED <<files, loaded, attempts>>
  BY DEF Resolve, OpenPrimary, Generate, world
<1>2. NoneAhead(s) /\ HoldersOld(s)
  BY <1>1 DEF OrderOK
<1>3. NoneAhead(s)' /\ HoldersOld(s)'
  BY <1>1, <1>2, SameHolders
<1>4. CASE \E outcome : Return(s, outcome)
  BY <1>1, <1>2, <1>4, ReturnKeepsOrder
<1>5. CASE pc'[s] = "open"
  BY <1>3, <1>5 DEF OrderOK
<1>6. CASE /\ OpenPrimary(s) /\ Goto(s, "generate")
           /\ Note(s, RecordCurrentValue(BeginRotation, PrimaryEnvFile(s),
                                         files[PrimaryEnvFile(s)][s], files[PrimaryEnvFile(s)]))
  <2> DEFINE primary == PrimaryEnvFile(s)
             q == RecordCurrentValue(BeginRotation, primary, files[primary][s], files[primary])
  <2>1. journal'[s] = q /\ pc'[s] = "generate"
    BY <1>6 DEF Goto, Note, TypeOK
  <2>2. /\ q.next = Absent
        /\ \A p \in DOMAIN q.fileBackups : p = primary /\ q.fileBackups[p] = files[primary]
    BY DEF RecordCurrentValue, BeginRotation
  <2>3. files[primary][s] < attempts[s]
    BY <1>2, FilesOf DEF HoldersOld, FilesOld
  <2> HIDE DEF q, primary
  <2>4. QED
    BY <1>1, <1>3, <2>1, <2>2, <2>3 DEF OrderOK
<1>7. CASE /\ Generate(s)
           /\ Note(s, RecordGenerated(journal[s], attempts[s]))
           /\ Goto(s, IF HasBackingService(s) THEN "apply" ELSE "read_file")
  <2>1. pc[s] = "generate" /\ pc'[s] \in {"apply", "read_file"}
    BY <1>7 DEF Generate, Goto, TypeOK
  <2>2. journal'[s] = RecordGenerated(journal[s], attempts[s])
    BY <1>7 DEF Note, TypeOK
  <2>3. /\ journal'[s].fileBackups = journal[s].fileBackups
        /\ journal'[s].writtenFiles = journal[s].writtenFiles
    <3>1. journal[s] \in Journal /\ attempts[s] \in Int
      BY JournalFacts, HoldersAreInts
    <3>2. LET q == RecordGenerated(journal[s], attempts[s])
          IN  /\ q.fileBackups = journal[s].fileBackups
              /\ q.writtenFiles = journal[s].writtenFiles
      BY <3>1, RecordStepsAreJournals
    <3>3. QED
      BY <2>2, <3>2
  <2>4. Written(s)' = Written(s) /\ Written(s) = 0
    BY <2>1, <2>3 DEF Written, BookOK
  <2>5. FilesOld(s, Written(s) + 1, NFiles(s))' /\ ContainersOld(s, NContainers(s))'
    BY <1>3, <2>4 DEF HoldersOld, FilesOld
  <2>6. \A p \in DOMAIN journal[s].fileBackups : journal[s].fileBackups[p][s] < attempts[s]
    BY <2>1 DEF OrderOK
  <2>7. QED
    BY <1>1, <1>3, <2>1, <2>3, <2>5, <2>6 DEF OrderOK
<1>8. QED
  <2>1. ASSUME Resolve(s) PROVE (\E outcome : Return(s, outcome)) \/ pc'[s] = "open"
    BY <2>1 DEF Resolve, Goto, TypeOK
  <2>2. QED
    BY <1>4, <1>5, <1>6, <1>7, <2>1 DEF OpenPrimary, Generate

LEMMA ApplyKeepsOrder ==
  ASSUME TypeOK, NEW s \in Secrets, BookOK(s), OrderOK(s), Apply(s)
  PROVE  OrderOK(s)'
<1>1. pc[s] = "apply" /\ UNCHANGED <<files, loaded, attempts>>
  BY DEF Apply
<1>2. /\ NoneAhead(s) /\ HoldersOld(s)
      /\ \A p \in DOMAIN journal[s].fileBackups : journal[s].fileBackups[p][s] < attempts[s]
  BY <1>1 DEF OrderOK
<1>3. NoneAhead(s)' /\ HoldersOld(s)'
  BY <1>1, <1>2, SameHolders
<1>4. CASE Note(s, RecordApplied(journal[s])) /\ Goto(s, "verify")
  <2>1. pc'[s] = "verify" /\ journal'[s].fileBackups = journal[s].fileBackups
    BY <1>4, RecordFacts DEF Goto, Note, TypeOK
  <2>2. QED
    BY <1>1, <1>2, <1>3, <2>1 DEF OrderOK
<1>5. CASE Compensate(s) /\ UNCHANGED journal
  <2>1. FilesOld(s, Written(s) + 1, NFiles(s)) /\ ContainersOld(s, NContainers(s))
    BY <1>1, <1>2 DEF BookOK, HoldersOld
  <2>2. AcceptedOrGone(s)'
    BY <1>3 DEF AcceptedOrGone
  <2>3. QED
    BY <1>1, <1>2, <1>5, <2>1, <2>2, CompensateKeepsOrder
<1>6. QED
  BY <1>4, <1>5 DEF Apply, ApplyAccepted, ApplyWithoutEffect, ApplyRefused, ApplyAnswerLost

LEMMA VerifyKeepsOrder ==
  ASSUME TypeOK, NEW s \in Secrets, BookOK(s), OrderOK(s), Verify(s)
  PROVE  OrderOK(s)'
<1>1. pc[s] = "verify" /\ UNCHANGED <<files, loaded, attempts>>
  BY DEF Verify, world
<1>2. /\ NoneAhead(s) /\ HoldersOld(s)
      /\ \A p \in DOMAIN journal[s].fileBackups : journal[s].fileBackups[p][s] < attempts[s]
      /\ Written(s) = 0
  BY <1>1 DEF OrderOK, BookOK
<1>3. NoneAhead(s)' /\ HoldersOld(s)'
  BY <1>1, <1>2, SameHolders
<1>4. CASE Note(s, RecordVerified(journal[s])) /\ Goto(s, "read_file")
  <2>1. /\ pc'[s] = "read_file" /\ journal'[s].fileBackups = journal[s].fileBackups
        /\ Written(s)' = 0
    BY <1>2, <1>4, RecordFacts DEF Goto, Note, TypeOK, Written
  <2>2. FilesOld(s, Written(s) + 1, NFiles(s))' /\ ContainersOld(s, NContainers(s))'
    BY <1>3, <2>1 DEF HoldersOld, FilesOld
  <2>3. QED
    BY <1>1, <1>2, <1>3, <2>1, <2>2 DEF OrderOK
<1>5. CASE Compensate(s) /\ UNCHANGED journal
  <2>1. FilesOld(s, Written(s) + 1, NFiles(s)) /\ ContainersOld(s, NContainers(s))
    BY <1>2 DEF HoldersOld
  <2>2. AcceptedOrGone(s)'
    BY <1>3 DEF AcceptedOrGone
  <2>3. QED
    BY <1>1, <1>2, <1>5, <2>1, <2>2, CompensateKeepsOrder
<1>6. QED
  BY <1>4, <1>5 DEF Verify

(* From the first file on, the service accepts the new value.              *)
LEMMA WritesAccepted ==
  ASSUME NEW s \in Secrets, ForwardOK(s), UNCHANGED svc, journal'[s].next = journal[s].next,
         pc[s] \in {"read_file", "replace_file", "restart", "wait_healthy", "record_success"}
  PROVE  AcceptedOrGone(s)'
BY DEF ForwardOK, ServiceHolds, AcceptedOrGone, Unproven

LEMMA ReadFileKeepsOrder ==
  ASSUME TypeOK, NEW s \in Secrets, BookOK(s), ForwardOK(s), OrderOK(s), ReadFile(s)
  PROVE  OrderOK(s)'
<1>1. pc[s] = "read_file" /\ UNCHANGED <<files, svc, loaded, attempts, journal>>
  BY DEF ReadFile, world
<1>2. /\ NoneAhead(s) /\ FilesOld(s, Written(s) + 1, NFiles(s)) /\ ContainersOld(s, NContainers(s))
      /\ \A p \in DOMAIN journal[s].fileBackups : journal[s].fileBackups[p][s] < attempts[s]
  BY <1>1 DEF OrderOK
<1>3. CASE buffer' = [buffer EXCEPT ![s] = files[Path(s)]] /\ Goto(s, "replace_file")
  <2>1. pc'[s] = "replace_file" /\ buffer'[s] = files[Path(s)]
    BY <1>3 DEF Goto, TypeOK
  <2>2. files[Path(s)][s] < attempts[s]
    BY <1>1, <1>2, NextFile DEF FilesOld
  <2>3. /\ NoneAhead(s)' /\ ContainersOld(s, NContainers(s))'
        /\ FilesOld(s, Written(s) + 1, NFiles(s))'
    BY <1>1, <1>2, SameHolders DEF Written, FilesOld
  <2>4. QED
    BY <1>1, <1>2, <2>1, <2>2, <2>3 DEF OrderOK
<1>4. CASE Compensate(s)
  <2>1. AcceptedOrGone(s)'
    BY <1>1, WritesAccepted
  <2>2. QED
    BY <1>1, <1>2, <1>4, <2>1, CompensateKeepsOrder
<1>5. QED
  BY <1>3, <1>4 DEF ReadFile

LEMMA ReplaceFileKeepsOrder ==
  ASSUME TypeOK, NEW s \in Secrets, BookOK(s), ForwardOK(s), FreshOK(s), OrderOK(s), ReplaceFile(s)
  PROVE  OrderOK(s)'
<1>1. pc[s] = "replace_file" /\ UNCHANGED <<svc, loaded, attempts>>
  BY DEF ReplaceFile
<1>2. /\ NoneAhead(s) /\ FilesOld(s, Written(s) + 1, NFiles(s)) /\ ContainersOld(s, NContainers(s))
      /\ \A p \in DOMAIN journal[s].fileBackups : journal[s].fileBackups[p][s] < attempts[s]
      /\ buffer[s][s] < attempts[s] /\ journal[s].next = attempts[s]
  BY <1>1 DEF OrderOK, FreshOK
<1>3. /\ at[s] \in 1 .. NFiles(s) /\ Written(s) = at[s] - 1
      /\ Path(s) = EnvFiles[s][at[s]] /\ Path(s) \in Files
      /\ \A i \in 1 .. NFiles(s) : i # at[s] => EnvFiles[s][i] # Path(s)
  BY <1>1, NextFile
<1> DEFINE updated == [buffer[s] EXCEPT ![s] = journal[s].next]
           q == RecordFileWritten(journal[s], Path(s), buffer[s])
<1>4. CASE /\ files' = [files EXCEPT ![Path(s)] = updated]
           /\ Note(s, q)
           /\ Goto(s, NextAfterFile(s, at[s]))
  <2>1. /\ \A p \in DOMAIN q.fileBackups : q.fileBackups[p] \in
             {buffer[s]} \cup {journal[s].fileBackups[o] : o \in DOMAIN journal[s].fileBackups}
        /\ Len(q.writtenFiles) = at[s]
    <3>1. journal[s] \in Journal /\ buffer[s] \in Content /\ journal[s].writtenFiles \in Seq(Files)
      BY JournalFacts DEF TypeOK
    <3>2. /\ DOMAIN q.fileBackups = DOMAIN journal[s].fileBackups \cup {Path(s)}
          /\ \A p \in DOMAIN journal[s].fileBackups : q.fileBackups[p] = journal[s].fileBackups[p]
          /\ Path(s) \notin DOMAIN journal[s].fileBackups => q.fileBackups[Path(s)] = buffer[s]
          /\ q.writtenFiles = Append(journal[s].writtenFiles, Path(s))
      BY <1>3, <3>1, RecordFileWrittenIsJournal, SMTT(30)
    <3> HIDE DEF q
    <3>3. Len(q.writtenFiles) = at[s]
      BY <1>3, <3>1, <3>2 DEF Written
    <3>4. QED
      BY <3>2, <3>3
  <2>2. updated[s] = attempts[s]
    BY <1>2, FilesOf DEF TypeOK, Content
  <2> HIDE DEF updated, q
  <2>3. /\ journal'[s] = q /\ Written(s)' = at[s]
        /\ pc'[s] \in {"read_file", "restart", "record_success"}
    BY <1>4, <2>1 DEF Goto, Note, TypeOK, NextAfterFile, Written
  <2>4. \A i \in 1 .. NFiles(s) :
          files'[EnvFiles[s][i]][s] = IF i = at[s] THEN attempts[s] ELSE files[EnvFiles[s][i]][s]
    BY <1>3, <1>4, <2>2, FilesOf DEF TypeOK
  <2>5. NoneAhead(s)'
    BY <1>1, <1>2, <2>4, HoldersAreInts DEF NoneAhead
  <2>6. FilesOld(s, Written(s) + 1, NFiles(s))' /\ ContainersOld(s, NContainers(s))'
    <3>1. \A i \in at[s] + 1 .. NFiles(s) : files'[EnvFiles[s][i]][s] < attempts[s]
      <4>1. \A i \in at[s] + 1 .. NFiles(s) :
              i \in 1 .. NFiles(s) /\ i # at[s] /\ i \in Written(s) + 1 .. NFiles(s)
        BY <1>3, FilesOf
      <4>2. QED
        BY <1>2, <2>4, <4>1 DEF FilesOld
    <3>2. QED
      BY <1>1, <1>2, <2>3, <3>1 DEF FilesOld, ContainersOld
  <2>7. \A p \in DOMAIN q.fileBackups : q.fileBackups[p][s] < attempts[s]
    BY <1>2, <2>1
  <2>8. QED
    BY <1>1, <2>3, <2>5, <2>6, <2>7 DEF OrderOK
<1>5. CASE Compensate(s) /\ UNCHANGED <<files, journal>>
  <2>1. AcceptedOrGone(s)'
    BY <1>1, <1>5, WritesAccepted
  <2>2. QED
    BY <1>1, <1>2, <1>5, <2>1, CompensateKeepsOrder
<1>6. QED
  BY <1>4, <1>5 DEF ReplaceFile, updated, q

(* A restart or a health check that fails: the plan restarts everything.   *)
LEMMA RestartFailedKeepsOrder ==
  ASSUME TypeOK, NEW s \in Secrets, BookOK(s), ForwardOK(s), OrderOK(s), RestartFailed(s),
         pc[s] \in {"restart", "wait_healthy"}, UNCHANGED <<files, svc, loaded, attempts>>
  PROVE  OrderOK(s)'
<1>1. /\ NoneAhead(s)
      /\ \A p \in DOMAIN journal[s].fileBackups : journal[s].fileBackups[p][s] < attempts[s]
  BY DEF OrderOK
<1>2. journal'[s] = RecordRestarted(journal[s], ContainersOf[s]) /\ Compensate(s)
  BY DEF RestartFailed, Note, TypeOK
<1>3. NContainers(s) > 0
  <2>1. pos[s] \in DOMAIN ContainersOf[s]
    BY DEF TypeOK, IndicesOK
  <2>2. QED
    BY <2>1, ContainersAre
<1>4. PlansRestart(s)'
  BY <1>2, <1>3, RecordFacts DEF PlansRestart, NContainers
<1>5. FilesOld(s, Written(s) + 1, NFiles(s))
  BY FilesOf DEF BookOK, FilesOld
<1>6. AcceptedOrGone(s)'
  BY <1>2, RecordFacts, WritesAccepted
<1>7. QED
  BY <1>1, <1>2, <1>4, <1>5, <1>6, CompensateKeepsOrder DEF RestartFailed

LEMMA RestartKeepsOrder ==
  ASSUME TypeOK, Apart, NEW s \in Secrets, BookOK(s), ForwardOK(s), OrderOK(s),
         RestartContainer(s) \/ WaitHealthy(s)
  PROVE  OrderOK(s)'
<1>1. /\ pc[s] \in {"restart", "wait_healthy"} /\ UNCHANGED <<files, svc, attempts>>
      /\ pc[s] = "wait_healthy" => UNCHANGED loaded
  BY DEF RestartContainer, WaitHealthy, world
<1>2. /\ NoneAhead(s)
      /\ \A p \in DOMAIN journal[s].fileBackups : journal[s].fileBackups[p][s] < attempts[s]
  BY <1>1 DEF OrderOK
<1>3. CASE LoadFrom(ContainersOf[s][pos[s]]) /\ Goto(s, "wait_healthy") /\ UNCHANGED journal
  <2>1. pos[s] \in 1 .. NContainers(s)
    BY <1>1, ContainersAre DEF TypeOK, IndicesOK
  <2>2. NoneAhead(s)'
    BY <1>1, <1>2, <1>3, <2>1, RestartKeepsBehind
  <2>3. pc'[s] = "wait_healthy" /\ journal'[s] = journal[s]
    BY <1>3 DEF Goto, TypeOK
  <2>4. QED
    BY <1>1, <1>2, <2>2, <2>3 DEF OrderOK
<1>4. CASE RestartFailed(s) /\ UNCHANGED loaded
  BY <1>1, <1>4, RestartFailedKeepsOrder
<1>5. CASE /\ pc'[s] \in {"restart", "record_success"} /\ UNCHANGED loaded
           /\ UNCHANGED journal \/ Note(s, RecordRestarted(journal[s], ContainersOf[s]))
  <2>1. NoneAhead(s)'
    BY <1>1, <1>2, <1>5, SameHolders
  <2>2. journal'[s].fileBackups = journal[s].fileBackups
    BY <1>5, RecordFacts DEF Note, TypeOK
  <2>3. QED
    BY <1>1, <1>2, <1>5, <2>1, <2>2 DEF OrderOK
<1>6. QED
  <2>1. CASE RestartContainer(s)
    BY <1>3, <1>4, <2>1 DEF RestartContainer
  <2>2. CASE WaitHealthy(s)
    BY <1>1, <1>4, <1>5, <2>2 DEF WaitHealthy, Goto, TypeOK, world
  <2>3. QED
    BY <2>1, <2>2

-----------------------------------------------------------------------------
(* Part 9: backward.                                                       *)

(* The next undo action, when the holders have been taken back one action  *)
(* further.                                                                *)
LEMMA UndoNextKeepsOrder ==
  ASSUME TypeOK, NEW s \in Secrets, BookOK(s), OrderOK(s), NEW failed \in BOOLEAN,
         UndoNext(s, failed), pc[s] \in {"undo", "undo_wait"}, UNCHANGED <<journal, attempts>>,
         NoneAhead(s)',
         ~failures[s] /\ ~failed =>
           /\ AcceptedOrGone(s)'
           /\ \A i \in 1 .. NFiles(s) :
                i <= at[s] \/ i > Written(s) => files'[EnvFiles[s][i]][s] < attempts[s]
           /\ ~PlansRestart(s) \/ at[s] >= RestartAt(s) => ContainersOld(s, NContainers(s))'
  PROVE  OrderOK(s)'
<1>1. /\ pc'[s] = "undo" /\ at'[s] = at[s] + 1 /\ pos'[s] = 1
      /\ journal'[s] = journal[s] /\ failures'[s] = (failures[s] \/ failed)
  BY DEF UndoNext, Goto, TypeOK
<1>2. /\ Written(s)' = Written(s) /\ PlansRestart(s)' = PlansRestart(s)
      /\ RestartAt(s)' = RestartAt(s)
  BY <1>1 DEF Written, PlansRestart, RestartAt
<1>3. ASSUME ~failures'[s] PROVE UndoneOld(s)' /\ AcceptedOrGone(s)'
  <2>1. ~failures[s] /\ ~failed
    BY <1>1, <1>3
  <2>2. \A i \in 1 .. NFiles(s) : i < at'[s] \/ i > Written(s) => files'[EnvFiles[s][i]][s] < attempts[s]
    BY <1>1, <2>1, UndoFacts
  <2>3. ~PlansRestart(s) \/ at'[s] > RestartAt(s) => ContainersOld(s, NContainers(s))'
    BY <1>1, <2>1, UndoFacts
  <2>4. ContainersOld(s, 0)'
    BY DEF ContainersOld
  <2>5. QED
    BY <1>1, <1>2, <2>1, <2>2, <2>3, <2>4 DEF UndoneOld
<1>4. \A p \in DOMAIN journal[s].fileBackups : journal[s].fileBackups[p][s] < attempts[s]
  BY DEF OrderOK
<1>5. QED
  BY <1>1, <1>3, <1>4 DEF OrderOK

LEMMA UndoFileKeepsOrder ==
  ASSUME TypeOK, NEW s \in Secrets, BookOK(s), OrderOK(s), UndoFile(s)
  PROVE  OrderOK(s)'
<1> DEFINE k == at[s]
           path == Plan(s)[k].path
           kept == journal[s].fileBackups[path]
<1>1. /\ pc[s] = "undo" /\ UNCHANGED <<svc, loaded, attempts, journal>>
      /\ k \in DOMAIN Plan(s) /\ Plan(s)[k].type = RestoreFile
  BY DEF UndoFile, Undoing
<1>2. k \in 1 .. Written(s) /\ path = EnvFiles[s][k]
  <2>1. k \in 1 .. Written(s) /\ Plan(s)[k] = [type |-> RestoreFile, path |-> journal[s].writtenFiles[k]]
    <3>1. k \in Nat /\ k >= 1 /\ k <= Written(s) /\ Written(s) \in Nat
      BY <1>1, UndoFacts, PlanShape
    <3>2. k \in 1 .. Written(s)
      BY <3>1
    <3>3. QED
      BY <1>1, <3>2, UndoFacts, PlanShape
  <2>2. path = journal[s].writtenFiles[k]
    BY <2>1
  <2>3. QED
    BY <2>1, <2>2 DEF BookOK
<1>3. path \in DOMAIN journal[s].fileBackups
  <2>1. JournalOK(s, journal[s])
    BY DEF TypeOK
  <2>2. path \in Elements(journal[s].writtenFiles)
    BY <1>2, JournalFacts DEF BookOK, Elements, Written
  <2>3. QED
    BY <2>1, <2>2 DEF JournalOK
<1>4. NoneAhead(s) /\ kept[s] < attempts[s]
  BY <1>1, <1>3 DEF OrderOK
<1>5. kept[s] <= attempts[s]
  <2>1. kept \in Content
    BY <1>3, JournalFacts DEF Backups
  <2>2. kept[s] \in Int
    BY <2>1, FilesOf DEF Content
  <2>3. QED
    BY <1>4, <2>2, HoldersAreInts
<1>6. ~failures[s] => /\ UndoneOld(s) /\ AcceptedOrGone(s)
                      /\ ~PlansRestart(s) => ContainersOld(s, NContainers(s))
  BY <1>1 DEF OrderOK, UndoneOld
<1>7. ~(k >= RestartAt(s))
  BY <1>1, <1>2, UndoFacts
<1> HIDE DEF path, kept
<1>8. CASE files' = [files EXCEPT ![path] = kept] /\ UndoNext(s, FALSE)
  <2>1. ASSUME NEW i \in 1 .. NFiles(s)
        PROVE  files'[EnvFiles[s][i]][s] =
                 IF EnvFiles[s][i] = path THEN kept[s] ELSE files[EnvFiles[s][i]][s]
    BY <1>8, FilesOf DEF TypeOK
  <2>2. NoneAhead(s)'
    BY <1>1, <1>4, <1>5, <2>1 DEF NoneAhead
  <2>3. ASSUME ~failures[s], NEW i \in 1 .. NFiles(s), i <= k \/ i > Written(s)
        PROVE  files'[EnvFiles[s][i]][s] < attempts[s]
    <3>1. CASE EnvFiles[s][i] = path
      BY <1>4, <2>1, <3>1
    <3>2. CASE EnvFiles[s][i] # path
      <4>1. i < k \/ i > Written(s)
        BY <1>1, <1>2, <2>3, <3>2, UndoFacts
      <4>2. QED
        BY <1>6, <2>1, <2>3, <3>2, <4>1 DEF UndoneOld
    <3>3. QED
      BY <3>1, <3>2
  <2>4. ASSUME ~failures[s] PROVE AcceptedOrGone(s)'
    <3>1. ASSUME HoldersOld(s) PROVE HoldersOld(s)'
      BY <1>1, <1>4, <2>1, <3>1 DEF HoldersOld, FilesOld, ContainersOld
    <3>2. QED
      BY <1>1, <1>6, <2>4, <3>1 DEF AcceptedOrGone, Unproven
  <2>5. ~failures[s] => (~PlansRestart(s) => ContainersOld(s, NContainers(s))')
    BY <1>1, <1>6 DEF ContainersOld
  <2>6. QED
    BY <1>1, <1>7, <1>8, <2>2, <2>3, <2>4, <2>5, UndoNextKeepsOrder
<1>9. CASE UndoNext(s, TRUE) /\ UNCHANGED files
  <2>1. NoneAhead(s)'
    BY <1>1, <1>4, <1>9, SameHolders
  <2>2. QED
    BY <1>1, <1>9, <2>1, UndoNextKeepsOrder
<1>10. QED
  BY <1>8, <1>9 DEF UndoFile, path, kept

(* A container is restarted when every file is back, the new value with it.*)
LEMMA UndoRestartKeepsOrder ==
  ASSUME TypeOK, Apart, NEW s \in Secrets, BookOK(s), OrderOK(s), UndoRestart(s)
  PROVE  OrderOK(s)'
<1>1. /\ pc[s] = "undo" /\ UNCHANGED <<files, svc, attempts, journal>>
      /\ at[s] \in DOMAIN Plan(s) /\ Plan(s)[at[s]].type = RestartContainers
  BY DEF UndoRestart, Undoing
<1>2. PlansRestart(s) /\ at[s] = RestartAt(s) /\ at[s] = Written(s) + 1
  BY <1>1, UndoFacts, PlanShape
<1>3. pos[s] \in 1 .. NContainers(s) /\ pos[s] <= NContainers(s)
  <2>1. pos[s] = 1 \/ pos[s] <= NContainers(s)
    BY <1>1 DEF BookOK
  <2>2. pos[s] \in Nat /\ pos[s] >= 1 /\ NContainers(s) \in Nat /\ NContainers(s) > 0
    BY <1>1, <1>2, UndoFacts
  <2>3. QED
    BY <2>1, <2>2
<1>4. Plan(s)[at[s]].containers = ContainersOf[s]
  <2>1. Plan(s)[at[s]] = [type |-> RestartContainers, containers |-> ContainersOf[s]]
    BY <1>1, <1>2, UndoFacts, PlanShape
  <2>2. QED
    BY <2>1
<1>5. /\ NoneAhead(s)
      /\ \A p \in DOMAIN journal[s].fileBackups : journal[s].fileBackups[p][s] < attempts[s]
      /\ ~failures[s] => UndoneOld(s) /\ AcceptedOrGone(s)
  BY <1>1 DEF OrderOK
<1>6. CASE /\ LoadFrom(ContainersOf[s][pos[s]])
           /\ Goto(s, "undo_wait") /\ UNCHANGED <<at, pos, failures>>
  <2>1. /\ pc'[s] = "undo_wait" /\ journal'[s] = journal[s]
        /\ Written(s)' = Written(s) /\ PlansRestart(s)' = PlansRestart(s)
        /\ RestartAt(s)' = RestartAt(s)
    BY <1>1, <1>6 DEF Goto, TypeOK, Written, PlansRestart, RestartAt
  <2>2. NoneAhead(s)'
    BY <1>1, <1>3, <1>5, <1>6, RestartKeepsBehind
  <2>3. ASSUME ~failures[s] PROVE UndoneOld(s)' /\ AcceptedOrGone(s)'
    <3>1. \A i \in 1 .. NFiles(s) : files[EnvFiles[s][i]][s] < attempts[s]
      BY <1>1, <1>2, <1>5, <2>3, UndoFacts DEF UndoneOld
    <3>2. \A i \in 1 .. NContainers(s) :
            i = pos[s] \/ loaded[ContainersOf[s][i]][s] < attempts[s]
              => loaded'[ContainersOf[s][i]][s] < attempts[s]
      <4>1. PICK m, k : m = attempts[s] /\ k = pos[s]
        OBVIOUS
      <4>2. \A i \in 1 .. NContainers(s) :
              i = k \/ loaded[ContainersOf[s][i]][s] < m => loaded'[ContainersOf[s][i]][s] < m
        BY <1>3, <1>6, <3>1, <4>1, StartsWithOldValue
      <4>3. QED
        BY <4>1, <4>2
    <3>3. \A i \in 1 .. pos[s] - 1 : loaded[ContainersOf[s][i]][s] < attempts[s]
      BY <1>1, <1>2, <1>5, <2>3 DEF UndoneOld, ContainersOld
    <3>4. \A i \in 1 .. pos[s] : i \in 1 .. NContainers(s) /\ (i = pos[s] \/ i \in 1 .. pos[s] - 1)
      BY <1>1, <1>3, UndoFacts
    <3>5. ContainersOld(s, pos[s])'
      BY <1>1, <1>6, <3>2, <3>3, <3>4 DEF ContainersOld
    <3>6. ~(at[s] > RestartAt(s))
      BY <1>1, <1>2, UndoFacts
    <3>7. UndoneOld(s)'
      BY <1>1, <1>2, <1>6, <2>1, <3>1, <3>5, <3>6 DEF UndoneOld
    <3>8. ASSUME HoldersOld(s) PROVE HoldersOld(s)'
      BY <1>1, <3>1, <3>2, <3>8 DEF HoldersOld, FilesOld, ContainersOld
    <3>9. AcceptedOrGone(s)'
      BY <1>1, <1>5, <2>3, <3>8 DEF AcceptedOrGone, Unproven
    <3>10. QED
      BY <3>7, <3>9
  <2>4. QED
    BY <1>1, <1>5, <1>6, <2>1, <2>2, <2>3 DEF OrderOK
<1>7. CASE UndoNext(s, TRUE) /\ UNCHANGED loaded
  <2>1. NoneAhead(s)'
    BY <1>1, <1>5, <1>7, SameHolders
  <2>2. QED
    BY <1>1, <1>7, <2>1, UndoNextKeepsOrder
<1>8. QED
  BY <1>4, <1>6, <1>7 DEF UndoRestart

LEMMA UndoWaitHealthyKeepsOrder ==
  ASSUME TypeOK, NEW s \in Secrets, BookOK(s), OrderOK(s), UndoWaitHealthy(s)
  PROVE  OrderOK(s)'
<1>1. pc[s] = "undo_wait" /\ UNCHANGED <<files, svc, loaded, attempts, journal>>
  BY DEF UndoWaitHealthy, world
<1>2. /\ PlansRestart(s) /\ at[s] = RestartAt(s) /\ at[s] = Written(s) + 1
      /\ pos[s] \in 1 .. NContainers(s) /\ NContainers(s) \in Nat
  <2>1. PlansRestart(s) /\ at[s] = RestartAt(s) /\ pos[s] <= NContainers(s)
    BY <1>1 DEF BookOK
  <2>2. QED
    BY <1>1, <2>1, UndoFacts
<1>3. Plan(s)[at[s]].containers = ContainersOf[s]
  <2>1. Plan(s)[at[s]] = [type |-> RestartContainers, containers |-> ContainersOf[s]]
    BY <1>1, <1>2, UndoFacts, PlanShape
  <2>2. QED
    BY <2>1
<1>4. /\ NoneAhead(s)
      /\ \A p \in DOMAIN journal[s].fileBackups : journal[s].fileBackups[p][s] < attempts[s]
      /\ ~failures[s] => UndoneOld(s) /\ AcceptedOrGone(s)
  BY <1>1 DEF OrderOK
<1>5. NoneAhead(s)'
  BY <1>1, <1>4, SameHolders
<1>6. ~failures[s] => AcceptedOrGone(s)'
  BY <1>1, <1>4, SameHolders DEF AcceptedOrGone, Unproven
<1>7. ~failures[s] =>
        /\ \A i \in 1 .. NFiles(s) : files'[EnvFiles[s][i]][s] < attempts[s]
        /\ ContainersOld(s, pos[s])
  BY <1>1, <1>2, <1>4, UndoFacts DEF UndoneOld
<1>8. CASE /\ pos[s] < Len(ContainersOf[s])
           /\ pos' = [pos EXCEPT ![s] = @ + 1] /\ Goto(s, "undo") /\ UNCHANGED <<at, failures>>
  <2>1. /\ pc'[s] = "undo" /\ pos'[s] - 1 = pos[s] /\ journal'[s] = journal[s]
        /\ Written(s)' = Written(s) /\ PlansRestart(s)' = PlansRestart(s)
        /\ RestartAt(s)' = RestartAt(s)
    BY <1>1, <1>2, <1>8 DEF Goto, TypeOK, Written, PlansRestart, RestartAt
  <2>2. ~(at[s] > RestartAt(s))
    BY <1>1, <1>2, UndoFacts
  <2>3. ASSUME ~failures[s] PROVE UndoneOld(s)'
    <3>1. ContainersOld(s, pos[s] - 1)'
      BY <1>1, <1>7, <2>1, <2>3 DEF ContainersOld
    <3>2. QED
      BY <1>1, <1>2, <1>7, <1>8, <2>1, <2>2, <2>3, <3>1 DEF UndoneOld
  <2>4. QED
    BY <1>1, <1>4, <1>5, <1>6, <1>8, <2>1, <2>3 DEF OrderOK
<1>9. CASE pos[s] = Len(ContainersOf[s]) /\ UndoNext(s, FALSE)
  <2>1. ~failures[s] => ContainersOld(s, NContainers(s))'
    BY <1>1, <1>7, <1>9 DEF ContainersOld, NContainers
  <2>2. QED
    BY <1>1, <1>5, <1>6, <1>7, <1>9, <2>1, UndoNextKeepsOrder
<1>10. CASE UndoNext(s, TRUE)
  BY <1>1, <1>5, <1>10, UndoNextKeepsOrder
<1>11. QED
  BY <1>3, <1>8, <1>9, <1>10 DEF UndoWaitHealthy

(* The service is put back when no holder carries the new value any more.  *)
LEMMA UndoCredentialKeepsOrder ==
  ASSUME TypeOK, NEW s \in Secrets, BookOK(s), OrderOK(s), UndoCredential(s)
  PROVE  OrderOK(s)'
<1>1. /\ pc[s] = "undo" /\ UNCHANGED <<files, loaded, attempts, journal>>
      /\ at[s] \in DOMAIN Plan(s) /\ Plan(s)[at[s]].type = RestoreCredential
  BY DEF UndoCredential, Undoing
<1>2. PlansRestore(s) /\ at[s] = RestoreAt(s)
  BY <1>1, UndoFacts, PlanShape
<1>3. at[s] > Written(s) /\ (PlansRestart(s) => at[s] > RestartAt(s))
  BY <1>1, <1>2, UndoFacts
<1>4. NoneAhead(s)' /\ (~failures[s] => UndoneOld(s))
  BY <1>1, SameHolders DEF OrderOK
<1>5. ASSUME ~failures[s] PROVE HoldersOld(s)
  <2>1. FilesOld(s, 1, NFiles(s))
    BY <1>1, <1>3, <1>4, <1>5, UndoFacts DEF UndoneOld, FilesOld
  <2>2. QED
    BY <1>3, <1>4, <1>5, <2>1 DEF UndoneOld, HoldersOld
<1>6. ~failures[s] => HoldersOld(s)'
  BY <1>1, <1>5, SameHolders
<1>7. ~failures[s] => /\ AcceptedOrGone(s)' /\ ContainersOld(s, NContainers(s))'
                      /\ \A i \in 1 .. NFiles(s) : files'[EnvFiles[s][i]][s] < attempts[s]
  BY <1>1, <1>6 DEF AcceptedOrGone, HoldersOld, FilesOld
<1>8. ASSUME NEW failed \in BOOLEAN, UndoNext(s, failed) PROVE OrderOK(s)'
  BY <1>1, <1>4, <1>7, <1>8, UndoNextKeepsOrder
<1>9. QED
  BY <1>8 DEF UndoCredential

LEMMA UndoDoneKeepsOrder ==
  ASSUME TypeOK, NEW s \in Secrets, OrderOK(s), UndoDone(s)
  PROVE  OrderOK(s)'
<1>1. /\ pc[s] = "undo" /\ pc'[s] = "record_failure"
      /\ UNCHANGED <<files, svc, loaded, attempts, journal, failures>>
  BY DEF UndoDone, Goto, TypeOK, local, world
<1>2. NoneAhead(s)'
  BY <1>1, SameHolders DEF OrderOK
<1>3. ~failures[s] => AcceptedOrGone(s)'
  BY <1>1, SameHolders DEF OrderOK, AcceptedOrGone, Unproven
<1>4. QED
  BY <1>1, <1>2, <1>3 DEF OrderOK

-----------------------------------------------------------------------------
(* Part 10: the theorem.                                                   *)

LEMMA InitOrder ==
  ASSUME Apart, StartsOld, Init
  PROVE  OrderKept
<1> SUFFICES ASSUME NEW s \in Secrets PROVE OrderOK(s)
  BY DEF OrderKept
<1>1. pc[s] = "idle" /\ attempts[s] = 0
  BY DEF Init
<1>2. \A i \in 1 .. NFiles(s) : files[EnvFiles[s][i]][s] <= 0
  BY FilesOf DEF Init, StartsOld
<1>3. \A i \in 1 .. NContainers(s) : loaded[ContainersOf[s][i]][s] <= 0
  <2>1. \A c \in Elements(ContainersOf[s]) :
          c \in Containers /\ InitialFiles[Reads[c][s]][s] <= 0
    BY ContainersAre DEF Apart, StartsOld
  <2>2. QED
    BY <2>1, ContainersAre DEF Init
<1>4. QED
  BY <1>1, <1>2, <1>3 DEF OrderOK, NoneAhead

LEMMA BeginKeepsOrder ==
  ASSUME TypeOK, OrderKept, AttemptsAccountable, NEW t \in Secrets, Begin(t)
  PROVE  OrderKept'
<1> SUFFICES ASSUME NEW s \in Secrets PROVE OrderOK(s)'
  BY DEF OrderKept
<1>1. OrderOK(s) /\ UNCHANGED <<files, svc, loaded, journal, at, pos, buffer, failures>>
  BY DEF OrderKept, Begin, world, local
<1>2. CASE s = t
  <2>1. pc'[s] = "resolve" /\ attempts'[s] = attempts[s] + 1
    BY <1>2 DEF Begin, Goto, TypeOK
  <2>2. \A i \in 1 .. NFiles(s) : /\ files'[EnvFiles[s][i]][s] < attempts'[s]
                                  /\ files'[EnvFiles[s][i]][s] <= attempts'[s]
    <3>1. \A i \in 1 .. NFiles(s) :
            files[EnvFiles[s][i]][s] <= attempts[s] /\ files[EnvFiles[s][i]][s] \in Int
      BY <1>1, HoldersTyped DEF OrderOK, NoneAhead
    <3>2. QED
      BY <1>1, <2>1, <3>1, HoldersAreInts
  <2>3. \A i \in 1 .. NContainers(s) : /\ loaded'[ContainersOf[s][i]][s] < attempts'[s]
                                       /\ loaded'[ContainersOf[s][i]][s] <= attempts'[s]
    <3>1. \A i \in 1 .. NContainers(s) :
            loaded[ContainersOf[s][i]][s] <= attempts[s] /\ loaded[ContainersOf[s][i]][s] \in Int
      BY <1>1, HoldersTyped DEF OrderOK, NoneAhead
    <3>2. QED
      BY <1>1, <2>1, <3>1, HoldersAreInts
  <2>4. NoneAhead(s)' /\ HoldersOld(s)'
    BY <2>2, <2>3 DEF NoneAhead, HoldersOld, FilesOld, ContainersOld
  <2>5. QED
    BY <2>1, <2>4 DEF OrderOK
<1>3. CASE s # t
  <2>1. pc'[s] = pc[s] /\ attempts'[s] = attempts[s]
    BY <1>3 DEF Begin, Goto, TypeOK
  <2>2. QED
    BY <1>1, <2>1 DEF OrderOK, NoneAhead, HoldersOld, FilesOld, ContainersOld, UndoneOld,
       AcceptedOrGone, Unproven, Written, PlansRestart, RestartAt
<1>4. QED
  BY <1>2, <1>3

LEMMA AttemptKeepsOrder ==
  ASSUME TypeOK, Apart, AttemptsAccountable, ValuesFresh, OrderKept,
         NEW t \in Secrets, Attempt(t)
  PROVE  OrderKept'
<1> SUFFICES ASSUME NEW s \in Secrets PROVE OrderOK(s)'
  BY DEF OrderKept
<1>1. OrderOK(s) /\ BookOK(s) /\ ForwardOK(s) /\ FreshOK(s)
  BY DEF OrderKept, AttemptsAccountable, SecretOK, ValuesFresh
<1>2. pc[t] # "idle"
  <2>1. Resolve(t) \/ OpenPrimary(t) \/ Generate(t) \/ Verify(t) \/ WaitHealthy(t)
        \/ RecordSuccess(t) \/ UndoWaitHealthy(t) \/ UndoDone(t) \/ RecordFailure(t)
        => pc[t] # "idle"
    BY DEF Resolve, OpenPrimary, Generate, Verify, WaitHealthy, RecordSuccess,
       UndoWaitHealthy, UndoDone, RecordFailure
  <2>2. Apply(t) \/ ReadFile(t) \/ ReplaceFile(t) \/ RestartContainer(t) \/ UndoFile(t)
        \/ UndoRestart(t) \/ UndoCredential(t) => pc[t] # "idle"
    BY DEF Apply, ReadFile, ReplaceFile, RestartContainer, UndoFile, UndoRestart,
       UndoCredential, Undoing
  <2>3. QED
    BY <2>1, <2>2 DEF Attempt
<1>3. CASE s # t
  BY <1>1, <1>2, <1>3, OtherKeepsOrder
<1>4. CASE s = t
  <2>1. CASE Resolve(s) \/ OpenPrimary(s) \/ Generate(s)
    BY <1>1, <2>1, EarlyKeepsOrder
  <2>2. CASE Apply(s) \/ Verify(s)
    BY <1>1, <2>2, ApplyKeepsOrder, VerifyKeepsOrder
  <2>3. CASE ReadFile(s) \/ ReplaceFile(s)
    BY <1>1, <2>3, ReadFileKeepsOrder, ReplaceFileKeepsOrder
  <2>4. CASE RestartContainer(s) \/ WaitHealthy(s)
    BY <1>1, <2>4, RestartKeepsOrder
  <2>5. CASE RecordSuccess(s) \/ RecordFailure(s)
    <3>1. (\E outcome : Return(s, outcome)) /\ UNCHANGED <<files, loaded, attempts>> /\ NoneAhead(s)
      BY <1>1, <2>5 DEF RecordSuccess, RecordFailure, world, OrderOK
    <3>2. QED
      BY <3>1, ReturnKeepsOrder
  <2>6. CASE UndoFile(s) \/ UndoRestart(s)
    BY <1>1, <2>6, UndoFileKeepsOrder, UndoRestartKeepsOrder
  <2>7. CASE UndoWaitHealthy(s) \/ UndoCredential(s) \/ UndoDone(s)
    BY <1>1, <2>7, UndoWaitHealthyKeepsOrder, UndoCredentialKeepsOrder, UndoDoneKeepsOrder
  <2>8. QED
    BY <1>4, <2>1, <2>2, <2>3, <2>4, <2>5, <2>6, <2>7 DEF Attempt
<1>5. QED
  BY <1>3, <1>4

LEMMA StutterKeepsOrder ==
  ASSUME OrderKept, UNCHANGED <<world, attempts, pc, local>>
  PROVE  OrderKept'
BY DEF OrderKept, OrderOK, NoneAhead, HoldersOld, FilesOld, ContainersOld, UndoneOld,
   AcceptedOrGone, Unproven, Written, PlansRestart, RestartAt, world, local

LEMMA CrashKeepsOrder ==
  ASSUME OrderKept, Crash
  PROVE  OrderKept'
<1> SUFFICES ASSUME NEW s \in Secrets PROVE OrderOK(s)'
  BY DEF OrderKept
<1>1. pc'[s] = "idle" /\ NoneAhead(s)'
  BY SameHolders DEF Crash, world, OrderKept, OrderOK
<1>2. QED
  BY <1>1 DEF OrderOK

(* What the order invariant says of the value being rotated to.            *)
LEMMA OrderIsAcceptance ==
  ASSUME TypeOK, AttemptsAccountable, ValuesFresh, OrderKept
  PROVE  NewValueIsAccepted
<1> DEFINE new(s) == journal[s].next
<1> SUFFICES ASSUME NEW s \in Secrets, HasBackingService(s), ~Unproven(s),
                    new(s) # Absent, ~failures[s], svc[s] # new(s)
             PROVE  /\ \A f \in Elements(EnvFiles[s]) : files[f][s] # new(s)
                    /\ \A c \in Elements(ContainersOf[s]) : loaded[c][s] # new(s)
  BY DEF NewValueIsAccepted
<1>1. OrderOK(s) /\ BookOK(s) /\ ForwardOK(s) /\ FreshOK(s)
  BY DEF OrderKept, AttemptsAccountable, SecretOK, ValuesFresh
<1>2. pc[s] \notin {"idle", "resolve", "open", "generate"}
  BY <1>1 DEF BookOK, OrderOK, BeginRotation
<1>3. new(s) = attempts[s]
  BY <1>1, <1>2 DEF FreshOK
<1>4. pc[s] \notin {"read_file", "replace_file", "restart", "wait_healthy", "record_success"}
  BY <1>1 DEF ForwardOK, ServiceHolds
<1>5. HoldersOld(s)
  <2>1. pc[s] \in {"apply", "verify", "undo", "undo_wait", "record_failure"}
    BY <1>2, <1>4 DEF TypeOK, Labels
  <2>2. QED
    BY <1>1, <2>1 DEF OrderOK, AcceptedOrGone
<1> HIDE DEF new
<1>6. ASSUME NEW f \in Elements(EnvFiles[s]) PROVE files[f][s] # new(s)
  <2>1. PICK i \in 1 .. NFiles(s) : f = EnvFiles[s][i]
    BY FilesOf
  <2>2. files[f][s] < attempts[s] /\ files[f][s] \in Int
    BY <1>5, <2>1, FilesOf, HoldersAreInts DEF HoldersOld, FilesOld
  <2>3. QED
    BY <1>3, <2>2, HoldersAreInts
<1>7. ASSUME NEW c \in Elements(ContainersOf[s]) PROVE loaded[c][s] # new(s)
  <2>1. PICK i \in 1 .. NContainers(s) : c = ContainersOf[s][i]
    BY ContainersAre
  <2>2. loaded[c][s] < attempts[s] /\ loaded[c][s] \in Int
    BY <1>5, <2>1, ContainersAre, HoldersAreInts DEF HoldersOld, ContainersOld
  <2>3. QED
    BY <1>3, <2>2, HoldersAreInts
<1>8. QED
  BY <1>6, <1>7

(* The order of the pipeline and of the plan is right for any number of    *)
(* secrets, files and containers, whatever fails: unless an undo action    *)
(* failed, no file and no container of a secret carries a value of the     *)
(* attempt in flight that the backing service does not accept.             *)
THEOREM ServiceAcceptsWhatIsHeld ==
  ASSUME Apart, StartsOld
  PROVE  Spec => []NewValueIsAccepted
<1>1. Init => OrderKept
  BY InitOrder
<1>2. TypeOK /\ AttemptsAccountable /\ ValuesFresh /\ OrderKept /\ [Next]_vars => OrderKept'
  <2> SUFFICES ASSUME TypeOK, AttemptsAccountable, ValuesFresh, OrderKept, [Next]_vars
               PROVE  OrderKept'
    OBVIOUS
  <2>1. ASSUME NEW s \in Secrets, Begin(s) PROVE OrderKept'
    BY <2>1, BeginKeepsOrder
  <2>2. ASSUME NEW s \in Secrets, Expire(s) PROVE OrderKept'
    BY <2>2, StutterKeepsOrder DEF Expire
  <2>3. ASSUME NEW s \in Secrets, Attempt(s) PROVE OrderKept'
    BY <2>3, AttemptKeepsOrder
  <2>4. CASE Crash
    BY <2>4, CrashKeepsOrder
  <2>5. CASE Rest \/ UNCHANGED vars
    BY <2>5, StutterKeepsOrder DEF Rest, vars
  <2>6. QED
    BY <2>1, <2>2, <2>3, <2>4, <2>5 DEF Next
<1>3. TypeOK /\ AttemptsAccountable /\ ValuesFresh /\ OrderKept => NewValueIsAccepted
  BY OrderIsAcceptance
<1>4. QED
  BY <1>1, <1>2, <1>3, IntroducedValuesAreFresh, PTL DEF Spec

-----------------------------------------------------------------------------
(* Part 11: what the other secrets are like.                               *)

(* A secret between attempts: its service, its files and its containers    *)
(* hold the same.                                                          *)
LEMMA IdleAgrees ==
  ASSUME TypeOK, AttemptsAccountable, NothingFails, NEW u \in Secrets, pc[u] = "idle",
         HasBackingService(u)
  PROVE  /\ \A f \in Elements(EnvFiles[u]) : files[f][u] = svc[u]
         /\ \A c \in Elements(ContainersOf[u]) : loaded[c][u] = svc[u]
<1>1. Agreement(u) # Absent
  BY DEF AttemptsAccountable, SecretOK, SettledOK, NothingFails, CleanOK
<1>2. QED
  BY <1>1 DEF Agreement, FilesAgree, ContainersAgree, InForce

(* The password that an attempt at s resolves is the one its service       *)
(* accepts from the admin account.                                         *)
LEMMA ResolvesAcceptedPassword ==
  ASSUME TypeOK, NoFault, AdminIsKnown, AttemptsAccountable, NothingFails,
         NEW s \in Secrets, pc[s] = "open", HasBackingService(s), NEW doc,
         doc = files[PrimaryEnvFile(s)]
  PROVE  Accepts(s, resolveAdminPassword(s, doc, doc[s]))
<1>1. CASE KindOf[s] = "command"
  BY <1>1 DEF Accepts
<1>2. CASE KindOf[s] # "command"
  <2> DEFINE a == AdminAccount[s]
  <2>1. KindOf[s] \notin {"generic", "command"}
    BY <1>2 DEF HasBackingService
  <2>2. CASE a = s /\ AdminPassword[s] = Absent /\ AdminPasswordEnv[s] \in {s, Absent}
    <3>1. AllHold(s, prior[s])
      BY DEF AttemptsAccountable, SecretOK, SettledOK, NothingFails, CleanOK
    <3>2. doc[s] = svc[s]
      BY <3>1, FilesOf DEF AllHold, FilesHold, ServiceHolds
    <3>3. resolveAdminPassword(s, doc, doc[s]) = doc[s]
      BY <2>2 DEF resolveAdminPassword
    <3>4. QED
      BY <2>2, <3>2, <3>3 DEF Accepts
  <2>3. CASE /\ a # s /\ a \in Secrets /\ a # Absent /\ HasBackingService(a)
             /\ AdminPassword[s] = Absent /\ AdminPasswordEnv[s] = a
             /\ PrimaryEnvFile(s) \in Elements(EnvFiles[a])
    <3>1. pc[a] = "idle"
      BY <2>3 DEF AttemptsAccountable, OneAtATime, NoFault
    <3>2. doc[a] = svc[a]
      BY <2>3, <3>1, IdleAgrees
    <3>3. resolveAdminPassword(s, doc, doc[s]) = doc[a]
      BY <2>3 DEF resolveAdminPassword
    <3>4. QED
      BY <2>3, <3>2, <3>3 DEF Accepts
  <2>4. CASE a \notin Secrets /\ AdminPassword[s] = 0
    <3>1. svc[a] = 0
      BY <2>4, ConfigurationAssumption DEF NothingFails
    <3>2. QED
      BY <2>4, <3>1 DEF Accepts, resolveAdminPassword, Absent
  <2>5. QED
    BY <2>1, <2>2, <2>3, <2>4 DEF AdminIsKnown
<1>3. QED
  BY <1>1, <1>2

(* An attempt at s whose container has just started: everything the        *)
(* container's health check logs in with is accepted.                      *)
LEMMA StartedIsHealthy ==
  ASSUME TypeOK, NoFault, AttemptsAccountable, NothingFails,
         NEW s \in Secrets, pc[s] = "wait_healthy"
  PROVE  Healthy(ContainersOf[s][pos[s]])
<1> DEFINE c == ContainersOf[s][pos[s]]
<1> SUFFICES ASSUME NEW u \in Secrets, c \in Elements(ContainersOf[u]), HasBackingService(u)
             PROVE  loaded[c][u] = svc[u]
  BY DEF Healthy
<1>1. CASE u = s
  <2>1. svc[s] = journal[s].next
    BY <1>1 DEF NothingFails, CleanOK
  <2>2. ContainersHold(s, pos[s], journal[s].next)
    BY DEF AttemptsAccountable, SecretOK, ForwardOK
  <2>3. pos[s] \in 1 .. pos[s]
    BY DEF TypeOK
  <2>4. QED
    BY <1>1, <2>1, <2>2, <2>3 DEF ContainersHold
<1>2. CASE u # s
  <2>1. pc[u] = "idle"
    BY <1>2 DEF AttemptsAccountable, OneAtATime, NoFault
  <2>2. QED
    BY <2>1, IdleAgrees
<1>3. QED
  BY <1>1, <1>2

-----------------------------------------------------------------------------
(* Part 12: the steps.                                                     *)

\* What an attempt at s may not do: touch what CleanOK says of the others.
OthersStayClean(s) ==
  /\ \A u \in Secrets \ {s} :
       pc'[u] = pc[u] /\ standing'[u] = standing[u] /\ failures'[u] = failures[u]
         /\ expired'[u] = expired[u] /\ result'[u] = result[u]
  /\ \A a \in Accounts \ {s} : svc'[a] = svc[a]

LEMMA AttemptLeavesOthers ==
  ASSUME TypeOK, NEW s \in Secrets, Attempt(s)
  PROVE  OthersStayClean(s)
<1>1. \A u \in Secrets \ {s} : LocalsKept(u)
  BY TouchesOwnLocals
<1>2. \A a \in Accounts \ {s} : svc'[a] = svc[a]
  BY ChangesOwnAccount
<1>3. UNCHANGED expired /\ \A u \in Secrets \ {s} : result'[u] = result[u]
  <2>1. Resolve(s) \/ OpenPrimary(s) \/ Generate(s) \/ Verify(s) \/ WaitHealthy(s)
        \/ RecordSuccess(s) \/ UndoWaitHealthy(s) \/ UndoDone(s) \/ RecordFailure(s)
        => UNCHANGED expired /\ \A u \in Secrets \ {s} : result'[u] = result[u]
    BY DEF Resolve, OpenPrimary, Generate, Verify, WaitHealthy, RecordSuccess,
       UndoWaitHealthy, UndoDone, RecordFailure, Return, past, TypeOK
  <2>2. Apply(s) \/ ReadFile(s) \/ ReplaceFile(s) \/ RestartContainer(s) \/ UndoFile(s)
        \/ UndoRestart(s) \/ UndoCredential(s)
        => UNCHANGED expired /\ \A u \in Secrets \ {s} : result'[u] = result[u]
    BY DEF Apply, ReadFile, ReplaceFile, RestartContainer, UndoFile, UndoRestart,
       UndoCredential, past
  <2>3. QED
    BY <2>1, <2>2 DEF Attempt
<1>4. QED
  BY <1>1, <1>2, <1>3 DEF OthersStayClean, LocalsKept

(* It is enough that the attempt itself stays clean.                       *)
LEMMA OwnIsEnough ==
  ASSUME TypeOK, NoFault, AttemptsAccountable, NothingFails,
         NEW s \in Secrets, pc[s] # "idle", Attempt(s), CleanOK(s)'
  PROVE  NothingFails'
<1>1. ASSUME NEW u \in Secrets, u # s PROVE CleanOK(u)'
  <2>1. pc[u] = "idle" /\ CleanOK(u)
    BY <1>1 DEF AttemptsAccountable, OneAtATime, NoFault, NothingFails
  <2>2. QED
    BY <1>1, <2>1, AttemptLeavesOthers DEF OthersStayClean, CleanOK
<1>2. \A a \in Accounts \ Secrets : svc'[a] = svc[a]
  BY AttemptLeavesOthers DEF OthersStayClean
<1>3. QED
  BY <1>1, <1>2 DEF NothingFails

LEMMA EarlyStaysClean ==
  ASSUME TypeOK, NoFault, AdminIsKnown, AttemptsAccountable, NothingFails,
         NEW s \in Secrets, Resolve(s) \/ OpenPrimary(s) \/ Generate(s)
  PROVE  CleanOK(s)'
<1>1. /\ CleanOK(s) /\ BookOK(s) /\ SettledOK(s) /\ ~Fault("resolve") /\ ~Fault("open") /\ ~Fault("generate")
  BY DEF NothingFails, AttemptsAccountable, SecretOK, NoFault, Fault
<1>2. /\ standing' = standing /\ expired' = expired /\ svc' = svc
  BY DEF Resolve, OpenPrimary, Generate, world
<1>3. CASE Resolve(s)
  <2>1. pc'[s] = "open" /\ failures' = failures /\ result' = result
    BY <1>1, <1>3 DEF Resolve, CleanOK, Live, Goto, TypeOK, local
  <2>2. QED
    BY <1>1, <1>2, <2>1 DEF CleanOK
<1>4. CASE OpenPrimary(s)
  <2> DEFINE doc == files[PrimaryEnvFile(s)]
  <2>1. pc[s] = "open"
    BY <1>4 DEF OpenPrimary
  <2>2. doc[s] # Absent
    <3>1. prior[s] # Absent /\ AllHold(s, prior[s])
      BY <1>1, <2>1 DEF SettledOK, CleanOK
    <3>2. QED
      BY <3>1, FilesOf DEF AllHold, FilesHold
  <2>3. /\ pc'[s] = "generate" /\ failures' = failures /\ result' = result
        /\ admin'[s] = resolveAdminPassword(s, doc, doc[s])
    BY <1>1, <1>4, <2>2 DEF OpenPrimary, Goto, TypeOK
  <2>4. HasBackingService(s) => Accepts(s, admin'[s])
    BY <2>1, <2>3, ResolvesAcceptedPassword
  <2>5. HasBackingService(s) => Accepts(s, admin[s])'
    BY <1>2, <2>4 DEF Accepts
  <2>6. QED
    BY <1>1, <1>2, <2>3, <2>5 DEF CleanOK
<1>5. CASE Generate(s)
  <2>1. /\ pc'[s] = IF HasBackingService(s) THEN "apply" ELSE "read_file"
        /\ pc[s] = "generate" /\ UNCHANGED <<admin, failures, result>>
    BY <1>1, <1>5 DEF Generate, Goto, TypeOK
  <2>2. QED
    BY <1>1, <1>2, <2>1 DEF CleanOK, Accepts
<1>6. QED
  BY <1>3, <1>4, <1>5

LEMMA ChangeStaysClean ==
  ASSUME TypeOK, NoFault, AttemptsAccountable, NothingFails,
         NEW s \in Secrets, Apply(s) \/ Verify(s)
  PROVE  CleanOK(s)'
<1>1. /\ CleanOK(s) /\ BookOK(s) /\ \A f : ~Fault(f)
  BY DEF NothingFails, AttemptsAccountable, SecretOK, NoFault, Fault
<1>2. UNCHANGED <<failures, expired, result>>
  BY DEF Apply, Verify, past
<1>3. CASE Apply(s)
  <2>1. pc[s] = "apply" /\ HasBackingService(s)
    BY <1>1, <1>3 DEF Apply, BookOK
  <2>2. Live(s) /\ Accepts(s, admin[s])
    BY <1>1, <2>1 DEF CleanOK, Live
  <2>3. ApplyAccepted(s)
    BY <1>1, <1>3, <2>2 DEF Apply, ApplyWithoutEffect, ApplyRefused, ApplyAnswerLost
  <2>4. /\ pc'[s] = "verify" /\ svc'[s] = journal[s].next /\ standing' = standing
        /\ journal'[s] = RecordApplied(journal[s])
    BY <2>3, FilesOf DEF ApplyAccepted, Goto, Note, TypeOK
  <2>5. journal'[s].next = journal[s].next
    BY <1>1, <2>4, RecordFacts
  <2>6. QED
    BY <1>1, <1>2, <2>1, <2>4, <2>5 DEF CleanOK
<1>4. CASE Verify(s)
  <2>1. pc[s] = "verify" /\ svc' = svc /\ standing' = standing
    BY <1>4 DEF Verify, world, past
  <2>2. ~VerifyFails(s)
    <3>1. svc[s] = journal[s].next /\ Live(s)
      BY <1>1, <2>1 DEF CleanOK, Live
    <3>2. QED
      BY <1>1, <3>1 DEF VerifyFails
  <2>3. pc'[s] = "read_file" /\ journal'[s] = RecordVerified(journal[s])
    BY <1>4, <2>2 DEF Verify, Goto, Note, TypeOK
  <2>4. journal'[s].next = journal[s].next
    BY <1>1, <2>3, RecordFacts
  <2>5. QED
    BY <1>1, <1>2, <2>1, <2>3, <2>4 DEF CleanOK
<1>5. QED
  BY <1>3, <1>4

LEMMA WritesStayClean ==
  ASSUME TypeOK, NoFault, AttemptsAccountable, NothingFails,
         NEW s \in Secrets, ReadFile(s) \/ ReplaceFile(s)
  PROVE  CleanOK(s)'
<1>1. /\ CleanOK(s) /\ BookOK(s) /\ SettledOK(s) /\ \A f : ~Fault(f)
  BY DEF NothingFails, AttemptsAccountable, SecretOK, NoFault, Fault
<1>2. UNCHANGED <<svc, failures, expired, result, standing>>
  BY DEF ReadFile, ReplaceFile, world, past
<1>3. CASE ReadFile(s)
  <2>1. pc[s] = "read_file" /\ journal' = journal
    BY <1>3 DEF ReadFile
  <2>2. files[Path(s)][s] # Absent
    <3>1. prior[s] # Absent /\ FilesHold(s, Written(s) + 1, NFiles(s), prior[s])
      BY <1>1, <2>1 DEF SettledOK, CleanOK
    <3>2. QED
      BY <1>1, <2>1, <3>1, NextFile DEF FilesHold
  <2>3. pc'[s] = "replace_file"
    BY <1>1, <1>3, <2>2 DEF ReadFile, Goto, TypeOK
  <2>4. QED
    BY <1>1, <1>2, <2>1, <2>3 DEF CleanOK
<1>4. CASE ReplaceFile(s)
  <2> DEFINE q == RecordFileWritten(journal[s], Path(s), buffer[s])
  <2>1. /\ pc[s] = "replace_file" /\ journal'[s] = q
        /\ pc'[s] \in {"read_file", "restart", "record_success"}
    BY <1>1, <1>4 DEF ReplaceFile, Goto, Note, TypeOK, NextAfterFile
  <2>2. q.next = journal[s].next
    <3>1. journal[s] \in Journal /\ buffer[s] \in Content /\ Path(s) \in Files
      BY <1>1, <2>1, JournalFacts, NextFile DEF TypeOK
    <3>2. QED
      BY <3>1, RecordFileWrittenIsJournal
  <2> HIDE DEF q
  <2>3. QED
    BY <1>1, <1>2, <2>1, <2>2 DEF CleanOK
<1>5. QED
  BY <1>3, <1>4

LEMMA RestartStaysClean ==
  ASSUME TypeOK, NoFault, AttemptsAccountable, NothingFails,
         NEW s \in Secrets, RestartContainer(s) \/ WaitHealthy(s)
  PROVE  CleanOK(s)'
<1>1. /\ CleanOK(s) /\ BookOK(s) /\ Live(s) /\ \A f : ~Fault(f)
  BY DEF NothingFails, AttemptsAccountable, SecretOK, NoFault, Fault, CleanOK, Live
<1>2. UNCHANGED <<svc, failures, expired, result, standing>>
  BY DEF RestartContainer, WaitHealthy, world, past
<1>3. CASE RestartContainer(s)
  <2>1. pc[s] = "restart" /\ pc'[s] = "wait_healthy" /\ journal' = journal
    BY <1>1, <1>3 DEF RestartContainer, Goto, TypeOK
  <2>2. QED
    BY <1>1, <1>2, <2>1 DEF CleanOK
<1>4. CASE WaitHealthy(s)
  <2>1. pc[s] = "wait_healthy"
    BY <1>4 DEF WaitHealthy
  <2>2. Healthy(ContainersOf[s][pos[s]])
    BY <2>1, StartedIsHealthy
  <2>3. /\ pc'[s] \in {"restart", "record_success"}
        /\ journal'[s] = journal[s] \/ journal'[s] = RecordRestarted(journal[s], ContainersOf[s])
    BY <1>1, <1>4, <2>2 DEF WaitHealthy, Goto, Note, TypeOK
  <2>4. journal'[s].next = journal[s].next
    BY <1>1, <2>3, RecordFacts
  <2>5. QED
    BY <1>1, <1>2, <2>1, <2>3, <2>4 DEF CleanOK
<1>5. QED
  BY <1>3, <1>4

LEMMA SuccessStaysClean ==
  ASSUME TypeOK, AttemptsAccountable, NothingFails, NEW s \in Secrets, RecordSuccess(s)
  PROVE  CleanOK(s)'
<1>1. CleanOK(s) /\ pc[s] = "record_success"
  BY DEF NothingFails, RecordSuccess
<1>2. Unproven(s) => svc[s] = journal[s].next
  BY <1>1 DEF CleanOK, Unproven, HasBackingService
<1>3. /\ pc'[s] = "idle" /\ result'[s] = "success" /\ failures'[s] = FALSE
      /\ expired'[s] = expired[s] /\ standing'[s] = "settled"
  BY <1>2 DEF RecordSuccess, Return, Forget, Goto, TypeOK
<1>4. QED
  BY <1>1, <1>3 DEF CleanOK

(* Nothing has failed, so there is nothing to compensate.                  *)
LEMMA AttemptStaysClean ==
  ASSUME TypeOK, NoFault, AdminIsKnown, AttemptsAccountable, NothingFails,
         NEW s \in Secrets, Attempt(s)
  PROVE  NothingFails'
<1>1. pc[s] \notin {"undo", "undo_wait", "record_failure"}
  BY DEF NothingFails, CleanOK
<1>2. \/ Resolve(s) \/ OpenPrimary(s) \/ Generate(s)
      \/ Apply(s) \/ Verify(s)
      \/ ReadFile(s) \/ ReplaceFile(s)
      \/ RestartContainer(s) \/ WaitHealthy(s)
      \/ RecordSuccess(s)
  BY <1>1 DEF Attempt, UndoFile, UndoRestart, UndoWaitHealthy, UndoCredential, UndoDone,
     RecordFailure, Undoing
<1>3. CleanOK(s)'
  BY <1>2, EarlyStaysClean, ChangeStaysClean, WritesStayClean, RestartStaysClean,
     SuccessStaysClean
<1>4. pc[s] # "idle"
  BY <1>2 DEF Resolve, OpenPrimary, Generate, Apply, Verify, ReadFile, ReplaceFile,
     RestartContainer, WaitHealthy, RecordSuccess
<1>5. QED
  BY <1>3, <1>4, OwnIsEnough

LEMMA BeginStaysClean ==
  ASSUME TypeOK, NothingFails, NEW t \in Secrets, Begin(t)
  PROVE  NothingFails'
<1>1. ASSUME NEW u \in Secrets PROVE CleanOK(u)'
  <2>1. CleanOK(u)
    BY DEF NothingFails
  <2>2. UNCHANGED <<svc, journal, admin, failures, result, standing>>
    BY DEF Begin, world, local
  <2>3. CASE u = t
    <3>1. pc'[u] = "resolve" /\ expired'[u] = FALSE
      BY <2>3 DEF Begin, Goto, TypeOK
    <3>2. QED
      BY <2>1, <2>2, <3>1 DEF CleanOK
  <2>4. CASE u # t
    <3>1. pc'[u] = pc[u] /\ expired'[u] = expired[u]
      BY <2>4 DEF Begin, Goto, TypeOK
    <3>2. QED
      BY <2>1, <2>2, <3>1 DEF CleanOK, Accepts
  <2>5. QED
    BY <2>3, <2>4
<1>2. QED
  BY <1>1 DEF NothingFails, Begin, world

LEMMA StutterStaysClean ==
  ASSUME NothingFails, UNCHANGED vars
  PROVE  NothingFails'
BY DEF NothingFails, CleanOK, Accepts, vars, world, local, past

LEMMA InitIsClean ==
  ASSUME Apart, StartsTogether, Init
  PROVE  NothingFails
<1>1. ASSUME NEW s \in Secrets PROVE CleanOK(s)
  <2>1. svc[s] = 0
    BY FilesOf DEF Init
  <2>2. \A f \in Elements(EnvFiles[s]) : files[f][s] = 0
    BY DEF Init, StartsTogether
  <2>3. \A c \in Elements(ContainersOf[s]) : loaded[c][s] = 0
    <3>1. \A c \in Elements(ContainersOf[s]) : c \in Containers /\ InitialFiles[Reads[c][s]][s] = 0
      BY ContainersAre DEF Apart, StartsTogether
    <3>2. QED
      BY <3>1 DEF Init
  <2>4. InForce(s) = 0
    BY <2>1, <2>2, FilesOf DEF InForce
  <2>5. Agreement(s) = 0
    BY <2>2, <2>3, <2>4 DEF Agreement, FilesAgree, ContainersAgree
  <2>6. /\ standing[s] = "settled" /\ pc[s] = "idle" /\ result[s] = "none"
        /\ ~failures[s] /\ ~expired[s]
    BY <2>5 DEF Init
  <2>7. QED
    BY <2>6 DEF CleanOK
<1>2. \A a \in Accounts : svc[a] = 0
  BY DEF Init
<1>3. QED
  BY <1>1, <1>2 DEF NothingFails

-----------------------------------------------------------------------------
(* Part 13: the theorem.                                                   *)

(* Rotating again works, any number of times and in any order, whichever   *)
(* secret administers whichever: where nothing fails, every attempt that   *)
(* returns is a success.                                                   *)
THEOREM RotationsRepeat ==
  ASSUME Apart, NoFault, AdminIsKnown, StartsTogether
  PROVE  Spec => []RepeatRotationsWork
<1>1. Init => NothingFails
  BY InitIsClean
<1>2. TypeOK /\ AttemptsAccountable /\ NothingFails /\ [Next]_vars => NothingFails'
  <2> SUFFICES ASSUME TypeOK, AttemptsAccountable, NothingFails, [Next]_vars
               PROVE  NothingFails'
    OBVIOUS
  <2>1. ~Crash /\ \A s \in Secrets : ~Expire(s)
    BY DEF Crash, Expire, Fault, NoFault
  <2>2. ASSUME NEW s \in Secrets, Begin(s) PROVE NothingFails'
    BY <2>2, BeginStaysClean
  <2>3. ASSUME NEW s \in Secrets, Attempt(s) PROVE NothingFails'
    BY <2>3, AttemptStaysClean
  <2>4. CASE Rest \/ UNCHANGED vars
    BY <2>4, StutterStaysClean DEF Rest
  <2>5. QED
    BY <2>1, <2>2, <2>3, <2>4 DEF Next
<1>3. NothingFails => RepeatRotationsWork
  BY DEF NothingFails, CleanOK, RepeatRotationsWork
<1>4. QED
  BY <1>1, <1>2, <1>3, TypeCorrect, AccountabilityKept, PTL DEF Spec
=============================================================================
