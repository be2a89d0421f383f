------------------------ MODULE RotateAgreementProofs ------------------------
(***************************************************************************)
(* Proof that the pipeline never leaves a secret half rotated without      *)
(* saying so (AgreedUnlessReported), for every configuration in which      *)
(* attempts that overlap share neither files nor containers.               *)
(*                                                                         *)
(* Part 1: what the configuration gives.  Part 2: what an attempt at t can *)
(* do to the world.  Part 3: what it leaves of another secret.  Part 4:    *)
(* what it does to its own secret, action by action.  Part 5: the theorem. *)
(***************************************************************************)
EXTENDS RotateSecretProofs, RotateAgreement

-----------------------------------------------------------------------------
(* Part 1: the configured files and containers of a secret.                *)

LEMMA FilesOf ==
  ASSUME NEW s \in Secrets
  PROVE  /\ s \in Accounts
         /\ NFiles(s) \in Nat /\ NFiles(s) >= 1
         /\ DOMAIN EnvFiles[s] = 1 .. NFiles(s)
         /\ \A i \in 1 .. NFiles(s) : EnvFiles[s][i] \in Files /\ EnvFiles[s][i] \in Elements(EnvFiles[s])
         /\ \A f \in Elements(EnvFiles[s]) : f \in Files /\ \E i \in 1 .. NFiles(s) : f = EnvFiles[s][i]
         /\ \A i, j \in 1 .. NFiles(s) : EnvFiles[s][i] = EnvFiles[s][j] => i = j
         /\ PrimaryEnvFile(s) = EnvFiles[s][1]
<1>1. EnvFiles[s] \in Seq(Files) /\ Len(EnvFiles[s]) > 0 /\ s \in Accounts
  BY ConfigurationAssumption
<1>2. \A i, j \in DOMAIN EnvFiles[s] : EnvFiles[s][i] = EnvFiles[s][j] => i = j
  BY ConfigurationAssumption
<1>3. QED
  BY <1>1, <1>2 DEF NFiles, Elements, PrimaryEnvFile

LEMMA ContainersAre ==
  ASSUME NEW s \in Secrets
  PROVE  /\ NContainers(s) \in Nat
         /\ DOMAIN ContainersOf[s] = 1 .. NContainers(s)
         /\ \A i \in 1 .. NContainers(s) :
              ContainersOf[s][i] \in Containers /\ ContainersOf[s][i] \in Elements(ContainersOf[s])
         /\ \A c \in Elements(ContainersOf[s]) :
              c \in Containers /\ \E i \in 1 .. NContainers(s) : c = ContainersOf[s][i]
<1>1. ContainersOf[s] \in Seq(Containers)
  BY ConfigurationAssumption
<1>2. QED
  BY <1>1 DEF NContainers, Elements

(* Holding a value everywhere is agreement on it, and the other way round. *)
LEMMA AllHoldAgree ==
  ASSUME TypeOK, NEW s \in Secrets, NEW v, v # Absent, AllHold(s, v)
  PROVE  Agreement(s) # Absent
<1>1. InForce(s) = v
  BY FilesOf DEF AllHold, FilesHold, ServiceHolds, InForce
<1>2. FilesAgree(s)
  <2>1. SUFFICES ASSUME NEW f \in Elements(EnvFiles[s]) PROVE files[f][s] = v
    BY <1>1 DEF FilesAgree
  <2>2. PICK i \in 1 .. NFiles(s) : f = EnvFiles[s][i]
    BY FilesOf
  <2>3. QED
    BY <2>2 DEF AllHold, FilesHold
<1>3. ContainersAgree(s)
  <2>1. SUFFICES ASSUME NEW c \in Elements(ContainersOf[s]) PROVE loaded[c][s] = v
    BY <1>1 DEF ContainersAgree
  <2>2. PICK i \in 1 .. NContainers(s) : c = ContainersOf[s][i]
    BY ContainersAre
  <2>3. QED
    BY <2>2 DEF AllHold, ContainersHold
<1>4. QED
  BY <1>1, <1>2, <1>3 DEF Agreement

LEMMA AgreeAllHold ==
  ASSUME TypeOK, NEW s \in Secrets, Agreement(s) # Absent
  PROVE  AllHold(s, Agreement(s))
<1>1. FilesAgree(s) /\ ContainersAgree(s) /\ Agreement(s) = InForce(s)
  BY DEF Agreement
<1>2. FilesHold(s, 1, NFiles(s), InForce(s))
  BY <1>1, FilesOf DEF FilesHold, FilesAgree
<1>3. ContainersHold(s, NContainers(s), InForce(s))
  BY <1>1, ContainersAre DEF ContainersHold, ContainersAgree
<1>4. ServiceHolds(s, InForce(s))
  BY DEF ServiceHolds, InForce
<1>5. QED
  BY <1>1, <1>2, <1>3, <1>4 DEF AllHold

-----------------------------------------------------------------------------
(* Part 2: what an attempt at t does to the world.                         *)

(* The plan of an attempt that compensates, spelled out.                   *)
LEMMA PlanShape ==
  ASSUME TypeOK, NEW s \in Secrets, journal[s].step >= StepGenerated
  PROVE  /\ Written(s) \in Nat
         /\ \A i \in 1 .. Written(s) :
              i \in DOMAIN Plan(s) /\ Plan(s)[i] = [type |-> RestoreFile, path |-> journal[s].writtenFiles[i]]
         /\ PlansRestart(s) =>
              /\ RestartAt(s) \in DOMAIN Plan(s)
              /\ Plan(s)[RestartAt(s)] = [type |-> RestartContainers, containers |-> journal[s].restarted]
         /\ PlansRestore(s) =>
              RestoreAt(s) \in DOMAIN Plan(s) /\ Plan(s)[RestoreAt(s)] = [type |-> RestoreCredential]
         /\ \A i \in DOMAIN Plan(s) :
              /\ i \in Nat /\ i >= 1
              /\ Plan(s)[i].type = RestoreFile => i <= Written(s)
              /\ Plan(s)[i].type = RestartContainers => PlansRestart(s) /\ i = RestartAt(s)
              /\ Plan(s)[i].type = RestoreCredential => PlansRestore(s) /\ i = RestoreAt(s)
         /\ \A i \in Nat \ {0} : i \notin DOMAIN Plan(s) =>
              /\ i > Written(s)
              /\ PlansRestart(s) => i > RestartAt(s)
              /\ PlansRestore(s) => i > RestoreAt(s)
<1> DEFINE j == journal[s]
           n == Len(j.writtenFiles)
           restarts == IF j.step >= StepRestarted /\ Len(j.restarted) > 0 THEN 1 ELSE 0
           restores == IF j.step >= StepApplied /\ HasBackingService(s) THEN 1 ELSE 0
<1>1. j \in Journal /\ j.writtenFiles \in Seq(Files) /\ j.step \in Int
  BY JournalsKept DEF Journal, Step, StepPending, StepDone
<1>2. n \in Nat /\ n = Written(s)
  BY <1>1 DEF Written
<1>3. ~(j.step < StepGenerated)
  BY <1>1 DEF StepGenerated
<1>4. Plan(s) = [i \in 1 .. n + restarts + restores |->
                   IF i <= n THEN [type |-> RestoreFile, path |-> j.writtenFiles[i]]
                   ELSE IF i = n + 1 /\ restarts = 1
                   THEN [type |-> RestartContainers, containers |-> j.restarted]
                   ELSE [type |-> RestoreCredential]]
  BY <1>3 DEF Plan, CompensationPlan
<1>5. /\ restarts = IF PlansRestart(s) THEN 1 ELSE 0
      /\ restores = IF PlansRestore(s) THEN 1 ELSE 0
  BY DEF PlansRestart, PlansRestore
<1>6. RestartAt(s) = n + 1 /\ RestoreAt(s) = n + restarts + 1
  BY <1>2, <1>5 DEF RestartAt, RestoreAt
<1> HIDE DEF n, restarts, restores
<1>7. DOMAIN Plan(s) = 1 .. n + restarts + restores
  BY <1>4
<1>8. QED
  BY <1>2, <1>4, <1>5, <1>6, <1>7 DEF RestoreFile, RestartContainers, RestoreCredential

(* The files: a whole file is replaced, which belongs to t, and whatever   *)
(* it holds for another secret stays.                                      *)
FilesEffect(t) ==
  \/ files' = files
  \/ \E f \in Elements(EnvFiles[t]), doc \in Content :
       /\ files' = [files EXCEPT ![f] = doc]
       /\ \A s \in Secrets \ {t} : f \in Elements(EnvFiles[s]) => doc[s] = files[f][s]

LEMMA WritesOwnFiles ==
  ASSUME TypeOK, NEW t \in Secrets, BookOK(t), ForeignOK(t), Attempt(t)
  PROVE  FilesEffect(t)
<1>1. CASE ReplaceFile(t)
  <2> DEFINE doc == [buffer[t] EXCEPT ![t] = journal[t].next]
  <2>1. files' = files \/ files' = [files EXCEPT ![Path(t)] = doc]
    BY <1>1 DEF ReplaceFile
  <2>2. /\ Path(t) \in Elements(EnvFiles[t]) /\ pc[t] = "replace_file"
    <3>1. pc[t] = "replace_file" /\ at[t] \in 1 .. Len(EnvFiles[t])
      BY <1>1, PathIsFile DEF ReplaceFile
    <3>2. QED
      BY <3>1, FilesOf DEF Path, NFiles
  <2>3. buffer[t] \in Content /\ doc \in Content
    BY JournalsKept DEF TypeOK, Content
  <2>4. \A s \in Secrets \ {t} : doc[s] = buffer[t][s]
    BY <2>3, FilesOf DEF Content
  <2>5. \A s \in Secrets \ {t} : Path(t) \in Elements(EnvFiles[s]) => doc[s] = files[Path(t)][s]
    BY <2>2, <2>4 DEF ForeignOK
  <2> HIDE DEF doc
  <2>6. QED
    BY <2>1, <2>2, <2>3, <2>5 DEF FilesEffect
<1>2. CASE UndoFile(t)
  <2> DEFINE path == Plan(t)[at[t]].path
             doc == journal[t].fileBackups[path]
  <2>1. files' = files \/ files' = [files EXCEPT ![path] = doc]
    BY <1>2 DEF UndoFile
  <2>2. path \in DOMAIN journal[t].fileBackups /\ doc \in Content
    <3>1. /\ at[t] \in DOMAIN CompensationPlan(journal[t], HasBackingService(t))
          /\ CompensationPlan(journal[t], HasBackingService(t))[at[t]].type = RestoreFile
      BY <1>2 DEF UndoFile, Undoing, Plan
    <3>2. HasBackingService(t) \in BOOLEAN
      BY DEF HasBackingService
    <3>3. JournalOK(t, journal[t]) /\ at[t] \in Nat \ {0}
      BY DEF TypeOK
    <3>4. QED
      BY <3>1, <3>2, <3>3, PlanRestoresBackups DEF Plan
  <2>3. path \in Elements(EnvFiles[t])
    BY <2>2 DEF BookOK
  <2>4. \A s \in Secrets \ {t} : path \in Elements(EnvFiles[s]) => doc[s] = files[path][s]
    BY <2>2 DEF ForeignOK
  <2> HIDE DEF path, doc
  <2>5. QED
    BY <2>1, <2>2, <2>3, <2>4 DEF FilesEffect
<1>3. CASE files' = files
  BY <1>3 DEF FilesEffect
<1>4. Resolve(t) \/ OpenPrimary(t) \/ Generate(t) \/ Verify(t) \/ WaitHealthy(t)
      \/ RecordSuccess(t) \/ UndoWaitHealthy(t) \/ UndoDone(t) \/ RecordFailure(t)
      => files' = files
  BY DEF Resolve, OpenPrimary, Generate, Verify, WaitHealthy, RecordSuccess,
     UndoWaitHealthy, UndoDone, RecordFailure, world
<1>5. Apply(t) \/ ReadFile(t) \/ RestartContainer(t) \/ UndoRestart(t) \/ UndoCredential(t)
      => files' = files
  BY DEF Apply, ReadFile, RestartContainer, UndoRestart, UndoCredential, world
<1>6. QED
  BY <1>1, <1>2, <1>3, <1>4, <1>5 DEF Attempt

(* The services: only the account of t gets another password.              *)
LEMMA ChangesOwnAccount ==
  ASSUME TypeOK, NEW t \in Secrets, Attempt(t)
  PROVE  \A a \in Accounts : a # t => svc'[a] = svc[a]
<1>1. CASE Apply(t) \/ UndoCredential(t)
  BY <1>1 DEF Apply, ApplyAccepted, ApplyWithoutEffect, ApplyRefused, ApplyAnswerLost,
     UndoCredential, TypeOK
<1>2. Resolve(t) \/ OpenPrimary(t) \/ Generate(t) \/ Verify(t) \/ WaitHealthy(t)
      \/ RecordSuccess(t) \/ UndoWaitHealthy(t) \/ UndoDone(t) \/ RecordFailure(t)
      => svc' = svc
  BY DEF Resolve, OpenPrimary, Generate, Verify, WaitHealthy, RecordSuccess,
     UndoWaitHealthy, UndoDone, RecordFailure, world
<1>3. ReadFile(t) \/ ReplaceFile(t) \/ RestartContainer(t) \/ UndoRestart(t) \/ UndoFile(t)
      => svc' = svc
  BY DEF ReplaceFile, ReadFile, RestartContainer, UndoRestart, UndoFile, world
<1>4. QED
  BY <1>1, <1>2, <1>3 DEF Attempt

(* The containers: only a container of t is restarted.                     *)
LEMMA RestartsOwnContainers ==
  ASSUME TypeOK, NEW t \in Secrets, BookOK(t), Attempt(t)
  PROVE  UNCHANGED loaded \/ \E c \in Elements(ContainersOf[t]) : LoadFrom(c)
<1>1. CASE RestartContainer(t)
  <2>1. pos[t] \in DOMAIN ContainersOf[t]
    BY <1>1 DEF RestartContainer, TypeOK, IndicesOK
  <2>2. ContainersOf[t][pos[t]] \in Elements(ContainersOf[t])
    BY <2>1 DEF Elements
  <2>3. QED
    BY <1>1, <2>2 DEF RestartContainer
<1>2. CASE UndoRestart(t)
  <2>1. /\ pc[t] = "undo" /\ at[t] \in DOMAIN Plan(t) /\ Plan(t)[at[t]].type = RestartContainers
    BY <1>2 DEF UndoRestart, Undoing
  <2>2. journal[t].step >= StepGenerated
    BY <2>1 DEF BookOK
  <2>3. PlansRestart(t) /\ at[t] = RestartAt(t)
    BY <2>1, <2>2, PlanShape
  <2>4. journal[t].restarted = ContainersOf[t] /\ Len(ContainersOf[t]) > 0
    BY <2>3 DEF BookOK, PlansRestart
  <2>5. Plan(t)[at[t]].containers = ContainersOf[t]
    <3>1. Plan(t)[at[t]] = [type |-> RestartContainers, containers |-> ContainersOf[t]]
      BY <2>2, <2>3, <2>4, PlanShape
    <3>2. QED
      BY <3>1
  <2>6. pos[t] \in 1 .. NContainers(t)
    BY <2>1, <2>4, ContainersAre DEF BookOK, TypeOK, NContainers
  <2>7. QED
    BY <1>2, <2>5, <2>6, ContainersAre DEF UndoRestart
<1>3. Resolve(t) \/ OpenPrimary(t) \/ Generate(t) \/ Verify(t) \/ WaitHealthy(t)
      \/ RecordSuccess(t) \/ UndoWaitHealthy(t) \/ UndoDone(t) \/ RecordFailure(t)
      => UNCHANGED loaded
  BY DEF Resolve, OpenPrimary, Generate, Verify, WaitHealthy, RecordSuccess,
     UndoWaitHealthy, UndoDone, RecordFailure, world
<1>4. ReadFile(t) \/ ReplaceFile(t) \/ Apply(t) \/ UndoFile(t) \/ UndoCredential(t)
      => UNCHANGED loaded
  BY DEF ReplaceFile, ReadFile, Apply, UndoFile, UndoCredential, world
<1>5. QED
  BY <1>1, <1>2, <1>3, <1>4 DEF Attempt

(* The local variables: those of the other attempts are not touched.       *)
LocalsKept(s) ==
  /\ pc'[s] = pc[s] /\ journal'[s] = journal[s] /\ at'[s] = at[s] /\ pos'[s] = pos[s]
  /\ buffer'[s] = buffer[s] /\ failures'[s] = failures[s]
  /\ standing'[s] = standing[s] /\ prior'[s] = prior[s]

LEMMA TouchesOwnLocals ==
  ASSUME TypeOK, NEW t \in Secrets, NEW s \in Secrets, s # t, Attempt(t)
  PROVE  LocalsKept(s)
<1>1. CASE Resolve(t) \/ OpenPrimary(t) \/ Generate(t)
  BY <1>1 DEF Resolve, OpenPrimary, Generate, LocalsKept, Return, Forget, Goto, Note,
     TypeOK, local, world
<1>2. CASE RecordSuccess(t) \/ RecordFailure(t)
  BY <1>2 DEF RecordSuccess, RecordFailure, LocalsKept, Return, Forget, Goto, TypeOK, world
<1>3. CASE Apply(t) \/ Verify(t)
  BY <1>3 DEF Apply, ApplyAccepted, ApplyWithoutEffect, ApplyRefused, ApplyAnswerLost, Verify,
     LocalsKept, Compensate, Goto, Note, TypeOK, world, past
<1>4. CASE ReadFile(t) \/ ReplaceFile(t)
  BY <1>4 DEF ReadFile, ReplaceFile, LocalsKept, Compensate, Goto, Note, TypeOK, world, past
<1>5. CASE RestartContainer(t) \/ WaitHealthy(t)
  BY <1>5 DEF RestartContainer, WaitHealthy, RestartFailed, LocalsKept, Compensate, Goto, Note,
     TypeOK, world, past
<1>6. CASE UndoFile(t) \/ UndoRestart(t) \/ UndoWaitHealthy(t)
  BY <1>6 DEF UndoFile, UndoRestart, UndoWaitHealthy, UndoNext, LocalsKept, Goto, TypeOK, world, past
<1>7. CASE UndoCredential(t) \/ UndoDone(t)
  BY <1>7 DEF UndoCredential, UndoDone, UndoNext, LocalsKept, Goto, TypeOK, world, local, past
<1>8. QED
  BY <1>1, <1>2, <1>3, <1>4, <1>5, <1>6, <1>7 DEF Attempt

-----------------------------------------------------------------------------
(* Part 3: what a step of t leaves of another secret s.                    *)

(* Entries and password of s stay.  Its containers stay too while it is in *)
(* flight; one that t restarts takes the value that s's files hold.        *)
Unharmed(s) ==
  /\ \A i \in 1 .. NFiles(s) : files'[EnvFiles[s][i]][s] = files[EnvFiles[s][i]][s]
  /\ svc'[s] = svc[s]
  /\ \A i \in 1 .. NContainers(s) :
       \/ loaded'[ContainersOf[s][i]][s] = loaded[ContainersOf[s][i]][s]
       \/ /\ pc[s] = "idle"
          /\ loaded'[ContainersOf[s][i]][s] = files[Reads[ContainersOf[s][i]][s]][s]

LEMMA LeavesOthersUnharmed ==
  ASSUME TypeOK, Apart, OneAtATime, NEW t \in Secrets, NEW s \in Secrets, s # t,
         BookOK(t), ForeignOK(t), Attempt(t), pc[t] # "idle"
  PROVE  Unharmed(s)
<1>1. \A i \in 1 .. NFiles(s) : files'[EnvFiles[s][i]][s] = files[EnvFiles[s][i]][s]
  <2>1. SUFFICES ASSUME NEW i \in 1 .. NFiles(s)
                 PROVE files'[EnvFiles[s][i]][s] = files[EnvFiles[s][i]][s]
    OBVIOUS
  <2>2. EnvFiles[s][i] \in Elements(EnvFiles[s]) /\ EnvFiles[s][i] \in Files
    BY FilesOf
  <2>3. FilesEffect(t)
    BY WritesOwnFiles
  <2>4. QED
    BY <2>2, <2>3 DEF FilesEffect, TypeOK
<1>2. svc'[s] = svc[s]
  BY ChangesOwnAccount, FilesOf
<1>3. \A i \in 1 .. NContainers(s) :
        \/ loaded'[ContainersOf[s][i]][s] = loaded[ContainersOf[s][i]][s]
        \/ /\ pc[s] = "idle"
           /\ loaded'[ContainersOf[s][i]][s] = files[Reads[ContainersOf[s][i]][s]][s]
  <2>1. SUFFICES ASSUME NEW i \in 1 .. NContainers(s)
                 PROVE \/ loaded'[ContainersOf[s][i]][s] = loaded[ContainersOf[s][i]][s]
                       \/ /\ pc[s] = "idle"
                          /\ loaded'[ContainersOf[s][i]][s] = files[Reads[ContainersOf[s][i]][s]][s]
    OBVIOUS
  <2>2. ContainersOf[s][i] \in Elements(ContainersOf[s]) /\ ContainersOf[s][i] \in Containers
    BY ContainersAre
  <2>3. CASE UNCHANGED loaded
    BY <2>3
  <2>4. CASE \E c \in Elements(ContainersOf[t]) : LoadFrom(c)
    <3>1. PICK c \in Elements(ContainersOf[t]) : LoadFrom(c)
      BY <2>4
    <3>2. CASE c # ContainersOf[s][i]
      BY <2>2, <3>1, <3>2 DEF LoadFrom, TypeOK
    <3>3. CASE c = ContainersOf[s][i]
      <4>1. pc[s] = "idle"
        BY <2>2, <3>1, <3>3 DEF Apart, OneAtATime
      <4>2. loaded'[c][s] = files[Reads[c][s]][s]
        BY <2>2, <3>1, <3>3 DEF LoadFrom, TypeOK
      <4>3. QED
        BY <3>3, <4>1, <4>2
    <3>4. QED
      BY <3>2, <3>3
  <2>5. QED
    BY <2>3, <2>4, RestartsOwnContainers
<1>4. QED
  BY <1>1, <1>2, <1>3 DEF Unharmed

(* AllHoldAgree, about the state after a step.                             *)
LEMMA AllHoldAgreeNext ==
  ASSUME NEW s \in Secrets, NEW v, v # Absent, AllHold(s, v)'
  PROVE  Agreement(s)' # Absent
<1>1. InForce(s)' = v
  BY FilesOf DEF AllHold, FilesHold, ServiceHolds, InForce
<1>2. FilesAgree(s)'
  <2>1. SUFFICES ASSUME NEW f \in Elements(EnvFiles[s]) PROVE files'[f][s] = v
    BY <1>1 DEF FilesAgree
  <2>2. PICK i \in 1 .. NFiles(s) : f = EnvFiles[s][i]
    BY FilesOf
  <2>3. QED
    BY <2>2 DEF AllHold, FilesHold
<1>3. ContainersAgree(s)'
  <2>1. SUFFICES ASSUME NEW c \in Elements(ContainersOf[s]) PROVE loaded'[c][s] = v
    BY <1>1 DEF ContainersAgree
  <2>2. PICK i \in 1 .. NContainers(s) : c = ContainersOf[s][i]
    BY ContainersAre
  <2>3. QED
    BY <2>2 DEF AllHold, ContainersHold
<1>4. QED
  BY <1>1, <1>2, <1>3 DEF Agreement

(* An idle secret stays in agreement, whatever other attempts restart.     *)
LEMMA IdleKeepsAgreement ==
  ASSUME TypeOK, Apart, NEW s \in Secrets, Unharmed(s), Agreement(s) # Absent
  PROVE  Agreement(s)' # Absent
<1>0. PICK v : v = Agreement(s)
  OBVIOUS
<1>1. AllHold(s, v)
  BY <1>0, AgreeAllHold
<1>2. FilesHold(s, 1, NFiles(s), v)'
  BY <1>1 DEF AllHold, FilesHold, Unharmed
<1>3. ContainersHold(s, NContainers(s), v)'
  <2>1. SUFFICES ASSUME NEW i \in 1 .. NContainers(s)
                 PROVE loaded'[ContainersOf[s][i]][s] = v
    BY DEF ContainersHold
  <2>2. loaded[ContainersOf[s][i]][s] = v
    BY <1>1 DEF AllHold, ContainersHold
  <2>3. Reads[ContainersOf[s][i]][s] \in Elements(EnvFiles[s])
    BY ContainersAre DEF Apart
  <2>4. files[Reads[ContainersOf[s][i]][s]][s] = v
    <3>1. PICK k \in 1 .. NFiles(s) : Reads[ContainersOf[s][i]][s] = EnvFiles[s][k]
      BY <2>3, FilesOf
    <3>2. QED
      BY <1>1, <3>1 DEF AllHold, FilesHold
  <2>5. QED
    BY <2>2, <2>4 DEF Unharmed
<1>4. ServiceHolds(s, v)'
  BY <1>1 DEF AllHold, ServiceHolds, Unharmed
<1>5. AllHold(s, v)'
  BY <1>2, <1>3, <1>4 DEF AllHold
<1>6. QED
  BY <1>0, <1>5, AllHoldAgreeNext

LEMMA OtherKeepsBook ==
  ASSUME NEW s \in Secrets, LocalsKept(s), BookOK(s)
  PROVE  BookOK(s)'
BY DEF LocalsKept, BookOK, Written, PlansRestart, RestartAt

(* While s is in flight, what its files, containers and service hold is    *)
(* what they held.                                                         *)
LEMMA BusySharesKept ==
  ASSUME TypeOK, NEW s \in Secrets, Unharmed(s), pc[s] # "idle"
  PROVE  /\ \A from \in Nat \ {0}, to \in 0 .. NFiles(s), v \in Int :
              FilesHold(s, from, to, v) => FilesHold(s, from, to, v)'
         /\ \A upTo \in -1 .. NContainers(s), v \in Int :
              ContainersHold(s, upTo, v) => ContainersHold(s, upTo, v)'
         /\ \A v \in Int : ServiceHolds(s, v) => ServiceHolds(s, v)'
         /\ \A v \in Int : AllHold(s, v) => AllHold(s, v)'
<1>1. NFiles(s) \in Nat /\ NContainers(s) \in Nat
  BY FilesOf, ContainersAre
<1>2. \A from \in Nat \ {0}, to \in 0 .. NFiles(s), v \in Int :
        FilesHold(s, from, to, v) => FilesHold(s, from, to, v)'
  BY <1>1 DEF Unharmed, FilesHold
<1>3. \A upTo \in -1 .. NContainers(s), v \in Int :
        ContainersHold(s, upTo, v) => ContainersHold(s, upTo, v)'
  BY <1>1 DEF Unharmed, ContainersHold
<1>4. \A v \in Int : ServiceHolds(s, v) => ServiceHolds(s, v)'
  BY DEF Unharmed, ServiceHolds
<1>5. QED
  BY <1>1, <1>2, <1>3, <1>4 DEF AllHold

LEMMA OtherKeepsForward ==
  ASSUME TypeOK, NEW s \in Secrets, Unharmed(s), LocalsKept(s), BookOK(s), ForwardOK(s)
  PROVE  ForwardOK(s)'
<1>1. CASE pc[s] = "idle"
  BY <1>1 DEF ForwardOK, LocalsKept
<1>2. CASE pc[s] # "idle"
  <2>1. journal[s].next \in Int /\ Written(s) \in 0 .. NFiles(s)
    BY JournalsKept, FilesOf DEF BookOK, Written, Journal
  <2>2. pc[s] \in {"restart", "wait_healthy"} => pos[s] \in 1 .. NContainers(s)
    BY ContainersAre DEF TypeOK, IndicesOK
  <2>3. NContainers(s) \in Nat
    BY ContainersAre
  <2>4. Written(s)' = Written(s) /\ journal'[s].next = journal[s].next /\ pc'[s] = pc[s] /\ pos'[s] = pos[s]
    BY DEF LocalsKept, Written
  <2>5. QED
    BY <1>2, <2>1, <2>2, <2>3, <2>4, BusySharesKept DEF ForwardOK
<1>3. QED
  BY <1>1, <1>2
LEMMA OtherKeepsSettled ==
  ASSUME TypeOK, Apart, NEW s \in Secrets, Unharmed(s), LocalsKept(s), BookOK(s), SettledOK(s)
  PROVE  SettledOK(s)'
<1>1. CASE standing[s] # "settled"
  BY <1>1 DEF SettledOK, LocalsKept
<1>2. CASE pc[s] = "idle" /\ standing[s] = "settled"
  <2>1. Agreement(s)' # Absent
    BY <1>2, IdleKeepsAgreement DEF SettledOK
  <2>2. QED
    BY <1>2, <2>1 DEF SettledOK, LocalsKept
<1>3. CASE pc[s] # "idle" /\ standing[s] = "settled"
  <2>1. prior[s] \in Int /\ Written(s) \in 0 .. NFiles(s) /\ NFiles(s) \in Nat /\ NContainers(s) \in Nat
    BY JournalsKept, FilesOf, ContainersAre DEF BookOK, Written, Journal, TypeOK
  <2>2. /\ Written(s)' = Written(s) /\ journal'[s] = journal[s] /\ pc'[s] = pc[s]
        /\ pos'[s] = pos[s] /\ at'[s] = at[s] /\ prior'[s] = prior[s]
        /\ buffer'[s] = buffer[s] /\ failures'[s] = failures[s] /\ standing'[s] = standing[s]
    BY DEF LocalsKept, Written
  <2>3. pc[s] \in {"resolve", "open", "generate", "apply", "record_failure"} =>
          (AllHold(s, prior[s]) => AllHold(s, prior[s])')
    BY <1>3, <2>1, <2>2, BusySharesKept
  <2>4. FilesHold(s, Written(s) + 1, NFiles(s), prior[s])
          => FilesHold(s, Written(s) + 1, NFiles(s), prior[s])'
    BY <1>3, <2>1, <2>2, BusySharesKept
  <2>5. ContainersHold(s, NContainers(s), prior[s]) => ContainersHold(s, NContainers(s), prior[s])'
    BY <1>3, <2>1, <2>2, BusySharesKept
  <2>6. pc[s] \in {"undo", "undo_wait"} /\ UndoneOK(s, prior[s]) => UndoneOK(s, prior[s])'
    <3>1. SUFFICES ASSUME pc[s] \in {"undo", "undo_wait"}, UndoneOK(s, prior[s])
                   PROVE UndoneOK(s, prior[s])'
      OBVIOUS
    <3>2. /\ PlansRestart(s)' = PlansRestart(s) /\ PlansRestore(s)' = PlansRestore(s)
          /\ RestartAt(s)' = RestartAt(s) /\ RestoreAt(s)' = RestoreAt(s)
      BY <2>2 DEF PlansRestart, PlansRestore, RestartAt, RestoreAt
    <3>3. \A i \in 1 .. NFiles(s) :
            i < at[s] \/ i > Written(s) => files'[EnvFiles[s][i]][s] = prior[s]
      BY <3>1 DEF UndoneOK, Unharmed
    <3>4. \A i \in 1 .. NContainers(s) :
            loaded'[ContainersOf[s][i]][s] = loaded[ContainersOf[s][i]][s]
      BY <1>3 DEF Unharmed
    <3>5. ~PlansRestart(s) \/ at[s] > RestartAt(s) => ContainersHold(s, NContainers(s), prior[s])'
      BY <2>2, <2>5, <3>1 DEF UndoneOK
    <3>6. PlansRestart(s) /\ at[s] = RestartAt(s) =>
            ContainersHold(s, IF pc[s] = "undo_wait" THEN pos[s] ELSE pos[s] - 1, prior[s])'
      <4>1. pos[s] \in Nat \ {0}
        BY DEF TypeOK
      <4>2. PlansRestart(s) => pos[s] <= NContainers(s) \/ (pos[s] = 1 /\ pc[s] = "undo")
        BY <3>1 DEF BookOK
      <4>3. QED
        BY <2>1, <2>2, <3>1, <3>4, <4>1, <4>2 DEF UndoneOK, ContainersHold
    <3>7. ~PlansRestore(s) \/ at[s] > RestoreAt(s) => ServiceHolds(s, prior[s])'
      BY <2>2, <3>1 DEF UndoneOK, ServiceHolds, Unharmed
    <3>8. QED
      BY <2>2, <3>2, <3>3, <3>5, <3>6, <3>7 DEF UndoneOK
  <2>7. QED
    BY <1>3, <2>2, <2>3, <2>4, <2>5, <2>6 DEF SettledOK
<1>4. QED
  BY <1>1, <1>2, <1>3

(* The foreign part of an attempt u other than the one that steps.         *)
LEMMA OtherKeepsForeign ==
  ASSUME TypeOK, Apart, OneAtATime, NEW t \in Secrets, NEW u \in Secrets, u # t,
         BookOK(t), ForeignOK(t), BookOK(u), ForeignOK(u), Attempt(t), pc[t] # "idle"
  PROVE  ForeignOK(u)'
<1>1. LocalsKept(u)
  BY TouchesOwnLocals
<1>2. SUFFICES ASSUME NEW s \in Secrets, s # u, NEW f \in Elements(EnvFiles[s])
               PROVE  /\ pc[u] = "replace_file" /\ f = Path(u) => buffer[u][s] = files'[f][s]
                      /\ f \in DOMAIN journal[u].fileBackups =>
                           journal[u].fileBackups[f][s] = files'[f][s]
  BY <1>1 DEF ForeignOK, LocalsKept, Path
<1>3. CASE s # t
  <2>1. PICK i \in 1 .. NFiles(s) : f = EnvFiles[s][i]
    BY FilesOf
  <2>2. files'[f][s] = files[f][s]
    BY <1>3, <2>1, LeavesOthersUnharmed DEF Unharmed
  <2>3. QED
    BY <1>2, <2>2 DEF ForeignOK
<1>4. CASE s = t
  <2>1. CASE ~MayOverlap
    <3>1. pc[u] = "idle"
      BY <2>1 DEF OneAtATime
    <3>2. DOMAIN journal[u].fileBackups = {}
      BY <3>1 DEF BookOK, BeginRotation
    <3>3. QED
      BY <3>1, <3>2
  <2>2. CASE MayOverlap
    <3>1. f \notin Elements(EnvFiles[u])
      BY <1>4, <2>2 DEF Apart
    <3>2. pc[u] = "replace_file" => Path(u) \in Elements(EnvFiles[u])
      BY PathIsFile, FilesOf DEF Path, NFiles
    <3>3. f \notin DOMAIN journal[u].fileBackups
      BY <3>1 DEF BookOK
    <3>4. QED
      BY <3>1, <3>2, <3>3
  <2>3. QED
    BY <2>1, <2>2
<1>5. QED
  BY <1>3, <1>4

-----------------------------------------------------------------------------
(* Part 4: what an attempt at s does to s itself.                          *)

LEMMA JournalFacts ==
  ASSUME TypeOK, NEW s \in Secrets, BookOK(s)
  PROVE  /\ journal[s] \in Journal /\ journal[s].step \in Step /\ journal[s].step \in Int
         /\ journal[s].writtenFiles \in Seq(Files)
         /\ Written(s) \in 0 .. NFiles(s) /\ NFiles(s) \in Nat /\ NContainers(s) \in Nat
         /\ journal[s].next \in Int /\ journal[s].previous \in Int /\ prior[s] \in Int
         /\ journal[s].fileBackups \in Backups
<1>1. journal[s] \in Journal /\ journal[s].step \in Step /\ journal[s].writtenFiles \in Seq(Files)
  BY JournalsKept DEF Journal
<1>2. journal[s].fileBackups \in Backups
  BY <1>1 DEF Journal
<1>3. journal[s].step \in Int
  BY <1>1 DEF Step, StepPending, StepDone
<1>4. Written(s) \in 0 .. NFiles(s)
  BY <1>1, FilesOf DEF Written, BookOK
<1>5. prior[s] \in Int
  BY DEF TypeOK
<1>6. QED
  BY <1>1, <1>2, <1>3, <1>4, <1>5, JournalsKept, FilesOf, ContainersAre

(* What s would put into the entries of others: nothing new, for all steps *)
(* but those that take a snapshot.                                         *)
LEMMA KeepsForeign ==
  ASSUME TypeOK, Apart, OneAtATime, NEW s \in Secrets, BookOK(s), ForeignOK(s),
         Attempt(s), pc[s] # "idle", pc'[s] # "replace_file",
         journal'[s].fileBackups = journal[s].fileBackups \/ DOMAIN journal'[s].fileBackups = {}
  PROVE  ForeignOK(s)'
<1>1. SUFFICES ASSUME NEW u \in Secrets, u # s, NEW f \in Elements(EnvFiles[u]),
                      f \in DOMAIN journal'[s].fileBackups
               PROVE  journal'[s].fileBackups[f][u] = files'[f][u]
  BY DEF ForeignOK
<1>2. journal[s].fileBackups[f][u] = files[f][u] /\ journal'[s].fileBackups = journal[s].fileBackups
  BY <1>1 DEF ForeignOK
<1>3. PICK i \in 1 .. NFiles(u) : f = EnvFiles[u][i]
  BY FilesOf
<1>4. files'[f][u] = files[f][u]
  BY <1>1, <1>3, LeavesOthersUnharmed DEF Unharmed
<1>5. QED
  BY <1>2, <1>4

(* A step that changes nothing in the world changes nothing that is held.  *)
LEMMA SameWorld ==
  ASSUME UNCHANGED world, NEW s
  PROVE  /\ Agreement(s)' = Agreement(s)
         /\ \A v : AllHold(s, v) => AllHold(s, v)'
         /\ \A v, from, to : FilesHold(s, from, to, v) => FilesHold(s, from, to, v)'
         /\ \A v, upTo : ContainersHold(s, upTo, v) => ContainersHold(s, upTo, v)'
         /\ \A v : ServiceHolds(s, v) => ServiceHolds(s, v)'
BY DEF world, Agreement, FilesAgree, ContainersAgree, InForce,
   AllHold, FilesHold, ContainersHold, ServiceHolds

(* An attempt that returns has an empty journal, and is in order if its    *)
(* secret is in agreement or has a standing that excuses it.               *)
LEMMA ReturnsInOrder ==
  ASSUME TypeOK, NEW s \in Secrets, NEW outcome, Return(s, outcome),
         standing'[s] = "settled" => Agreement(s)' # Absent
  PROVE  BookOK(s)' /\ ForwardOK(s)' /\ SettledOK(s)' /\ DOMAIN journal'[s].fileBackups = {}
<1>1. pc'[s] = "idle" /\ journal'[s] = BeginRotation
  BY DEF Return, Goto, Forget, TypeOK
<1>2. /\ DOMAIN BeginRotation.fileBackups = {}
      /\ Len(BeginRotation.writtenFiles) = 0
      /\ ~(BeginRotation.step >= StepRestarted)
  BY DEF BeginRotation, StepPending, StepRestarted
<1>3. BookOK(s)'
  BY <1>1, <1>2, FilesOf DEF BookOK, Written
<1>4. ForwardOK(s)' /\ SettledOK(s)'
  BY <1>1 DEF ForwardOK, SettledOK
<1>5. QED
  BY <1>1, <1>2, <1>3, <1>4

LEMMA ResolveInOrder ==
  ASSUME TypeOK, NEW s \in Secrets, SecretOK(s), Resolve(s)
  PROVE  /\ BookOK(s)' /\ ForwardOK(s)' /\ SettledOK(s)' /\ pc'[s] # "replace_file"
         /\ journal'[s].fileBackups = journal[s].fileBackups \/ DOMAIN journal'[s].fileBackups = {}
<1> USE DEF SecretOK
<1>1. pc[s] = "resolve" /\ UNCHANGED <<world, standing, prior>>
  BY DEF Resolve
<1>2. standing[s] = "settled" => prior[s] # Absent /\ AllHold(s, prior[s])
  BY <1>1 DEF SettledOK
<1>3. CASE Goto(s, "open") /\ UNCHANGED <<local, result>>
  <2>1. pc'[s] = "open" /\ journal'[s] = journal[s] /\ prior'[s] = prior[s] /\ standing'[s] = standing[s]
    BY <1>1, <1>3 DEF Goto, TypeOK, local
  <2>2. BookOK(s)'
    BY <1>1, <2>1 DEF BookOK, Written, PlansRestart
  <2>3. ForwardOK(s)'
    BY <2>1 DEF ForwardOK
  <2>4. standing[s] = "settled" => AllHold(s, prior[s])'
    BY <1>1, <1>2, <2>1, SameWorld
  <2>5. SettledOK(s)'
    BY <1>2, <2>1, <2>4 DEF SettledOK
  <2>6. QED
    BY <2>1, <2>2, <2>3, <2>5
<1>4. CASE Return(s, "untouched")
  <2>1. standing'[s] = "settled" => Agreement(s)' # Absent
    BY <1>1, <1>2, AllHoldAgree, SameWorld
  <2>2. pc'[s] = "idle"
    BY <1>4 DEF Return, Goto, TypeOK
  <2>3. QED
    BY <1>4, <2>1, <2>2, ReturnsInOrder
<1>5. QED
  BY <1>3, <1>4 DEF Resolve

LEMMA OpenPrimaryInOrder ==
  ASSUME TypeOK, Apart, OneAtATime, NEW s \in Secrets, SecretOK(s), OpenPrimary(s)
  PROVE  BookOK(s)' /\ ForwardOK(s)' /\ SettledOK(s)' /\ ForeignOK(s)'
<1> USE DEF SecretOK
<1> DEFINE doc == files[PrimaryEnvFile(s)]
           opened == RecordCurrentValue(BeginRotation, PrimaryEnvFile(s), doc[s], doc)
<1>1. pc[s] = "open" /\ UNCHANGED <<world, standing, prior>>
  BY DEF OpenPrimary
<1>2. standing[s] = "settled" => prior[s] # Absent /\ AllHold(s, prior[s])
  BY <1>1 DEF SettledOK
<1>3. CASE Note(s, opened) /\ Goto(s, "generate")
  <2>1. /\ opened \in Journal /\ opened.step = StepRead /\ opened.previous = doc[s]
        /\ DOMAIN opened.fileBackups = {PrimaryEnvFile(s)}
        /\ opened.fileBackups[PrimaryEnvFile(s)] = doc
        /\ opened.writtenFiles = <<>>
    <3>1. doc \in Content /\ doc[s] \in Int
      BY PrimaryIsFile DEF TypeOK, Content
    <3>2. QED
      BY <3>1, PrimaryIsFile, RecordCurrentValueIsJournal
  <2> HIDE DEF opened
  <2>2. pc'[s] = "generate" /\ journal'[s] = opened
    BY <1>3 DEF Goto, Note, TypeOK
  <2>3. prior'[s] = prior[s] /\ standing'[s] = standing[s] /\ files' = files
    BY <1>1 DEF world
  <2>4. Written(s)' = 0 /\ ~(opened.step >= StepRestarted)
    BY <2>1, <2>2 DEF Written, StepRead, StepRestarted
  <2>5. BookOK(s)'
    BY <2>1, <2>2, <2>4, FilesOf DEF BookOK
  <2>6. ForwardOK(s)'
    BY <2>2 DEF ForwardOK
  <2>7. standing[s] = "settled" => doc[s] = prior[s]
    BY <1>2, FilesOf DEF AllHold, FilesHold
  <2>8. standing[s] = "settled" => AllHold(s, prior[s])'
    BY <1>1, <1>2, <2>3, SameWorld
  <2>9. SettledOK(s)'
    BY <1>2, <2>1, <2>2, <2>3, <2>7, <2>8 DEF SettledOK
  <2>10. ForeignOK(s)'
    BY <2>1, <2>2, <2>3 DEF ForeignOK
  <2>11. QED
    BY <2>5, <2>6, <2>9, <2>10
<1>4. CASE Return(s, "untouched")
  <2>1. standing'[s] = "settled" => Agreement(s)' # Absent
    BY <1>1, <1>2, AllHoldAgree, SameWorld
  <2>2. pc'[s] = "idle" /\ Attempt(s)
    BY <1>4 DEF Return, Goto, TypeOK, Attempt
  <2>3. QED
    BY <1>1, <1>4, <2>1, <2>2, ReturnsInOrder, KeepsForeign
<1>5. QED
  BY <1>3, <1>4 DEF OpenPrimary

(* What each Record operation leaves of the journal of s, and how far the  *)
(* step has come.                                                          *)
LEMMA RecordFacts ==
  ASSUME TypeOK, NEW s \in Secrets, BookOK(s)
  PROVE  /\ LET q == RecordApplied(journal[s])
            IN  /\ q.previous = journal[s].previous /\ q.next = journal[s].next
                /\ q.fileBackups = journal[s].fileBackups
                /\ q.writtenFiles = journal[s].writtenFiles /\ q.restarted = journal[s].restarted
                /\ q.step >= StepApplied /\ q.step \in Int
                /\ q.step >= StepRestarted => journal[s].step >= StepRestarted
         /\ LET q == RecordVerified(journal[s])
            IN  /\ q.previous = journal[s].previous /\ q.next = journal[s].next
                /\ q.fileBackups = journal[s].fileBackups
                /\ q.writtenFiles = journal[s].writtenFiles /\ q.restarted = journal[s].restarted
                /\ q.step >= StepVerified /\ q.step \in Int
                /\ q.step >= StepRestarted => journal[s].step >= StepRestarted
         /\ LET q == RecordRestarted(journal[s], ContainersOf[s])
            IN  /\ q.previous = journal[s].previous /\ q.next = journal[s].next
                /\ q.fileBackups = journal[s].fileBackups
                /\ q.writtenFiles = journal[s].writtenFiles /\ q.restarted = ContainersOf[s]
                /\ q.step >= StepRestarted /\ q.step \in Int
<1>1. journal[s] \in Journal /\ journal[s].step \in Int
  BY JournalFacts
<1>2. ContainersOf[s] \in Seq(Containers)
  BY ConfigurationAssumption
<1>3. \A to \in Int : advance(journal[s].step, to) >= to
  BY <1>1 DEF advance
<1>4. \A to \in Int : advance(journal[s].step, to) \in {to, journal[s].step}
  BY <1>1 DEF advance
<1>5. StepApplied = 3 /\ StepVerified = 4 /\ StepRestarted = 6
  BY DEF StepApplied, StepVerified, StepRestarted
<1> DEFINE a == RecordApplied(journal[s])
           v == RecordVerified(journal[s])
           t == RecordRestarted(journal[s], ContainersOf[s])
<1>6. /\ a.previous = journal[s].previous /\ a.next = journal[s].next
      /\ a.fileBackups = journal[s].fileBackups
      /\ a.writtenFiles = journal[s].writtenFiles /\ a.restarted = journal[s].restarted
      /\ a.step = advance(journal[s].step, StepApplied)
  BY <1>1, RecordStepsAreJournals
<1>7. /\ v.previous = journal[s].previous /\ v.next = journal[s].next
      /\ v.fileBackups = journal[s].fileBackups
      /\ v.writtenFiles = journal[s].writtenFiles /\ v.restarted = journal[s].restarted
      /\ v.step = advance(journal[s].step, StepVerified)
  BY <1>1, RecordStepsAreJournals
<1>8. /\ t.previous = journal[s].previous /\ t.next = journal[s].next
      /\ t.fileBackups = journal[s].fileBackups
      /\ t.writtenFiles = journal[s].writtenFiles /\ t.restarted = ContainersOf[s]
      /\ t.step = advance(journal[s].step, StepRestarted)
  BY <1>1, <1>2, RecordStepsAreJournals
<1> HIDE DEF a, v, t
<1>9. /\ a.step \in Int /\ v.step \in Int
      /\ a.step >= StepApplied /\ (a.step >= StepRestarted => journal[s].step >= StepRestarted)
      /\ v.step >= StepVerified /\ (v.step >= StepRestarted => journal[s].step >= StepRestarted)
      /\ t.step >= StepRestarted /\ t.step \in Int
  BY <1>1, <1>3, <1>4, <1>5, <1>6, <1>7, <1>8
<1>10. QED
  BY <1>6, <1>7, <1>8, <1>9 DEF a, v, t

LEMMA CompensatesInOrder ==
  ASSUME TypeOK, NEW s \in Secrets, BookOK(s), Compensate(s), UNCHANGED prior,
         pc[s] \notin {"idle", "resolve", "open", "generate"},
         UNCHANGED journal \/ Note(s, RecordRestarted(journal[s], ContainersOf[s])),
         standing'[s] = "settled" =>
           /\ prior[s] # Absent /\ journal[s].previous = prior[s]
           /\ \A p \in DOMAIN journal[s].fileBackups : journal[s].fileBackups[p][s] = prior[s]
           /\ FilesHold(s, Written(s) + 1, NFiles(s), prior[s])'
           /\ PlansRestart(s)' \/ ContainersHold(s, NContainers(s), prior[s])'
           /\ PlansRestore(s)' \/ ServiceHolds(s, prior[s])'
  PROVE  /\ BookOK(s)' /\ ForwardOK(s)' /\ SettledOK(s)'
         /\ pc'[s] # "replace_file" /\ journal'[s].fileBackups = journal[s].fileBackups
<1>1. pc'[s] = "undo" /\ at'[s] = 1 /\ pos'[s] = 1 /\ prior'[s] = prior[s]
  BY DEF Compensate, Goto, TypeOK
<1>2. \/ journal'[s] = journal[s]
      \/ journal'[s] = RecordRestarted(journal[s], ContainersOf[s])
  BY DEF Note, TypeOK
<1>3. /\ journal'[s].previous = journal[s].previous /\ journal'[s].next = journal[s].next
      /\ journal'[s].fileBackups = journal[s].fileBackups
      /\ journal'[s].writtenFiles = journal[s].writtenFiles
      /\ Written(s)' = Written(s)
  BY <1>2, RecordFacts DEF Written
<1>4. journal'[s].step >= StepRestarted => journal'[s].restarted = ContainersOf[s]
  BY <1>2, RecordFacts DEF BookOK
<1>5. journal'[s].step >= StepGenerated
  <2>1. journal[s].step >= StepGenerated
    BY DEF BookOK
  <2>2. QED
    BY <1>2, <2>1, RecordFacts DEF StepGenerated, StepRestarted
<1>6. BookOK(s)'
  <2>1. /\ DOMAIN journal[s].fileBackups \subseteq Elements(EnvFiles[s])
        /\ Written(s) <= NFiles(s)
        /\ \A i \in 1 .. Written(s) : journal[s].writtenFiles[i] = EnvFiles[s][i]
        /\ journal[s].next \in Nat
    BY DEF BookOK
  <2>2. \A i \in 1 .. Written(s)' : journal'[s].writtenFiles[i] = EnvFiles[s][i]
    BY <1>3, <2>1
  <2>3. /\ DOMAIN journal'[s].fileBackups \subseteq Elements(EnvFiles[s])
        /\ Written(s)' <= NFiles(s) /\ journal'[s].next \in Nat
    BY <1>3, <2>1
  <2>4. QED
    BY <1>1, <1>4, <1>5, <2>2, <2>3 DEF BookOK
<1>7. ForwardOK(s)'
  BY <1>1 DEF ForwardOK
<1>8. ASSUME standing'[s] = "settled" PROVE UndoneOK(s, prior[s])'
  <2>1. Written(s) \in Nat
    BY JournalFacts
  <2>2. \A i \in 1 .. NFiles(s) : i < 1 \/ i > Written(s) => files'[EnvFiles[s][i]][s] = prior[s]
    BY <1>1, <1>3, <1>8, <2>1, JournalFacts DEF FilesHold
  <2>3. ~(1 > RestartAt(s)') /\ ~(1 > RestoreAt(s)')
    BY <1>3, <2>1 DEF RestartAt, RestoreAt
  <2>4. ~PlansRestart(s)' => ContainersHold(s, NContainers(s), prior[s])'
    BY <1>8
  <2>5. ContainersHold(s, 0, prior[s])'
    BY DEF ContainersHold
  <2>6. ~PlansRestore(s)' => ServiceHolds(s, prior[s])'
    BY <1>8
  <2>7. QED
    BY <1>1, <1>3, <2>2, <2>3, <2>4, <2>5, <2>6 DEF UndoneOK
<1>9. SettledOK(s)'
  BY <1>1, <1>3, <1>8 DEF SettledOK
<1>10. QED
  BY <1>1, <1>3, <1>6, <1>7, <1>9

LEMMA GenerateInOrder ==
  ASSUME TypeOK, NEW s \in Secrets, SecretOK(s), Generate(s)
  PROVE  /\ BookOK(s)' /\ ForwardOK(s)' /\ SettledOK(s)' /\ pc'[s] # "replace_file"
         /\ journal'[s].fileBackups = journal[s].fileBackups \/ DOMAIN journal'[s].fileBackups = {}
<1> USE DEF SecretOK
<1> DEFINE generated == RecordGenerated(journal[s], attempts[s])
<1>1. pc[s] = "generate" /\ UNCHANGED <<world, standing, prior>>
  BY DEF Generate
<1>2. standing[s] = "settled" => /\ prior[s] # Absent /\ AllHold(s, prior[s])
                                 /\ journal[s].previous = prior[s]
                                 /\ \A p \in DOMAIN journal[s].fileBackups :
                                      journal[s].fileBackups[p][s] = prior[s]
  BY <1>1 DEF SettledOK
<1>3. prior'[s] = prior[s] /\ standing'[s] = standing[s]
  BY <1>1
<1>4. CASE /\ Note(s, generated) /\ UNCHANGED at
           /\ Goto(s, IF HasBackingService(s) THEN "apply" ELSE "read_file")
  <2>1. /\ generated.previous = journal[s].previous /\ generated.next \in Nat
        /\ generated.fileBackups = journal[s].fileBackups
        /\ generated.writtenFiles = journal[s].writtenFiles
        /\ generated.restarted = journal[s].restarted
        /\ generated.step = advance(journal[s].step, StepGenerated)
    <3>1. journal[s] \in Journal /\ attempts[s] \in Nat /\ attempts[s] \in Int
      BY JournalFacts DEF TypeOK
    <3>2. QED
      BY <3>1, RecordStepsAreJournals
  <2> HIDE DEF generated
  <2>2. generated.step >= StepGenerated
        /\ (generated.step >= StepRestarted => journal[s].step >= StepRestarted)
    BY <2>1, JournalFacts DEF advance, StepGenerated, StepRestarted
  <2>3. /\ journal'[s] = generated /\ at'[s] = 1
        /\ pc'[s] = IF HasBackingService(s) THEN "apply" ELSE "read_file"
    BY <1>1, <1>4 DEF Goto, Note, TypeOK, IndicesOK
  <2>4. Written(s)' = 0
    BY <1>1, <2>1, <2>3 DEF BookOK, Written
  <2>5. /\ DOMAIN journal[s].fileBackups \subseteq Elements(EnvFiles[s])
        /\ journal[s].step >= StepRestarted => journal[s].restarted = ContainersOf[s]
    BY DEF BookOK
  <2>6. BookOK(s)'
    BY <2>1, <2>2, <2>3, <2>4, <2>5, FilesOf DEF BookOK
  <2>7. ForwardOK(s)'
    BY <2>3, <2>4 DEF ForwardOK, FilesHold, ServiceHolds
  <2>8. standing[s] = "settled" => AllHold(s, prior[s])'
    BY <1>1, <1>2, <1>3, SameWorld
  <2>9. standing[s] = "settled" => /\ FilesHold(s, Written(s) + 1, NFiles(s), prior[s])'
                                   /\ ContainersHold(s, NContainers(s), prior[s])'
    BY <2>4, <2>8 DEF AllHold
  <2>10. SettledOK(s)'
    BY <1>2, <1>3, <2>1, <2>3, <2>8, <2>9 DEF SettledOK
  <2>11. QED
    BY <2>1, <2>3, <2>6, <2>7, <2>10
<1>5. CASE Return(s, "failed")
  <2>1. standing'[s] = "settled" => Agreement(s)' # Absent
    BY <1>1, <1>2, AllHoldAgree, SameWorld
  <2>2. pc'[s] = "idle"
    BY <1>5 DEF Return, Goto, TypeOK
  <2>3. QED
    BY <1>5, <2>1, <2>2, ReturnsInOrder
<1>6. QED
  BY <1>4, <1>5 DEF Generate, generated

(* From verify on, the plan restores the credential where there is one.    *)
LEMMA AppliedPlansRestore ==
  ASSUME TypeOK, NEW s \in Secrets, BookOK(s),
         pc[s] \in {"verify", "read_file", "replace_file", "restart", "wait_healthy"},
         UNCHANGED journal \/ Note(s, RecordRestarted(journal[s], ContainersOf[s]))
  PROVE  PlansRestore(s)' \/ ~HasBackingService(s)
<1>1. HasBackingService(s) => journal[s].step >= StepApplied
  BY DEF BookOK
<1>2. \/ journal'[s] = journal[s]
      \/ journal'[s] = RecordRestarted(journal[s], ContainersOf[s])
  BY DEF Note, TypeOK
<1>3. QED
  BY <1>1, <1>2, RecordFacts DEF PlansRestore, StepApplied, StepRestarted

LEMMA ApplyInOrder ==
  ASSUME TypeOK, NEW s \in Secrets, SecretOK(s), Apply(s)
  PROVE  /\ BookOK(s)' /\ ForwardOK(s)' /\ SettledOK(s)' /\ pc'[s] # "replace_file"
         /\ journal'[s].fileBackups = journal[s].fileBackups \/ DOMAIN journal'[s].fileBackups = {}
<1> USE DEF SecretOK
<1>1. pc[s] = "apply" /\ UNCHANGED <<files, loaded, prior>>
  BY DEF Apply
<1>2. standing[s] = "settled" => /\ prior[s] # Absent /\ AllHold(s, prior[s])
                                 /\ journal[s].previous = prior[s]
                                 /\ \A p \in DOMAIN journal[s].fileBackups :
                                      journal[s].fileBackups[p][s] = prior[s]
  BY <1>1 DEF SettledOK
<1>3. Written(s) = 0
  BY <1>1 DEF BookOK
<1>4. standing[s] = "settled" => /\ FilesHold(s, 1, NFiles(s), prior[s])'
                                 /\ ContainersHold(s, NContainers(s), prior[s])'
  BY <1>1, <1>2 DEF AllHold, FilesHold, ContainersHold
<1>5. standing'[s] = "settled" => standing[s] = "settled"
  BY DEF Apply, ApplyAccepted, ApplyWithoutEffect, ApplyRefused, ApplyAnswerLost, TypeOK
<1>6. CASE Note(s, RecordApplied(journal[s])) /\ Goto(s, "verify")
  <2>1. journal'[s] = RecordApplied(journal[s]) /\ pc'[s] = "verify" /\ prior'[s] = prior[s]
    BY <1>1, <1>6 DEF Goto, Note, TypeOK
  <2>2. Written(s)' = 0
    BY <1>3, <2>1, RecordFacts DEF Written
  <2>3. /\ DOMAIN journal[s].fileBackups \subseteq Elements(EnvFiles[s])
        /\ journal[s].step >= StepRestarted => journal[s].restarted = ContainersOf[s]
        /\ journal[s].next \in Nat
    BY <1>1 DEF BookOK
  <2>5. BookOK(s)'
    BY <2>1, <2>2, <2>3, RecordFacts, FilesOf DEF BookOK, StepApplied, StepGenerated
  <2>6. ForwardOK(s)'
    BY <2>1 DEF ForwardOK
  <2>7. SettledOK(s)'
    BY <1>2, <1>4, <1>5, <2>1, <2>2, RecordFacts DEF SettledOK
  <2>8. QED
    BY <2>1, <2>5, <2>6, <2>7, RecordFacts
<1>7. CASE ApplyRefused(s) \/ ApplyAnswerLost(s)
  <2>1. Compensate(s) /\ UNCHANGED journal
    BY <1>7 DEF ApplyRefused, ApplyAnswerLost
  <2>2. standing'[s] = "settled" => svc' = svc
    BY <1>7 DEF ApplyRefused, ApplyAnswerLost, TypeOK
  <2>3. standing'[s] = "settled" => ServiceHolds(s, prior[s])'
    BY <1>1, <1>2, <1>5, <2>2 DEF AllHold, ServiceHolds
  <2>4. Written(s)' = 0
    BY <1>3, <2>1 DEF Written
  <2>5. QED
    BY <1>1, <1>2, <1>3, <1>4, <1>5, <2>1, <2>3, <2>4, CompensatesInOrder
<1>8. QED
  BY <1>6, <1>7 DEF Apply, ApplyAccepted, ApplyWithoutEffect

LEMMA VerifyInOrder ==
  ASSUME TypeOK, NEW s \in Secrets, SecretOK(s), Verify(s)
  PROVE  /\ BookOK(s)' /\ ForwardOK(s)' /\ SettledOK(s)' /\ pc'[s] # "replace_file"
         /\ journal'[s].fileBackups = journal[s].fileBackups \/ DOMAIN journal'[s].fileBackups = {}
<1> USE DEF SecretOK
<1>1. pc[s] = "verify" /\ UNCHANGED <<world, prior, standing>>
  BY DEF Verify, past
<1>2. standing[s] = "settled" => /\ prior[s] # Absent /\ journal[s].previous = prior[s]
                                 /\ \A p \in DOMAIN journal[s].fileBackups :
                                      journal[s].fileBackups[p][s] = prior[s]
                                 /\ FilesHold(s, Written(s) + 1, NFiles(s), prior[s])
                                 /\ ContainersHold(s, NContainers(s), prior[s])
  BY <1>1 DEF SettledOK
<1>3. Written(s) = 0
  BY <1>1 DEF BookOK
<1>4. standing[s] = "settled" => /\ FilesHold(s, 1, NFiles(s), prior[s])'
                                 /\ ContainersHold(s, NContainers(s), prior[s])'
  BY <1>1, <1>2, <1>3 DEF world, FilesHold, ContainersHold
<1>5. CASE /\ VerifySucceeds(s) /\ UNCHANGED at
           /\ Note(s, RecordVerified(journal[s])) /\ Goto(s, "read_file")
  <2>1. /\ journal'[s] = RecordVerified(journal[s]) /\ pc'[s] = "read_file" /\ prior'[s] = prior[s]
        /\ at'[s] = 1 /\ standing'[s] = standing[s]
    BY <1>1, <1>5 DEF Goto, Note, TypeOK, IndicesOK
  <2>2. Written(s)' = 0
    BY <1>3, <2>1, RecordFacts DEF Written
  <2>3. /\ DOMAIN journal[s].fileBackups \subseteq Elements(EnvFiles[s])
        /\ journal[s].step >= StepRestarted => journal[s].restarted = ContainersOf[s]
        /\ journal[s].next \in Nat
    BY <1>1 DEF BookOK
  <2>5. BookOK(s)'
    BY <2>1, <2>2, <2>3, RecordFacts, FilesOf
    DEF BookOK, StepVerified, StepApplied, StepGenerated
  <2>6. ForwardOK(s)'
    <3>1. ~Unproven(s) => svc'[s] = journal'[s].next
      BY <1>1, <1>5, <2>1, RecordFacts DEF VerifySucceeds, world
    <3>2. QED
      BY <2>1, <2>2, <3>1 DEF ForwardOK, FilesHold, ServiceHolds, Unproven
  <2>7. SettledOK(s)'
    BY <1>2, <1>4, <2>1, <2>2, RecordFacts DEF SettledOK
  <2>8. QED
    BY <2>1, <2>5, <2>6, <2>7, RecordFacts
<1>6. CASE Compensate(s) /\ UNCHANGED journal
  <2>1. Written(s)' = 0
    BY <1>3, <1>6 DEF Written
  <2>2. PlansRestore(s)' \/ ServiceHolds(s, prior[s])'
    BY <1>1, <1>6, AppliedPlansRestore DEF ServiceHolds
  <2>3. QED
    BY <1>1, <1>2, <1>4, <1>6, <2>1, <2>2, CompensatesInOrder
<1>7. QED
  BY <1>5, <1>6 DEF Verify

(* The file that is written next, and what the secret's other files hold.  *)
LEMMA NextFile ==
  ASSUME TypeOK, NEW s \in Secrets, BookOK(s), pc[s] \in {"read_file", "replace_file"}
  PROVE  /\ at[s] \in 1 .. NFiles(s) /\ Written(s) = at[s] - 1 /\ pos[s] = 1
         /\ Path(s) = EnvFiles[s][at[s]] /\ Path(s) \in Files /\ Path(s) \in Elements(EnvFiles[s])
         /\ \A i \in 1 .. NFiles(s) : i # at[s] => EnvFiles[s][i] # Path(s)
<1>1. at[s] \in 1 .. NFiles(s) /\ pos[s] = 1
  BY PathIsFile DEF NFiles
<1>2. QED
  BY <1>1, FilesOf DEF BookOK, Path

LEMMA ReadFileInOrder ==
  ASSUME TypeOK, Apart, OneAtATime, NEW s \in Secrets, SecretOK(s), ReadFile(s)
  PROVE  BookOK(s)' /\ ForwardOK(s)' /\ SettledOK(s)' /\ ForeignOK(s)'
<1> USE DEF SecretOK
<1>1. pc[s] = "read_file" /\ UNCHANGED <<world, journal, prior, standing>>
  BY DEF ReadFile, past
<1>2. standing[s] = "settled" => /\ prior[s] # Absent /\ journal[s].previous = prior[s]
                                 /\ \A p \in DOMAIN journal[s].fileBackups :
                                      journal[s].fileBackups[p][s] = prior[s]
                                 /\ FilesHold(s, Written(s) + 1, NFiles(s), prior[s])
                                 /\ ContainersHold(s, NContainers(s), prior[s])
  BY <1>1 DEF SettledOK
<1>3. Written(s)' = Written(s)
  BY <1>1 DEF Written
<1>4. standing[s] = "settled" => /\ FilesHold(s, Written(s) + 1, NFiles(s), prior[s])'
                                 /\ ContainersHold(s, NContainers(s), prior[s])'
  BY <1>1, <1>2, <1>3 DEF world, FilesHold, ContainersHold
<1>5. CASE /\ buffer' = [buffer EXCEPT ![s] = files[Path(s)]]
           /\ Goto(s, "replace_file") /\ UNCHANGED <<at, pos>>
  <2>1. pc'[s] = "replace_file" /\ at'[s] = at[s] /\ buffer'[s] = files[Path(s)]
        /\ prior'[s] = prior[s] /\ standing'[s] = standing[s] /\ journal'[s] = journal[s]
    BY <1>1, <1>5 DEF Goto, TypeOK
  <2>2. BookOK(s)'
    BY <1>1, <1>3, <2>1 DEF BookOK
  <2>3. ForwardOK(s)'
    BY <1>1, <1>3, <2>1 DEF ForwardOK, world, FilesHold, ServiceHolds, Unproven
  <2>4. standing[s] = "settled" => buffer'[s][s] = prior[s]
    BY <1>1, <1>2, <2>1, NextFile DEF FilesHold
  <2>5. SettledOK(s)'
    BY <1>2, <1>4, <2>1, <2>4 DEF SettledOK
  <2>6. ForeignOK(s)'
    BY <1>1, <1>5, <2>1 DEF ForeignOK, world, Path
  <2>7. QED
    BY <2>2, <2>3, <2>5, <2>6
<1>6. CASE Compensate(s)
  <2>1. PlansRestore(s)' \/ ServiceHolds(s, prior[s])'
    BY <1>1, AppliedPlansRestore DEF ServiceHolds
  <2>2. /\ BookOK(s)' /\ ForwardOK(s)' /\ SettledOK(s)' /\ pc'[s] # "replace_file"
    BY <1>1, <1>2, <1>4, <1>6, <2>1, CompensatesInOrder
  <2>3. QED
    BY <1>1, <2>2, KeepsForeign DEF Attempt
<1>7. QED
  BY <1>5, <1>6 DEF ReadFile

LEMMA ReplaceFileInOrder ==
  ASSUME TypeOK, Apart, OneAtATime, NEW s \in Secrets, SecretOK(s), ReplaceFile(s)
  PROVE  BookOK(s)' /\ ForwardOK(s)' /\ SettledOK(s)' /\ ForeignOK(s)'
<1> USE DEF SecretOK
<1>1. pc[s] = "replace_file" /\ UNCHANGED <<svc, loaded, prior, standing>>
  BY DEF ReplaceFile, past
<1>2. standing[s] = "settled" => /\ prior[s] # Absent /\ journal[s].previous = prior[s]
                                 /\ \A p \in DOMAIN journal[s].fileBackups :
                                      journal[s].fileBackups[p][s] = prior[s]
                                 /\ FilesHold(s, Written(s) + 1, NFiles(s), prior[s])
                                 /\ ContainersHold(s, NContainers(s), prior[s])
                                 /\ buffer[s][s] = prior[s]
  BY <1>1 DEF SettledOK
<1>3. standing[s] = "settled" => ContainersHold(s, NContainers(s), prior[s])'
  BY <1>1, <1>2 DEF ContainersHold
<1>4. /\ at[s] \in 1 .. NFiles(s) /\ Written(s) = at[s] - 1 /\ pos[s] = 1
      /\ Path(s) = EnvFiles[s][at[s]] /\ Path(s) \in Files /\ Path(s) \in Elements(EnvFiles[s])
      /\ \A i \in 1 .. NFiles(s) : i # at[s] => EnvFiles[s][i] # Path(s)
  BY <1>1, NextFile
<1> DEFINE updated == [buffer[s] EXCEPT ![s] = journal[s].next]
           q == RecordFileWritten(journal[s], Path(s), buffer[s])
<1>5. CASE /\ files' = [files EXCEPT ![Path(s)] = updated]
           /\ Note(s, q)
           /\ at' = [at EXCEPT ![s] = @ + 1]
           /\ Goto(s, NextAfterFile(s, at[s]))
           /\ UNCHANGED pos
  <2>1. /\ q.step = advance(journal[s].step, StepFilesUpdated)
        /\ q.previous = journal[s].previous /\ q.next = journal[s].next
        /\ DOMAIN q.fileBackups = DOMAIN journal[s].fileBackups \cup {Path(s)}
        /\ \A p \in DOMAIN journal[s].fileBackups : q.fileBackups[p] = journal[s].fileBackups[p]
        /\ Path(s) \notin DOMAIN journal[s].fileBackups => q.fileBackups[Path(s)] = buffer[s]
        /\ q.writtenFiles = Append(journal[s].writtenFiles, Path(s))
        /\ q.restarted = journal[s].restarted
    <3>1. journal[s] \in Journal /\ buffer[s] \in Content
      BY JournalFacts DEF TypeOK
    <3>2. QED
      BY <1>4, <3>1, RecordFileWrittenIsJournal, SMTT(30)
  <2>2. updated[s] = journal[s].next
    BY FilesOf DEF TypeOK, Content
  <2> HIDE DEF updated, q
  <2>3. /\ journal'[s] = q /\ at'[s] = at[s] + 1 /\ pos'[s] = 1
        /\ pc'[s] = NextAfterFile(s, at[s])
        /\ prior'[s] = prior[s] /\ standing'[s] = standing[s]
    BY <1>1, <1>4, <1>5 DEF Goto, Note, TypeOK
  <2>4. /\ pc'[s] = "read_file" => at[s] < NFiles(s)
        /\ pc'[s] \in {"restart", "record_success"} => at[s] = NFiles(s)
        /\ pc'[s] = "record_success" => NContainers(s) = 0
        /\ pc'[s] \in {"read_file", "restart", "record_success"}
    BY <1>4, <2>3, FilesOf, ContainersAre DEF NextAfterFile, NFiles, NContainers
  <2>5. /\ Written(s)' = at[s]
        /\ \A i \in 1 .. at[s] : q.writtenFiles[i] = EnvFiles[s][i]
    <3>1. journal[s].writtenFiles \in Seq(Files)
      BY JournalFacts
    <3>2. Len(q.writtenFiles) = at[s]
      BY <1>4, <2>1, <3>1 DEF Written
    <3>3. \A i \in 1 .. at[s] - 1 : q.writtenFiles[i] = EnvFiles[s][i]
      BY <1>4, <2>1, <3>1 DEF Written, BookOK
    <3>4. q.writtenFiles[at[s]] = EnvFiles[s][at[s]]
      BY <1>4, <2>1, <3>1 DEF Written
    <3>5. QED
      BY <1>4, <2>3, <3>2, <3>3, <3>4 DEF Written
  <2>6. BookOK(s)'
    <3>1. /\ DOMAIN journal[s].fileBackups \subseteq Elements(EnvFiles[s])
          /\ journal[s].step >= StepRestarted => journal[s].restarted = ContainersOf[s]
          /\ journal[s].step >= StepGenerated /\ journal[s].next \in Nat
          /\ HasBackingService(s) => journal[s].step >= StepApplied
      BY <1>1 DEF BookOK
    <3>2. /\ q.step >= StepGenerated
          /\ q.step >= StepRestarted => journal[s].step >= StepRestarted
          /\ HasBackingService(s) => q.step >= StepApplied
      BY <2>1, <3>1, JournalFacts DEF advance, StepFilesUpdated, StepRestarted, StepGenerated, StepApplied
    <3>3. DOMAIN q.fileBackups \subseteq Elements(EnvFiles[s])
      BY <1>4, <2>1, <3>1
    <3>4. /\ q.next \in Nat /\ q.restarted = journal[s].restarted
          /\ at[s] <= NFiles(s) /\ at'[s] - 1 = at[s]
      BY <1>4, <2>1, <2>3, <3>1, FilesOf
    <3>5. QED
      BY <2>3, <2>4, <2>5, <3>1, <3>2, <3>3, <3>4 DEF BookOK
  <2>7. \A i \in 1 .. NFiles(s) :
          files'[EnvFiles[s][i]][s] = IF i = at[s] THEN journal[s].next ELSE files[EnvFiles[s][i]][s]
    BY <1>4, <1>5, <2>2, FilesOf DEF TypeOK
  <2>8. ForwardOK(s)'
    <3>1. \A i \in 1 .. at[s] : files'[EnvFiles[s][i]][s] = journal'[s].next
      <4>1. \A i \in 1 .. at[s] - 1 : files[EnvFiles[s][i]][s] = journal[s].next
        BY <1>1, <1>4 DEF ForwardOK, FilesHold
      <4>2. QED
        BY <1>4, <2>1, <2>3, <2>7, <4>1, FilesOf
    <3>2. ~Unproven(s) => ServiceHolds(s, journal[s].next)
      BY <1>1 DEF ForwardOK
    <3>3. FilesHold(s, 1, Written(s), journal[s].next)'
      BY <2>5, <3>1 DEF FilesHold
    <3>4. ~Unproven(s)' => ServiceHolds(s, journal[s].next)'
      BY <1>1, <2>1, <2>3, <3>2 DEF ServiceHolds, Unproven
    <3>5. QED
      BY <2>3, <2>4, <3>3, <3>4 DEF ForwardOK, ContainersHold
  <2>9. SettledOK(s)'
    <3>1. standing[s] = "settled" => \A p \in DOMAIN q.fileBackups : q.fileBackups[p][s] = prior[s]
      BY <1>2, <2>1
    <3>2. standing[s] = "settled" => FilesHold(s, Written(s) + 1, NFiles(s), prior[s])'
      <4>1. standing[s] = "settled" => \A i \in at[s] + 1 .. NFiles(s) : files'[EnvFiles[s][i]][s] = prior[s]
        BY <1>2, <1>4, <2>7 DEF FilesHold
      <4>2. QED
        BY <2>3, <2>5, <4>1 DEF FilesHold
    <3>3. QED
      BY <1>2, <1>3, <2>1, <2>3, <2>4, <3>1, <3>2 DEF SettledOK
  <2>10. ForeignOK(s)'
    <3>1. SUFFICES ASSUME NEW u \in Secrets, u # s, NEW f \in Elements(EnvFiles[u]),
                          f \in DOMAIN q.fileBackups
                   PROVE  q.fileBackups[f][u] = files'[f][u]
      BY <2>3, <2>4 DEF ForeignOK
    <3>2. PICK i \in 1 .. NFiles(u) : f = EnvFiles[u][i]
      BY FilesOf
    <3>3. files'[f][u] = files[f][u]
      BY <1>1, <3>1, <3>2, LeavesOthersUnharmed DEF Unharmed, Attempt
    <3>4. CASE f \in DOMAIN journal[s].fileBackups
      BY <2>1, <3>1, <3>3, <3>4 DEF ForeignOK
    <3>5. CASE f \notin DOMAIN journal[s].fileBackups
      <4>1. f = Path(s) /\ q.fileBackups[f] = buffer[s]
        BY <2>1, <3>1, <3>5
      <4>2. buffer[s][u] = files[f][u]
        BY <1>1, <3>1, <4>1 DEF ForeignOK
      <4>3. QED
        BY <3>3, <4>1, <4>2
    <3>6. QED
      BY <3>4, <3>5
  <2>11. QED
    BY <2>6, <2>8, <2>9, <2>10
<1>6. CASE Compensate(s) /\ UNCHANGED <<files, journal>>
  <2>1. PlansRestore(s)' \/ ServiceHolds(s, prior[s])'
    BY <1>1, <1>6, AppliedPlansRestore DEF ServiceHolds
  <2>2. standing[s] = "settled" => FilesHold(s, Written(s) + 1, NFiles(s), prior[s])'
    BY <1>1, <1>2, <1>6 DEF FilesHold, Written
  <2>3. /\ BookOK(s)' /\ ForwardOK(s)' /\ SettledOK(s)' /\ pc'[s] # "replace_file"
    BY <1>1, <1>2, <1>3, <1>6, <2>1, <2>2, CompensatesInOrder
  <2>4. QED
    BY <1>1, <1>6, <2>3, KeepsForeign DEF Attempt
<1>7. QED
  BY <1>5, <1>6 DEF ReplaceFile, updated, q

(* A failed restart or health check: every file has been written, and the  *)
(* plan restarts the containers.                                           *)
LEMMA RestartFailedInOrder ==
  ASSUME TypeOK, NEW s \in Secrets, SecretOK(s), RestartFailed(s),
         pc[s] \in {"restart", "wait_healthy"}, UNCHANGED <<files, prior, standing>>
  PROVE  /\ BookOK(s)' /\ ForwardOK(s)' /\ SettledOK(s)' /\ pc'[s] # "replace_file"
         /\ journal'[s].fileBackups = journal[s].fileBackups \/ DOMAIN journal'[s].fileBackups = {}
<1> USE DEF SecretOK
<1>1. standing'[s] = "settled" => /\ prior[s] # Absent /\ journal[s].previous = prior[s]
                                  /\ \A p \in DOMAIN journal[s].fileBackups :
                                       journal[s].fileBackups[p][s] = prior[s]
  BY DEF SettledOK
<1>2. journal'[s] = RecordRestarted(journal[s], ContainersOf[s]) /\ Compensate(s)
  BY DEF RestartFailed, Note, TypeOK
<1>3. NContainers(s) > 0
  <2>1. pos[s] \in DOMAIN ContainersOf[s]
    BY DEF TypeOK, IndicesOK
  <2>2. QED
    BY <2>1, ContainersAre
<1>4. PlansRestart(s)'
  BY <1>2, <1>3, RecordFacts DEF PlansRestart, NContainers
<1>5. Written(s) = NFiles(s) /\ Written(s)' = NFiles(s)
  BY <1>2, RecordFacts DEF BookOK, Written
<1>6. FilesHold(s, Written(s) + 1, NFiles(s), prior[s])'
  BY <1>5, FilesOf DEF FilesHold
<1>7. PlansRestore(s)' \/ ServiceHolds(s, prior[s])'
  BY AppliedPlansRestore DEF ServiceHolds, RestartFailed
<1>8. QED
  BY <1>1, <1>2, <1>4, <1>6, <1>7, CompensatesInOrder DEF RestartFailed

(* A container of s that starts takes the value that all files of s hold.  *)
LEMMA StartsWithHeldValue ==
  ASSUME TypeOK, Apart, NEW s \in Secrets, NEW k \in 1 .. NContainers(s), NEW v,
         LoadFrom(ContainersOf[s][k]),
         \A i \in 1 .. NFiles(s) : files[EnvFiles[s][i]][s] = v
  PROVE  \A i \in 1 .. NContainers(s) :
           i = k \/ loaded[ContainersOf[s][i]][s] = v => loaded'[ContainersOf[s][i]][s] = v
<1> DEFINE c == ContainersOf[s][k]
<1>1. c \in Containers /\ c \in Elements(ContainersOf[s])
  BY ContainersAre
<1>2. Reads[c][s] \in Elements(EnvFiles[s])
  BY <1>1 DEF Apart
<1>3. \A f \in Elements(EnvFiles[s]) : \E i \in 1 .. NFiles(s) : f = EnvFiles[s][i]
  BY FilesOf
<1>4. files[Reads[c][s]][s] = v
  <2>1. PICK i \in 1 .. NFiles(s) : Reads[c][s] = EnvFiles[s][i]
    BY ONLY <1>2, <1>3
  <2>2. QED
    BY <2>1
<1>5. loaded'[c][s] = v
  BY <1>1, <1>4 DEF LoadFrom, TypeOK
<1>6. \A d \in Containers : d # c => loaded'[d] = loaded[d]
  BY <1>1 DEF LoadFrom, TypeOK
<1>7. QED
  BY <1>5, <1>6, ContainersAre

LEMMA RestartContainerInOrder ==
  ASSUME TypeOK, Apart, NEW s \in Secrets, SecretOK(s), RestartContainer(s)
  PROVE  /\ BookOK(s)' /\ ForwardOK(s)' /\ SettledOK(s)' /\ pc'[s] # "replace_file"
         /\ journal'[s].fileBackups = journal[s].fileBackups \/ DOMAIN journal'[s].fileBackups = {}
<1> USE DEF SecretOK
<1>1. pc[s] = "restart" /\ UNCHANGED <<files, svc, prior, standing>>
  BY DEF RestartContainer, past
<1>2. CASE /\ LoadFrom(ContainersOf[s][pos[s]])
           /\ Goto(s, "wait_healthy") /\ UNCHANGED <<journal, at, pos>>
  <2>1. /\ pc'[s] = "wait_healthy" /\ pos'[s] = pos[s] /\ journal'[s] = journal[s]
        /\ Written(s)' = Written(s) /\ prior'[s] = prior[s] /\ standing'[s] = standing[s]
    BY <1>1, <1>2 DEF Goto, TypeOK, Written
  <2>2. pos[s] \in 1 .. NContainers(s) /\ NContainers(s) \in Nat
    BY <1>1, ContainersAre DEF TypeOK, IndicesOK
  <2>3. BookOK(s)'
    BY <1>1, <2>1 DEF BookOK
  <2>4. /\ Written(s) = NFiles(s)
        /\ \A i \in 1 .. NFiles(s) : files[EnvFiles[s][i]][s] = journal[s].next
        /\ \A i \in 1 .. pos[s] - 1 : loaded[ContainersOf[s][i]][s] = journal[s].next
        /\ ~Unproven(s) => ServiceHolds(s, journal[s].next)
    BY <1>1 DEF BookOK, ForwardOK, FilesHold, ContainersHold
  <2>5. \A i \in 1 .. pos[s] : loaded'[ContainersOf[s][i]][s] = journal[s].next
    <3>1. PICK n, k : n = journal[s].next /\ k = pos[s]
      OBVIOUS
    <3>2. \A i \in 1 .. NContainers(s) :
            i = k \/ loaded[ContainersOf[s][i]][s] = n => loaded'[ContainersOf[s][i]][s] = n
      <4>1. /\ k \in 1 .. NContainers(s)
            /\ LoadFrom(ContainersOf[s][k])
            /\ \A i \in 1 .. NFiles(s) : files[EnvFiles[s][i]][s] = n
        BY <1>2, <2>2, <2>4, <3>1
      <4>2. QED
        BY ONLY TypeOK, Apart, s \in Secrets, <4>1, StartsWithHeldValue
    <3>3. \A i \in 1 .. pos[s] : i = k \/ loaded[ContainersOf[s][i]][s] = n
      BY <2>2, <2>4, <3>1
    <3>4. QED
      BY <2>2, <3>1, <3>2, <3>3
  <2>6. ForwardOK(s)'
    BY <1>1, <2>1, <2>4, <2>5 DEF ForwardOK, FilesHold, ContainersHold, ServiceHolds, Unproven
  <2>7. SettledOK(s)'
    BY <1>1, <2>1 DEF SettledOK
  <2>8. QED
    BY <2>1, <2>3, <2>6, <2>7
<1>3. CASE RestartFailed(s)
  BY <1>1, <1>3, RestartFailedInOrder
<1>4. QED
  BY <1>2, <1>3 DEF RestartContainer

LEMMA WaitHealthyInOrder ==
  ASSUME TypeOK, NEW s \in Secrets, SecretOK(s), WaitHealthy(s)
  PROVE  /\ BookOK(s)' /\ ForwardOK(s)' /\ SettledOK(s)' /\ pc'[s] # "replace_file"
         /\ journal'[s].fileBackups = journal[s].fileBackups \/ DOMAIN journal'[s].fileBackups = {}
<1> USE DEF SecretOK
<1>1. pc[s] = "wait_healthy" /\ UNCHANGED <<world, prior, standing>>
  BY DEF WaitHealthy, past
<1>2. pos[s] \in 1 .. NContainers(s) /\ NContainers(s) \in Nat
  BY <1>1, ContainersAre DEF TypeOK, IndicesOK
<1>3. /\ Written(s) = NFiles(s)
      /\ FilesHold(s, 1, NFiles(s), journal[s].next)
      /\ ContainersHold(s, pos[s], journal[s].next)
      /\ ~Unproven(s) => ServiceHolds(s, journal[s].next)
  BY <1>1 DEF BookOK, ForwardOK
<1>4. PICK n : n = journal[s].next
  OBVIOUS
<1>5. /\ FilesHold(s, 1, NFiles(s), n)' /\ ContainersHold(s, pos[s], n)
      /\ ~Unproven(s) => ServiceHolds(s, n)'
  BY <1>1, <1>3, <1>4, SameWorld
<1>6. prior'[s] = prior[s] /\ standing'[s] = standing[s]
  BY <1>1
<1>7. CASE pos' = [pos EXCEPT ![s] = @ + 1] /\ Goto(s, "restart") /\ UNCHANGED <<journal, at>>
  <2>1. /\ pc'[s] = "restart" /\ pos'[s] = pos[s] + 1 /\ journal'[s] = journal[s] /\ Written(s)' = Written(s)
    BY <1>7 DEF Goto, TypeOK, Written
  <2>2. BookOK(s)'
    BY <1>1, <2>1 DEF BookOK
  <2>3. ContainersHold(s, pos[s] - 1, n)'
    <3>1. \A i \in 1 .. pos[s] : loaded'[ContainersOf[s][i]][s] = n
      BY <1>1, <1>5 DEF ContainersHold, world
    <3>2. pos'[s] - 1 = pos[s]
      BY <1>2, <2>1
    <3>3. QED
      BY <3>1, <3>2 DEF ContainersHold
  <2>4. ForwardOK(s)'
    BY <1>3, <1>4, <1>5, <2>1, <2>3 DEF ForwardOK, Unproven
  <2>5. SettledOK(s)'
    BY <1>1, <1>6, <2>1 DEF SettledOK
  <2>6. QED
    BY <2>1, <2>2, <2>4, <2>5
<1>8. CASE /\ pos[s] = Len(ContainersOf[s])
           /\ Note(s, RecordRestarted(journal[s], ContainersOf[s]))
           /\ Goto(s, "record_success")
  <2>1. /\ pc'[s] = "record_success"
        /\ journal'[s] = RecordRestarted(journal[s], ContainersOf[s])
    BY <1>8 DEF Goto, Note, TypeOK
  <2>2. Written(s)' = Written(s)
    BY <2>1, RecordFacts DEF Written
  <2>3. /\ DOMAIN journal[s].fileBackups \subseteq Elements(EnvFiles[s])
        /\ \A i \in 1 .. Written(s) : journal[s].writtenFiles[i] = EnvFiles[s][i]
        /\ journal[s].next \in Nat
    BY <1>1 DEF BookOK
  <2>4. BookOK(s)'
    BY <1>3, <2>1, <2>2, <2>3, RecordFacts, FilesOf
    DEF BookOK, StepRestarted, StepApplied, StepGenerated
  <2>5. ContainersHold(s, NContainers(s), n)'
    BY <1>1, <1>5, <1>8 DEF ContainersHold, NContainers, world
  <2>6. ForwardOK(s)'
    BY <1>3, <1>4, <1>5, <2>1, <2>2, <2>5, RecordFacts DEF ForwardOK, Unproven
  <2>7. SettledOK(s)'
    BY <1>1, <1>6, <2>1, RecordFacts DEF SettledOK
  <2>8. QED
    BY <2>1, <2>4, <2>6, <2>7, RecordFacts
<1>9. CASE RestartFailed(s)
  BY <1>1, <1>9, RestartFailedInOrder DEF world
<1>10. QED
  BY <1>7, <1>8, <1>9 DEF WaitHealthy

LEMMA RecordSuccessInOrder ==
  ASSUME TypeOK, NEW s \in Secrets, SecretOK(s), RecordSuccess(s)
  PROVE  /\ BookOK(s)' /\ ForwardOK(s)' /\ SettledOK(s)' /\ pc'[s] # "replace_file"
         /\ journal'[s].fileBackups = journal[s].fileBackups \/ DOMAIN journal'[s].fileBackups = {}
<1> USE DEF SecretOK
<1>1. pc[s] = "record_success" /\ UNCHANGED world /\ Return(s, "success")
  BY DEF RecordSuccess
<1>2. standing'[s] = IF Unproven(s) /\ svc[s] # journal[s].next THEN "deceived" ELSE "settled"
  BY DEF RecordSuccess, TypeOK
<1>3. ASSUME standing'[s] = "settled" PROVE AllHold(s, journal[s].next)
  <2>1. FilesHold(s, 1, NFiles(s), journal[s].next) /\ ContainersHold(s, NContainers(s), journal[s].next)
    BY <1>1 DEF BookOK, ForwardOK
  <2>2. ~Unproven(s) => ServiceHolds(s, journal[s].next)
    BY <1>1 DEF ForwardOK
  <2>3. Unproven(s) => svc[s] = journal[s].next
    BY <1>2, <1>3
  <2>4. QED
    BY <2>1, <2>2, <2>3 DEF AllHold, ServiceHolds
<1>4. journal[s].next # Absent
  BY <1>1 DEF BookOK, Absent
<1>5. standing'[s] = "settled" => Agreement(s)' # Absent
  BY <1>1, <1>3, <1>4, AllHoldAgree, SameWorld
<1>6. pc'[s] = "idle"
  BY <1>1 DEF Return, Goto, TypeOK
<1>7. QED
  BY <1>1, <1>5, <1>6, ReturnsInOrder

(* While an attempt compensates: what its journal and its plan are.        *)
LEMMA UndoFacts ==
  ASSUME TypeOK, NEW s \in Secrets, BookOK(s), pc[s] \in {"undo", "undo_wait"}
  PROVE  /\ journal[s].step >= StepGenerated /\ journal[s].next \in Nat
         /\ Written(s) \in 0 .. NFiles(s) /\ NFiles(s) \in Nat /\ NContainers(s) \in Nat
         /\ at[s] \in Nat \ {0} /\ pos[s] \in Nat \ {0}
         /\ PlansRestart(s) => journal[s].restarted = ContainersOf[s] /\ NContainers(s) > 0
         /\ RestartAt(s) = Written(s) + 1
         /\ RestoreAt(s) = IF PlansRestart(s) THEN Written(s) + 2 ELSE Written(s) + 1
<1>1. journal[s].step >= StepGenerated /\ journal[s].next \in Nat
  BY DEF BookOK
<1>2. PlansRestart(s) => journal[s].restarted = ContainersOf[s] /\ NContainers(s) > 0
  BY DEF BookOK, PlansRestart, NContainers
<1>3. QED
  BY <1>1, <1>2, JournalFacts DEF TypeOK, RestartAt, RestoreAt

(* The next undo action of s, when the world, as far as s goes, has been   *)
(* put back one action further.                                            *)
LEMMA UndoNextInOrder ==
  ASSUME TypeOK, NEW s \in Secrets, BookOK(s), SettledOK(s), NEW failed \in BOOLEAN,
         UndoNext(s, failed), pc[s] \in {"undo", "undo_wait"}, UNCHANGED <<journal, prior>>,
         standing'[s] = "settled" => standing[s] = "settled",
         standing'[s] = "settled" /\ ~failures[s] /\ ~failed =>
           /\ \A i \in 1 .. NFiles(s) :
                i <= at[s] \/ i > Written(s) => files'[EnvFiles[s][i]][s] = prior[s]
           /\ ~PlansRestart(s) \/ at[s] >= RestartAt(s) =>
                \A i \in 1 .. NContainers(s) : loaded'[ContainersOf[s][i]][s] = prior[s]
           /\ ~PlansRestore(s) \/ at[s] >= RestoreAt(s) =>
                (HasBackingService(s) => svc'[s] = prior[s])
  PROVE  /\ BookOK(s)' /\ ForwardOK(s)' /\ SettledOK(s)' /\ pc'[s] # "replace_file"
         /\ journal'[s].fileBackups = journal[s].fileBackups \/ DOMAIN journal'[s].fileBackups = {}
<1>1. /\ pc'[s] = "undo" /\ at'[s] = at[s] + 1 /\ pos'[s] = 1 /\ prior'[s] = prior[s]
      /\ journal'[s] = journal[s] /\ failures'[s] = (failures[s] \/ failed)
  BY DEF UndoNext, Goto, TypeOK
<1>2. /\ Written(s)' = Written(s) /\ PlansRestart(s)' = PlansRestart(s)
      /\ PlansRestore(s)' = PlansRestore(s)
      /\ RestartAt(s)' = RestartAt(s) /\ RestoreAt(s)' = RestoreAt(s)
  BY <1>1 DEF Written, PlansRestart, PlansRestore, RestartAt, RestoreAt
<1>3. BookOK(s)'
  BY <1>1, <1>2 DEF BookOK
<1>4. ForwardOK(s)'
  BY <1>1 DEF ForwardOK
<1>5. ASSUME standing'[s] = "settled", ~failures'[s] PROVE UndoneOK(s, prior[s])'
  <2>1. ~failures[s] /\ ~failed
    BY <1>1, <1>5
  <2>2. \A i \in 1 .. NFiles(s) : i < at'[s] \/ i > Written(s) => files'[EnvFiles[s][i]][s] = prior[s]
    BY <1>1, <1>5, <2>1, UndoFacts
  <2>3. ~PlansRestart(s) \/ at'[s] > RestartAt(s) => ContainersHold(s, NContainers(s), prior[s])'
    BY <1>1, <1>5, <2>1, UndoFacts DEF ContainersHold
  <2>4. ContainersHold(s, 0, prior[s])'
    BY DEF ContainersHold
  <2>5. ~PlansRestore(s) \/ at'[s] > RestoreAt(s) => ServiceHolds(s, prior[s])'
    BY <1>1, <1>5, <2>1, UndoFacts DEF ServiceHolds
  <2>6. QED
    BY <1>1, <1>2, <2>2, <2>3, <2>4, <2>5 DEF UndoneOK
<1>6. standing'[s] = "settled" => /\ prior[s] # Absent /\ journal[s].previous = prior[s]
                                  /\ \A p \in DOMAIN journal[s].fileBackups :
                                       journal[s].fileBackups[p][s] = prior[s]
  BY DEF SettledOK
<1>7. SettledOK(s)'
  BY <1>1, <1>5, <1>6 DEF SettledOK
<1>8. QED
  BY <1>1, <1>3, <1>4, <1>7
LEMMA UndoFileInOrder ==
  ASSUME TypeOK, NEW s \in Secrets, SecretOK(s), UndoFile(s)
  PROVE  /\ BookOK(s)' /\ ForwardOK(s)' /\ SettledOK(s)' /\ pc'[s] # "replace_file"
         /\ journal'[s].fileBackups = journal[s].fileBackups \/ DOMAIN journal'[s].fileBackups = {}
<1> USE DEF SecretOK
<1> DEFINE k == at[s]
           path == Plan(s)[k].path
           kept == journal[s].fileBackups[path]
<1>1. /\ pc[s] = "undo" /\ UNCHANGED <<svc, loaded, journal, prior, standing>>
      /\ k \in DOMAIN Plan(s) /\ Plan(s)[k].type = RestoreFile
  BY DEF UndoFile, Undoing, past
<1>2. /\ k \in 1 .. Written(s) /\ path = EnvFiles[s][k]
  <2>1. k \in 1 .. Written(s) /\ Plan(s)[k] = [type |-> RestoreFile, path |-> journal[s].writtenFiles[k]]
    <3>1. k \in Nat /\ k >= 1 /\ k <= Written(s) /\ Written(s) \in Nat
      BY <1>1, UndoFacts, PlanShape
    <3>2. k \in 1 .. Written(s)
      BY <3>1
    <3>3. QED
      BY <1>1, <3>2, UndoFacts, PlanShape
  <2>2. path = journal[s].writtenFiles[k]
    BY <2>1
  <2>3. QED
    BY <2>1, <2>2 DEF BookOK
<1>3. path \in DOMAIN journal[s].fileBackups
  <2>1. JournalOK(s, journal[s])
    BY DEF TypeOK
  <2>2. path \in Elements(journal[s].writtenFiles)
    BY <1>2, JournalFacts DEF BookOK, Elements, Written
  <2>3. QED
    BY <2>1, <2>2 DEF JournalOK
<1>4. standing[s] = "settled" /\ ~failures[s] =>
        /\ ~PlansRestart(s) => ContainersHold(s, NContainers(s), prior[s])
        /\ ~PlansRestore(s) => ServiceHolds(s, prior[s])
        /\ \A i \in 1 .. NFiles(s) : i < k \/ i > Written(s) => files[EnvFiles[s][i]][s] = prior[s]
  BY <1>1 DEF SettledOK, UndoneOK
<1>5. ~(k >= RestartAt(s)) /\ ~(k >= RestoreAt(s))
  BY <1>1, <1>2, UndoFacts
<1> HIDE DEF path
<1>6. CASE files' = [files EXCEPT ![path] = kept] /\ UndoNext(s, FALSE)
  <2>1. standing[s] = "settled" => kept[s] = prior[s]
    BY <1>1, <1>3 DEF SettledOK
  <2> HIDE DEF kept
  <2>2. ASSUME standing[s] = "settled", ~failures[s], NEW i \in 1 .. NFiles(s), i <= k \/ i > Written(s)
        PROVE  files'[EnvFiles[s][i]][s] = prior[s]
    <3>1. EnvFiles[s][i] \in Files
      BY FilesOf
    <3>2. CASE EnvFiles[s][i] = path
      BY <1>6, <2>1, <2>2, <3>1, <3>2 DEF TypeOK
    <3>3. CASE EnvFiles[s][i] # path
      <4>1. i # k
        BY <1>2, <3>3
      <4>2. files[EnvFiles[s][i]][s] = prior[s]
        BY <1>2, <1>4, <2>2, <4>1, UndoFacts, <1>1
      <4>3. QED
        BY <1>6, <3>1, <3>3, <4>2 DEF TypeOK
    <3>4. QED
      BY <3>2, <3>3
  <2>3. standing[s] = "settled" /\ ~failures[s] =>
          /\ ~PlansRestart(s) =>
                \A i \in 1 .. NContainers(s) : loaded'[ContainersOf[s][i]][s] = prior[s]
          /\ ~PlansRestore(s) => (HasBackingService(s) => svc'[s] = prior[s])
    BY <1>1, <1>4 DEF ContainersHold, ServiceHolds
  <2>4. QED
    BY <1>1, <1>5, <1>6, <2>2, <2>3, UndoNextInOrder
<1>7. CASE UndoNext(s, TRUE)
  BY <1>1, <1>7, UndoNextInOrder
<1>8. QED
  BY <1>6, <1>7 DEF UndoFile, path, kept

(* Every file is back before the first container restarts, so a container  *)
(* that starts takes the previous value.                                   *)
LEMMA UndoRestartInOrder ==
  ASSUME TypeOK, Apart, NEW s \in Secrets, SecretOK(s), UndoRestart(s)
  PROVE  /\ BookOK(s)' /\ ForwardOK(s)' /\ SettledOK(s)' /\ pc'[s] # "replace_file"
         /\ journal'[s].fileBackups = journal[s].fileBackups \/ DOMAIN journal'[s].fileBackups = {}
<1> USE DEF SecretOK
<1>1. /\ pc[s] = "undo" /\ UNCHANGED <<files, svc, journal, prior, standing>>
      /\ at[s] \in DOMAIN Plan(s) /\ Plan(s)[at[s]].type = RestartContainers
  BY DEF UndoRestart, Undoing, past
<1>2. PlansRestart(s) /\ at[s] = RestartAt(s) /\ at[s] = Written(s) + 1
  BY <1>1, UndoFacts, PlanShape
<1>3. pos[s] \in 1 .. NContainers(s) /\ pos[s] <= NContainers(s)
  <2>1. pos[s] = 1 \/ pos[s] <= NContainers(s)
    BY <1>1 DEF BookOK
  <2>2. pos[s] \in Nat /\ pos[s] >= 1 /\ NContainers(s) \in Nat /\ NContainers(s) > 0
    BY <1>1, <1>2, UndoFacts
  <2>3. QED
    BY <2>1, <2>2
<1>4. Plan(s)[at[s]].containers = ContainersOf[s]
  <2>1. Plan(s)[at[s]] = [type |-> RestartContainers, containers |-> ContainersOf[s]]
    BY <1>1, <1>2, UndoFacts, PlanShape
  <2>2. QED
    BY <2>1
<1>5. CASE /\ LoadFrom(ContainersOf[s][pos[s]])
           /\ Goto(s, "undo_wait") /\ UNCHANGED <<at, pos, failures>>
  <2>1. /\ pc'[s] = "undo_wait" /\ pos'[s] = pos[s] /\ at'[s] = at[s] /\ journal'[s] = journal[s]
        /\ failures'[s] = failures[s] /\ prior'[s] = prior[s] /\ standing'[s] = standing[s]
        /\ Written(s)' = Written(s) /\ PlansRestart(s)' = PlansRestart(s)
        /\ PlansRestore(s)' = PlansRestore(s)
        /\ RestartAt(s)' = RestartAt(s) /\ RestoreAt(s)' = RestoreAt(s)
    BY <1>1, <1>5 DEF Goto, TypeOK, Written, PlansRestart, PlansRestore, RestartAt, RestoreAt
  <2>2. BookOK(s)'
    BY <1>1, <1>2, <1>3, <2>1 DEF BookOK
  <2>3. ForwardOK(s)'
    BY <2>1 DEF ForwardOK
  <2>4. ASSUME standing[s] = "settled", ~failures[s] PROVE UndoneOK(s, prior[s])'
    <3>1. UndoneOK(s, prior[s])
      BY <1>1, <2>4 DEF SettledOK
    <3>2. \A i \in 1 .. NFiles(s) : files[EnvFiles[s][i]][s] = prior[s]
      BY <1>2, <3>1, UndoFacts, <1>1 DEF UndoneOK
    <3>3. \A i \in 1 .. pos[s] - 1 : loaded[ContainersOf[s][i]][s] = prior[s]
      BY <1>1, <1>2, <3>1 DEF UndoneOK, ContainersHold
    <3>4. PICK n, k : n = prior[s] /\ k = pos[s]
      OBVIOUS
    <3>5. \A i \in 1 .. NContainers(s) :
            i = k \/ loaded[ContainersOf[s][i]][s] = n => loaded'[ContainersOf[s][i]][s] = n
      BY <1>3, <1>5, <3>2, <3>4, StartsWithHeldValue
    <3>6. \A i \in 1 .. pos[s] : i \in 1 .. NContainers(s) /\ (i = k \/ loaded[ContainersOf[s][i]][s] = n)
      BY <1>3, <3>3, <3>4, UndoFacts, <1>1
    <3>7. \A i \in 1 .. pos[s] : loaded'[ContainersOf[s][i]][s] = prior[s]
      BY <3>4, <3>5, <3>6
    <3>8. ContainersHold(s, pos[s], prior[s])'
      BY <2>1, <3>7 DEF ContainersHold
    <3>9. ~(at[s] > RestartAt(s)) /\ ~(at[s] > RestoreAt(s))
      BY <1>1, <1>2, UndoFacts
    <3>10. ~PlansRestore(s) => ServiceHolds(s, prior[s])'
      BY <1>1, <2>1, <3>1 DEF UndoneOK, ServiceHolds
    <3>11. QED
      BY <1>1, <1>2, <2>1, <3>2, <3>8, <3>9, <3>10 DEF UndoneOK
  <2>5. standing[s] = "settled" => /\ prior[s] # Absent /\ journal[s].previous = prior[s]
                                   /\ \A p \in DOMAIN journal[s].fileBackups :
                                        journal[s].fileBackups[p][s] = prior[s]
    BY <1>1 DEF SettledOK
  <2>6. SettledOK(s)'
    BY <2>1, <2>4, <2>5 DEF SettledOK
  <2>7. QED
    BY <2>1, <2>2, <2>3, <2>6
<1>6. CASE UndoNext(s, TRUE)
  BY <1>1, <1>6, UndoNextInOrder
<1>7. QED
  BY <1>4, <1>5, <1>6 DEF UndoRestart

LEMMA UndoWaitHealthyInOrder ==
  ASSUME TypeOK, NEW s \in Secrets, SecretOK(s), UndoWaitHealthy(s)
  PROVE  /\ BookOK(s)' /\ ForwardOK(s)' /\ SettledOK(s)' /\ pc'[s] # "replace_file"
         /\ journal'[s].fileBackups = journal[s].fileBackups \/ DOMAIN journal'[s].fileBackups = {}
<1> USE DEF SecretOK
<1>1. pc[s] = "undo_wait" /\ UNCHANGED <<files, svc, loaded, journal, prior, standing>>
  BY DEF UndoWaitHealthy, world, past
<1>2. /\ PlansRestart(s) /\ at[s] = RestartAt(s) /\ at[s] = Written(s) + 1
      /\ pos[s] \in 1 .. NContainers(s) /\ NContainers(s) \in Nat
  <2>1. PlansRestart(s) /\ at[s] = RestartAt(s) /\ pos[s] <= NContainers(s)
    BY <1>1 DEF BookOK
  <2>2. QED
    BY <1>1, <2>1, UndoFacts
<1>3. Plan(s)[at[s]].containers = ContainersOf[s]
  <2>1. Plan(s)[at[s]] = [type |-> RestartContainers, containers |-> ContainersOf[s]]
    BY <1>1, <1>2, UndoFacts, PlanShape
  <2>2. QED
    BY <2>1
<1>4. standing[s] = "settled" /\ ~failures[s] =>
        /\ \A i \in 1 .. NFiles(s) : files[EnvFiles[s][i]][s] = prior[s]
        /\ \A i \in 1 .. pos[s] : loaded[ContainersOf[s][i]][s] = prior[s]
        /\ ~PlansRestore(s) => ServiceHolds(s, prior[s])
  <2>1. standing[s] = "settled" /\ ~failures[s] => UndoneOK(s, prior[s])
    BY <1>1 DEF SettledOK
  <2>2. QED
    BY <1>1, <1>2, <2>1, UndoFacts DEF UndoneOK, ContainersHold
<1>5. ~(at[s] > RestartAt(s)) /\ ~(at[s] >= RestoreAt(s))
  BY <1>1, <1>2, UndoFacts
<1>6. CASE /\ pos[s] < Len(ContainersOf[s])
           /\ pos' = [pos EXCEPT ![s] = @ + 1] /\ Goto(s, "undo") /\ UNCHANGED <<at, failures>>
  <2>1. /\ pc'[s] = "undo" /\ pos'[s] = pos[s] + 1 /\ at'[s] = at[s] /\ journal'[s] = journal[s]
        /\ failures'[s] = failures[s] /\ prior'[s] = prior[s] /\ standing'[s] = standing[s]
        /\ Written(s)' = Written(s) /\ PlansRestart(s)' = PlansRestart(s)
        /\ PlansRestore(s)' = PlansRestore(s)
        /\ RestartAt(s)' = RestartAt(s) /\ RestoreAt(s)' = RestoreAt(s)
    BY <1>1, <1>6 DEF Goto, TypeOK, Written, PlansRestart, PlansRestore, RestartAt, RestoreAt
  <2>2. pos'[s] <= NContainers(s) /\ pos'[s] - 1 = pos[s]
    BY <1>2, <1>6, <2>1 DEF NContainers
  <2>3. BookOK(s)'
    BY <1>1, <1>2, <2>1, <2>2 DEF BookOK
  <2>4. ForwardOK(s)'
    BY <2>1 DEF ForwardOK
  <2>5. ASSUME standing[s] = "settled", ~failures[s] PROVE UndoneOK(s, prior[s])'
    <3>1. \A i \in 1 .. pos'[s] - 1 : loaded'[ContainersOf[s][i]][s] = prior[s]
      BY <1>1, <1>4, <2>2, <2>5
    <3>2. ContainersHold(s, pos[s] - 1, prior[s])'
      BY <2>1, <3>1 DEF ContainersHold
    <3>3. \A i \in 1 .. NFiles(s) : files'[EnvFiles[s][i]][s] = prior[s]
      BY <1>1, <1>4, <2>5
    <3>4. ~PlansRestore(s) => ServiceHolds(s, prior[s])'
      BY <1>1, <1>4, <2>1, <2>5 DEF ServiceHolds
    <3>5. ~(at[s] > RestoreAt(s))
      BY <1>1, <1>2, UndoFacts
    <3>6. QED
      BY <1>2, <1>5, <2>1, <3>2, <3>3, <3>4, <3>5 DEF UndoneOK
  <2>6. standing[s] = "settled" => /\ prior[s] # Absent /\ journal[s].previous = prior[s]
                                   /\ \A p \in DOMAIN journal[s].fileBackups :
                                        journal[s].fileBackups[p][s] = prior[s]
    BY <1>1 DEF SettledOK
  <2>7. SettledOK(s)'
    BY <2>1, <2>5, <2>6 DEF SettledOK
  <2>8. QED
    BY <2>1, <2>3, <2>4, <2>7
<1>7. CASE pos[s] = Len(ContainersOf[s]) /\ UndoNext(s, FALSE)
  <2>1. pos[s] = NContainers(s)
    BY <1>7 DEF NContainers
  <2>2. standing[s] = "settled" /\ ~failures[s] =>
          /\ \A i \in 1 .. NFiles(s) : files'[EnvFiles[s][i]][s] = prior[s]
          /\ \A i \in 1 .. NContainers(s) : loaded'[ContainersOf[s][i]][s] = prior[s]
          /\ ~PlansRestore(s) => (HasBackingService(s) => svc'[s] = prior[s])
    BY <1>1, <1>4, <2>1 DEF ServiceHolds
  <2>3. QED
    BY <1>1, <1>5, <1>7, <2>2, UndoNextInOrder
<1>8. CASE UndoNext(s, TRUE)
  BY <1>1, <1>8, UndoNextInOrder
<1>9. QED
  BY <1>3, <1>6, <1>7, <1>8 DEF UndoWaitHealthy

LEMMA UndoCredentialInOrder ==
  ASSUME TypeOK, NEW s \in Secrets, SecretOK(s), UndoCredential(s)
  PROVE  /\ BookOK(s)' /\ ForwardOK(s)' /\ SettledOK(s)' /\ pc'[s] # "replace_file"
         /\ journal'[s].fileBackups = journal[s].fileBackups \/ DOMAIN journal'[s].fileBackups = {}
<1> USE DEF SecretOK
<1>1. /\ pc[s] = "undo" /\ UNCHANGED <<files, loaded, journal, prior>>
      /\ at[s] \in DOMAIN Plan(s) /\ Plan(s)[at[s]].type = RestoreCredential
  BY DEF UndoCredential, Undoing
<1>2. PlansRestore(s) /\ at[s] = RestoreAt(s)
  BY <1>1, UndoFacts, PlanShape
<1>3. standing[s] = "settled" /\ ~failures[s] =>
        /\ \A i \in 1 .. NFiles(s) : i < at[s] \/ i > Written(s) => files[EnvFiles[s][i]][s] = prior[s]
        /\ ~PlansRestart(s) \/ at[s] > RestartAt(s) => ContainersHold(s, NContainers(s), prior[s])
  BY <1>1 DEF SettledOK, UndoneOK
<1>4. at[s] > Written(s) /\ (PlansRestart(s) => at[s] > RestartAt(s))
  BY <1>1, <1>2, UndoFacts
<1>5. standing[s] = "settled" /\ ~failures[s] =>
        /\ \A i \in 1 .. NFiles(s) : files'[EnvFiles[s][i]][s] = prior[s]
        /\ \A i \in 1 .. NContainers(s) : loaded'[ContainersOf[s][i]][s] = prior[s]
  BY <1>1, <1>3, <1>4, UndoFacts DEF ContainersHold
<1>6. standing'[s] = "settled" => standing[s] = "settled"
  BY DEF UndoCredential, TypeOK
<1>7. CASE svc' = [svc EXCEPT ![s] = journal[s].previous] /\ UndoNext(s, FALSE)
  <2>1. standing[s] = "settled" => svc'[s] = prior[s]
    BY <1>1, <1>7, FilesOf DEF SettledOK, TypeOK
  <2>2. QED
    BY <1>1, <1>5, <1>6, <1>7, <2>1, UndoNextInOrder
<1>8. CASE standing' = [standing EXCEPT ![s] = "deceived"] /\ UndoNext(s, FALSE)
  <2>1. standing'[s] # "settled"
    BY <1>8 DEF TypeOK
  <2>2. QED
    BY <1>1, <1>8, <2>1, UndoNextInOrder
<1>9. CASE UndoNext(s, TRUE)
  BY <1>1, <1>6, <1>9, UndoNextInOrder
<1>10. QED
  BY <1>7, <1>8, <1>9 DEF UndoCredential

(* Past the end of the plan everything has been put back.                  *)
LEMMA UndoDoneInOrder ==
  ASSUME TypeOK, NEW s \in Secrets, SecretOK(s), UndoDone(s)
  PROVE  /\ BookOK(s)' /\ ForwardOK(s)' /\ SettledOK(s)' /\ pc'[s] # "replace_file"
         /\ journal'[s].fileBackups = journal[s].fileBackups \/ DOMAIN journal'[s].fileBackups = {}
<1> USE DEF SecretOK
<1>1. /\ pc[s] = "undo" /\ pc'[s] = "record_failure" /\ at[s] \notin DOMAIN Plan(s)
      /\ UNCHANGED <<world, journal, prior, standing, failures>>
  BY DEF UndoDone, Goto, TypeOK, local, past
<1>2. /\ at[s] \in Nat \ {0} /\ at[s] > Written(s)
      /\ PlansRestart(s) => at[s] > RestartAt(s)
      /\ PlansRestore(s) => at[s] > RestoreAt(s)
  <2>1. at[s] \in Nat \ {0} /\ journal[s].step >= StepGenerated
    BY <1>1, UndoFacts
  <2>2. QED
    BY <1>1, <2>1, PlanShape
<1>3. ASSUME standing[s] = "settled", ~failures[s] PROVE AllHold(s, prior[s])
  <2>1. UndoneOK(s, prior[s])
    BY <1>1, <1>3 DEF SettledOK
  <2>2. FilesHold(s, 1, NFiles(s), prior[s])
    BY <1>1, <1>2, <2>1, UndoFacts DEF UndoneOK, FilesHold
  <2>3. QED
    BY <1>2, <2>1, <2>2 DEF UndoneOK, AllHold
<1>4. /\ prior'[s] = prior[s] /\ standing'[s] = standing[s] /\ failures'[s] = failures[s]
      /\ journal'[s] = journal[s]
  BY <1>1
<1>5. standing[s] = "settled" /\ ~failures[s] => AllHold(s, prior[s])'
  BY <1>1, <1>3, <1>4, SameWorld
<1>6. BookOK(s)'
  BY <1>1, <1>4 DEF BookOK, Written
<1>7. ForwardOK(s)'
  BY <1>1 DEF ForwardOK
<1>8. SettledOK(s)'
  BY <1>1, <1>4, <1>5 DEF SettledOK
<1>9. QED
  BY <1>1, <1>6, <1>7, <1>8

LEMMA RecordFailureInOrder ==
  ASSUME TypeOK, NEW s \in Secrets, SecretOK(s), RecordFailure(s)
  PROVE  /\ BookOK(s)' /\ ForwardOK(s)' /\ SettledOK(s)' /\ pc'[s] # "replace_file"
         /\ journal'[s].fileBackups = journal[s].fileBackups \/ DOMAIN journal'[s].fileBackups = {}
<1> USE DEF SecretOK
<1>1. /\ pc[s] = "record_failure" /\ UNCHANGED world
      /\ \E outcome : Return(s, outcome)
  BY DEF RecordFailure
<1>2. standing'[s] = "settled" => standing[s] = "settled" /\ ~failures[s]
  BY DEF RecordFailure, TypeOK
<1>3. standing[s] = "settled" /\ ~failures[s] => prior[s] # Absent /\ AllHold(s, prior[s])
  BY <1>1 DEF SettledOK
<1>4. standing'[s] = "settled" => Agreement(s)' # Absent
  BY <1>1, <1>2, <1>3, AllHoldAgree, SameWorld
<1>5. pc'[s] = "idle"
  BY <1>1 DEF Return, Goto, TypeOK
<1>6. QED
  BY <1>1, <1>4, <1>5, ReturnsInOrder

(* A step of the attempt at t keeps the whole invariant.                   *)
LEMMA AttemptAccountable ==
  ASSUME TypeOK, Apart, AttemptsAccountable, NEW t \in Secrets, Attempt(t)
  PROVE  AttemptsAccountable'
<1> USE DEF AttemptsAccountable
<1>1. pc[t] # "idle"
  BY DEF Attempt, Resolve, OpenPrimary, Generate, Apply, Verify, ReadFile, ReplaceFile,
     RestartContainer, WaitHealthy, RecordSuccess, UndoFile, UndoRestart, UndoWaitHealthy,
     UndoCredential, UndoDone, RecordFailure, Undoing
<1>2. BookOK(t) /\ ForwardOK(t) /\ SettledOK(t) /\ ForeignOK(t)
  BY DEF SecretOK
<1>3. ASSUME NEW s \in Secrets, s # t PROVE SecretOK(s)'
  <2>1. LocalsKept(s) /\ Unharmed(s)
    BY <1>1, <1>2, <1>3, TouchesOwnLocals, LeavesOthersUnharmed
  <2>2. BookOK(s) /\ ForwardOK(s) /\ SettledOK(s) /\ ForeignOK(s)
    BY DEF SecretOK
  <2>3. BookOK(s)' /\ ForwardOK(s)' /\ SettledOK(s)'
    BY <2>1, <2>2, OtherKeepsBook, OtherKeepsForward, OtherKeepsSettled
  <2>4. ForeignOK(s)'
    BY <1>1, <1>2, <1>3, <2>2, OtherKeepsForeign
  <2>5. QED
    BY <2>3, <2>4 DEF SecretOK
<1>4. SecretOK(t)'
  <2>1. CASE OpenPrimary(t) \/ ReadFile(t) \/ ReplaceFile(t)
    BY <2>1, OpenPrimaryInOrder, ReadFileInOrder, ReplaceFileInOrder DEF SecretOK
  <2>2. CASE ~(OpenPrimary(t) \/ ReadFile(t) \/ ReplaceFile(t))
    <3>1. /\ BookOK(t)' /\ ForwardOK(t)' /\ SettledOK(t)' /\ pc'[t] # "replace_file"
          /\ journal'[t].fileBackups = journal[t].fileBackups \/ DOMAIN journal'[t].fileBackups = {}
      BY <2>2, ResolveInOrder, GenerateInOrder, ApplyInOrder, VerifyInOrder,
         RestartContainerInOrder, WaitHealthyInOrder, RecordSuccessInOrder,
         UndoFileInOrder, UndoRestartInOrder, UndoWaitHealthyInOrder,
         UndoCredentialInOrder, UndoDoneInOrder, RecordFailureInOrder DEF Attempt
    <3>2. ForeignOK(t)'
      BY <1>1, <1>2, <3>1, KeepsForeign
    <3>3. QED
      BY <3>1, <3>2 DEF SecretOK
  <2>3. QED
    BY <2>1, <2>2
<1>5. OneAtATime'
  <2>1. \A s \in Secrets : s # t => pc'[s] = pc[s]
    BY TouchesOwnLocals DEF LocalsKept
  <2>2. QED
    BY <1>1, <2>1 DEF OneAtATime
<1>6. QED
  BY <1>3, <1>4, <1>5

(* A step that moves nothing the invariant looks at.                       *)
LEMMA StutterAccountable ==
  ASSUME AttemptsAccountable, UNCHANGED <<world, pc, local, standing, prior>>
  PROVE  AttemptsAccountable'
<1>1. ASSUME NEW s \in Secrets PROVE SecretOK(s)'
  <2>1. BookOK(s) /\ ForwardOK(s) /\ SettledOK(s) /\ ForeignOK(s)
    BY DEF AttemptsAccountable, SecretOK
  <2>2. BookOK(s)'
    BY <2>1 DEF BookOK, Written, PlansRestart, RestartAt, local
  <2>3. ForwardOK(s)'
    BY <2>1 DEF ForwardOK, FilesHold, ContainersHold, ServiceHolds, Written, Unproven, local, world
  <2>4. ForeignOK(s)'
    BY <2>1 DEF ForeignOK, Path, local, world
  <2>5. SettledOK(s)'
    BY <2>1 DEF SettledOK, UndoneOK, AllHold, FilesHold, ContainersHold, ServiceHolds, Written,
       PlansRestart, PlansRestore, RestartAt, RestoreAt, Agreement, FilesAgree, ContainersAgree,
       InForce, local, world
  <2>6. QED
    BY <2>2, <2>3, <2>4, <2>5 DEF SecretOK
<1>2. OneAtATime'
  BY DEF AttemptsAccountable, OneAtATime
<1>3. QED
  BY <1>1, <1>2 DEF AttemptsAccountable

LEMMA BeginAccountable ==
  ASSUME TypeOK, AttemptsAccountable, NEW t \in Secrets, Begin(t)
  PROVE  AttemptsAccountable'
<1>1. /\ pc[t] = "idle" /\ pc'[t] = "resolve" /\ prior'[t] = Agreement(t)
      /\ UNCHANGED <<world, local, standing>>
      /\ \A s \in Secrets : s # t => pc'[s] = pc[s] /\ prior'[s] = prior[s]
  BY DEF Begin, Goto, TypeOK
<1>2. ASSUME NEW s \in Secrets PROVE SecretOK(s)'
  <2>1. BookOK(s) /\ ForwardOK(s) /\ SettledOK(s) /\ ForeignOK(s)
    BY DEF AttemptsAccountable, SecretOK
  <2>2. BookOK(s)'
    BY <1>1, <2>1 DEF BookOK, Written, PlansRestart, RestartAt, local
  <2>3. ForwardOK(s)'
    BY <1>1, <2>1 DEF ForwardOK, FilesHold, ContainersHold, ServiceHolds, Written, Unproven, local, world
  <2>4. ForeignOK(s)'
    BY <1>1, <2>1 DEF ForeignOK, Path, local, world
  <2>5. CASE s = t
    <3>1. standing[t] = "settled" => prior'[t] # Absent /\ AllHold(t, prior'[t])
      BY <1>1, <2>1, <2>5, AgreeAllHold DEF SettledOK
    <3>2. standing[t] = "settled" => AllHold(t, prior[t])'
      BY <1>1, <3>1, SameWorld
    <3>3. SettledOK(t)'
      BY <1>1, <3>1, <3>2 DEF SettledOK
    <3>4. QED
      BY <2>2, <2>3, <2>4, <2>5, <3>3 DEF SecretOK
  <2>6. CASE s # t
    <3>1. SettledOK(s)'
      BY <1>1, <2>1, <2>6
      DEF SettledOK, UndoneOK, AllHold, FilesHold, ContainersHold, ServiceHolds, Written,
       PlansRestart, PlansRestore, RestartAt, RestoreAt, Agreement, FilesAgree, ContainersAgree,
       InForce, local, world
    <3>2. QED
      BY <2>2, <2>3, <2>4, <3>1 DEF SecretOK
  <2>7. QED
    BY <2>5, <2>6
<1>3. OneAtATime'
  BY <1>1 DEF Begin, AttemptsAccountable, OneAtATime
<1>4. QED
  BY <1>2, <1>3 DEF AttemptsAccountable

LEMMA CrashAccountable ==
  ASSUME TypeOK, AttemptsAccountable, Crash
  PROVE  AttemptsAccountable'
<1>1. ASSUME NEW s \in Secrets PROVE SecretOK(s)'
  <2>1. pc'[s] = "idle" /\ journal'[s] = BeginRotation
    BY DEF Crash
  <2>2. /\ DOMAIN BeginRotation.fileBackups = {}
        /\ Len(BeginRotation.writtenFiles) = 0
        /\ ~(BeginRotation.step >= StepRestarted)
    BY DEF BeginRotation, StepPending, StepRestarted
  <2>3. BookOK(s)'
    BY <2>1, <2>2, FilesOf DEF BookOK, Written
  <2>4. ForwardOK(s)' /\ ForeignOK(s)'
    BY <2>1, <2>2 DEF ForwardOK, ForeignOK
  <2>5. standing'[s] = "settled" => pc[s] = "idle" /\ standing[s] = "settled"
    BY DEF Crash
  <2>6. SettledOK(s)
    BY DEF AttemptsAccountable, SecretOK
  <2>7. Agreement(s)' = Agreement(s)
    BY SameWorld DEF Crash
  <2>8. SettledOK(s)'
    BY <2>1, <2>5, <2>6, <2>7 DEF SettledOK
  <2>9. QED
    BY <2>3, <2>4, <2>8 DEF SecretOK
<1>2. OneAtATime'
  BY DEF Crash, OneAtATime
<1>3. QED
  BY <1>1, <1>2 DEF AttemptsAccountable

LEMMA InitAccountable ==
  ASSUME Init
  PROVE  AttemptsAccountable
<1>1. ASSUME NEW s \in Secrets PROVE SecretOK(s)
  <2>1. pc[s] = "idle" /\ journal[s] = BeginRotation
    BY DEF Init
  <2>2. /\ DOMAIN BeginRotation.fileBackups = {}
        /\ Len(BeginRotation.writtenFiles) = 0
        /\ ~(BeginRotation.step >= StepRestarted)
    BY DEF BeginRotation, StepPending, StepRestarted
  <2>3. BookOK(s)
    BY <2>1, <2>2, FilesOf DEF BookOK, Written
  <2>4. ForwardOK(s) /\ ForeignOK(s)
    BY <2>1, <2>2 DEF ForwardOK, ForeignOK
  <2>5. standing[s] = IF Agreement(s) = 0 THEN "settled" ELSE "inherited"
    BY DEF Init
  <2>6. SettledOK(s)
    BY <2>1, <2>5 DEF SettledOK, Absent
  <2>7. QED
    BY <2>3, <2>4, <2>6 DEF SecretOK
<1>2. OneAtATime
  BY DEF Init, OneAtATime
<1>3. QED
  BY <1>1, <1>2 DEF AttemptsAccountable

-----------------------------------------------------------------------------
(* Part 5: the theorem.                                                    *)

(* The inductive invariant holds, whatever fails in whatever order.        *)
THEOREM AccountabilityKept ==
  ASSUME Apart
  PROVE  Spec => []AttemptsAccountable
<1>1. Init => AttemptsAccountable
  BY InitAccountable
<1>2. TypeOK /\ AttemptsAccountable /\ [Next]_vars => AttemptsAccountable'
  <2> SUFFICES ASSUME TypeOK, AttemptsAccountable, [Next]_vars
               PROVE  AttemptsAccountable'
    OBVIOUS
  <2>1. ASSUME NEW s \in Secrets, Begin(s) PROVE AttemptsAccountable'
    BY <2>1, BeginAccountable
  <2>2. ASSUME NEW s \in Secrets, Expire(s) PROVE AttemptsAccountable'
    BY <2>2, StutterAccountable DEF Expire, past
  <2>3. ASSUME NEW s \in Secrets, Attempt(s) PROVE AttemptsAccountable'
    BY <2>3, AttemptAccountable
  <2>4. CASE Crash
    BY <2>4, CrashAccountable
  <2>5. CASE Rest \/ UNCHANGED vars
    BY <2>5, StutterAccountable DEF Rest, vars, past
  <2>6. QED
    BY <2>1, <2>2, <2>3, <2>4, <2>5 DEF Next
<1>3. QED
  BY <1>1, <1>2, TypeCorrect, PTL DEF Spec

(* Execute never leaves a secret half rotated without saying so.  Where    *)
(* overlapping attempts share neither files nor containers, whatever fails *)
(* in whatever order, and however many secrets, files and containers there *)
(* are: a secret between attempts, with no rollback failure reported, no   *)
(* crash in an attempt and no service that lied, has one value that its    *)
(* service, every one of its files and every one of its containers hold.   *)
THEOREM AgreementKept ==
  ASSUME Apart
  PROVE  Spec => []AgreedUnlessReported
<1>1. AttemptsAccountable => AgreedUnlessReported
  BY DEF AttemptsAccountable, SecretOK, SettledOK, AgreedUnlessReported
<1>2. QED
  BY <1>1, AccountabilityKept, PTL

=============================================================================
