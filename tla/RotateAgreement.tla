--------------------------- MODULE RotateAgreement ---------------------------
(***************************************************************************)
(* Why AgreedUnlessReported, RotatesAtomically and NewValueIsAccepted hold:*)
(* the invariants that are inductive.                                      *)
(*                                                                         *)
(* It follows one secret through an attempt.  The bookkeeping says what    *)
(* the journal has recorded at each point of the pipeline; the forward     *)
(* part, which files, containers and service already carry the new value;  *)
(* the backward part, which of them still carry, or carry again, the value *)
(* from before; the foreign part, that an attempt that replaces or         *)
(* restores a whole file puts the other secrets' entries back as they are. *)
(*                                                                         *)
(* The last part is why the hypothesis Apart is needed: run shared_env_file*)
(* shows what two overlapping attempts do to a file they share.            *)
(***************************************************************************)
EXTENDS RotateSecret

NFiles(s)      == Len(EnvFiles[s])
NContainers(s) == Len(ContainersOf[s])
Written(s)     == Len(journal[s].writtenFiles)

(* Attempts never overlap, or distinct secrets share no file and no        *)
(* container; and a container takes a secret's value from one of the files *)
(* that the secret lists.                                                  *)
Apart ==
  /\ \/ ~MayOverlap
     \/ \A s, t \in Secrets :
          s # t => /\ Elements(EnvFiles[s]) \cap Elements(EnvFiles[t]) = {}
                   /\ Elements(ContainersOf[s]) \cap Elements(ContainersOf[t]) = {}
  /\ \A s \in Secrets : \A c \in Elements(ContainersOf[s]) :
       Reads[c][s] \in Elements(EnvFiles[s])

FilesHold(s, from, to, v)   == \A i \in from .. to : files[EnvFiles[s][i]][s] = v
ContainersHold(s, upTo, v)  == \A i \in 1 .. upTo : loaded[ContainersOf[s][i]][s] = v
ServiceHolds(s, v)          == HasBackingService(s) => svc[s] = v

AllHold(s, v) ==
  /\ FilesHold(s, 1, NFiles(s), v)
  /\ ContainersHold(s, NContainers(s), v)
  /\ ServiceHolds(s, v)

\* Does the plan of s restart containers, and does it restore the credential?
PlansRestart(s) == journal[s].step >= StepRestarted /\ Len(journal[s].restarted) > 0
PlansRestore(s) == journal[s].step >= StepApplied /\ HasBackingService(s)

\* Where in the plan of s the restart stands, and where the restore does.
RestartAt(s) == Written(s) + 1
RestoreAt(s) == IF PlansRestart(s) THEN Written(s) + 2 ELSE Written(s) + 1

-----------------------------------------------------------------------------
(* Bookkeeping: the written files are the first ones of the configured     *)
(* sequence, only files of the secret have backups, and what the journal   *)
(* has recorded is what the pipeline has reached.                          *)
BookOK(s) ==
  LET j == journal[s]
  IN  /\ DOMAIN j.fileBackups \subseteq Elements(EnvFiles[s])
      /\ Written(s) <= NFiles(s)
      /\ \A i \in 1 .. Written(s) : j.writtenFiles[i] = EnvFiles[s][i]
      /\ pc[s] \in {"idle", "resolve", "open"} => j = BeginRotation
      /\ pc[s] \in {"generate", "apply", "verify"} => Written(s) = 0
      /\ pc[s] \in {"read_file", "replace_file"} => Written(s) = at[s] - 1
      /\ pc[s] \in {"restart", "wait_healthy", "record_success"} => Written(s) = NFiles(s)
      /\ pc[s] \notin {"idle", "resolve", "open", "generate"} =>
           j.step >= StepGenerated /\ j.next \in Nat
      /\ pc[s] = "apply" => HasBackingService(s)
      /\ pc[s] \in {"verify", "read_file", "replace_file", "restart", "wait_healthy", "record_success"}
           /\ HasBackingService(s) => j.step >= StepApplied
      /\ j.step >= StepRestarted => j.restarted = ContainersOf[s]
      /\ pc[s] = "undo" =>
           pos[s] = 1 \/ (PlansRestart(s) /\ at[s] = RestartAt(s) /\ pos[s] <= NContainers(s))
      /\ pc[s] = "undo_wait" =>
           PlansRestart(s) /\ at[s] = RestartAt(s) /\ pos[s] <= NContainers(s)

\* Going forward, whatever the secret's standing.
ForwardOK(s) ==
  /\ pc[s] \in {"read_file", "replace_file", "restart", "wait_healthy", "record_success"} =>
       /\ FilesHold(s, 1, Written(s), journal[s].next)
       /\ ~Unproven(s) => ServiceHolds(s, journal[s].next)
  /\ pc[s] = "restart"        => ContainersHold(s, pos[s] - 1, journal[s].next)
  /\ pc[s] = "wait_healthy"   => ContainersHold(s, pos[s], journal[s].next)
  /\ pc[s] = "record_success" => ContainersHold(s, NContainers(s), journal[s].next)

\* How far the undo actions have put the value v back.
UndoneOK(s, v) ==
  /\ \A i \in 1 .. NFiles(s) :
       i < at[s] \/ i > Written(s) => files[EnvFiles[s][i]][s] = v
  /\ ~PlansRestart(s) \/ at[s] > RestartAt(s) => ContainersHold(s, NContainers(s), v)
  /\ PlansRestart(s) /\ at[s] = RestartAt(s) =>
       ContainersHold(s, IF pc[s] = "undo_wait" THEN pos[s] ELSE pos[s] - 1, v)
  /\ ~PlansRestore(s) \/ at[s] > RestoreAt(s) => ServiceHolds(s, v)

\* Going back, for a secret whose standing excuses nothing.
SettledOK(s) ==
  LET j == journal[s]
      v == prior[s]
  IN  standing[s] = "settled" =>
        /\ pc[s] = "idle" => Agreement(s) # Absent
        /\ pc[s] # "idle" => v # Absent
        /\ pc[s] \in {"resolve", "open", "generate", "apply"} => AllHold(s, v)
        /\ pc[s] \notin {"idle", "resolve", "open"} =>
             /\ j.previous = v
             /\ \A p \in DOMAIN j.fileBackups : j.fileBackups[p][s] = v
        /\ pc[s] \in {"verify", "read_file", "replace_file"} =>
             /\ FilesHold(s, Written(s) + 1, NFiles(s), v)
             /\ ContainersHold(s, NContainers(s), v)
        /\ pc[s] = "replace_file" => buffer[s][s] = v
        /\ pc[s] \in {"undo", "undo_wait"} /\ ~failures[s] => UndoneOK(s, v)
        /\ pc[s] = "record_failure" /\ ~failures[s] => AllHold(s, v)

(* What an attempt at t would put into the entry of another secret s.      *)
ForeignOK(t) ==
  \A s \in Secrets \ {t} : \A f \in Elements(EnvFiles[s]) :
    /\ pc[t] = "replace_file" /\ f = Path(t) => buffer[t][s] = files[f][s]
    /\ f \in DOMAIN journal[t].fileBackups => journal[t].fileBackups[f][s] = files[f][s]

\* One attempt at a time, where attempts do not overlap.
OneAtATime ==
  MayOverlap \/ \A s, t \in Secrets : pc[s] # "idle" /\ pc[t] # "idle" => s = t

SecretOK(s) == BookOK(s) /\ ForwardOK(s) /\ SettledOK(s) /\ ForeignOK(s)

(* The inductive invariant behind AgreedUnlessReported.                    *)
AttemptsAccountable == OneAtATime /\ \A s \in Secrets : SecretOK(s)

-----------------------------------------------------------------------------
(* What every attempt generates is new: no party of the secret holds, and  *)
(* none held when the attempt began, what it is about to introduce.        *)
FreshOK(s) ==
  /\ standing[s] = "settled" =>
       IF pc[s] = "idle" THEN Agreement(s) <= attempts[s] ELSE prior[s] < attempts[s]
  /\ pc[s] \notin {"idle", "resolve", "open", "generate"} => journal[s].next = attempts[s]

(* With AttemptsAccountable, the invariant behind RotatesAtomically.       *)
ValuesFresh == \A s \in Secrets : FreshOK(s)
-----------------------------------------------------------------------------
(* Why NewValueIsAccepted holds: the order in which an attempt introduces  *)
(* its value and takes it back.  A value is old if an earlier attempt than *)
(* the one in flight introduced it.                                        *)
FilesOld(s, from, to)   == \A i \in from .. to : files[EnvFiles[s][i]][s] < attempts[s]
ContainersOld(s, upTo)  == \A i \in 1 .. upTo : loaded[ContainersOf[s][i]][s] < attempts[s]
HoldersOld(s)           == FilesOld(s, 1, NFiles(s)) /\ ContainersOld(s, NContainers(s))

\* No file and no container of s is ahead of the attempts at s.
NoneAhead(s) ==
  /\ \A i \in 1 .. NFiles(s) : files[EnvFiles[s][i]][s] <= attempts[s]
  /\ \A i \in 1 .. NContainers(s) : loaded[ContainersOf[s][i]][s] <= attempts[s]

\* How far the undo actions have taken the new value back.
UndoneOld(s) ==
  /\ \A i \in 1 .. NFiles(s) :
       i < at[s] \/ i > Written(s) => files[EnvFiles[s][i]][s] < attempts[s]
  /\ ~PlansRestart(s) \/ at[s] > RestartAt(s) => ContainersOld(s, NContainers(s))
  /\ PlansRestart(s) /\ at[s] = RestartAt(s) =>
       ContainersOld(s, IF pc[s] = "undo_wait" THEN pos[s] ELSE pos[s] - 1)

\* The service accepts the new value, or nothing carries it any more.
AcceptedOrGone(s) ==
  HasBackingService(s) /\ ~Unproven(s) => svc[s] = journal[s].next \/ HoldersOld(s)

OrderOK(s) ==
  /\ NoneAhead(s)
  /\ pc[s] \in {"resolve", "open", "generate", "apply", "verify"} => HoldersOld(s)
  /\ pc[s] = "generate" => journal[s].next = Absent
  /\ pc[s] \in {"read_file", "replace_file"} =>
       FilesOld(s, Written(s) + 1, NFiles(s)) /\ ContainersOld(s, NContainers(s))
  /\ pc[s] = "replace_file" => buffer[s][s] < attempts[s]
  /\ pc[s] \notin {"idle", "resolve", "open"} =>
       \A p \in DOMAIN journal[s].fileBackups : journal[s].fileBackups[p][s] < attempts[s]
  /\ pc[s] \in {"undo", "undo_wait"} /\ ~failures[s] => UndoneOld(s) /\ AcceptedOrGone(s)
  /\ pc[s] = "record_failure" /\ ~failures[s] => AcceptedOrGone(s)

(* What a file starts with is none of the values that attempts generate,   *)
(* which are numbered from 1.                                              *)
StartsOld == \A s \in Secrets : \A f \in Elements(EnvFiles[s]) : InitialFiles[f][s] <= 0

(* With AttemptsAccountable and ValuesFresh, the invariant behind          *)
(* NewValueIsAccepted.                                                     *)
OrderKept == \A s \in Secrets : OrderOK(s)

-----------------------------------------------------------------------------
(* Why RepeatRotationsWork holds: where nothing fails, the admin password  *)
(* that an attempt resolves is the accepted one, whoever rotated it last.  *)

NoFault == Faults = {} /\ ~MayOverlap

(* The configurations in which that is so: the account rotates itself, or  *)
(* the admin account is another secret, whose entry the primary file has   *)
(* too, or one that nothing rotates, whose password is given.              *)
AdminIsKnown ==
  \A s \in Secrets : KindOf[s] \notin {"generic", "command"} =>
    LET a == AdminAccount[s]
    IN  \/ /\ a = s
           /\ AdminPassword[s] = Absent /\ AdminPasswordEnv[s] \in {s, Absent}
        \/ /\ a \in Secrets /\ a # Absent /\ HasBackingService(a)
           /\ AdminPassword[s] = Absent /\ AdminPasswordEnv[s] = a
           /\ PrimaryEnvFile(s) \in Elements(EnvFiles[a])
        \/ a \notin Secrets /\ AdminPassword[s] = 0

\* Every file of a secret starts with the password that its service accepts.
StartsTogether == \A s \in Secrets : \A f \in Elements(EnvFiles[s]) : InitialFiles[f][s] = 0

CleanOK(s) ==
  /\ standing[s] = "settled" /\ ~failures[s] /\ ~expired[s]
  /\ result[s] \in {"none", "success"}
  /\ pc[s] \notin {"undo", "undo_wait", "record_failure"}
  /\ pc[s] = "verify" => HasBackingService(s)
  /\ pc[s] \in {"generate", "apply"} /\ HasBackingService(s) => Accepts(s, admin[s])
  /\ pc[s] \notin {"idle", "resolve", "open", "generate", "apply"} /\ HasBackingService(s)
       => svc[s] = journal[s].next

(* With AttemptsAccountable, the invariant behind RepeatRotationsWork.     *)
NothingFails ==
  /\ \A s \in Secrets : CleanOK(s)
  /\ \A a \in Accounts \ Secrets : svc[a] = 0
=============================================================================
