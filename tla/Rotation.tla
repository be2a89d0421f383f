------------------------------ MODULE Rotation ------------------------------
(***************************************************************************)
(* The write model of one rotation attempt: internal/domain/rotation.go.   *)
(*                                                                         *)
(* A Rotation is the journal of an attempt.  Every mutating step of the    *)
(* pipeline records in it what undoing that step needs, and                *)
(* CompensationPlan turns the journal into the ordered list of undo        *)
(* actions.  Everything here is a pure operator on that record; the use    *)
(* case that performs the steps is module RotateSecret.                    *)
(*                                                                         *)
(* Data is abstract: a path, a container and a credential are whatever the *)
(* including module says they are, and a snapshot is the content of a      *)
(* whole file.  The start time and the cause's text are left out.          *)
(***************************************************************************)
EXTENDS Integers, Sequences

\* type Step: the stages in pipeline order, compared with < by the code.
StepPending      == 0
StepRead         == 1
StepGenerated    == 2
StepApplied      == 3
StepVerified     == 4
StepFilesUpdated == 5
StepRestarted    == 6
StepDone         == 7

Step == StepPending .. StepDone

\* type Outcome.
OutcomeSuccess == "success"
OutcomeFailed  == "failed"
Outcome        == {OutcomeSuccess, OutcomeFailed}

(* The zero Credential: Next() before a value was generated, Previous()    *)
(* before one was read, a key that a file does not hold, an admin password *)
(* that no source supplied.                                                *)
Absent == -1

\* A whole file's backup is kept per path; DOMAIN fileBackups is the map's keys.
BeginRotation ==
  [step |-> StepPending, previous |-> Absent, next |-> Absent,
   fileBackups |-> [p \in {} |-> Absent], writtenFiles |-> <<>>, restarted |-> <<>>]

\* advance moves the pipeline forward, never backwards.
advance(step, to) == IF to > step THEN to ELSE step

\* The snapshot replaces a backup that the map already has.
RecordCurrentValue(r, primary, current, snapshot) ==
  LET kept == r.fileBackups
  IN  [r EXCEPT !.previous = current,
                !.fileBackups = [p \in DOMAIN kept \cup {primary} |->
                                   IF p = primary THEN snapshot ELSE kept[p]],
                !.step = advance(r.step, StepRead)]

RecordGenerated(r, value) ==
  [r EXCEPT !.next = value, !.step = advance(r.step, StepGenerated)]

RecordApplied(r) == [r EXCEPT !.step = advance(r.step, StepApplied)]

RecordVerified(r) == [r EXCEPT !.step = advance(r.step, StepVerified)]

\* Mutant: only the primary file, which Open already backed up, is journalled.
RecordFileWrittenPrimaryOnly(r, path, snapshot) ==
  [r EXCEPT !.writtenFiles = IF path \in DOMAIN r.fileBackups THEN Append(r.writtenFiles, path)
                               ELSE r.writtenFiles,
            !.step = advance(r.step, StepFilesUpdated)]

\* Mutant: the write is journalled and its snapshot is not.
RecordFileWrittenWithoutBackup(r, path, snapshot) ==
  [r EXCEPT !.writtenFiles = Append(r.writtenFiles, path), !.step = advance(r.step, StepFilesUpdated)]

(* The first backup of a path wins: the primary file keeps the bytes read  *)
(* when the attempt opened it, not the bytes read when it was written.     *)
RecordFileWritten(r, path, snapshot) ==
  LET kept == r.fileBackups
  IN  [r EXCEPT !.fileBackups = [p \in DOMAIN kept \cup {path} |->
                                   IF p \in DOMAIN kept THEN kept[p] ELSE snapshot],
                !.writtenFiles = Append(r.writtenFiles, path),
                !.step = advance(r.step, StepFilesUpdated)]

\* Mutant: the step advances and the containers are forgotten.
RecordRestartedStepOnly(r, containers) == [r EXCEPT !.step = advance(r.step, StepRestarted)]

RecordRestarted(r, containers) ==
  [r EXCEPT !.restarted = containers, !.step = advance(r.step, StepRestarted)]

RecordDone(r) == [r EXCEPT !.step = advance(r.step, StepDone)]

-----------------------------------------------------------------------------
\* type CompensationType.
RestoreFile       == "restore_file"
RestartContainers == "restart_containers"
RestoreCredential == "restore_credential"

\* Mutant: the service is put back before the files and the containers.
CompensationPlanServiceFirst(r, hasBackingService) ==
  LET written  == Len(r.writtenFiles)
      restarts == IF r.step >= StepRestarted /\ Len(r.restarted) > 0 THEN 1 ELSE 0
      restores == IF r.step >= StepApplied /\ hasBackingService THEN 1 ELSE 0
  IN  [i \in 1 .. restores + written + restarts |->
         IF i = 1 /\ restores = 1
         THEN [type |-> RestoreCredential]
         ELSE IF i <= restores + written
         THEN [type |-> RestoreFile, path |-> r.writtenFiles[i - restores]]
         ELSE [type |-> RestartContainers, containers |-> r.restarted]]

(* The undo actions of journal r, in the order they must run: the written  *)
(* files in write order, then the containers, then the backing service.    *)
(* The snapshot a RestoreFile action carries is r.fileBackups of its path. *)
CompensationPlan(r, hasBackingService) ==
  LET written  == Len(r.writtenFiles)
      restarts == IF r.step >= StepRestarted /\ Len(r.restarted) > 0 THEN 1 ELSE 0
      restores == IF r.step >= StepApplied /\ hasBackingService THEN 1 ELSE 0
  IN  IF r.step < StepGenerated
      THEN <<>>
      ELSE [i \in 1 .. written + restarts + restores |->
              IF i <= written
              THEN [type |-> RestoreFile, path |-> r.writtenFiles[i]]
              ELSE IF i = written + 1 /\ restarts = 1
              THEN [type |-> RestartContainers, containers |-> r.restarted]
              ELSE [type |-> RestoreCredential]]

\* type Record: what the audit trail is given of an attempt that ended.
Succeeded(r) == [outcome |-> OutcomeSuccess, lastStep |-> r.step, previous |-> r.previous]
Failed(r)    == [outcome |-> OutcomeFailed, lastStep |-> r.step, previous |-> r.previous]
=============================================================================
