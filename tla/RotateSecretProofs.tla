------------------------- MODULE RotateSecretProofs -------------------------
(***************************************************************************)
(* Proofs about the rotation pipeline, for every configuration.            *)
(***************************************************************************)
EXTENDS RotateSecret, TLAPS

-----------------------------------------------------------------------------
(* The journal: what each Record operation leaves in it.                   *)
Backups == UNION {[paths -> Content] : paths \in SUBSET Files}

Journal == [step : Step, previous : Int, next : Int, fileBackups : Backups,
            writtenFiles : Seq(Files), restarted : Seq(Containers)]

(* JournalOK spells out membership in Journal.                             *)
LEMMA JournalOKMeaning ==
  ASSUME NEW s, NEW r
  PROVE  JournalOK(s, r) <=> /\ r \in Journal
                             /\ Elements(r.writtenFiles) \subseteq DOMAIN r.fileBackups
                             /\ r.restarted \in {<<>>, ContainersOf[s]}
BY DEF JournalOK, Journal, Backups

(* A fresh journal is well formed and empty.                               *)
LEMMA BeginRotationIsJournal ==
  /\ BeginRotation \in Journal
  /\ BeginRotation.step = StepPending
  /\ BeginRotation.writtenFiles = <<>>
  /\ BeginRotation.restarted = <<>>
  /\ BeginRotation.next = Absent
<1>1. [p \in {} |-> Absent] \in Backups
  <2>1. [p \in {} |-> Absent] \in [{} -> Content]
    OBVIOUS
  <2>2. QED BY <2>1 DEF Backups
<1>2. QED
  BY <1>1 DEF BeginRotation, Journal, Absent, Step, StepPending, StepDone

(* Adding one path to a partial map of backups.                            *)
LEMMA BackupsExtend ==
  ASSUME NEW b \in Backups, NEW path \in Files, NEW g,
         DOMAIN g = DOMAIN b \cup {path},
         g = [p \in DOMAIN g |-> g[p]],
         \A p \in DOMAIN g : g[p] \in Content
  PROVE  g \in Backups
<1>1. PICK paths \in SUBSET Files : b \in [paths -> Content]
  BY DEF Backups
<1>2. g \in [paths \cup {path} -> Content]
  BY <1>1
<1>3. paths \cup {path} \in SUBSET Files
  BY <1>1
<1>4. QED
  BY <1>2, <1>3 DEF Backups

LEMMA BackupsMap ==
  ASSUME NEW b \in Backups
  PROVE  /\ DOMAIN b \subseteq Files
         /\ \A p \in DOMAIN b : b[p] \in Content
BY DEF Backups

(* RecordCurrentValue: the value in force, and the primary file's backup.  *)
LEMMA RecordCurrentValueIsJournal ==
  ASSUME NEW path \in Files, NEW current \in Int, NEW doc \in Content
  PROVE  LET r == RecordCurrentValue(BeginRotation, path, current, doc)
         IN  /\ r \in Journal
             /\ r.step = StepRead
             /\ r.previous = current
             /\ r.next = Absent
             /\ DOMAIN r.fileBackups = {path}
             /\ r.fileBackups[path] = doc
             /\ r.writtenFiles = <<>>
             /\ r.restarted = <<>>
<1> DEFINE b == BeginRotation.fileBackups
           g == [p \in DOMAIN b \cup {path} |-> IF p = path THEN doc ELSE b[p]]
           r == RecordCurrentValue(BeginRotation, path, current, doc)
<1>1. DOMAIN b = {}
  BY DEF BeginRotation
<1>2. /\ g \in Backups
      /\ DOMAIN g = {path}
      /\ g[path] = doc
  <2>1. g \in [{path} -> Content]
    BY <1>1
  <2>2. QED
    BY <1>1, <2>1 DEF Backups
<1> HIDE DEF g
<1> DEFINE n == advance(BeginRotation.step, StepRead)
<1>3. n = StepRead /\ n \in Step
  BY DEF BeginRotation, advance, Step, StepRead, StepPending, StepDone
<1>4. r = [BeginRotation EXCEPT !.previous = current, !.fileBackups = g, !.step = n]
  BY DEF RecordCurrentValue, g
<1> HIDE DEF n
<1>5. QED
  BY <1>2, <1>3, <1>4, BeginRotationIsJournal DEF Journal

(* RecordFileWritten: the path is journalled last, every path journalled   *)
(* has a backup, and a backup that is there stays.                         *)
LEMMA RecordFileWrittenIsJournal ==
  ASSUME NEW r \in Journal, NEW path \in Files, NEW before \in Content
  PROVE  LET q == RecordFileWritten(r, path, before)
         IN  /\ q \in Journal
             /\ q.step = advance(r.step, StepFilesUpdated)
             /\ q.previous = r.previous
             /\ q.next = r.next
             /\ DOMAIN q.fileBackups = DOMAIN r.fileBackups \cup {path}
             /\ \A p \in DOMAIN r.fileBackups : q.fileBackups[p] = r.fileBackups[p]
             /\ path \notin DOMAIN r.fileBackups => q.fileBackups[path] = before
             /\ q.writtenFiles = Append(r.writtenFiles, path)
             /\ q.restarted = r.restarted
<1> DEFINE b == r.fileBackups
           g == [p \in DOMAIN b \cup {path} |-> IF p \in DOMAIN b THEN b[p] ELSE before]
           n == advance(r.step, StepFilesUpdated)
<1>1. b \in Backups
  BY DEF Journal
<1>2. g \in Backups
  <2>1. \A p \in DOMAIN g : g[p] \in Content
    BY <1>1, BackupsMap
  <2>2. QED
    BY <1>1, <2>1, BackupsExtend
<1>3. /\ DOMAIN g = DOMAIN b \cup {path}
      /\ \A p \in DOMAIN b : g[p] = b[p]
      /\ path \notin DOMAIN b => g[path] = before
  OBVIOUS
<1> DEFINE w == Append(r.writtenFiles, path)
<1>4. n \in Step /\ w \in Seq(Files)
  <2>1. r.writtenFiles \in Seq(Files) /\ r.step \in Step
    BY DEF Journal
  <2>2. QED
    BY <2>1 DEF advance, Step, StepPending, StepDone, StepFilesUpdated
<1>5. RecordFileWritten(r, path, before)
        = [r EXCEPT !.fileBackups = g, !.writtenFiles = w, !.step = n]
  BY DEF RecordFileWritten
<1> HIDE DEF g, w, n
<1>6. LET q == [r EXCEPT !.fileBackups = g, !.writtenFiles = w, !.step = n]
      IN  /\ q \in Journal
          /\ q.fileBackups = g /\ q.writtenFiles = w /\ q.step = n
          /\ q.previous = r.previous /\ q.next = r.next /\ q.restarted = r.restarted
  BY <1>2, <1>4 DEF Journal
<1>7. QED
  BY <1>3, <1>5, <1>6 DEF w, n

(* The other Record operations set their own field and advance the step.   *)
LEMMA RecordStepsAreJournals ==
  ASSUME NEW r \in Journal
  PROVE  /\ \A value \in Int :
              LET q == RecordGenerated(r, value)
              IN  /\ q \in Journal
                  /\ q.step = advance(r.step, StepGenerated)
                  /\ q.next = value
                  /\ q.previous = r.previous /\ q.fileBackups = r.fileBackups
                  /\ q.writtenFiles = r.writtenFiles /\ q.restarted = r.restarted
         /\ LET q == RecordApplied(r)
            IN  /\ q \in Journal
                /\ q.step = advance(r.step, StepApplied)
                /\ q.next = r.next
                /\ q.previous = r.previous /\ q.fileBackups = r.fileBackups
                /\ q.writtenFiles = r.writtenFiles /\ q.restarted = r.restarted
         /\ LET q == RecordVerified(r)
            IN  /\ q \in Journal
                /\ q.step = advance(r.step, StepVerified)
                /\ q.next = r.next
                /\ q.previous = r.previous /\ q.fileBackups = r.fileBackups
                /\ q.writtenFiles = r.writtenFiles /\ q.restarted = r.restarted
         /\ \A containers \in Seq(Containers) :
              LET q == RecordRestarted(r, containers)
              IN  /\ q \in Journal
                  /\ q.step = advance(r.step, StepRestarted)
                  /\ q.next = r.next
                  /\ q.previous = r.previous /\ q.fileBackups = r.fileBackups
                  /\ q.writtenFiles = r.writtenFiles /\ q.restarted = containers
<1>1. \A to \in Step : advance(r.step, to) \in Step
  BY DEF Journal, advance
<1>2. /\ StepGenerated \in Step /\ StepApplied \in Step
      /\ StepVerified \in Step /\ StepRestarted \in Step
  BY DEF Step, StepPending, StepGenerated, StepApplied, StepVerified, StepRestarted, StepDone
<1>3. /\ advance(r.step, StepGenerated) \in Step /\ advance(r.step, StepApplied) \in Step
      /\ advance(r.step, StepVerified) \in Step /\ advance(r.step, StepRestarted) \in Step
  BY <1>1, <1>2
<1>4. QED
  BY <1>3 DEF Journal, RecordGenerated, RecordApplied, RecordVerified, RecordRestarted

-----------------------------------------------------------------------------
(* Type correctness.                                                       *)

(* What the part of TypeOK about one secret says.                          *)
OneOK(s) == JournalOK(s, journal[s]) /\ IndicesOK(s)

(* The variables other than the journals have their types.                 *)
SimpleTypes ==
  /\ files \in [Files -> Content]
  /\ svc \in [Accounts -> Int]
  /\ loaded \in [Containers -> [Secrets -> Int]]
  /\ trail \in [Secrets -> AuditRecord]
  /\ attempts \in [Secrets -> Nat]
  /\ pc \in [Secrets -> Labels]
  /\ admin \in [Secrets -> Int]
  /\ at \in [Secrets -> Nat \ {0}]
  /\ pos \in [Secrets -> Nat \ {0}]
  /\ buffer \in [Secrets -> Content]
  /\ failures \in [Secrets -> BOOLEAN]
  /\ expired \in [Secrets -> BOOLEAN]
  /\ result \in [Secrets -> Results]
  /\ standing \in [Secrets -> Standings]
  /\ prior \in [Secrets -> Int]
  /\ DOMAIN journal = Secrets

LEMMA TypeOKParts == TypeOK <=> SimpleTypes /\ \A s \in Secrets : OneOK(s)
BY DEF TypeOK, SimpleTypes, OneOK

(* An empty journal is fine for every secret.                              *)
LEMMA BeginRotationOK ==
  ASSUME NEW s \in Secrets
  PROVE  JournalOK(s, BeginRotation)
<1>1. Elements(BeginRotation.writtenFiles) = {}
  BY BeginRotationIsJournal DEF Elements
<1>2. QED
  BY <1>1, BeginRotationIsJournal, JournalOKMeaning

(* An action that touches one secret only leaves the others as they were.  *)
LEMMA OthersOK ==
  ASSUME SimpleTypes, NEW s \in Secrets, NEW t \in Secrets, t # s, OneOK(t),
         journal'[t] = journal[t], pc'[t] = pc[t], at'[t] = at[t], pos'[t] = pos[t]
  PROVE  OneOK(t)'
BY DEF OneOK, JournalOK, IndicesOK

(* The values that agreement compares are numbers.                         *)
LEMMA AgreementIsInt ==
  ASSUME SimpleTypes, NEW s \in Secrets
  PROVE  Agreement(s) \in Int
<1>1. PrimaryEnvFile(s) \in Files
  BY ConfigurationAssumption DEF PrimaryEnvFile
<1>2. s \in Accounts
  BY ConfigurationAssumption
<1>3. QED
  BY <1>1, <1>2 DEF Agreement, InForce, SimpleTypes, Content, Absent

(* The initial state.                                                      *)
LEMMA InitTypes == Init => TypeOK
<1> SUFFICES ASSUME Init PROVE TypeOK
  OBVIOUS
<1>1. \A s \in Secrets : OneOK(s)
  BY BeginRotationOK DEF Init, OneOK, IndicesOK
<1>2. NoRecord \in AuditRecord
  BY DEF AuditRecord, NoRecord, Step, StepPending, StepDone, Absent
<1>3. \A c \in Containers, s \in Secrets : InitialFiles[Reads[c][s]][s] \in Int
  BY ConfigurationAssumption DEF Content
<1>4. SimpleTypes
  BY <1>2, <1>3, ConfigurationAssumption
  DEF Init, SimpleTypes, Content, Labels, Results, Standings, Absent
<1>5. QED
  BY <1>1, <1>4, TypeOKParts

(* One step of the attempt at s types everything if it types the plain     *)
(* variables and the part of s, and leaves the parts of the others alone.  *)
LEMMA OneStepTypes ==
  ASSUME TypeOK, NEW s \in Secrets, SimpleTypes', OneOK(s)',
         \A t \in Secrets \ {s} : /\ journal'[t] = journal[t] /\ pc'[t] = pc[t]
                                  /\ at'[t] = at[t] /\ pos'[t] = pos[t]
  PROVE  TypeOK'
<1>1. ASSUME NEW t \in Secrets, t # s PROVE OneOK(t)'
  BY <1>1, OthersOK, TypeOKParts
<1>2. QED
  BY <1>1 DEF TypeOK, SimpleTypes, OneOK

(* The empty buffer, and the result of the functions that set one entry.   *)
LEMMA ForgetTypes ==
  ASSUME TypeOK, NEW s \in Secrets, Forget(s), pc'[s] = "idle"
  PROVE  /\ admin' \in [Secrets -> Int] /\ at' \in [Secrets -> Nat \ {0}]
         /\ pos' \in [Secrets -> Nat \ {0}] /\ buffer' \in [Secrets -> Content]
         /\ failures' \in [Secrets -> BOOLEAN] /\ DOMAIN journal' = Secrets
         /\ OneOK(s)'
         /\ \A t \in Secrets \ {s} : journal'[t] = journal[t] /\ at'[t] = at[t] /\ pos'[t] = pos[t]
<1>1. /\ admin' \in [Secrets -> Int] /\ at' \in [Secrets -> Nat \ {0}]
      /\ pos' \in [Secrets -> Nat \ {0}] /\ buffer' \in [Secrets -> Content]
      /\ failures' \in [Secrets -> BOOLEAN]
  BY DEF Forget, TypeOK, Absent, Content
<1>2. DOMAIN journal' = Secrets /\ journal'[s] = BeginRotation
  BY DEF Forget, TypeOK
<1>3. at'[s] = 1 /\ pos'[s] = 1
  BY DEF Forget, TypeOK
<1>4. OneOK(s)'
  BY <1>2, <1>3, BeginRotationOK DEF OneOK, IndicesOK, JournalOK
<1>5. QED
  BY <1>1, <1>2, <1>4 DEF Forget, TypeOK

LEMMA BeginTypes ==
  ASSUME TypeOK, NEW s \in Secrets, Begin(s)
  PROVE  TypeOK'
<1>1. Agreement(s) \in Int
  BY AgreementIsInt, TypeOKParts
<1>2. SimpleTypes'
  BY <1>1 DEF Begin, TypeOK, SimpleTypes, Goto, world, local, past, Labels
<1>3. OneOK(s)'
  BY DEF Begin, TypeOK, OneOK, JournalOK, IndicesOK, Goto, world, local, past
<1>4. QED
  BY <1>2, <1>3, OneStepTypes DEF Begin, TypeOK, Goto, local

LEMMA ExpireTypes ==
  ASSUME TypeOK, NEW s \in Secrets, Expire(s)
  PROVE  TypeOK'
<1>1. SimpleTypes'
  BY DEF Expire, TypeOK, SimpleTypes, world, local, past
<1>2. OneOK(s)'
  BY DEF Expire, TypeOK, OneOK, JournalOK, IndicesOK, local
<1>3. QED
  BY <1>1, <1>2, OneStepTypes DEF Expire, local

LEMMA ResolveTypes ==
  ASSUME TypeOK, NEW s \in Secrets, Resolve(s)
  PROVE  TypeOK'
<1>1. CASE Goto(s, "open") /\ UNCHANGED <<local, result>>
  <2>1. SimpleTypes'
    BY <1>1 DEF Resolve, TypeOK, SimpleTypes, Goto, world, local, Labels
  <2>2. OneOK(s)'
    BY <1>1 DEF Resolve, TypeOK, OneOK, JournalOK, IndicesOK, Goto, local
  <2>3. QED
    BY <1>1, <2>1, <2>2, OneStepTypes DEF TypeOK, Goto, local
<1>2. CASE Return(s, "untouched")
  <2>1. pc'[s] = "idle" /\ Forget(s)
    BY <1>2 DEF Return, Goto, TypeOK
  <2>2. SimpleTypes'
    BY <1>2, <2>1, ForgetTypes DEF Resolve, Return, TypeOK, SimpleTypes, Goto, world, Labels, Results
  <2>3. QED
    BY <1>2, <2>1, <2>2, ForgetTypes, OneStepTypes DEF TypeOK, Return, Goto
<1>3. QED
  BY <1>1, <1>2 DEF Resolve

(* An attempt that returns.                                                *)
LEMMA ReturnTypes ==
  ASSUME TypeOK, NEW s \in Secrets, NEW outcome \in Results, Return(s, outcome),
         UNCHANGED <<world, attempts, expired, prior>>,
         trail' = trail \/ \E rec \in AuditRecord :
                             trail' = [trail EXCEPT ![s] = rec],
         standing' = standing \/ \E x \in Standings : standing' = [standing EXCEPT ![s] = x]
  PROVE  TypeOK'
<1>1. pc'[s] = "idle" /\ Forget(s)
  BY DEF Return, Goto, TypeOK
<1>2. trail' \in [Secrets -> AuditRecord]
  BY DEF TypeOK
<1>3. standing' \in [Secrets -> Standings]
  BY DEF TypeOK
<1>4. pc' \in [Secrets -> Labels] /\ result' \in [Secrets -> Results]
  BY DEF Return, Goto, TypeOK, Labels
<1>5. SimpleTypes'
  BY <1>1, <1>2, <1>3, <1>4, ForgetTypes DEF TypeOK, SimpleTypes, world
<1>6. QED
  BY <1>1, <1>5, ForgetTypes, OneStepTypes DEF TypeOK, Return, Goto

(* What the audit trail is given.                                          *)
LEMMA RecordTypes ==
  ASSUME NEW r \in Journal
  PROVE  /\ Failed(r) \in AuditRecord
         /\ Succeeded(RecordDone(r)) \in AuditRecord
<1>1. r.step \in Step /\ r.previous \in Int
  BY DEF Journal
<1>2. advance(r.step, StepDone) \in Step
  BY <1>1 DEF advance, Step, StepPending, StepDone
<1>3. RecordDone(r).step = advance(r.step, StepDone) /\ RecordDone(r).previous = r.previous
  BY DEF RecordDone, Journal
<1>4. QED
  BY <1>1, <1>2, <1>3 DEF AuditRecord, Failed, Succeeded, Outcome, OutcomeFailed, OutcomeSuccess

(* The primary file and the secret's key in it.                            *)
LEMMA PrimaryIsFile ==
  ASSUME NEW s \in Secrets
  PROVE  PrimaryEnvFile(s) \in Files /\ s \in Accounts /\ 1 \in DOMAIN EnvFiles[s]
BY ConfigurationAssumption DEF PrimaryEnvFile

LEMMA OpenPrimaryTypes ==
  ASSUME TypeOK, NEW s \in Secrets, OpenPrimary(s)
  PROVE  TypeOK'
<1> DEFINE primary == PrimaryEnvFile(s)
           doc == files[primary]
           opened == RecordCurrentValue(BeginRotation, primary, doc[s], doc)
           password == resolveAdminPassword(s, doc, doc[s])
<1>1. doc \in Content /\ doc[s] \in Int
  BY PrimaryIsFile DEF TypeOK, Content
<1>2. password \in Int
  BY <1>1, ConfigurationAssumption DEF resolveAdminPassword, Content, Absent
<1>3. JournalOK(s, opened)
  <2>1. /\ opened \in Journal /\ opened.writtenFiles = <<>> /\ opened.restarted = <<>>
    BY <1>1, PrimaryIsFile, RecordCurrentValueIsJournal
  <2>2. Elements(opened.writtenFiles) = {}
    BY <2>1 DEF Elements
  <2>3. QED
    BY <2>1, <2>2, JournalOKMeaning
<1> HIDE DEF opened, password
<1>4. CASE /\ Note(s, opened)
           /\ admin' = [admin EXCEPT ![s] = password]
           /\ Goto(s, "generate")
           /\ UNCHANGED <<at, pos, buffer, failures, result>>
  <2>1. SimpleTypes'
    BY <1>2, <1>4 DEF OpenPrimary, TypeOK, SimpleTypes, Note, Goto, world, Labels
  <2>2. journal'[s] = opened /\ pc'[s] = "generate" /\ pc[s] = "open"
    BY <1>4 DEF OpenPrimary, TypeOK, Note, Goto
  <2>3. IndicesOK(s)'
    BY <1>4, <2>2 DEF TypeOK, IndicesOK
  <2>4. OneOK(s)'
    BY <1>3, <2>2, <2>3 DEF OneOK, JournalOK
  <2>5. QED
    BY <1>4, <2>1, <2>4, OneStepTypes DEF TypeOK, Note, Goto
<1>5. CASE Return(s, "untouched")
  BY <1>5, ReturnTypes DEF OpenPrimary, Results
<1>6. QED
  BY <1>4, <1>5 DEF OpenPrimary, opened, password

LEMMA GenerateTypes ==
  ASSUME TypeOK, NEW s \in Secrets, Generate(s)
  PROVE  TypeOK'
<1> DEFINE generated == RecordGenerated(journal[s], attempts[s])
<1>1. journal[s] \in Journal /\ JournalOK(s, journal[s]) /\ attempts[s] \in Int
  BY JournalOKMeaning DEF TypeOK
<1>2. JournalOK(s, generated)
  BY <1>1, RecordStepsAreJournals, JournalOKMeaning
<1> HIDE DEF generated
<1>3. CASE /\ Note(s, generated)
           /\ Goto(s, IF HasBackingService(s) THEN "apply" ELSE "read_file")
           /\ UNCHANGED <<trail, admin, at, pos, buffer, failures, result>>
  <2>1. SimpleTypes'
    BY <1>3 DEF Generate, TypeOK, SimpleTypes, Note, Goto, world, Labels
  <2>2. journal'[s] = generated /\ pc'[s] \in {"apply", "read_file"} /\ pc[s] = "generate"
    BY <1>3 DEF Generate, TypeOK, Note, Goto
  <2>3. at[s] = 1 /\ pos[s] = 1
    BY <2>2 DEF TypeOK, IndicesOK
  <2>4. IndicesOK(s)'
    BY <1>3, <2>2, <2>3, PrimaryIsFile DEF IndicesOK
  <2>5. OneOK(s)'
    BY <1>2, <2>2, <2>4 DEF OneOK, JournalOK
  <2>6. QED
    BY <1>3, <2>1, <2>5, OneStepTypes DEF TypeOK, Note, Goto
<1>4. CASE RecordOutcome(s, Failed(journal[s])) /\ Return(s, "failed")
  BY <1>1, <1>4, ReturnTypes, RecordTypes DEF Generate, RecordOutcome, Results
<1>5. QED
  BY <1>3, <1>4 DEF Generate, generated

(* Where an action leaves the control of s, for the actions of an attempt  *)
(* that go on.  The index conditions of label "undo" and later are empty.  *)
Elsewhere == {"record_success", "undo", "undo_wait", "record_failure"}

LEMMA MoveTypes ==
  ASSUME TypeOK, NEW s \in Secrets, NEW label \in Labels, Goto(s, label),
         label \in Elsewhere \/ IndicesOK(s)',
         at' \in [Secrets -> Nat \ {0}], pos' \in [Secrets -> Nat \ {0}],
         \A t \in Secrets \ {s} : at'[t] = at[t] /\ pos'[t] = pos[t],
         UNCHANGED journal \/ \E r : JournalOK(s, r) /\ Note(s, r),
         files' \in [Files -> Content], svc' \in [Accounts -> Int],
         loaded' \in [Containers -> [Secrets -> Int]],
         buffer' \in [Secrets -> Content], failures' \in [Secrets -> BOOLEAN],
         standing' \in [Secrets -> Standings],
         UNCHANGED <<trail, attempts, admin, expired, result, prior>>
  PROVE  TypeOK'
<1>1. /\ DOMAIN journal' = Secrets
      /\ \A t \in Secrets \ {s} : journal'[t] = journal[t]
      /\ JournalOK(s, journal'[s])
  BY DEF TypeOK, Note
<1>2. SimpleTypes'
  BY <1>1 DEF TypeOK, SimpleTypes, Goto
<1>3. pc'[s] = label
  BY DEF TypeOK, Goto
<1>4. IndicesOK(s)'
  BY <1>3 DEF IndicesOK, Elsewhere
<1>5. OneOK(s)'
  BY <1>1, <1>4 DEF OneOK, JournalOK
<1>6. QED
  BY <1>1, <1>2, <1>5, OneStepTypes DEF TypeOK, Goto

(* Compensation starts at its first action and first container.            *)
LEMMA CompensateTypes ==
  ASSUME TypeOK, NEW s \in Secrets, Compensate(s)
  PROVE  /\ Goto(s, "undo") /\ "undo" \in Labels /\ "undo" \in Elsewhere
         /\ at' \in [Secrets -> Nat \ {0}] /\ pos' \in [Secrets -> Nat \ {0}]
         /\ \A t \in Secrets \ {s} : at'[t] = at[t] /\ pos'[t] = pos[t]
BY DEF TypeOK, Compensate, Labels, Elsewhere

(* The journal of an attempt, and what the pipeline records in it.         *)
LEMMA JournalsKept ==
  ASSUME TypeOK, NEW s \in Secrets
  PROVE  /\ journal[s] \in Journal
         /\ journal[s].next \in Int /\ journal[s].previous \in Int
         /\ JournalOK(s, journal[s])
         /\ JournalOK(s, RecordApplied(journal[s]))
         /\ JournalOK(s, RecordVerified(journal[s]))
         /\ JournalOK(s, RecordRestarted(journal[s], ContainersOf[s]))
<1>1. JournalOK(s, journal[s]) /\ journal[s] \in Journal
  BY JournalOKMeaning DEF TypeOK
<1>2. journal[s].next \in Int /\ journal[s].previous \in Int
  BY <1>1 DEF Journal
<1>3. ContainersOf[s] \in Seq(Containers)
  BY ConfigurationAssumption
<1>4. QED
  BY <1>1, <1>2, <1>3, RecordStepsAreJournals, JournalOKMeaning

LEMMA ApplyTypes ==
  ASSUME TypeOK, NEW s \in Secrets, Apply(s)
  PROVE  TypeOK'
<1>1. svc' \in [Accounts -> Int]
  BY JournalsKept DEF Apply, ApplyAccepted, ApplyWithoutEffect, ApplyRefused, ApplyAnswerLost, TypeOK
<1>2. standing' \in [Secrets -> Standings]
  BY DEF Apply, ApplyAccepted, ApplyWithoutEffect, ApplyRefused, ApplyAnswerLost, TypeOK, Standings
<1>3. /\ files' \in [Files -> Content] /\ loaded' \in [Containers -> [Secrets -> Int]]
      /\ buffer' \in [Secrets -> Content] /\ failures' \in [Secrets -> BOOLEAN]
      /\ UNCHANGED <<trail, attempts, admin, expired, result, prior>>
  BY DEF Apply, TypeOK
<1>4. CASE ApplyAccepted(s) \/ ApplyWithoutEffect(s)
  <2>1. Goto(s, "verify") /\ UNCHANGED <<at, pos>> /\ Note(s, RecordApplied(journal[s]))
    BY <1>4 DEF ApplyAccepted, ApplyWithoutEffect
  <2>2. at[s] = 1 /\ pos[s] = 1
    BY DEF Apply, TypeOK, IndicesOK
  <2>3. IndicesOK(s)' /\ "verify" \in Labels
    BY <2>1, <2>2 DEF TypeOK, Goto, IndicesOK, Labels
  <2>4. at' \in [Secrets -> Nat \ {0}] /\ pos' \in [Secrets -> Nat \ {0}]
    BY <2>1 DEF TypeOK
  <2>5. QED
    BY <1>1, <1>2, <1>3, <2>1, <2>3, <2>4, MoveTypes, JournalsKept
<1>5. CASE ApplyRefused(s) \/ ApplyAnswerLost(s)
  <2>1. Compensate(s) /\ UNCHANGED journal
    BY <1>5 DEF ApplyRefused, ApplyAnswerLost
  <2>2. QED
    BY <1>1, <1>2, <1>3, <2>1, CompensateTypes, MoveTypes
<1>6. QED
  BY <1>4, <1>5 DEF Apply

LEMMA VerifyTypes ==
  ASSUME TypeOK, NEW s \in Secrets, Verify(s)
  PROVE  TypeOK'
<1>1. /\ files' \in [Files -> Content] /\ loaded' \in [Containers -> [Secrets -> Int]]
      /\ svc' \in [Accounts -> Int] /\ standing' \in [Secrets -> Standings]
      /\ buffer' \in [Secrets -> Content] /\ failures' \in [Secrets -> BOOLEAN]
      /\ UNCHANGED <<trail, attempts, admin, expired, result, prior>>
  BY DEF Verify, TypeOK, world, past
<1>2. CASE /\ Note(s, RecordVerified(journal[s]))
           /\ Goto(s, "read_file")
           /\ UNCHANGED <<at, pos>>
  <2>1. at[s] = 1 /\ pos[s] = 1
    BY DEF Verify, TypeOK, IndicesOK
  <2>2. IndicesOK(s)' /\ "read_file" \in Labels
    BY <1>2, <2>1, PrimaryIsFile DEF TypeOK, Goto, IndicesOK, Labels
  <2>3. at' \in [Secrets -> Nat \ {0}] /\ pos' \in [Secrets -> Nat \ {0}]
    BY <1>2 DEF TypeOK
  <2>4. QED
    BY <1>1, <1>2, <2>2, <2>3, MoveTypes, JournalsKept
<1>3. CASE Compensate(s) /\ UNCHANGED journal
  BY <1>1, <1>3, CompensateTypes, MoveTypes
<1>4. QED
  BY <1>2, <1>3 DEF Verify

(* The file an attempt works on while it writes.                           *)
LEMMA PathIsFile ==
  ASSUME TypeOK, NEW s \in Secrets, pc[s] \in {"read_file", "replace_file"}
  PROVE  /\ at[s] \in 1 .. Len(EnvFiles[s]) /\ pos[s] = 1
         /\ Path(s) \in Files
         /\ Len(EnvFiles[s]) \in Nat /\ DOMAIN EnvFiles[s] = 1 .. Len(EnvFiles[s])
<1>1. EnvFiles[s] \in Seq(Files)
  BY ConfigurationAssumption
<1>2. at[s] \in DOMAIN EnvFiles[s] /\ pos[s] = 1
  BY DEF TypeOK, IndicesOK
<1>3. QED
  BY <1>1, <1>2 DEF Path

LEMMA ReadFileTypes ==
  ASSUME TypeOK, NEW s \in Secrets, ReadFile(s)
  PROVE  TypeOK'
<1>1. pc[s] = "read_file" /\ Path(s) \in Files
  BY PathIsFile DEF ReadFile
<1>2. /\ files' \in [Files -> Content] /\ loaded' \in [Containers -> [Secrets -> Int]]
      /\ svc' \in [Accounts -> Int] /\ standing' \in [Secrets -> Standings]
      /\ buffer' \in [Secrets -> Content] /\ failures' \in [Secrets -> BOOLEAN]
      /\ UNCHANGED <<trail, attempts, admin, expired, result, prior>>
      /\ UNCHANGED journal
  BY <1>1 DEF ReadFile, TypeOK, world, past
<1>3. CASE Goto(s, "replace_file") /\ UNCHANGED <<at, pos>>
  <2>1. IndicesOK(s)' /\ "replace_file" \in Labels
    BY <1>1, <1>3 DEF TypeOK, Goto, IndicesOK, Labels
  <2>2. at' \in [Secrets -> Nat \ {0}] /\ pos' \in [Secrets -> Nat \ {0}]
    BY <1>3 DEF TypeOK
  <2>3. QED
    BY <1>2, <1>3, <2>1, <2>2, MoveTypes
<1>4. CASE Compensate(s)
  BY <1>2, <1>4, CompensateTypes, MoveTypes
<1>5. QED
  BY <1>3, <1>4 DEF ReadFile

(* A written file is journalled with a backup.                             *)
LEMMA FileWrittenOK ==
  ASSUME TypeOK, NEW s \in Secrets, NEW path \in Files, NEW before \in Content
  PROVE  JournalOK(s, RecordFileWritten(journal[s], path, before))
<1> DEFINE r == journal[s]
           q == RecordFileWritten(r, path, before)
<1>1. r \in Journal /\ JournalOK(s, r)
  BY JournalsKept
<1>2. /\ q \in Journal
      /\ DOMAIN q.fileBackups = DOMAIN r.fileBackups \cup {path}
      /\ q.writtenFiles = Append(r.writtenFiles, path)
      /\ q.restarted = r.restarted
  BY <1>1, RecordFileWrittenIsJournal
<1> HIDE DEF q
<1>3. r.writtenFiles \in Seq(Files)
  BY <1>1 DEF Journal
<1>4. Elements(q.writtenFiles) \subseteq Elements(r.writtenFiles) \cup {path}
  BY <1>2, <1>3 DEF Elements
<1>5. QED
  BY <1>1, <1>2, <1>4, JournalOKMeaning DEF q

LEMMA ReplaceFileTypes ==
  ASSUME TypeOK, NEW s \in Secrets, ReplaceFile(s)
  PROVE  TypeOK'
<1>1. /\ pc[s] = "replace_file" /\ Path(s) \in Files
      /\ at[s] \in 1 .. Len(EnvFiles[s]) /\ Len(EnvFiles[s]) \in Nat
      /\ DOMAIN EnvFiles[s] = 1 .. Len(EnvFiles[s]) /\ pos[s] = 1
  BY PathIsFile DEF ReplaceFile
<1> DEFINE updated == [buffer[s] EXCEPT ![s] = journal[s].next]
<1>2. buffer[s] \in Content /\ updated \in Content
  BY JournalsKept DEF TypeOK, Content
<1>3. /\ files' \in [Files -> Content] /\ loaded' \in [Containers -> [Secrets -> Int]]
      /\ svc' \in [Accounts -> Int] /\ standing' \in [Secrets -> Standings]
      /\ buffer' \in [Secrets -> Content] /\ failures' \in [Secrets -> BOOLEAN]
      /\ UNCHANGED <<trail, attempts, admin, expired, result, prior>>
  <2>1. files' = files \/ files' = [files EXCEPT ![Path(s)] = updated]
    BY DEF ReplaceFile
  <2> HIDE DEF updated
  <2>2. files' \in [Files -> Content]
    BY <1>1, <1>2, <2>1 DEF TypeOK
  <2>3. QED
    BY <2>2 DEF ReplaceFile, TypeOK, past
<1>4. JournalOK(s, RecordFileWritten(journal[s], Path(s), buffer[s]))
  BY <1>1, <1>2, FileWrittenOK
<1>5. CASE /\ Note(s, RecordFileWritten(journal[s], Path(s), buffer[s]))
           /\ at' = [at EXCEPT ![s] = @ + 1]
           /\ Goto(s, NextAfterFile(s, at[s]))
           /\ UNCHANGED pos
  <2>1. at' \in [Secrets -> Nat \ {0}] /\ pos' \in [Secrets -> Nat \ {0}]
    BY <1>5 DEF TypeOK
  <2>2. at'[s] = at[s] + 1 /\ pos'[s] = 1 /\ pc'[s] = NextAfterFile(s, at[s])
    BY <1>1, <1>5 DEF TypeOK, Goto
  <2>3. ContainersOf[s] \in Seq(Containers)
    BY ConfigurationAssumption
  <2>4. IndicesOK(s)'
    BY <1>1, <2>2, <2>3 DEF IndicesOK, NextAfterFile
  <2>5. NextAfterFile(s, at[s]) \in Labels
    BY DEF NextAfterFile, Labels
  <2>6. \A t \in Secrets \ {s} : at'[t] = at[t] /\ pos'[t] = pos[t]
    BY <1>5 DEF TypeOK
  <2>7. QED
    BY <1>3, <1>4, <1>5, <2>1, <2>4, <2>5, <2>6, MoveTypes
<1>6. CASE Compensate(s) /\ UNCHANGED <<files, journal>>
  BY <1>3, <1>6, CompensateTypes, MoveTypes
<1>7. QED
  BY <1>5, <1>6 DEF ReplaceFile

(* A container that starts takes its values from typed files.              *)
LEMMA LoadTypes ==
  ASSUME TypeOK, NEW c, LoadFrom(c) \/ UNCHANGED loaded
  PROVE  loaded' \in [Containers -> [Secrets -> Int]]
<1> DEFINE taken == [s \in Secrets |-> files[Reads[c][s]][s]]
<1>1. loaded' = loaded \/ loaded' = [loaded EXCEPT ![c] = taken]
  BY DEF LoadFrom
<1>2. c \in Containers => taken \in [Secrets -> Int]
  BY ConfigurationAssumption DEF TypeOK, Content
<1> HIDE DEF taken
<1>3. QED
  BY <1>1, <1>2 DEF TypeOK

LEMMA RestartFailedTypes ==
  ASSUME TypeOK, NEW s \in Secrets, RestartFailed(s),
         files' \in [Files -> Content], svc' \in [Accounts -> Int],
         loaded' \in [Containers -> [Secrets -> Int]],
         buffer' \in [Secrets -> Content], failures' \in [Secrets -> BOOLEAN],
         standing' \in [Secrets -> Standings],
         UNCHANGED <<trail, attempts, admin, expired, result, prior>>
  PROVE  TypeOK'
BY JournalsKept, CompensateTypes, MoveTypes DEF RestartFailed

LEMMA RestartContainerTypes ==
  ASSUME TypeOK, NEW s \in Secrets, RestartContainer(s)
  PROVE  TypeOK'
<1>1. loaded' \in [Containers -> [Secrets -> Int]]
  BY LoadTypes DEF RestartContainer
<1>2. /\ files' \in [Files -> Content]
      /\ svc' \in [Accounts -> Int] /\ standing' \in [Secrets -> Standings]
      /\ buffer' \in [Secrets -> Content] /\ failures' \in [Secrets -> BOOLEAN]
      /\ UNCHANGED <<trail, attempts, admin, expired, result, prior>>
  BY DEF RestartContainer, TypeOK, past
<1>3. CASE Goto(s, "wait_healthy") /\ UNCHANGED <<journal, at, pos>>
  <2>1. IndicesOK(s)' /\ "wait_healthy" \in Labels
    BY <1>3 DEF RestartContainer, TypeOK, Goto, IndicesOK, Labels
  <2>2. at' \in [Secrets -> Nat \ {0}] /\ pos' \in [Secrets -> Nat \ {0}]
    BY <1>3 DEF TypeOK
  <2>3. QED
    BY <1>1, <1>2, <1>3, <2>1, <2>2, MoveTypes
<1>4. CASE RestartFailed(s)
  BY <1>1, <1>2, <1>4, RestartFailedTypes
<1>5. QED
  BY <1>3, <1>4 DEF RestartContainer

LEMMA WaitHealthyTypes ==
  ASSUME TypeOK, NEW s \in Secrets, WaitHealthy(s)
  PROVE  TypeOK'
<1>1. /\ files' \in [Files -> Content] /\ loaded' \in [Containers -> [Secrets -> Int]]
      /\ svc' \in [Accounts -> Int] /\ standing' \in [Secrets -> Standings]
      /\ buffer' \in [Secrets -> Content] /\ failures' \in [Secrets -> BOOLEAN]
      /\ UNCHANGED <<trail, attempts, admin, expired, result, prior>>
  BY DEF WaitHealthy, TypeOK, world, past
<1>2. CASE /\ pos[s] < Len(ContainersOf[s])
           /\ pos' = [pos EXCEPT ![s] = @ + 1]
           /\ Goto(s, "restart")
           /\ UNCHANGED <<journal, at>>
  <2>1. ContainersOf[s] \in Seq(Containers) /\ pos[s] \in Nat \ {0}
    BY ConfigurationAssumption DEF TypeOK
  <2>2. pos'[s] \in DOMAIN ContainersOf[s] /\ pc'[s] = "restart"
    BY <1>2, <2>1 DEF TypeOK, Goto
  <2>3. IndicesOK(s)' /\ "restart" \in Labels
    BY <2>2 DEF IndicesOK, Labels
  <2>4. /\ at' \in [Secrets -> Nat \ {0}] /\ pos' \in [Secrets -> Nat \ {0}]
        /\ \A t \in Secrets \ {s} : at'[t] = at[t] /\ pos'[t] = pos[t]
    BY <1>2 DEF TypeOK
  <2>5. QED
    BY <1>1, <1>2, <2>3, <2>4, MoveTypes
<1>3. CASE /\ Note(s, RecordRestarted(journal[s], ContainersOf[s]))
           /\ Goto(s, "record_success")
           /\ UNCHANGED <<at, pos>>
  <2>1. at' \in [Secrets -> Nat \ {0}] /\ pos' \in [Secrets -> Nat \ {0}]
    BY <1>3 DEF TypeOK
  <2>2. "record_success" \in Elsewhere /\ "record_success" \in Labels
    BY DEF Elsewhere, Labels
  <2>3. QED
    BY <1>1, <1>3, <2>1, <2>2, JournalsKept, MoveTypes
<1>4. CASE RestartFailed(s)
  BY <1>1, <1>4, RestartFailedTypes
<1>5. QED
  BY <1>2, <1>3, <1>4 DEF WaitHealthy

LEMMA RecordSuccessTypes ==
  ASSUME TypeOK, NEW s \in Secrets, RecordSuccess(s)
  PROVE  TypeOK'
<1>1. journal[s] \in Journal
  BY JournalsKept
<1>2. QED
  BY <1>1, ReturnTypes, RecordTypes DEF RecordSuccess, RecordOutcome, Results, Standings

-----------------------------------------------------------------------------
(* The compensation plan.                                                  *)

(* A RestoreFile action names a file that the journal has a snapshot of.   *)
LEMMA PlanRestoresBackups ==
  ASSUME NEW s, NEW r, JournalOK(s, r), NEW backing \in BOOLEAN,
         NEW i \in DOMAIN CompensationPlan(r, backing),
         i \in Nat \ {0},
         CompensationPlan(r, backing)[i].type = RestoreFile
  PROVE  LET path == CompensationPlan(r, backing)[i].path
         IN  path \in DOMAIN r.fileBackups /\ path \in Files /\ r.fileBackups[path] \in Content
<1> DEFINE plan == CompensationPlan(r, backing)
           restarts == IF r.step >= StepRestarted /\ Len(r.restarted) > 0 THEN 1 ELSE 0
           restores == IF r.step >= StepApplied /\ backing THEN 1 ELSE 0
           n == Len(r.writtenFiles)
<1>1. r \in Journal /\ r.writtenFiles \in Seq(Files)
  BY JournalOKMeaning DEF Journal
<1>2. n \in Nat /\ DOMAIN r.writtenFiles = 1 .. n
  BY <1>1
<1>3. ~(r.step < StepGenerated)
  <2>1. r.step < StepGenerated => plan = <<>>
    BY DEF CompensationPlan
  <2>2. DOMAIN plan # {}
    OBVIOUS
  <2>3. QED
    BY <2>1, <2>2
<1>4. plan = [k \in 1 .. n + restarts + restores |->
                IF k <= n THEN [type |-> RestoreFile, path |-> r.writtenFiles[k]]
                ELSE IF k = n + 1 /\ restarts = 1
                THEN [type |-> RestartContainers, containers |-> r.restarted]
                ELSE [type |-> RestoreCredential]]
  BY <1>3 DEF CompensationPlan
<1>5. i \in 1 .. n + restarts + restores
  BY <1>4
<1>6. i <= n
  BY <1>4, <1>5 DEF RestoreFile, RestartContainers, RestoreCredential
<1>7. plan[i].path = r.writtenFiles[i]
  BY <1>4, <1>5, <1>6
<1>8. r.writtenFiles[i] \in Elements(r.writtenFiles)
  BY <1>2, <1>6 DEF Elements
<1>9. r.writtenFiles[i] \in DOMAIN r.fileBackups
  BY <1>8, JournalOKMeaning
<1>10. r.fileBackups \in Backups
  BY <1>1 DEF Journal
<1>11. QED
  BY <1>7, <1>9, <1>10, BackupsMap

(* The next undo action.                                                   *)
LEMMA UndoNextTypes ==
  ASSUME TypeOK, NEW s \in Secrets, NEW failed \in BOOLEAN, UndoNext(s, failed)
  PROVE  /\ Goto(s, "undo") /\ "undo" \in Labels /\ "undo" \in Elsewhere
         /\ at' \in [Secrets -> Nat \ {0}] /\ pos' \in [Secrets -> Nat \ {0}]
         /\ \A t \in Secrets \ {s} : at'[t] = at[t] /\ pos'[t] = pos[t]
         /\ failures' \in [Secrets -> BOOLEAN]
BY DEF TypeOK, UndoNext, Labels, Elsewhere

LEMMA UndoFileTypes ==
  ASSUME TypeOK, NEW s \in Secrets, UndoFile(s)
  PROVE  TypeOK'
<1> DEFINE path == Plan(s)[at[s]].path
           kept == journal[s].fileBackups[path]
<1>1. path \in Files /\ kept \in Content
  <2>1. /\ at[s] \in DOMAIN CompensationPlan(journal[s], HasBackingService(s))
        /\ CompensationPlan(journal[s], HasBackingService(s))[at[s]].type = RestoreFile
    BY DEF UndoFile, Undoing, Plan
  <2>2. HasBackingService(s) \in BOOLEAN
    BY DEF HasBackingService
  <2>3. JournalOK(s, journal[s]) /\ at[s] \in Nat \ {0}
    BY DEF TypeOK
  <2>4. QED
    BY <2>1, <2>2, <2>3, PlanRestoresBackups DEF Plan
<1>2. files' = files \/ files' = [files EXCEPT ![path] = kept]
  BY DEF UndoFile
<1>3. UndoNext(s, FALSE) \/ UndoNext(s, TRUE)
  BY DEF UndoFile
<1> HIDE DEF path, kept
<1>4. /\ files' \in [Files -> Content] /\ loaded' \in [Containers -> [Secrets -> Int]]
      /\ svc' \in [Accounts -> Int] /\ standing' \in [Secrets -> Standings]
      /\ buffer' \in [Secrets -> Content]
      /\ UNCHANGED <<trail, attempts, journal, admin, expired, result, prior>>
  BY <1>1, <1>2 DEF UndoFile, TypeOK, past
<1>5. QED
  BY <1>3, <1>4, UndoNextTypes, MoveTypes

LEMMA UndoRestartTypes ==
  ASSUME TypeOK, NEW s \in Secrets, UndoRestart(s)
  PROVE  TypeOK'
<1>1. loaded' \in [Containers -> [Secrets -> Int]]
  BY LoadTypes DEF UndoRestart
<1>2. /\ files' \in [Files -> Content]
      /\ svc' \in [Accounts -> Int] /\ standing' \in [Secrets -> Standings]
      /\ buffer' \in [Secrets -> Content]
      /\ UNCHANGED <<trail, attempts, journal, admin, expired, result, prior>>
  BY DEF UndoRestart, TypeOK, past
<1>3. CASE Goto(s, "undo_wait") /\ UNCHANGED <<at, pos, failures>>
  <2>1. "undo_wait" \in Elsewhere /\ "undo_wait" \in Labels
    BY DEF Elsewhere, Labels
  <2>2. /\ at' \in [Secrets -> Nat \ {0}] /\ pos' \in [Secrets -> Nat \ {0}]
        /\ failures' \in [Secrets -> BOOLEAN]
    BY <1>3 DEF TypeOK
  <2>3. QED
    BY <1>1, <1>2, <1>3, <2>1, <2>2, MoveTypes
<1>4. CASE UndoNext(s, TRUE)
  BY <1>1, <1>2, <1>4, UndoNextTypes, MoveTypes
<1>5. QED
  BY <1>3, <1>4 DEF UndoRestart

LEMMA UndoWaitHealthyTypes ==
  ASSUME TypeOK, NEW s \in Secrets, UndoWaitHealthy(s)
  PROVE  TypeOK'
<1>1. /\ files' \in [Files -> Content] /\ loaded' \in [Containers -> [Secrets -> Int]]
      /\ svc' \in [Accounts -> Int] /\ standing' \in [Secrets -> Standings]
      /\ buffer' \in [Secrets -> Content]
      /\ UNCHANGED <<trail, attempts, journal, admin, expired, result, prior>>
  BY DEF UndoWaitHealthy, TypeOK, world, past
<1>2. CASE pos' = [pos EXCEPT ![s] = @ + 1] /\ Goto(s, "undo") /\ UNCHANGED <<at, failures>>
  <2>1. "undo" \in Elsewhere /\ "undo" \in Labels
    BY DEF Elsewhere, Labels
  <2>2. /\ at' \in [Secrets -> Nat \ {0}] /\ pos' \in [Secrets -> Nat \ {0}]
        /\ failures' \in [Secrets -> BOOLEAN]
        /\ \A t \in Secrets \ {s} : at'[t] = at[t] /\ pos'[t] = pos[t]
    BY <1>2 DEF TypeOK
  <2>3. QED
    BY <1>1, <1>2, <2>1, <2>2, MoveTypes
<1>3. CASE UndoNext(s, FALSE) \/ UndoNext(s, TRUE)
  BY <1>1, <1>3, UndoNextTypes, MoveTypes
<1>4. QED
  BY <1>2, <1>3 DEF UndoWaitHealthy

LEMMA UndoCredentialTypes ==
  ASSUME TypeOK, NEW s \in Secrets, UndoCredential(s)
  PROVE  TypeOK'
<1>1. svc' \in [Accounts -> Int] /\ standing' \in [Secrets -> Standings]
  BY JournalsKept DEF UndoCredential, TypeOK, Standings
<1>2. /\ files' \in [Files -> Content] /\ loaded' \in [Containers -> [Secrets -> Int]]
      /\ buffer' \in [Secrets -> Content]
      /\ UNCHANGED <<trail, attempts, journal, admin, expired, result, prior>>
  BY DEF UndoCredential, TypeOK
<1>3. UndoNext(s, FALSE) \/ UndoNext(s, TRUE)
  BY DEF UndoCredential
<1>4. QED
  BY <1>1, <1>2, <1>3, UndoNextTypes, MoveTypes

LEMMA UndoDoneTypes ==
  ASSUME TypeOK, NEW s \in Secrets, UndoDone(s)
  PROVE  TypeOK'
<1>1. "record_failure" \in Elsewhere /\ "record_failure" \in Labels
  BY DEF Elsewhere, Labels
<1>2. /\ files' \in [Files -> Content] /\ loaded' \in [Containers -> [Secrets -> Int]]
      /\ svc' \in [Accounts -> Int] /\ standing' \in [Secrets -> Standings]
      /\ buffer' \in [Secrets -> Content] /\ failures' \in [Secrets -> BOOLEAN]
      /\ at' \in [Secrets -> Nat \ {0}] /\ pos' \in [Secrets -> Nat \ {0}]
      /\ UNCHANGED <<trail, attempts, journal, admin, expired, result, prior, at, pos>>
  BY DEF UndoDone, TypeOK, world, local, past
<1>3. QED
  BY <1>1, <1>2, MoveTypes DEF UndoDone

LEMMA RecordFailureTypes ==
  ASSUME TypeOK, NEW s \in Secrets, RecordFailure(s)
  PROVE  TypeOK'
<1>1. journal[s] \in Journal
  BY JournalsKept
<1>2. standing' = standing \/ \E x \in Standings : standing' = [standing EXCEPT ![s] = x]
  BY DEF RecordFailure, TypeOK, Standings
<1>3. QED
  BY <1>1, <1>2, ReturnTypes, RecordTypes DEF RecordFailure, RecordOutcome, Results

LEMMA CrashTypes ==
  ASSUME TypeOK, Crash
  PROVE  TypeOK'
<1>1. SimpleTypes'
  BY DEF Crash, TypeOK, SimpleTypes, world, Labels, Standings, Content, Absent
<1>2. \A s \in Secrets : OneOK(s)'
  BY BeginRotationOK DEF Crash, OneOK, IndicesOK, JournalOK
<1>3. QED
  BY <1>1, <1>2 DEF TypeOK, SimpleTypes, OneOK

LEMMA StutterTypes ==
  ASSUME TypeOK, UNCHANGED vars
  PROVE  TypeOK'
BY DEF vars, world, local, past, TypeOK, JournalOK, IndicesOK

(* Type correctness, for every configuration: the world and the local      *)
(* variables of every attempt have their types, every journal can be       *)
(* carried out (a written file has its backup), and no loop over files or  *)
(* containers runs past its end.                                           *)
THEOREM TypeCorrect == Spec => []TypeOK
<1>1. Init => TypeOK
  BY InitTypes
<1>2. TypeOK /\ [Next]_vars => TypeOK'
  <2> SUFFICES ASSUME TypeOK, [Next]_vars PROVE TypeOK'
    OBVIOUS
  <2>1. ASSUME NEW s \in Secrets, Begin(s) \/ Expire(s) PROVE TypeOK'
    BY <2>1, BeginTypes, ExpireTypes
  <2>2. ASSUME NEW s \in Secrets, Attempt(s) PROVE TypeOK'
    BY <2>2, ResolveTypes, OpenPrimaryTypes, GenerateTypes, ApplyTypes, VerifyTypes,
       ReadFileTypes, ReplaceFileTypes, RestartContainerTypes, WaitHealthyTypes,
       RecordSuccessTypes, UndoFileTypes, UndoRestartTypes, UndoWaitHealthyTypes,
       UndoCredentialTypes, UndoDoneTypes, RecordFailureTypes DEF Attempt
  <2>3. CASE Crash
    BY <2>3, CrashTypes
  <2>4. CASE Rest \/ UNCHANGED vars
    BY <2>4, StutterTypes DEF Rest
  <2>5. QED
    BY <2>1, <2>2, <2>3, <2>4 DEF Next
<1>3. QED
  BY <1>1, <1>2, PTL DEF Spec

=============================================================================
