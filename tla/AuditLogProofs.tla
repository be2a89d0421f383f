---------------------------- MODULE AuditLogProofs ----------------------------
(***************************************************************************)
(* What the log keeps, for any number of processes, threads and records.   *)
(***************************************************************************)
EXTENDS AuditLog, TLAPS, WellFoundedInduction

CallShape(t) ==
  /\ pc[t] = "idle" <=> call[t] = "none"
  /\ call[t] = "ask" => pc[t] \notin {"seal", "replace", "invalidate", "failed"}
  /\ call[t] = "record" => pc[t] \notin {"lock", "index", "answer"}
  /\ call[t] = "record" => \E e \in Entry : entry[t] = {e}

TypeInv == TypeOK /\ \A t \in Threads : CallShape(t)

(* A set of dates that is not empty has a latest one: the index that load  *)
(* builds is defined for every secret that has a success.                  *)
LEMMA LatestExists ==
  ASSUME NEW n \in Nat, NEW D \in SUBSET (1..n), D # {}
  PROVE  \E d \in D : \A x \in D : x <= d
<1> DEFINE back == {m \in Nat : n - m \in D}
<1>1. back \subseteq Nat /\ back # {}
  <2>1. PICK d \in D : TRUE
    OBVIOUS
  <2>2. n - d \in Nat /\ n - (n - d) = d
    OBVIOUS
  <2> QED
    BY <2>1, <2>2
<1>2. PICK m \in back : \A y \in back : ~(<<y, m>> \in OpToRel(<, Nat))
  BY <1>1, NatLessThanWellFounded, WFMin
<1>3. \A y \in back : ~(y < m)
  BY <1>2 DEF OpToRel
<1>4. ASSUME NEW x \in D PROVE x <= n - m
  <2>1. n - x \in Nat /\ n - (n - x) = x
    OBVIOUS
  <2>2. n - x \in back
    BY <2>1
  <2>3. x \in Nat /\ m \in Nat
    BY <1>1
  <2> HIDE DEF back
  <2>4. ~(n - x < m)
    BY <2>2, <1>3
  <2> QED
    BY <2>3, <2>4
<1>5. n - m \in D
  OBVIOUS
<1> QED
  BY <1>4, <1>5

(* What load answers for a secret: a success it read, and no later one.    *)
LEMMA IndexIsLatest ==
  ASSUME NEW E \in SUBSET Entry
  PROVE  /\ Index(E) \in [Secrets -> Nat]
         /\ \A e \in E : e.ok => Index(E)[e.secret] >= e.at
<1> DEFINE dates(s) == {e.at : e \in {x \in E : x.secret = s /\ x.ok}}
<1>1. \A s \in Secrets : dates(s) \in SUBSET (1..MaxRecords)
  BY DEF Entry
<1>2. ASSUME NEW s \in Secrets
      PROVE  /\ Index(E)[s] \in Nat
             /\ \A d \in dates(s) : d <= Index(E)[s]
  <2>1. Index(E)[s] = IF dates(s) = {} THEN Never
                      ELSE CHOOSE d \in dates(s) : \A x \in dates(s) : x <= d
    BY DEF Index
  <2>2. CASE dates(s) = {}
    <3> HIDE DEF dates
    <3> QED
      BY <2>1, <2>2 DEF Never
  <2>3. CASE dates(s) # {}
    <3>1. \E d \in dates(s) : \A x \in dates(s) : x <= d
      BY <2>3, <1>1, LatestExists, AuditAssumption
    <3> HIDE DEF dates
    <3>2. /\ Index(E)[s] \in dates(s)
          /\ \A x \in dates(s) : x <= Index(E)[s]
      BY <3>1, <2>1, <2>3
    <3> QED
      BY <3>2, <1>1
  <2> QED
    BY <2>2, <2>3
<1>3. ASSUME NEW e \in E, e.ok PROVE Index(E)[e.secret] >= e.at
  <2>1. e.secret \in Secrets /\ e.at \in dates(e.secret) /\ e.at \in Nat
    BY <1>3 DEF Entry
  <2> HIDE DEF dates
  <2> QED
    BY <2>1, <1>2
<1>4. Index(E) = [s \in Secrets |-> Index(E)[s]]
  BY DEF Index
<1> QED
  BY <1>2, <1>3, <1>4

(* Whatever file is read and whichever key is used, entries come out.      *)
LEMMA OpenedAreEntries ==
  ASSUME NEW hf \in HistoryFile, NEW pass, NEW from
  PROVE  Opened(hf, pass, from) \in SUBSET Entry
<1>1. hf.entries \in Seq(SealedEntry)
  BY DEF HistoryFile
<1>2. \A i \in DOMAIN hf.entries : hf.entries[i] \in SealedEntry
  BY <1>1
<1>3. \A i \in DOMAIN hf.entries : hf.entries[i].entry \in Entry
  BY <1>2 DEF SealedEntry
<1> QED
  BY <1>3 DEF Opened

LEMMA EmptyFileIsFile == EmptyFile \in HistoryFile /\ EmptyFile.salt = NoSalt /\ EmptyFile.entries = <<>>
  BY DEF EmptyFile, HistoryFile, NoSalt, Salt

(* The log that an earlier process left is a log.                          *)
LEMMA FoundIsTyped ==
  ASSUME NEW p \in Processes, NEW s \in Secrets
  PROVE  /\ Success(s) \in Entry
         /\ Seal(Success(s), Passphrase[p], FirstSalt) \in SealedEntry
         /\ [salt |-> FirstSalt, entries |-> <<Seal(Success(s), Passphrase[p], FirstSalt)>>]
              \in HistoryFile
<1>1. Success(s) \in Entry
  BY AuditAssumption DEF Success, Entry
<1>2. FirstSalt \in Salt
  BY DEF FirstSalt, ZeroSalt, Salt
<1>3. Seal(Success(s), Passphrase[p], FirstSalt) \in SealedEntry
  BY <1>1, <1>2 DEF Seal, SealedEntry
<1> HIDE DEF FirstSalt
<1>4. <<Seal(Success(s), Passphrase[p], FirstSalt)>> \in Seq(SealedEntry)
  BY <1>3
<1> QED
  BY <1>1, <1>2, <1>3, <1>4 DEF HistoryFile

-----------------------------------------------------------------------------
LEMMA InitTypeInv == Init => TypeInv
<1> SUFFICES ASSUME Init PROVE TypeInv
  OBVIOUS
<1>1. MutexIsHeld
  BY AuditAssumption DEF Init, MutexIsHeld
<1>2. file \in HistoryFile /\ salts \in Nat /\ recorded \subseteq [by : Processes, entry : Entry]
  <2>1. CASE NoLogYet
    BY <2>1, EmptyFileIsFile DEF NoLogYet, ZeroSalt
  <2>2. CASE \E found \in Earlier : LogFound(found[1], found[2])
    <3>1. PICK p \in Processes, s \in Secrets : LogFound(p, s)
      BY <2>2, AuditAssumption
    <3>2. /\ [salt |-> FirstSalt, entries |-> <<Seal(Success(s), Passphrase[p], FirstSalt)>>]
               \in HistoryFile
          /\ Success(s) \in Entry
      BY FoundIsTyped
    <3> QED
      BY <3>1, <3>2 DEF LogFound, FirstSalt, ZeroSalt
  <2> QED
    BY <2>1, <2>2 DEF Init
<1>3. TypeOK
  BY <1>1, <1>2, AuditAssumption, EmptyFileIsFile
  DEF Init, TypeOK, Labels, Salt, NoSalt, NoAnswers, Never
<1> QED
  BY <1>3 DEF Init, TypeInv, CallShape

LEMMA RecordTyped ==
  ASSUME TypeInv, NEW t \in Threads, NEW s \in Secrets, NEW ok \in BOOLEAN, Record(t, s, ok)
  PROVE  TypeInv'
<1> USE DEF TypeInv
<1>1. clock + 1 \in 1..MaxRecords /\ clock' \in Nat
  BY AuditAssumption DEF TypeOK, Record
<1>2. MutexIsHeld'
  BY DEF TypeOK, MutexIsHeld, Record, Idle, At, Goto, cache, CallShape
<1>3. {[secret |-> s, at |-> clock + 1, ok |-> ok]} \in SUBSET Entry
  BY <1>1 DEF Entry
<1>4. overlapped' \subseteq 1..MaxRecords
  <2>1. \A u \in Threads : Dates(entry[u] \cup {[secret |-> s, at |-> clock + 1, ok |-> ok]})
                             \subseteq 1..MaxRecords
    BY <1>3 DEF TypeOK, Dates, Entry
  <2> QED
    BY <2>1 DEF TypeOK, Record
<1>5. split' \in BOOLEAN
  BY DEF TypeOK, Record, SecondSalt
<1>6. TypeOK'
  BY <1>1, <1>2, <1>3, <1>4, <1>5 DEF TypeOK, Record, Goto, cache, keys, Labels
<1> QED
  BY <1>3, <1>6 DEF TypeOK, CallShape, Record, Goto, Idle, At, cache, keys

LEMMA AskTyped ==
  ASSUME TypeInv, NEW t \in Threads, Ask(t)
  PROVE  TypeInv'
<1> USE DEF TypeInv
<1>1. MutexIsHeld'
  BY DEF TypeOK, MutexIsHeld, Ask, Idle, At, Goto, cache, CallShape
<1>2. TypeOK'
  BY <1>1 DEF TypeOK, Ask, Goto, cache, keys, Labels, history
<1> QED
  BY <1>2 DEF TypeOK, CallShape, Ask, Goto, Idle, At, cache, keys

LEMMA LockTyped ==
  ASSUME TypeInv, NEW t \in Threads, Lock(t)
  PROVE  TypeInv'
<1> USE DEF TypeInv
<1>1. call[t] = "ask" /\ call' = call /\ pc[t] = "lock" /\ pc'[t] # "lock" /\ mu[ProcessOf[t]] = Nobody
      /\ ProcessOf[t] \in Processes
  BY AuditAssumption DEF TypeOK, CallShape, Lock, At, Goto, Labels
<1>2. MutexIsHeld'
  BY <1>1, AuditAssumption DEF TypeOK, MutexIsHeld, Lock, Goto
<1>3. TypeOK'
  BY <1>2 DEF TypeOK, Lock, Goto, keys, Labels, history
<1> QED
  BY <1>1, <1>3 DEF TypeOK, CallShape, Lock, Goto, keys

(* A step inside a call, past the lock: the mutex stays where it is.       *)
LEMMA MutexKept ==
  ASSUME TypeInv, UNCHANGED <<mu, call>>,
         \A u \in Threads : pc'[u] = "lock" <=> pc[u] = "lock"
  PROVE  MutexIsHeld'
  BY DEF TypeInv, TypeOK, MutexIsHeld

LEMMA ReadFileTyped ==
  ASSUME TypeInv, NEW t \in Threads, ReadFile(t)
  PROVE  TypeInv'
<1> USE DEF TypeInv
<1>1. MutexIsHeld'
  BY MutexKept DEF TypeOK, ReadFile, Fail, At, Goto, cache, Labels
<1>2. buffer' \in [Threads -> HistoryFile] /\ entry' \in [Threads -> SUBSET Entry]
  BY EmptyFileIsFile DEF TypeOK, ReadFile, Fail
<1>3. pc' \in [Threads -> Labels]
  BY DEF TypeOK, ReadFile, Fail, Goto, Labels
<1>4. TypeOK'
  BY <1>1, <1>2, <1>3 DEF TypeOK, ReadFile, cache, keys, history
<1> QED
  BY <1>4 DEF TypeOK, CallShape, ReadFile, Fail, Goto, At

LEMMA CheckKeyTyped ==
  ASSUME TypeInv, NEW t \in Threads, CheckKey(t)
  PROVE  TypeInv'
<1> USE DEF TypeInv
<1>1. MutexIsHeld'
  BY MutexKept DEF TypeOK, CheckKey, WithKey, At, Goto, cache, Labels
<1>2. TypeOK'
  BY <1>1 DEF TypeOK, CheckKey, WithKey, Goto, cache, keys, Labels, history
<1> QED
  BY <1>2 DEF TypeOK, CallShape, CheckKey, WithKey, Goto, At

LEMMA TakeSaltTyped ==
  ASSUME TypeInv, NEW t \in Threads, TakeSalt(t)
  PROVE  TypeInv'
<1> USE DEF TypeInv
<1>1. MutexIsHeld'
  BY MutexKept DEF TypeOK, TakeSalt, At, Goto, cache, Labels
<1>2. buffer[t].salt \in Salt /\ salt[ProcessOf[t]] \in Salt
  BY AuditAssumption DEF TypeOK, HistoryFile
<1>3. TypeOK'
  BY <1>1, <1>2 DEF TypeOK, TakeSalt, Goto, cache, keys, Labels, history
<1> QED
  BY <1>3 DEF TypeOK, CallShape, TakeSalt, Goto, At

LEMMA AllocateSaltTyped ==
  ASSUME TypeInv, NEW t \in Threads, AllocateSalt(t)
  PROVE  TypeInv'
<1> USE DEF TypeInv
<1>1. MutexIsHeld'
  BY MutexKept DEF TypeOK, AllocateSalt, At, Goto, cache, Labels
<1>2. TypeOK'
  BY <1>1 DEF TypeOK, AllocateSalt, Goto, cache, keys, Labels, Salt, ZeroSalt, history
<1> QED
  BY <1>2 DEF TypeOK, CallShape, AllocateSalt, Goto, At

LEMMA FillSaltTyped ==
  ASSUME TypeInv, NEW t \in Threads, FillSalt(t)
  PROVE  TypeInv'
<1> USE DEF TypeInv
<1>1. MutexIsHeld'
  BY MutexKept DEF TypeOK, FillSalt, At, Goto, cache, Labels
<1>2. salts' \in Nat /\ salt' \in [Processes -> Salt]
  <2>1. salts + 1 \in Nat
    BY DEF TypeOK
  <2> QED
    BY <2>1 DEF TypeOK, FillSalt, Salt
<1>3. TypeOK'
  BY <1>1, <1>2 DEF TypeOK, FillSalt, Goto, cache, keys, Labels, history
<1> QED
  BY <1>3 DEF TypeOK, CallShape, FillSalt, Goto, At

LEMMA DeriveKeyTyped ==
  ASSUME TypeInv, NEW t \in Threads, DeriveKey(t)
  PROVE  TypeInv'
<1> USE DEF TypeInv
<1>1. MutexIsHeld'
  BY MutexKept DEF TypeOK, DeriveKey, WithKey, At, Goto, cache, Labels
<1>2. salt[ProcessOf[t]] \in Salt
  BY AuditAssumption DEF TypeOK
<1>3. TypeOK'
  BY <1>1, <1>2 DEF TypeOK, DeriveKey, WithKey, Goto, cache, keys, Labels, history
<1> QED
  BY <1>3 DEF TypeOK, CallShape, DeriveKey, WithKey, Goto, At

(* The entry that Append seals is the one it was called with.              *)
LEMMA SealedIsEntry ==
  ASSUME TypeInv, NEW t \in Threads, SealEntry(t)
  PROVE  /\ call[t] = "record"
         /\ \E e \in entry[t], x \in SealedEntry :
              /\ x = Seal(e, Passphrase[ProcessOf[t]], derived[ProcessOf[t]])
              /\ buffer' = [buffer EXCEPT ![t].entries = Append(@, x)]
<1> DEFINE p == ProcessOf[t]
           new == {Seal(e, Passphrase[p], derived[p]) : e \in entry[t]}
           x == CHOOSE y \in new : TRUE
<1>1. call[t] = "record" /\ entry[t] # {} /\ entry[t] \subseteq Entry
  BY DEF TypeInv, TypeOK, CallShape, SealEntry, At, Labels
<1>2. x \in new
  BY <1>1
<1>3. PICK e \in entry[t] : x = Seal(e, Passphrase[p], derived[p])
  BY <1>2
<1>4. p \in Processes /\ derived[p] \in Salt
  BY AuditAssumption DEF TypeInv, TypeOK
<1>5. x \in SealedEntry
  BY <1>1, <1>3, <1>4 DEF Seal, SealedEntry
<1>6. buffer' = [buffer EXCEPT ![t].entries = Append(@, x)]
  BY DEF SealEntry
<1> QED
  BY <1>1, <1>3, <1>5, <1>6

LEMMA SealEntryTyped ==
  ASSUME TypeInv, NEW t \in Threads, SealEntry(t)
  PROVE  TypeInv'
<1> USE DEF TypeInv
<1>1. MutexIsHeld'
  BY MutexKept DEF TypeOK, SealEntry, At, Goto, cache, Labels
<1>2. PICK x \in SealedEntry : buffer' = [buffer EXCEPT ![t].entries = Append(@, x)]
  BY SealedIsEntry
<1>3. buffer' \in [Threads -> HistoryFile]
  <2>1. buffer[t] \in HistoryFile
    BY DEF TypeOK
  <2>2. Append(buffer[t].entries, x) \in Seq(SealedEntry)
    BY <2>1 DEF HistoryFile
  <2> QED
    BY <1>2, <2>1, <2>2 DEF TypeOK, HistoryFile
<1>4. TypeOK'
  BY <1>1, <1>3 DEF TypeOK, SealEntry, Goto, cache, keys, Labels, history
<1> QED
  BY <1>4, SealedIsEntry DEF TypeOK, CallShape, SealEntry, Goto, At

LEMMA ReplaceFileTyped ==
  ASSUME TypeInv, NEW t \in Threads, ReplaceFile(t)
  PROVE  TypeInv'
<1> USE DEF TypeInv
<1>1. call[t] = "record"
  BY DEF TypeOK, CallShape, ReplaceFile, At, Labels
<1>2. MutexIsHeld'
  BY MutexKept, <1>1 DEF TypeOK, ReplaceFile, Fail, At, Goto, cache, Labels
<1>3. salt[ProcessOf[t]] \in Salt
  BY AuditAssumption DEF TypeOK
<1>4. file' \in HistoryFile
  <2>1. file \in HistoryFile /\ buffer[t] \in HistoryFile
    BY DEF TypeOK
  <2>2. \A s \in Salt : [buffer[t] EXCEPT !.salt = s] \in HistoryFile
    BY <2>1 DEF HistoryFile
  <2>3. buffer[t].salt \in Salt
    BY <2>1 DEF HistoryFile
  <2> QED
    BY <1>3, <2>1, <2>2, <2>3 DEF ReplaceFile
<1>5. buffer' \in [Threads -> HistoryFile] /\ entry' \in [Threads -> SUBSET Entry]
  BY EmptyFileIsFile DEF TypeOK, ReplaceFile, Fail
<1>6. TypeOK'
  BY <1>1, <1>2, <1>4, <1>5 DEF TypeOK, ReplaceFile, Fail, Goto, cache, keys, Labels, history
<1> QED
  BY <1>1, <1>6 DEF TypeOK, CallShape, ReplaceFile, Fail, Goto, At

LEMMA InvalidateTyped ==
  ASSUME TypeInv, NEW t \in Threads, Invalidate(t)
  PROVE  TypeInv'
<1> USE DEF TypeInv
<1>1. call[t] = "record" /\ entry[t] \subseteq Entry /\ ProcessOf[t] \in Processes
  BY AuditAssumption DEF TypeOK, CallShape, Invalidate, At, Labels
<1>2. MutexIsHeld'
  BY <1>1 DEF TypeOK, MutexIsHeld, Invalidate, At, Goto, Labels
<1>3. recorded' \subseteq [by : Processes, entry : Entry]
  BY <1>1 DEF TypeOK, Invalidate, Confirmed
<1>4. last' \in [Processes -> [Secrets -> Nat]]
  BY DEF TypeOK, Invalidate, NoAnswers, Never
<1>5. TypeOK'
  BY <1>2, <1>3, <1>4 DEF TypeOK, Invalidate, Goto, keys, Labels, history
<1> QED
  BY <1>5 DEF TypeOK, CallShape, Invalidate, Goto, At

LEMMA IndexAnswersTyped ==
  ASSUME TypeInv, NEW t \in Threads, IndexAnswers(t)
  PROVE  TypeInv'
<1> USE DEF TypeInv
<1> DEFINE p == ProcessOf[t]
           E == Opened(buffer[t], Passphrase[p], derived[p])
<1>1. MutexIsHeld'
  BY MutexKept DEF TypeOK, IndexAnswers, At, Goto, Labels
<1>2. Index(E) \in [Secrets -> Nat]
  <2>1. buffer[t] \in HistoryFile
    BY DEF TypeOK
  <2> QED
    BY <2>1, OpenedAreEntries, IndexIsLatest
<1>3. last' \in [Processes -> [Secrets -> Nat]]
  BY <1>2 DEF TypeOK, IndexAnswers
<1>4. TypeOK'
  BY <1>1, <1>3 DEF TypeOK, IndexAnswers, Goto, keys, Labels, history
<1> QED
  BY <1>4 DEF TypeOK, CallShape, IndexAnswers, Goto, At

LEMMA AnswerTyped ==
  ASSUME TypeInv, NEW t \in Threads, Answer(t)
  PROVE  TypeInv'
<1> USE DEF TypeInv
<1>1. call[t] = "ask" /\ ProcessOf[t] \in Processes /\ mu[ProcessOf[t]] = t
  <2>1. call[t] = "ask" /\ pc[t] = "answer"
    BY DEF TypeOK, CallShape, Answer, At
  <2>2. ProcessOf[t] \in Processes
    BY AuditAssumption
  <2> QED
    BY <2>1, <2>2 DEF TypeOK, MutexIsHeld
<1>2. MutexIsHeld'
  BY <1>1, AuditAssumption DEF TypeOK, MutexIsHeld, Answer, At, Goto
<1>3. TypeOK'
  BY <1>2, EmptyFileIsFile DEF TypeOK, Answer, Goto, keys, Labels, history
<1> QED
  BY <1>3 DEF TypeOK, CallShape, Answer, Goto, At

LEMMA CrashTyped ==
  ASSUME TypeInv, NEW p \in Processes, Crash(p)
  PROVE  TypeInv'
<1> USE DEF TypeInv
<1>1. /\ pc' = [t \in Threads |-> IF ProcessOf[t] = p THEN "idle" ELSE pc[t]]
      /\ call' = [t \in Threads |-> IF ProcessOf[t] = p THEN "none" ELSE call[t]]
      /\ mu' = [mu EXCEPT ![p] = Nobody]
  BY DEF Crash
<1>2. MutexIsHeld'
  BY <1>1, AuditAssumption DEF TypeOK, MutexIsHeld
<1>3. last' \in [Processes -> [Secrets -> Nat]]
  BY DEF TypeOK, Crash, NoAnswers, Never
<1>4. /\ entry' \in [Threads -> SUBSET Entry]
      /\ buffer' \in [Threads -> HistoryFile]
      /\ crashes' \in Nat
  BY EmptyFileIsFile DEF TypeOK, Crash
<1>5. TypeOK'
  BY <1>1, <1>2, <1>3, <1>4 DEF TypeOK, Crash, Labels, Salt, NoSalt, history
<1>6. ASSUME NEW t \in Threads PROVE CallShape(t)'
  BY <1>1 DEF CallShape, Crash
<1> QED
  BY <1>5, <1>6

LEMMA StepTyped ==
  TypeInv /\ [Next]_vars => TypeInv'
<1> SUFFICES ASSUME TypeInv, [Next]_vars PROVE TypeInv'
  OBVIOUS
<1>1. ASSUME NEW t \in Threads, NEW s \in Rotates[t], NEW ok \in BOOLEAN, Record(t, s, ok)
      PROVE  TypeInv'
  BY <1>1, RecordTyped, AuditAssumption
<1>2. ASSUME NEW t \in Askers, Ask(t) PROVE TypeInv'
  BY <1>2, AskTyped, AuditAssumption
<1>3. ASSUME NEW t \in Threads, Step(t) PROVE TypeInv'
  BY <1>3, LockTyped, ReadFileTyped, CheckKeyTyped, TakeSaltTyped, AllocateSaltTyped,
     FillSaltTyped, DeriveKeyTyped, SealEntryTyped, ReplaceFileTyped, InvalidateTyped,
     IndexAnswersTyped, AnswerTyped DEF Step
<1>4. ASSUME NEW p \in Processes, Crash(p) PROVE TypeInv'
  BY <1>4, CrashTyped
<1>5. CASE UNCHANGED vars
  BY <1>5 DEF vars, cache, keys, history, TypeInv, TypeOK, MutexIsHeld, CallShape
<1> QED
  BY <1>1, <1>2, <1>3, <1>4, <1>5 DEF Next

(* TypeOK holds for any processes, threads, passphrases and failures:      *)
(* besides types, the mutex of History is held exactly by the thread that  *)
(* is inside LastSuccess, on the failing paths too (history.go:34-60).     *)
THEOREM LogTypeCorrect == Spec => []TypeOK
<1>1. TypeInv => TypeOK
  BY DEF TypeInv
<1> QED
  BY <1>1, InitTypeInv, StepTyped, PTL DEF Spec

-----------------------------------------------------------------------------
SealedIn(hf) == {hf.entries[i] : i \in DOMAIN hf.entries}

\* What can still be lost is left out.
Alone(sealed) == {x \in sealed : x.entry.at \notin overlapped}
Kept(hf)      == Alone(SealedIn(hf))

\* Whoever appends while another does has its entry's date in overlapped.
Overlaps ==
  \A t, u \in Threads :
    t # u /\ Appending(t) /\ Appending(u) => Dates(entry[t]) \subseteq overlapped

\* A file with entries has the salt they were sealed under.
FileOK == file.salt = NoSalt => file.entries = <<>>

\* The log gets its salt from one append, in the only process that has one.
FirstOK ==
  file.salt = NoSalt =>
    /\ \A t, u \in Threads : Appending(t) /\ Appending(u) => t = u
    /\ \A t \in Threads, q \in Processes :
         Appending(t) /\ salt[q] # NoSalt => ProcessOf[t] = q

\* The cached key is that of the cached salt, and the cached salt is the file's.
KeyOK(p) ==
  /\ derived[p] # NoSalt => derived[p] = salt[p]
  /\ file.salt # NoSalt => salt[p] \in {NoSalt, file.salt}

(* What Append has read is what the file holds but for entries that can be *)
(* lost, what it will write is that and its entry, and what it has written *)
(* can be opened.                                                          *)
RecorderOK(t) ==
  LET p == ProcessOf[t]
  IN  call[t] = "record" =>
        /\ pc[t] \in {"key", "salt", "allocate", "fill", "derive", "seal"} =>
             buffer[t].salt = file.salt /\ Kept(buffer[t]) = Kept(file)
        /\ pc[t] = "salt" /\ file.salt = NoSalt => derived[p] = NoSalt
        /\ pc[t] \in {"allocate", "fill"} => file.salt = NoSalt /\ derived[p] = NoSalt
        /\ pc[t] = "derive" => salt[p] # NoSalt
        /\ pc[t] \in {"seal", "replace"} => derived[p] # NoSalt
        /\ pc[t] = "replace" =>
             \E e \in Entry :
               LET x == Seal(e, Passphrase[p], derived[p])
               IN  /\ entry[t] = {e}
                   /\ buffer[t].salt = file.salt
                   /\ x \in SealedIn(buffer[t])
                   /\ Kept(buffer[t]) = Kept(file) \cup Alone({x})
        /\ pc[t] = "invalidate" =>
             \A e \in entry[t] : e.at \notin overlapped => e \in Readable(Passphrase[p])

(* What load has read holds every success its process has recorded and     *)
(* that cannot be lost: none is recorded before it lets the mutex go.      *)
AskerOK(t) ==
  LET p == ProcessOf[t]
  IN  call[t] = "ask" =>
        /\ pc[t] \notin {"allocate", "fill"}
        /\ pc[t] \in {"key", "salt", "derive"} =>
             file.salt # NoSalt /\ buffer[t].salt = file.salt
        /\ pc[t] = "derive" => salt[p] # NoSalt
        /\ pc[t] = "index" =>
             buffer[t].entries = <<>> \/ (derived[p] # NoSalt /\ file.salt # NoSalt)
        /\ pc[t] \in {"key", "salt", "derive", "index"} =>
             \A r \in recorded :
               r.by = p /\ r.entry.at \notin overlapped =>
                 r.entry \in Opened(buffer[t], Passphrase[p], file.salt)

Sound ==
  /\ FileOK
  /\ FirstOK
  /\ \A p \in Processes : KeyOK(p)
  /\ \A t \in Threads : RecorderOK(t) /\ AskerOK(t)
  /\ EntriesReadable
  /\ AnswersAreFresh

(* Of a log that got two salts nothing is claimed but the overlaps.        *)
LogInv == TypeInv /\ Overlaps /\ (~split => Sound)

LEMMA OpenedIsSealed ==
  ASSUME NEW hf, NEW pass, NEW from, NEW y
  PROVE  y \in Opened(hf, pass, from) <=>
           \E x \in SealedIn(hf) : Opens(x, pass, from) /\ y = x.entry
  BY DEF Opened, SealedIn

(* A file that keeps what the other keeps still opens what cannot be lost. *)
LEMMA KeptOpens ==
  ASSUME NEW hf, NEW hg, Kept(hf) \subseteq Kept(hg), NEW pass, NEW from,
         NEW e \in Opened(hf, pass, from), e.at \notin overlapped
  PROVE  e \in Opened(hg, pass, from)
<1>1. PICK x \in SealedIn(hf) : Opens(x, pass, from) /\ e = x.entry
  BY OpenedIsSealed
<1>2. x \in SealedIn(hg)
  BY <1>1 DEF Kept, Alone
<1> QED
  BY <1>1, <1>2, OpenedIsSealed

LEMMA NothingOpens ==
  ASSUME NEW hf, hf.entries = <<>>, NEW pass, NEW from
  PROVE  Opened(hf, pass, from) = {}
  BY DEF Opened

(* An appended entry is the one more that a file has.                      *)
LEMMA SealedAppend ==
  ASSUME NEW hf \in HistoryFile, NEW hg \in HistoryFile, NEW x \in SealedEntry,
         hg.entries = Append(hf.entries, x)
  PROVE  SealedIn(hg) = SealedIn(hf) \cup {x}
<1> DEFINE f == hf.entries
           g == hg.entries
<1>1. /\ f \in Seq(SealedEntry) /\ g \in Seq(SealedEntry)
      /\ g = Append(f, x)
  BY DEF HistoryFile
<1> HIDE DEF f, g
<1>2. /\ \A i \in DOMAIN f : i \in DOMAIN g /\ g[i] = f[i]
      /\ Len(g) \in DOMAIN g /\ g[Len(g)] = x
      /\ \A i \in DOMAIN g : g[i] = x \/ (i \in DOMAIN f /\ g[i] = f[i])
  BY <1>1
<1>3. /\ \A y : y \in SealedIn(hf) <=> \E i \in DOMAIN f : y = f[i]
      /\ \A y : y \in SealedIn(hg) <=> \E i \in DOMAIN g : y = g[i]
  BY DEF SealedIn, f, g
<1> QED
  BY <1>2, <1>3

LEMMA InitLogInv == Init => LogInv
<1> SUFFICES ASSUME Init PROVE LogInv
  OBVIOUS
<1>1. TypeInv
  BY InitTypeInv
<1>2. \A t \in Threads : pc[t] = "idle" /\ call[t] = "none"
  BY DEF Init
<1>3. \A p \in Processes : salt[p] = NoSalt /\ derived[p] = NoSalt /\ ~loaded[p]
  BY DEF Init
<1>4. FileOK /\ EntriesReadable
  <2>1. CASE NoLogYet
    BY <2>1, EmptyFileIsFile DEF NoLogYet, FileOK, EntriesReadable
  <2>2. CASE \E found \in Earlier : LogFound(found[1], found[2])
    <3>1. PICK p \in Processes, s \in Secrets : LogFound(p, s)
      BY <2>2, AuditAssumption
    <3>2. file.salt = FirstSalt /\ file.salt # NoSalt
      BY <3>1 DEF LogFound, FirstSalt, ZeroSalt, NoSalt
    <3>3. SealedIn(file) = {Seal(Success(s), Passphrase[p], FirstSalt)}
      <4>1. file.entries = <<Seal(Success(s), Passphrase[p], FirstSalt)>>
        BY <3>1 DEF LogFound
      <4> QED
        BY <4>1 DEF SealedIn
    <3>4. Success(s) \in Readable(Passphrase[p])
      <4> DEFINE x == Seal(Success(s), Passphrase[p], FirstSalt)
      <4>1. x \in SealedIn(file)
        BY <3>3
      <4>2. Opens(x, Passphrase[p], file.salt) /\ x.entry = Success(s)
        BY <3>2 DEF Opens, Seal
      <4> HIDE DEF x
      <4> QED
        BY <4>1, <4>2, OpenedIsSealed DEF Readable
    <3> QED
      BY <3>1, <3>2, <3>4 DEF LogFound, FileOK, EntriesReadable
  <2> QED
    BY <2>1, <2>2 DEF Init
<1>5. Overlaps /\ FirstOK
  BY <1>2 DEF Overlaps, FirstOK, Appending, Recording
<1>6. \A p \in Processes : KeyOK(p)
  BY <1>3 DEF KeyOK
<1>7. \A t \in Threads : RecorderOK(t) /\ AskerOK(t)
  BY <1>2 DEF RecorderOK, AskerOK
<1>8. AnswersAreFresh
  BY <1>3 DEF AnswersAreFresh
<1> QED
  BY <1>1, <1>4, <1>5, <1>6, <1>7, <1>8 DEF LogInv, Sound

-----------------------------------------------------------------------------
(* An append begins with its Record and with nothing else.                 *)
LEMMA OverlapsKept ==
  ASSUME TypeInv, Overlaps, [Next]_vars
  PROVE  Overlaps'
<1>1. ASSUME NEW t \in Threads, NEW s \in Secrets, NEW ok \in BOOLEAN, Record(t, s, ok)
      PROVE  Overlaps'
  <2> DEFINE new == [secret |-> s, at |-> clock + 1, ok |-> ok]
  <2>1. /\ \A u \in Threads : u # t => UNCHANGED <<pc[u], call[u], entry[u]>>
        /\ entry'[t] = {new}
        /\ \A u \in Threads : Appending(u) => Dates(entry[u] \cup {new}) \subseteq overlapped'
        /\ overlapped \subseteq overlapped'
    BY <1>1 DEF Record, Goto, TypeInv, TypeOK
  <2>2. \A u \in Threads : u # t /\ Appending(u)' => Appending(u)
    BY <2>1 DEF Appending, Recording
  <2>3. SUFFICES ASSUME NEW u \in Threads, NEW v \in Threads, u # v, Appending(u)', Appending(v)'
                 PROVE  Dates(entry'[u]) \subseteq overlapped'
    BY DEF Overlaps, Dates
  <2>4. CASE u = t
    <3>1. Dates(entry[v] \cup {new}) \subseteq overlapped'
      BY <2>1, <2>2, <2>3, <2>4
    <3> QED
      BY <3>1, <2>1, <2>4 DEF Dates
  <2>5. CASE v = t
    <3>1. Dates(entry[u] \cup {new}) \subseteq overlapped'
      BY <2>1, <2>2, <2>3, <2>5
    <3> QED
      BY <3>1, <2>1, <2>3, <2>5 DEF Dates
  <2>6. CASE u # t /\ v # t
    <3>1. Dates(entry[u]) \subseteq overlapped
      BY <2>2, <2>3, <2>6 DEF Overlaps
    <3> QED
      BY <3>1, <2>1, <2>6 DEF Dates
  <2> QED
    BY <2>4, <2>5, <2>6
<1>2. ASSUME UNCHANGED overlapped,
             \A u \in Threads : Appending(u)' => Appending(u) /\ entry'[u] = entry[u]
      PROVE  Overlaps'
  BY <1>2 DEF Overlaps, Dates
<1>3. ASSUME NEW t \in Askers, Ask(t) PROVE Overlaps'
  BY <1>2, <1>3 DEF Ask, Goto, Appending, Recording, history, TypeInv, TypeOK
<1>4. ASSUME NEW t \in Threads, Step(t) PROVE Overlaps'
  <2>1. CASE Invalidate(t)
    BY <1>2, <2>1 DEF Invalidate, Goto, Appending, Recording, TypeInv, TypeOK
  <2>2. CASE Answer(t)
    BY <1>2, <2>2 DEF Answer, Goto, Appending, Recording, history, TypeInv, TypeOK
  <2>3. CASE Lock(t) \/ ReadFile(t) \/ CheckKey(t) \/ TakeSalt(t) \/ AllocateSalt(t)
             \/ FillSalt(t) \/ DeriveKey(t) \/ SealEntry(t) \/ ReplaceFile(t) \/ IndexAnswers(t)
    <3>1. /\ UNCHANGED <<call, entry, overlapped>>
          /\ \A u \in Threads : u # t => pc'[u] = pc[u]
          /\ pc[t] \notin {"invalidate", "failed"}
      BY <2>3 DEF Lock, ReadFile, CheckKey, TakeSalt, AllocateSalt, FillSalt, DeriveKey, SealEntry,
         ReplaceFile, IndexAnswers, Fail, WithKey, Goto, At, history, TypeInv, TypeOK
    <3> QED
      BY <3>1, <1>2 DEF Appending, Recording
  <2> QED
    BY <1>4, <2>1, <2>2, <2>3 DEF Step
<1>5. ASSUME NEW p \in Processes, Crash(p) PROVE Overlaps'
  BY <1>2, <1>5 DEF Crash, Appending, Recording, history
<1>6. CASE UNCHANGED vars
  BY <1>2, <1>6 DEF vars, history, Appending, Recording
<1> QED
  BY <1>1, <1>3, <1>4, <1>5, <1>6, AuditAssumption DEF Next

-----------------------------------------------------------------------------
(* Of a step in a log that has one salt: what it leaves alone stays as it  *)
(* should be.                                                              *)
LEMMA ReadableKept ==
  ASSUME Sound, UNCHANGED <<file, recorded, overlapped, split>>
  PROVE  FileOK' /\ EntriesReadable'
  BY DEF Sound, FileOK, EntriesReadable, Readable, Exposed

LEMMA FreshKept ==
  ASSUME Sound, UNCHANGED <<loaded, last, recorded, overlapped, split>>
  PROVE  AnswersAreFresh'
  BY DEF Sound, AnswersAreFresh, Exposed

LEMMA FirstKept ==
  ASSUME Sound, UNCHANGED <<file, salt>>,
         \A u \in Threads : Appending(u)' => Appending(u)
  PROVE  FirstOK'
  BY DEF Sound, FirstOK

LEMMA KeysKept ==
  ASSUME Sound, UNCHANGED <<file, salt, derived>>
  PROVE  \A p \in Processes : KeyOK(p)'
  BY DEF Sound, KeyOK

(* A thread that no step moves keeps what its call relies on, as long as   *)
(* file, key and salt of its process do.                                   *)
LEMMA BystanderKept ==
  ASSUME Sound, NEW u \in Threads,
         UNCHANGED <<pc[u], call[u], entry[u], buffer[u]>>,
         UNCHANGED <<file, recorded, overlapped>>,
         UNCHANGED <<salt[ProcessOf[u]], derived[ProcessOf[u]]>>
  PROVE  RecorderOK(u)' /\ AskerOK(u)'
<1>1. RecorderOK(u) /\ AskerOK(u)
  BY DEF Sound
<1>2. RecorderOK(u)'
  BY <1>1 DEF RecorderOK, Readable, Kept, Alone, SealedIn
<1>3. AskerOK(u)'
  BY <1>1 DEF AskerOK
<1> QED
  BY <1>2, <1>3

(* An outcome comes in: what it may overlap with is no longer claimed, and *)
(* of a log without a salt it is the first append or nothing is.           *)
LEMMA RecordKeeps ==
  ASSUME TypeInv, Sound, ~split, ~split',
         NEW t \in Threads, NEW s \in Secrets, NEW ok \in BOOLEAN, Record(t, s, ok)
  PROVE  Sound'
<1>1. /\ pc' = [pc EXCEPT ![t] = "read"] /\ call' = [call EXCEPT ![t] = "record"]
      /\ \A u \in Threads : u # t => UNCHANGED entry[u]
      /\ UNCHANGED <<file, salts, salt, derived, mu, loaded, last, buffer, recorded>>
      /\ overlapped \subseteq overlapped'
  BY DEF Record, Goto, cache, keys, TypeInv, TypeOK
<1>2. FileOK'
  BY <1>1 DEF Sound, FileOK
<1>3. FirstOK'
  <2>1. SUFFICES ASSUME file.salt = NoSalt
                 PROVE  /\ \A u \in Threads : Appending(u)' => u = t
                        /\ \A q \in Processes : salt[q] # NoSalt => ProcessOf[t] = q
    BY <1>1 DEF FirstOK
  <2>2. ~SecondSalt(ProcessOf[t], {u \in Threads : Appending(u)})
    BY DEF Record
  <2>3. /\ {u \in Threads : Appending(u)} = {}
        /\ \A q \in Processes \ {ProcessOf[t]} : salt[q] = NoSalt
    BY <2>1, <2>2 DEF SecondSalt
  <2>4. \A u \in Threads : u # t /\ Appending(u)' => Appending(u)
    BY <1>1 DEF Appending, Recording, TypeInv, TypeOK
  <2> QED
    BY <2>3, <2>4
<1>4. \A p \in Processes : KeyOK(p)'
  BY <1>1, KeysKept
<1>5. \A hf : Kept(hf)' = {x \in Kept(hf) : x.entry.at \notin overlapped'}
  BY <1>1 DEF Kept, Alone, SealedIn
<1>6. ASSUME NEW u \in Threads PROVE RecorderOK(u)'
  <2>1. CASE u = t
    BY <2>1, <1>1 DEF RecorderOK, TypeInv, TypeOK
  <2>2. CASE u # t
    <3>1. UNCHANGED <<pc[u], call[u], entry[u], buffer[u]>>
      BY <2>2, <1>1 DEF TypeInv, TypeOK
    <3>2. RecorderOK(u)
      BY DEF Sound
    <3>3. Kept(buffer[u]) = Kept(file) => Kept(buffer[u])' = Kept(file)'
      BY <1>1, <1>5, <3>1
    <3>4. \A x : Kept(buffer[u]) = Kept(file) \cup Alone({x}) =>
                   Kept(buffer[u])' = Kept(file)' \cup Alone({x})'
      BY <1>1, <1>5, <3>1 DEF Alone
    <3>5. SealedIn(buffer[u])' = SealedIn(buffer[u])
      BY <3>1 DEF SealedIn
    <3>6. CASE call[u] = "record" /\ pc[u] = "replace"
      <4>1. PICK e \in Entry :
              LET x == Seal(e, Passphrase[ProcessOf[u]], derived[ProcessOf[u]])
              IN  /\ entry[u] = {e}
                  /\ buffer[u].salt = file.salt
                  /\ x \in SealedIn(buffer[u])
                  /\ Kept(buffer[u]) = Kept(file) \cup Alone({x})
        BY <3>2, <3>6 DEF RecorderOK
      <4> DEFINE x == Seal(e, Passphrase[ProcessOf[u]], derived[ProcessOf[u]])
      <4>2. /\ entry'[u] = {e} /\ buffer'[u].salt = file'.salt
            /\ x \in SealedIn(buffer[u])'
            /\ Kept(buffer[u])' = Kept(file)' \cup Alone({x})'
        BY <4>1, <3>1, <3>4, <3>5, <1>1
      <4> QED
        BY <4>2, <3>1, <3>2, <3>6, <1>1 DEF RecorderOK
    <3>7. CASE ~(call[u] = "record" /\ pc[u] = "replace")
      BY <3>1, <3>2, <3>3, <3>7, <1>1 DEF RecorderOK, Readable
    <3> QED
      BY <3>6, <3>7
  <2> QED
    BY <2>1, <2>2
<1>7. ASSUME NEW u \in Threads PROVE AskerOK(u)'
  <2>1. AskerOK(u)
    BY DEF Sound
  <2>2. call'[u] = "ask" => UNCHANGED <<pc[u], call[u], buffer[u]>>
    BY <1>1 DEF TypeInv, TypeOK
  <2> QED
    BY <2>1, <2>2, <1>1 DEF AskerOK
<1>8. EntriesReadable' /\ AnswersAreFresh'
  BY <1>1 DEF Sound, EntriesReadable, AnswersAreFresh, Readable, Exposed
<1> QED
  BY <1>2, <1>3, <1>4, <1>6, <1>7, <1>8 DEF Sound

LEMMA AskKeeps ==
  ASSUME TypeInv, Sound, ~split, NEW t \in Threads, Ask(t)
  PROVE  Sound'
<1>1. /\ pc' = [pc EXCEPT ![t] = "lock"] /\ call' = [call EXCEPT ![t] = "ask"]
      /\ UNCHANGED <<file, salts, salt, derived, mu, loaded, last, entry, buffer>>
      /\ UNCHANGED <<recorded, overlapped, split>>
  BY DEF Ask, Goto, cache, keys, history
<1>2. \A u \in Threads : Appending(u)' => Appending(u)
  BY <1>1 DEF Appending, Recording, TypeInv, TypeOK
<1>3. RecorderOK(t)' /\ AskerOK(t)'
  BY <1>1 DEF RecorderOK, AskerOK, TypeInv, TypeOK
<1>4. ASSUME NEW u \in Threads PROVE RecorderOK(u)' /\ AskerOK(u)'
  BY <1>1, <1>3, BystanderKept DEF TypeInv, TypeOK
<1> QED
  BY <1>1, <1>2, <1>4, ReadableKept, FreshKept, FirstKept, KeysKept DEF Sound

(* Inside a call, before it returns, no append begins.                     *)
LEMMA AppendsKept ==
  ASSUME TypeInv, UNCHANGED call, NEW t \in Threads, pc[t] \notin {"invalidate", "failed"},
         \A u \in Threads : u # t => pc'[u] = pc[u]
  PROVE  \A u \in Threads : Appending(u)' => Appending(u)
  BY DEF Appending, Recording

LEMMA LockKeeps ==
  ASSUME TypeInv, Sound, ~split, NEW t \in Threads, Lock(t)
  PROVE  Sound'
<1>1. /\ pc[t] = "lock" /\ pc'[t] = IF loaded[ProcessOf[t]] THEN "answer" ELSE "read"
      /\ \A u \in Threads : u # t => pc'[u] = pc[u]
      /\ UNCHANGED <<file, salts, salt, derived, loaded, last, call, entry, buffer>>
      /\ UNCHANGED <<recorded, overlapped, split>>
  BY DEF Lock, Goto, At, keys, history, TypeInv, TypeOK
<1>2. call[t] = "ask"
  BY <1>1 DEF TypeInv, TypeOK, CallShape
<1>3. RecorderOK(t)' /\ AskerOK(t)'
  BY <1>1, <1>2 DEF RecorderOK, AskerOK
<1>4. ASSUME NEW u \in Threads PROVE RecorderOK(u)' /\ AskerOK(u)'
  BY <1>1, <1>3, BystanderKept
<1> QED
  BY <1>1, <1>4, AppendsKept, ReadableKept, FreshKept, FirstKept, KeysKept DEF Sound

LEMMA ReadFileKeeps ==
  ASSUME TypeInv, Sound, ~split, NEW t \in Threads, ReadFile(t)
  PROVE  Sound'
<1> DEFINE p == ProcessOf[t]
<1>1. /\ pc[t] = "read" /\ call[t] \in {"ask", "record"}
      /\ UNCHANGED <<file, salts, salt, derived, mu, loaded, last, call, entry>>
      /\ UNCHANGED <<recorded, overlapped, split>>
      /\ \A u \in Threads : u # t => UNCHANGED <<pc[u], buffer[u]>>
  BY DEF ReadFile, Fail, Goto, At, cache, keys, history, TypeInv, TypeOK, CallShape
<1>2. RecorderOK(t) /\ AskerOK(t) /\ EntriesReadable /\ FileOK
  BY DEF Sound
<1>3. RecorderOK(t)' /\ AskerOK(t)'
  <2>1. CASE /\ buffer' = [buffer EXCEPT ![t] = file]
             /\ Goto(t, IF call[t] = "ask" /\ file.entries = <<>> THEN "index" ELSE "key")
    <3>1. buffer'[t] = file
          /\ pc'[t] = IF call[t] = "ask" /\ file.entries = <<>> THEN "index" ELSE "key"
      BY <2>1 DEF Goto, TypeInv, TypeOK
    <3>2. RecorderOK(t)'
      BY <3>1, <1>1 DEF RecorderOK, Kept, Alone, SealedIn
    <3>3. \A r \in recorded : r.by = p /\ r.entry.at \notin overlapped =>
            r.entry \in Opened(file, Passphrase[p], file.salt)
      BY <1>2 DEF EntriesReadable, Readable, Exposed
    <3>4. AskerOK(t)'
      BY <3>1, <3>3, <1>1, <1>2 DEF AskerOK, FileOK
    <3> QED
      BY <3>2, <3>4
  <2>2. CASE Fail(t)
    <3>1. pc'[t] = IF call[t] = "ask" THEN "answer" ELSE "failed"
      BY <2>2 DEF Fail, Goto, TypeInv, TypeOK
    <3> QED
      BY <3>1, <1>1 DEF RecorderOK, AskerOK
  <2> QED
    BY <2>1, <2>2 DEF ReadFile
<1>4. ASSUME NEW u \in Threads PROVE RecorderOK(u)' /\ AskerOK(u)'
  BY <1>1, <1>3, BystanderKept
<1> QED
  BY <1>1, <1>4, AppendsKept, ReadableKept, FreshKept, FirstKept, KeysKept DEF Sound

(* With the key of the process cached: ensureKey returns without a look at *)
(* the file's salt, which is the one the key came from.                    *)
LEMMA CheckKeyKeeps ==
  ASSUME TypeInv, Sound, ~split, NEW t \in Threads, CheckKey(t)
  PROVE  Sound'
<1> DEFINE p == ProcessOf[t]
<1>1. /\ pc[t] = "key" /\ call[t] \in {"ask", "record"}
      /\ UNCHANGED <<file, salts, salt, derived, mu, loaded, last, call, entry, buffer>>
      /\ UNCHANGED <<recorded, overlapped, split>>
      /\ \A u \in Threads : u # t => UNCHANGED pc[u]
      /\ pc'[t] = IF derived[p] = NoSalt THEN "salt"
                  ELSE IF call[t] = "ask" THEN "index" ELSE "seal"
  BY DEF CheckKey, WithKey, Goto, At, cache, keys, history, TypeInv, TypeOK, CallShape
<1>2. RecorderOK(t) /\ AskerOK(t)
  BY DEF Sound
<1>3. RecorderOK(t)'
  BY <1>1, <1>2 DEF RecorderOK, Kept, Alone, SealedIn
<1>4. AskerOK(t)'
  BY <1>1, <1>2 DEF AskerOK
<1>5. ASSUME NEW u \in Threads PROVE RecorderOK(u)' /\ AskerOK(u)'
  BY <1>1, <1>3, <1>4, BystanderKept
<1> QED
  BY <1>1, <1>5, AppendsKept, ReadableKept, FreshKept, FirstKept, KeysKept DEF Sound

(* The salt comes from the file if it has one; else the process goes on    *)
(* with what it has, and no other has any.                                 *)
LEMMA TakeSaltKeeps ==
  ASSUME TypeInv, Sound, ~split, NEW t \in Threads, TakeSalt(t)
  PROVE  Sound'
<1> DEFINE p == ProcessOf[t]
           s == IF buffer[t].salt # NoSalt THEN buffer[t].salt ELSE salt[p]
<1>0. p \in Processes
  BY AuditAssumption
<1>1. /\ pc[t] = "salt" /\ call[t] \in {"ask", "record"}
      /\ UNCHANGED <<file, salts, derived, mu, loaded, last, call, entry, buffer>>
      /\ UNCHANGED <<recorded, overlapped, split>>
      /\ \A u \in Threads : u # t => UNCHANGED pc[u]
      /\ salt' = [salt EXCEPT ![p] = s]
      /\ pc'[t] = IF s = NoSalt THEN "allocate" ELSE "derive"
  BY DEF TakeSalt, Goto, At, cache, history, TypeInv, TypeOK, CallShape
<1>2. RecorderOK(t) /\ AskerOK(t) /\ KeyOK(p)
  BY <1>0 DEF Sound
<1>3. buffer[t].salt = file.salt
  BY <1>1, <1>2 DEF RecorderOK, AskerOK
<1>4. CASE file.salt # NoSalt
  <2>1. s = file.salt /\ salt'[p] = file.salt /\ \A q \in Processes : q # p => salt'[q] = salt[q]
    BY <1>0, <1>1, <1>3, <1>4 DEF TypeInv, TypeOK
  <2>2. FirstOK'
    BY <1>1, <1>4 DEF FirstOK
  <2>3. ASSUME NEW q \in Processes PROVE KeyOK(q)'
    BY <2>1, <1>1, <1>2, <1>4 DEF Sound, KeyOK
  <2>4. RecorderOK(t)' /\ AskerOK(t)'
    <3>1. RecorderOK(t)'
      BY <2>1, <1>1, <1>2, <1>4 DEF RecorderOK, Kept, Alone, SealedIn
    <3>2. AskerOK(t)'
      BY <2>1, <1>1, <1>2, <1>4 DEF AskerOK
    <3> QED
      BY <3>1, <3>2
  <2>5. ASSUME NEW u \in Threads, u # t PROVE RecorderOK(u)' /\ AskerOK(u)'
    <3>1. UNCHANGED <<pc[u], call[u], entry[u], buffer[u], file, recorded, derived, overlapped>>
      BY <1>1, <2>5
    <3>2. salt'[ProcessOf[u]] # NoSalt \/ salt'[ProcessOf[u]] = salt[ProcessOf[u]]
      BY <2>1, <1>4, AuditAssumption
    <3>3. RecorderOK(u) /\ AskerOK(u)
      BY DEF Sound
    <3>4. RecorderOK(u)'
      BY <3>1, <3>2, <3>3 DEF RecorderOK, Readable, Kept, Alone, SealedIn
    <3>5. AskerOK(u)'
      BY <3>1, <3>2, <3>3 DEF AskerOK
    <3> QED
      BY <3>4, <3>5
  <2> QED
    BY <2>2, <2>3, <2>4, <2>5, <1>1, ReadableKept, FreshKept DEF Sound
<1>5. CASE file.salt = NoSalt
  <2>1. call[t] = "record"
    BY <1>1, <1>2, <1>5 DEF AskerOK
  <2>2. s = salt[p] /\ salt' = salt
    BY <1>0, <1>1, <1>3, <1>5 DEF TypeInv, TypeOK
  <2>3. RecorderOK(t)' /\ AskerOK(t)'
    <3>1. RecorderOK(t)'
      BY <2>1, <2>2, <1>1, <1>2, <1>5 DEF RecorderOK, Kept, Alone, SealedIn
    <3>2. AskerOK(t)'
      BY <2>1, <1>1 DEF AskerOK
    <3> QED
      BY <3>1, <3>2
  <2>4. ASSUME NEW u \in Threads PROVE RecorderOK(u)' /\ AskerOK(u)'
    BY <2>2, <2>3, <1>1, BystanderKept
  <2> QED
    BY <2>2, <2>4, <1>1, AppendsKept, ReadableKept, FreshKept, FirstKept, KeysKept DEF Sound
<1> QED
  BY <1>4, <1>5

(* While the first append runs, nobody else has more than read the file.   *)
LEMMA BesideFirstAppend ==
  ASSUME TypeInv, Sound, NEW t \in Threads, Appending(t), file.salt = NoSalt,
         NEW u \in Threads, u # t,
         UNCHANGED <<pc[u], call[u], entry[u], buffer[u]>>,
         UNCHANGED <<file, recorded, derived, overlapped>>
  PROVE  RecorderOK(u)' /\ AskerOK(u)'
<1>1. RecorderOK(u) /\ AskerOK(u) /\ CallShape(u)
  BY DEF Sound, TypeInv
<1>2. call[u] = "record" => pc[u] \in {"invalidate", "failed"}
  BY DEF Sound, FirstOK, Appending, Recording
<1>3. RecorderOK(u)'
  BY <1>1, <1>2 DEF RecorderOK, Readable
<1>4. AskerOK(u)'
  BY <1>1 DEF AskerOK
<1> QED
  BY <1>3, <1>4

(* The salt of a process changes while it makes the log's first one.       *)
LEMMA FirstSaltMade ==
  ASSUME TypeInv, Sound, NEW t \in Threads, Appending(t), file.salt = NoSalt,
         derived[ProcessOf[t]] = NoSalt,
         NEW s, salt' = [salt EXCEPT ![ProcessOf[t]] = s],
         UNCHANGED <<file, derived, call>>, pc'[t] \notin {"invalidate", "failed"},
         \A u \in Threads : u # t => pc'[u] = pc[u]
  PROVE  FirstOK' /\ \A q \in Processes : KeyOK(q)'
<1>1. \A u \in Threads : Appending(u)' => u = t
  BY DEF Sound, FirstOK, Appending, Recording
<1>2. \A q \in Processes : q # ProcessOf[t] => salt'[q] = salt[q]
  BY DEF TypeInv, TypeOK
<1>3. FirstOK'
  BY <1>1, <1>2 DEF Sound, FirstOK
<1>4. \A q \in Processes : KeyOK(q)'
  BY <1>2 DEF Sound, KeyOK
<1> QED
  BY <1>3, <1>4

(* Only the one append gets here, and only while the file has no salt.     *)
LEMMA AllocateSaltKeeps ==
  ASSUME TypeInv, Sound, ~split, NEW t \in Threads, AllocateSalt(t)
  PROVE  Sound'
<1> DEFINE p == ProcessOf[t]
<1>1. /\ pc[t] = "allocate" /\ pc'[t] = "fill"
      /\ \A u \in Threads : u # t => pc'[u] = pc[u]
      /\ salt' = [salt EXCEPT ![p] = ZeroSalt]
      /\ UNCHANGED <<file, salts, derived, mu, loaded, last, call, entry, buffer>>
      /\ UNCHANGED <<recorded, overlapped, split>>
  BY DEF AllocateSalt, Goto, At, cache, history, TypeInv, TypeOK
<1>2. RecorderOK(t) /\ AskerOK(t) /\ CallShape(t)
  BY DEF Sound, TypeInv
<1>3. call[t] = "record" /\ file.salt = NoSalt /\ derived[p] = NoSalt
  BY <1>1, <1>2 DEF RecorderOK, AskerOK, CallShape, TypeInv, TypeOK
<1>4. Appending(t)
  BY <1>1, <1>3 DEF Appending, Recording
<1>5. FirstOK' /\ \A q \in Processes : KeyOK(q)'
  BY <1>1, <1>3, <1>4, FirstSaltMade
<1>6. RecorderOK(t)' /\ AskerOK(t)'
  <2>1. RecorderOK(t)'
    BY <1>1, <1>2, <1>3 DEF RecorderOK, Kept, Alone, SealedIn
  <2>2. AskerOK(t)'
    BY <1>1, <1>3 DEF AskerOK
  <2> QED
    BY <2>1, <2>2
<1>7. ASSUME NEW u \in Threads, u # t PROVE RecorderOK(u)' /\ AskerOK(u)'
  BY <1>1, <1>3, <1>4, <1>7, BesideFirstAppend
<1> QED
  BY <1>1, <1>5, <1>6, <1>7, ReadableKept, FreshKept DEF Sound

LEMMA FillSaltKeeps ==
  ASSUME TypeInv, Sound, ~split, NEW t \in Threads, FillSalt(t)
  PROVE  Sound'
<1> DEFINE p == ProcessOf[t]
<1>1. /\ pc[t] = "fill" /\ pc'[t] = "derive"
      /\ \A u \in Threads : u # t => pc'[u] = pc[u]
      /\ salt' = [salt EXCEPT ![p] = salts + 1]
      /\ UNCHANGED <<file, derived, mu, loaded, last, call, entry, buffer>>
      /\ UNCHANGED <<recorded, overlapped, split>>
  BY DEF FillSalt, Goto, At, cache, history, TypeInv, TypeOK
<1>2. RecorderOK(t) /\ AskerOK(t) /\ CallShape(t)
  BY DEF Sound, TypeInv
<1>3. call[t] = "record" /\ file.salt = NoSalt /\ derived[p] = NoSalt
  BY <1>1, <1>2 DEF RecorderOK, AskerOK, CallShape, TypeInv, TypeOK
<1>4. Appending(t)
  BY <1>1, <1>3 DEF Appending, Recording
<1>5. FirstOK' /\ \A q \in Processes : KeyOK(q)'
  BY <1>1, <1>3, <1>4, FirstSaltMade
<1>6. salt'[p] # NoSalt
  BY <1>1, AuditAssumption DEF TypeInv, TypeOK, NoSalt
<1>7. RecorderOK(t)' /\ AskerOK(t)'
  <2>1. RecorderOK(t)'
    BY <1>1, <1>2, <1>3, <1>6 DEF RecorderOK, Kept, Alone, SealedIn
  <2>2. AskerOK(t)'
    BY <1>1, <1>3 DEF AskerOK
  <2> QED
    BY <2>1, <2>2
<1>8. ASSUME NEW u \in Threads, u # t PROVE RecorderOK(u)' /\ AskerOK(u)'
  BY <1>1, <1>3, <1>4, <1>8, BesideFirstAppend
<1> QED
  BY <1>1, <1>5, <1>7, <1>8, ReadableKept, FreshKept DEF Sound

(* Whoever derives the key derives it from the salt of the process: where  *)
(* another thread has one already, it is the same.                         *)
LEMMA DeriveKeyKeeps ==
  ASSUME TypeInv, Sound, ~split, NEW t \in Threads, DeriveKey(t)
  PROVE  Sound'
<1> DEFINE p == ProcessOf[t]
<1>0. p \in Processes
  BY AuditAssumption
<1>1. /\ pc[t] = "derive" /\ call[t] \in {"ask", "record"}
      /\ derived' = [derived EXCEPT ![p] = salt[p]]
      /\ UNCHANGED <<file, salts, salt, mu, loaded, last, call, entry, buffer>>
      /\ UNCHANGED <<recorded, overlapped, split>>
      /\ \A u \in Threads : u # t => UNCHANGED pc[u]
      /\ pc'[t] = IF call[t] = "ask" THEN "index" ELSE "seal"
  BY DEF DeriveKey, WithKey, Goto, At, cache, history, TypeInv, TypeOK, CallShape
<1>2. RecorderOK(t) /\ AskerOK(t) /\ KeyOK(p)
  BY <1>0 DEF Sound
<1>3. \A q \in Processes : derived'[q] \in {derived[q], salt[q]}
  BY <1>0, <1>1 DEF TypeInv, TypeOK
<1>4. \A q \in Processes : KeyOK(q)'
  BY <1>1, <1>3 DEF Sound, KeyOK
<1>5. salt[p] # NoSalt /\ derived'[p] = salt[p]
  BY <1>0, <1>1, <1>2 DEF RecorderOK, AskerOK, TypeInv, TypeOK
<1>6. RecorderOK(t)' /\ AskerOK(t)'
  <2>1. RecorderOK(t)'
    BY <1>1, <1>2, <1>5 DEF RecorderOK, Kept, Alone, SealedIn
  <2>2. AskerOK(t)'
    BY <1>1, <1>2, <1>5 DEF AskerOK
  <2> QED
    BY <2>1, <2>2
<1>7. ASSUME NEW u \in Threads, u # t PROVE RecorderOK(u)' /\ AskerOK(u)'
  <2>1. UNCHANGED <<pc[u], call[u], entry[u], buffer[u], file, recorded, salt, overlapped>>
    BY <1>1, <1>7
  <2>2. RecorderOK(u) /\ AskerOK(u)
    BY DEF Sound
  <2>3. derived[ProcessOf[u]] # NoSalt => derived'[ProcessOf[u]] = derived[ProcessOf[u]]
    BY <1>0, <1>1, <1>2, AuditAssumption DEF KeyOK, TypeInv, TypeOK
  <2>4. AskerOK(u)'
    BY <2>1, <2>2, <2>3 DEF AskerOK
  <2>5. RecorderOK(u)'
    <3>1. CASE call[u] = "record" /\ pc[u] \in {"salt", "allocate", "fill"} /\ file.salt = NoSalt
      <4>1. Appending(u)
        BY <3>1 DEF Appending, Recording
      <4>2. call[t] = "record" /\ Appending(t)
        BY <3>1, <1>1, <1>2 DEF AskerOK, Appending, Recording
      <4> QED
        BY <4>1, <4>2, <3>1, <1>7 DEF Sound, FirstOK
    <3>2. CASE ~(call[u] = "record" /\ pc[u] \in {"salt", "allocate", "fill"} /\ file.salt = NoSalt)
      BY <3>2, <2>1, <2>2, <2>3 DEF RecorderOK, Readable, Kept, Alone, SealedIn
    <3> QED
      BY <3>1, <3>2
  <2> QED
    BY <2>4, <2>5
<1> QED
  BY <1>1, <1>4, <1>6, <1>7, AppendsKept, ReadableKept, FreshKept, FirstKept DEF Sound

LEMMA SealEntryKeeps ==
  ASSUME TypeInv, TypeInv', Sound, ~split, NEW t \in Threads, SealEntry(t)
  PROVE  Sound'
<1> DEFINE p == ProcessOf[t]
<1>1. /\ pc[t] = "seal" /\ pc'[t] = "replace"
      /\ UNCHANGED <<file, salts, salt, derived, mu, loaded, last, call, entry>>
      /\ UNCHANGED <<recorded, overlapped, split>>
      /\ \A u \in Threads : u # t => UNCHANGED <<pc[u], buffer[u]>>
  BY DEF SealEntry, Goto, At, cache, keys, history, TypeInv, TypeOK
<1>2. PICK e \in entry[t], x \in SealedEntry :
        /\ x = Seal(e, Passphrase[p], derived[p])
        /\ buffer' = [buffer EXCEPT ![t].entries = Append(@, x)]
        /\ call[t] = "record"
  BY SealedIsEntry
<1>3. RecorderOK(t) /\ CallShape(t)
  BY DEF Sound, TypeInv
<1>4. /\ buffer[t].salt = file.salt /\ Kept(buffer[t]) = Kept(file)
      /\ derived[p] # NoSalt /\ entry[t] = {e} /\ e \in Entry
  BY <1>1, <1>2, <1>3 DEF RecorderOK, CallShape
<1>5. /\ buffer[t] \in HistoryFile /\ buffer'[t] \in HistoryFile
      /\ buffer'[t].salt = buffer[t].salt
      /\ buffer'[t].entries = Append(buffer[t].entries, x)
  BY <1>2 DEF TypeInv, TypeOK, HistoryFile
<1>6. SealedIn(buffer'[t]) = SealedIn(buffer[t]) \cup {x}
  BY <1>5, SealedAppend
<1>7. /\ x \in SealedIn(buffer[t])'
      /\ Kept(buffer[t])' = Kept(file)' \cup Alone({x})'
  <2>1. SealedIn(buffer[t])' = SealedIn(buffer[t]) \cup {x} /\ SealedIn(file)' = SealedIn(file)
    BY <1>1, <1>6 DEF SealedIn
  <2>2. \A S : Alone(S)' = Alone(S)
    BY <1>1 DEF Alone
  <2>3. Kept(buffer[t])' = Alone(SealedIn(buffer[t]) \cup {x}) /\ Kept(file)' = Kept(file)
    BY <2>1, <1>1 DEF Kept, Alone
  <2>4. Alone(SealedIn(buffer[t]) \cup {x}) = Kept(file) \cup Alone({x})
    BY <1>4 DEF Kept, Alone
  <2> QED
    BY <2>1, <2>2, <2>3, <2>4
<1>8. RecorderOK(t)' /\ AskerOK(t)'
  BY <1>1, <1>2, <1>4, <1>5, <1>7 DEF RecorderOK, AskerOK
<1>9. ASSUME NEW u \in Threads PROVE RecorderOK(u)' /\ AskerOK(u)'
  BY <1>1, <1>8, BystanderKept
<1> QED
  BY <1>1, <1>9, AppendsKept, ReadableKept, FreshKept, FirstKept, KeysKept DEF Sound

(* What the rename puts in place, if it does: the file as it is but for    *)
(* entries that can be lost, the new one, and the salt that this entry and *)
(* all the others were sealed under.                                       *)
LEMMA Replacement ==
  ASSUME TypeInv, Sound, ~split, NEW t \in Threads, ReplaceFile(t), pc'[t] # "failed"
  PROVE  /\ pc'[t] = "invalidate"
         /\ file'.salt = salt[ProcessOf[t]] /\ file'.salt # NoSalt
         /\ file.salt # NoSalt => file'.salt = file.salt
         /\ \E e \in Entry, x \in SealedIn(file') :
              /\ entry[t] = {e}
              /\ x = Seal(e, Passphrase[ProcessOf[t]], file'.salt)
              /\ Kept(file') = Kept(file) \cup Alone({x})
<1> DEFINE p == ProcessOf[t]
<1>0. p \in Processes
  BY AuditAssumption
<1>1. pc[t] = "replace" /\ call[t] = "record"
  BY DEF ReplaceFile, At, TypeInv, TypeOK, CallShape
<1>2. /\ pc'[t] = "invalidate"
      /\ file' = [buffer[t] EXCEPT !.salt = IF salt[p] # NoSalt THEN salt[p] ELSE @]
  <2>1. ~Fail(t)
    BY <1>1 DEF Fail, Goto, TypeInv, TypeOK
  <2> QED
    BY <2>1 DEF ReplaceFile, Goto, TypeInv, TypeOK
<1>3. RecorderOK(t) /\ KeyOK(p)
  BY <1>0 DEF Sound
<1>4. derived[p] # NoSalt /\ derived[p] = salt[p]
  BY <1>1, <1>3 DEF RecorderOK, KeyOK
<1>5. PICK e \in Entry :
        LET x == Seal(e, Passphrase[p], derived[p])
        IN  /\ entry[t] = {e}
            /\ x \in SealedIn(buffer[t])
            /\ Kept(buffer[t]) = Kept(file) \cup Alone({x})
  BY <1>1, <1>3 DEF RecorderOK
<1>6. file'.salt = salt[p] /\ file'.entries = buffer[t].entries
  BY <1>2, <1>4 DEF TypeInv, TypeOK, HistoryFile
<1>7. file.salt # NoSalt => salt[p] = file.salt
  BY <1>3, <1>4 DEF KeyOK
<1>8. SealedIn(file') = SealedIn(buffer[t]) /\ Kept(file') = Kept(buffer[t])
  BY <1>6 DEF SealedIn, Kept, Alone
<1> QED
  BY <1>2, <1>4, <1>5, <1>6, <1>7, <1>8

(* A rename takes nothing away from what can be read but what can be lost. *)
LEMMA ReplaceFileGrows ==
  ASSUME TypeInv, Sound, ~split, NEW t \in Threads, ReplaceFile(t), NEW pass,
         NEW e \in Readable(pass), e.at \notin overlapped
  PROVE  e \in Readable(pass)'
<1>1. CASE pc'[t] = "failed"
  <2>1. file' = file
    BY <1>1 DEF ReplaceFile, Goto, TypeInv, TypeOK
  <2> QED
    BY <2>1 DEF Readable
<1>2. CASE pc'[t] # "failed"
  <2>1. file.salt # NoSalt
    BY NothingOpens DEF Sound, FileOK, Readable
  <2>2. file'.salt = file.salt /\ Kept(file) \subseteq Kept(file')
    BY <1>2, <2>1, Replacement
  <2>3. e \in Opened(file', pass, file.salt)
    BY <2>2, KeptOpens DEF Readable
  <2> QED
    BY <2>2, <2>3 DEF Readable
<1> QED
  BY <1>1, <1>2

(* A rename leaves what every other thread relies on: an append that has   *)
(* read the file and does not hold this entry overlaps with it.            *)
LEMMA ReplaceFileKeeps ==
  ASSUME TypeInv, Overlaps, Sound, ~split, NEW t \in Threads, ReplaceFile(t)
  PROVE  Sound'
<1> DEFINE p == ProcessOf[t]
<1>0. p \in Processes
  BY AuditAssumption
<1>1. /\ pc[t] = "replace" /\ call[t] = "record"
      /\ UNCHANGED <<salts, salt, derived, mu, loaded, last, call, entry>>
      /\ UNCHANGED <<recorded, overlapped, split>>
      /\ \A u \in Threads : u # t => UNCHANGED <<pc[u], buffer[u]>>
      /\ pc'[t] \in {"invalidate", "failed"}
  BY DEF ReplaceFile, Fail, Goto, At, cache, keys, history, TypeInv, TypeOK, CallShape
<1>2. Appending(t) /\ \A u \in Threads : Appending(u)' => Appending(u) /\ u # t
  BY <1>1 DEF Appending, Recording
<1>3. EntriesReadable'
  <2>1. ASSUME NEW r \in recorded, r.entry.at \notin overlapped
        PROVE  r.entry \in Readable(Passphrase[r.by])'
    BY <2>1, ReplaceFileGrows DEF Sound, EntriesReadable, Exposed
  <2> QED
    BY <2>1, <1>1 DEF EntriesReadable, Exposed
<1>4. CASE pc'[t] = "failed"
  <2>1. file' = file
    BY <1>4 DEF ReplaceFile, Goto, TypeInv, TypeOK
  <2>2. RecorderOK(t)' /\ AskerOK(t)'
    BY <1>1, <1>4 DEF RecorderOK, AskerOK
  <2>3. ASSUME NEW u \in Threads PROVE RecorderOK(u)' /\ AskerOK(u)'
    BY <2>1, <2>2, <1>1, BystanderKept
  <2> QED
    BY <2>1, <2>3, <1>1, <1>2, ReadableKept, FreshKept, FirstKept, KeysKept DEF Sound
<1>5. CASE pc'[t] # "failed"
  <2>1. PICK e \in Entry, x \in SealedIn(file') :
          /\ entry[t] = {e}
          /\ x = Seal(e, Passphrase[p], file'.salt)
          /\ Kept(file') = Kept(file) \cup Alone({x})
    BY <1>5, Replacement
  <2>2. /\ pc'[t] = "invalidate"
        /\ file'.salt = salt[p] /\ file'.salt # NoSalt
        /\ file.salt # NoSalt => file'.salt = file.salt
    BY <1>5, Replacement
  <2>3. FileOK' /\ FirstOK'
    BY <2>2 DEF FileOK, FirstOK
  <2>4. ASSUME NEW q \in Processes PROVE KeyOK(q)'
    <3>1. KeyOK(q)
      BY DEF Sound
    <3>2. file.salt = NoSalt /\ salt[q] # NoSalt => q = p
      BY <1>2 DEF Sound, FirstOK
    <3> QED
      BY <3>1, <3>2, <2>2, <1>1 DEF KeyOK
  <2>5. RecorderOK(t)' /\ AskerOK(t)'
    <3>1. Opens(x, Passphrase[p], file'.salt) /\ x.entry = e
      BY <2>1 DEF Opens, Seal
    <3>2. e \in Readable(Passphrase[p])'
      BY <3>1, OpenedIsSealed DEF Readable
    <3> QED
      BY <3>2, <2>1, <2>2, <1>1 DEF RecorderOK, AskerOK
  <2>6. ASSUME NEW u \in Threads, u # t PROVE RecorderOK(u)' /\ AskerOK(u)'
    <3>1. UNCHANGED <<pc[u], call[u], entry[u], buffer[u], recorded, salt, derived, overlapped>>
      BY <2>6, <1>1
    <3>2. RecorderOK(u) /\ AskerOK(u) /\ CallShape(u)
      BY DEF Sound, TypeInv
    <3>3. CASE Appending(u)
      <4>1. file.salt # NoSalt /\ file'.salt = file.salt
        BY <3>3, <2>2, <2>6, <1>2 DEF Sound, FirstOK
      <4>2. e.at \in overlapped
        BY <3>3, <2>1, <2>6, <1>2 DEF Overlaps, Dates
      <4>3. x.entry = e
        BY <2>1 DEF Seal
      <4>4. Kept(file)' = Kept(file)
        <5>1. Kept(file') = Kept(file)
          BY <4>2, <4>3, <2>1 DEF Alone
        <5> QED
          BY <5>1, <1>1 DEF Kept, Alone, SealedIn
      <4>5. RecorderOK(u)'
        BY <4>1, <4>4, <3>1, <3>2, <3>3 DEF RecorderOK, Appending, Kept, Alone, SealedIn
      <4> QED
        BY <4>5, <3>1, <3>3 DEF AskerOK, Appending, Recording
    <3>4. CASE ~Appending(u)
      <4>1. call[u] = "record" => pc[u] \in {"invalidate", "failed"}
        BY <3>4 DEF Appending, Recording
      <4>2. \A y \in entry[u] : call[u] = "record" /\ pc[u] = "invalidate" /\ y.at \notin overlapped =>
              y \in Readable(Passphrase[ProcessOf[u]])'
        BY <3>2, ReplaceFileGrows DEF RecorderOK
      <4>3. RecorderOK(u)'
        BY <4>1, <4>2, <3>1 DEF RecorderOK
      <4>4. file.salt = NoSalt => \A r \in recorded : r.entry.at \in overlapped
        <5>1. file.salt = NoSalt => \A pass : Readable(pass) = {}
          BY NothingOpens DEF Sound, FileOK, Readable
        <5> QED
          BY <5>1 DEF Sound, EntriesReadable, Exposed
      <4>5. AskerOK(u)'
        BY <4>4, <3>1, <3>2, <2>2 DEF AskerOK
      <4> QED
        BY <4>3, <4>5
    <3> QED
      BY <3>3, <3>4
  <2> QED
    BY <2>3, <2>4, <2>5, <2>6, <1>1, <1>3, FreshKept DEF Sound
<1> QED
  BY <1>4, <1>5

(* Record returns: what it wrote can be read, and no load is under way in  *)
(* this process that has not seen it.                                      *)
LEMMA InvalidateKeeps ==
  ASSUME TypeInv, Sound, ~split, NEW t \in Threads, Invalidate(t)
  PROVE  Sound'
<1> DEFINE p == ProcessOf[t]
<1>0. p \in Processes
  BY AuditAssumption
<1>1. /\ pc[t] \in {"invalidate", "failed"} /\ mu[p] = Nobody
      /\ UNCHANGED <<file, salts, salt, derived, mu, buffer, overlapped, split>>
      /\ \A u \in Threads : u # t => UNCHANGED <<pc[u], call[u], entry[u]>>
      /\ pc'[t] = "idle" /\ call'[t] = "none"
      /\ recorded' = recorded \cup Confirmed(t)
      /\ loaded' = [loaded EXCEPT ![p] = FALSE]
      /\ last' = [last EXCEPT ![p] = NoAnswers]
  BY DEF Invalidate, Goto, keys, TypeInv, TypeOK
<1>2. call[t] = "record"
  BY <1>1 DEF TypeInv, TypeOK, CallShape
<1>3. \A r \in recorded' : r \in recorded \/
        (r.by = p /\ pc[t] = "invalidate" /\ r.entry \in entry[t])
  BY <1>1 DEF Confirmed, At
<1>4. FileOK' /\ FirstOK'
  <2>1. \A u \in Threads : Appending(u)' => Appending(u)
    BY <1>1 DEF Appending, Recording
  <2> QED
    BY <2>1, <1>1, FirstKept DEF Sound, FileOK
<1>5. EntriesReadable'
  <2>1. \A e \in entry[t] : pc[t] = "invalidate" /\ e.at \notin overlapped =>
          e \in Readable(Passphrase[p])
    BY <1>2 DEF Sound, RecorderOK
  <2>2. ASSUME NEW r \in recorded', r.entry.at \notin overlapped
        PROVE  r.entry \in Readable(Passphrase[r.by])
    BY <2>1, <2>2, <1>3 DEF Sound, EntriesReadable, Exposed
  <2> QED
    BY <2>2, <1>1 DEF EntriesReadable, Readable, Exposed
<1>6. AnswersAreFresh'
  <2>1. ASSUME NEW q \in Processes, loaded'[q],
               NEW r \in recorded', r.by = q /\ r.entry.ok /\ ~Exposed(r.entry)'
        PROVE  last'[q][r.entry.secret] >= r.entry.at
    <3>1. q # p /\ loaded[q] /\ last'[q] = last[q]
      BY <2>1, <1>0, <1>1 DEF TypeInv, TypeOK
    <3>2. r \in recorded /\ ~Exposed(r.entry)
      BY <2>1, <3>1, <1>1, <1>3 DEF Exposed
    <3> QED
      BY <2>1, <3>1, <3>2 DEF Sound, AnswersAreFresh
  <2> QED
    BY <2>1 DEF AnswersAreFresh
<1>7. ASSUME NEW u \in Threads PROVE RecorderOK(u)' /\ AskerOK(u)'
  <2>1. CASE u = t
    BY <2>1, <1>1 DEF RecorderOK, AskerOK
  <2>2. CASE u # t
    <3>1. UNCHANGED <<pc[u], call[u], entry[u], buffer[u], file, salt, derived, overlapped>>
      BY <2>2, <1>1
    <3>2. RecorderOK(u) /\ AskerOK(u)
      BY DEF Sound
    <3>3. RecorderOK(u)'
      BY <3>1, <3>2 DEF RecorderOK, Readable, Kept, Alone, SealedIn
    <3>4. AskerOK(u)'
      <4>1. CASE ProcessOf[u] = p
        <5>1. call[u] = "ask" => pc[u] = "lock"
          BY <4>1, <1>0, <1>1, AuditAssumption DEF TypeInv, TypeOK, MutexIsHeld
        <5> QED
          BY <5>1, <3>1 DEF AskerOK
      <4>2. CASE ProcessOf[u] # p
        <5>1. \A r \in recorded' : r.by = ProcessOf[u] => r \in recorded
          BY <4>2, <1>3
        <5> QED
          BY <5>1, <3>1, <3>2 DEF AskerOK
      <4> QED
        BY <4>1, <4>2
    <3> QED
      BY <3>3, <3>4
  <2> QED
    BY <2>1, <2>2
<1> QED
  BY <1>1, <1>4, <1>5, <1>6, <1>7, KeysKept DEF Sound

(* load caches answers that are no older than what its process recorded.   *)
LEMMA IndexAnswersKeeps ==
  ASSUME TypeInv, Sound, ~split, NEW t \in Threads, IndexAnswers(t)
  PROVE  Sound'
<1> DEFINE p == ProcessOf[t]
           E == Opened(buffer[t], Passphrase[p], derived[p])
<1>0. p \in Processes
  BY AuditAssumption
<1>1. /\ pc[t] = "index" /\ pc'[t] = "answer"
      /\ \A u \in Threads : u # t => pc'[u] = pc[u]
      /\ UNCHANGED <<file, salts, salt, derived, mu, call, entry, buffer>>
      /\ UNCHANGED <<recorded, overlapped, split>>
      /\ last' = [last EXCEPT ![p] = Index(E)]
      /\ loaded' = [loaded EXCEPT ![p] = TRUE]
  BY DEF IndexAnswers, Goto, At, keys, history, TypeInv, TypeOK
<1>2. call[t] = "ask"
  BY <1>1 DEF TypeInv, TypeOK, CallShape
<1>3. \A r \in recorded : r.by = p /\ r.entry.at \notin overlapped => r.entry \in E
  <2>1. AskerOK(t) /\ KeyOK(p)
    BY <1>0 DEF Sound
  <2>2. \A r \in recorded : r.by = p /\ r.entry.at \notin overlapped =>
          r.entry \in Opened(buffer[t], Passphrase[p], file.salt)
    BY <2>1, <1>1, <1>2 DEF AskerOK
  <2>3. CASE buffer[t].entries = <<>>
    <3>1. \A pass, from : Opened(buffer[t], pass, from) = {}
      BY <2>3, NothingOpens
    <3> QED
      BY <3>1, <2>2
  <2>4. CASE buffer[t].entries # <<>>
    <3>1. derived[p] # NoSalt /\ file.salt # NoSalt
      BY <2>1, <2>4, <1>1, <1>2 DEF AskerOK
    <3>2. derived[p] = file.salt
      BY <3>1, <2>1 DEF KeyOK
    <3> QED
      BY <3>2, <2>2
  <2> QED
    BY <2>3, <2>4
<1>4. AnswersAreFresh'
  <2>1. E \in SUBSET Entry
    BY OpenedAreEntries DEF TypeInv, TypeOK
  <2> HIDE DEF E
  <2>2. \A e \in E : e.ok => Index(E)[e.secret] >= e.at
    BY <2>1, IndexIsLatest
  <2>3. ASSUME NEW q \in Processes, loaded'[q],
               NEW r \in recorded', r.by = q /\ r.entry.ok /\ ~Exposed(r.entry)'
        PROVE  last'[q][r.entry.secret] >= r.entry.at
    <3>1. CASE q = p
      <4>1. last'[q] = Index(E)
        BY <3>1, <1>0, <1>1 DEF TypeInv, TypeOK
      <4>2. r.entry \in E
        BY <2>3, <3>1, <1>1, <1>3 DEF Exposed
      <4> QED
        BY <4>1, <4>2, <2>2, <2>3
    <3>2. CASE q # p
      <4>1. loaded[q] /\ last'[q] = last[q] /\ ~Exposed(r.entry) /\ r \in recorded
        BY <3>2, <2>3, <1>0, <1>1 DEF TypeInv, TypeOK, Exposed
      <4> QED
        BY <4>1, <2>3 DEF Sound, AnswersAreFresh
    <3> QED
      BY <3>1, <3>2
  <2> QED
    BY <2>3 DEF AnswersAreFresh
<1>5. RecorderOK(t)' /\ AskerOK(t)'
  BY <1>1, <1>2 DEF RecorderOK, AskerOK
<1>6. ASSUME NEW u \in Threads PROVE RecorderOK(u)' /\ AskerOK(u)'
  BY <1>1, <1>5, BystanderKept
<1> QED
  BY <1>1, <1>4, <1>6, AppendsKept, ReadableKept, FirstKept, KeysKept DEF Sound

LEMMA AnswerKeeps ==
  ASSUME TypeInv, Sound, ~split, NEW t \in Threads, Answer(t)
  PROVE  Sound'
<1>1. /\ pc[t] = "answer" /\ pc'[t] = "idle" /\ call'[t] = "none"
      /\ UNCHANGED <<file, salts, salt, derived, loaded, last, entry>>
      /\ UNCHANGED <<recorded, overlapped, split>>
      /\ \A u \in Threads : u # t => UNCHANGED <<pc[u], call[u], buffer[u]>>
  BY DEF Answer, Goto, At, keys, history, TypeInv, TypeOK
<1>2. \A u \in Threads : Appending(u)' => Appending(u)
  BY <1>1 DEF Appending, Recording
<1>3. RecorderOK(t)' /\ AskerOK(t)'
  BY <1>1 DEF RecorderOK, AskerOK
<1>4. ASSUME NEW u \in Threads PROVE RecorderOK(u)' /\ AskerOK(u)'
  BY <1>1, <1>3, BystanderKept
<1> QED
  BY <1>1, <1>2, <1>4, ReadableKept, FreshKept, FirstKept, KeysKept DEF Sound

(* A process that dies forgets; what it had renamed into place stays.      *)
LEMMA CrashKeeps ==
  ASSUME TypeInv, Sound, ~split, NEW p \in Processes, Crash(p)
  PROVE  Sound'
<1>1. /\ UNCHANGED <<file, salts, recorded, overlapped, split>>
      /\ \A t \in Threads : ProcessOf[t] = p => pc'[t] = "idle" /\ call'[t] = "none"
      /\ \A t \in Threads : ProcessOf[t] # p => UNCHANGED <<pc[t], call[t], entry[t], buffer[t]>>
  BY DEF Crash, history
<1>2. /\ salt'[p] = NoSalt /\ derived'[p] = NoSalt /\ ~loaded'[p]
      /\ \A q \in Processes : q # p =>
           UNCHANGED <<salt[q], derived[q], loaded[q], last[q]>>
  BY DEF Crash, TypeInv, TypeOK
<1>3. FirstOK'
  <2>1. \A u \in Threads : Appending(u)' => Appending(u)
    BY <1>1 DEF Appending, Recording
  <2>2. \A q \in Processes : salt'[q] # NoSalt => salt[q] # NoSalt
    BY <1>2
  <2> QED
    BY <2>1, <2>2, <1>1 DEF Sound, FirstOK
<1>4. ASSUME NEW q \in Processes PROVE KeyOK(q)'
  BY <1>1, <1>2 DEF Sound, KeyOK
<1>5. AnswersAreFresh'
  BY <1>1, <1>2 DEF Sound, AnswersAreFresh, Exposed
<1>6. ASSUME NEW u \in Threads PROVE RecorderOK(u)' /\ AskerOK(u)'
  <2>1. CASE ProcessOf[u] = p
    BY <2>1, <1>1 DEF RecorderOK, AskerOK
  <2>2. CASE ProcessOf[u] # p
    <3>1. ProcessOf[u] \in Processes
      BY AuditAssumption
    <3> QED
      BY <3>1, <2>2, <1>1, <1>2, BystanderKept
  <2> QED
    BY <2>1, <2>2
<1> QED
  BY <1>1, <1>3, <1>4, <1>5, <1>6, ReadableKept DEF Sound

-----------------------------------------------------------------------------
LEMMA StepKeepsLogInv ==
  LogInv /\ [Next]_vars => LogInv'
<1> SUFFICES ASSUME LogInv, [Next]_vars PROVE LogInv'
  OBVIOUS
<1>1. TypeInv /\ TypeInv' /\ Overlaps /\ Overlaps'
  BY StepTyped, OverlapsKept DEF LogInv
<1>2. SUFFICES ASSUME ~split' PROVE Sound'
  BY <1>1 DEF LogInv
<1>3. ~split
  BY <1>2 DEF Next, Record, Ask, Step, Lock, ReadFile, CheckKey, TakeSalt, AllocateSalt, FillSalt,
     DeriveKey, SealEntry, ReplaceFile, Invalidate, IndexAnswers, Answer, Crash, vars, history
<1>4. Sound
  BY <1>3 DEF LogInv
<1>5. ASSUME NEW t \in Threads, NEW s \in Rotates[t], NEW ok \in BOOLEAN, Record(t, s, ok)
      PROVE  Sound'
  <2>1. s \in Secrets
    BY AuditAssumption
  <2> QED
    BY <1>1, <1>2, <1>3, <1>4, <1>5, <2>1, RecordKeeps
<1>6. ASSUME NEW t \in Askers, Ask(t) PROVE Sound'
  BY <1>1, <1>3, <1>4, <1>6, AskKeeps, AuditAssumption
<1>7. ASSUME NEW t \in Threads, Step(t) PROVE Sound'
  BY <1>1, <1>3, <1>4, <1>7, LockKeeps, ReadFileKeeps, CheckKeyKeeps, TakeSaltKeeps,
     AllocateSaltKeeps, FillSaltKeeps, DeriveKeyKeeps, SealEntryKeeps, ReplaceFileKeeps,
     InvalidateKeeps, IndexAnswersKeeps, AnswerKeeps DEF Step
<1>8. ASSUME NEW p \in Processes, Crash(p) PROVE Sound'
  BY <1>1, <1>3, <1>4, <1>8, CrashKeeps
<1>9. CASE UNCHANGED vars
  <2>1. /\ UNCHANGED <<file, salts, salt, derived, mu, loaded, last>>
        /\ UNCHANGED <<recorded, overlapped, split, pc, call, entry, buffer>>
    BY <1>9 DEF vars, cache, keys, history
  <2>2. \A u \in Threads : RecorderOK(u)' /\ AskerOK(u)'
    BY <2>1, <1>4, BystanderKept
  <2>3. \A u \in Threads : Appending(u)' => Appending(u)
    BY <2>1 DEF Appending, Recording
  <2> QED
    BY <2>1, <2>2, <2>3, <1>4, ReadableKept, FreshKept, FirstKept, KeysKept DEF Sound
<1> QED
  BY <1>5, <1>6, <1>7, <1>8, <1>9 DEF Next

LEMMA LogInvHolds == Spec => []LogInv
  BY InitLogInv, StepKeepsLogInv, PTL DEF Spec

(* Nothing confirmed is lost but to an overlap (store.go:36-66, 131-199):  *)
(* whatever Record returned nil for opens under the salt that the file     *)
(* has, unless its append ran beside another or the log got two salts, for *)
(* any number of processes that record, ask, fail and die meanwhile.       *)
THEOREM ConfirmedIsReadable == Spec => []EntriesReadable
<1>1. LogInv => EntriesReadable
  BY DEF LogInv, Sound, EntriesReadable, Exposed
<1> QED
  BY <1>1, LogInvHolds, PTL

(* The policy runner is never told of a rotation older than one that its   *)
(* process has recorded beside no other append (history.go:48-60), however *)
(* a load overlaps the appends.                                            *)
THEOREM NoStaleAnswer == Spec => []AnswersAreFresh
<1>1. LogInv => AnswersAreFresh
  BY DEF LogInv, Sound, AnswersAreFresh, Exposed
<1> QED
  BY <1>1, LogInvHolds, PTL

(* A step other than the rename leaves the file as it is.                  *)
LEMMA StepKeepsReadable ==
  ASSUME LogInv, [Next]_vars, NEW pass, NEW e \in Readable(pass), ~Exposed(e)
  PROVE  e \in Readable(pass)'
<1>1. TypeInv /\ Sound /\ ~split /\ e.at \notin overlapped
  BY DEF LogInv, Exposed
<1>2. CASE \E t \in Threads : ReplaceFile(t)
  BY <1>1, <1>2, ReplaceFileGrows
<1>3. CASE ~\E t \in Threads : ReplaceFile(t)
  <2>1. UNCHANGED file
    BY <1>3 DEF Next, Step, Record, Ask, Lock, ReadFile, CheckKey, TakeSalt, AllocateSalt,
       FillSalt, DeriveKey, SealEntry, Invalidate, IndexAnswers, Answer, Crash, vars
  <2> QED
    BY <2>1 DEF Readable
<1> QED
  BY <1>2, <1>3

(* What can be read under a passphrase can be read ever after, but for     *)
(* entries whose append ran beside another (store.go:131-199): an append   *)
(* that overlaps others still writes back every entry that did not, and no *)
(* append replaces the salt of the entries before it.                      *)
THEOREM LogOnlyGrows == Spec => ReadableOnlyGrows
<1>1. LogInv /\ [Next]_vars =>
        [\A p \in Processes :
           {e \in Readable(Passphrase[p]) : ~Exposed(e)} \subseteq Readable(Passphrase[p])']_vars
  BY StepKeepsReadable
<1> QED
  BY <1>1, LogInvHolds, PTL DEF Spec, ReadableOnlyGrows
=============================================================================
