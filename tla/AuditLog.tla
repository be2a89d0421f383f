------------------------------ MODULE AuditLog ------------------------------
(***************************************************************************)
(* The encrypted rotation log: internal/infrastructure/audit.              *)
(*                                                                         *)
(* Every process (the daemon, a rotator command beside it) has a Store,    *)
(* which caches the salt and the key derived from it, and a History, which *)
(* caches the answers.  The threads of a process share both; only the      *)
(* answers are guarded by a mutex.  The file is shared by all processes:   *)
(* an append reads it whole, adds an entry and renames the result into     *)
(* place, and no lock is held meanwhile, so appends overlap.               *)
(***************************************************************************)
EXTENDS Naturals, Sequences

CONSTANTS
  Processes, Threads,
  ProcessOf,      \* [Threads -> Processes]
  Passphrase,     \* [Processes -> STRING or model value]: ROTATOR_MASTER_KEY
  Askers,         \* the threads that ask when a secret last rotated (policy, status)
  Secrets,
  Rotates,        \* [Threads -> SUBSET Secrets]: whose outcomes a thread records
  Earlier,        \* <<process, secret>>: whose success the log may hold at the start
  Faults,         \* the failures the environment may produce
  MaxRecords,     \* BOUND: outcomes recorded
  MaxCrashes      \* BOUND: processes that die and are started again

Nobody == "nobody"

FaultKinds == {"read", "write", "crash"}

ASSUME AuditAssumption ==
  /\ ProcessOf \in [Threads -> Processes]
  /\ Askers \subseteq Threads
  /\ Rotates \in [Threads -> SUBSET Secrets]
  /\ Earlier \subseteq Processes \X Secrets
  /\ Nobody \notin Threads
  /\ Faults \subseteq FaultKinds
  /\ MaxRecords \in Nat \ {0} /\ MaxCrashes \in Nat

Fault(f) == f \in Faults

VARIABLES
  file,      \* HistoryFile on disk; one that does not exist reads as EmptyFile
  salts,     \* how many salts have been generated (rand.Reader)
  salt,      \* Store.salt of each process
  derived,   \* Store.derivedKey: the salt it was derived from, NoSalt for nil
  mu,        \* History.mu: the thread that holds it
  loaded,    \* History.loaded
  last,      \* History.last: the latest success of each secret, Never if missing
  pc,        \* where each thread is
  call,      \* which method it is in
  entry,     \* the entry it records, or the secret it asks about
  buffer,    \* the HistoryFile it has read
  clock,     \* dates the outcomes; 1 is that of the earlier log
  crashes,   \* processes that died so far
  recorded,  \* history: the entries whose Record returned nil, and by whom
  overlapped,  \* history: the dates of the entries whose append overlapped another
  split        \* history: a first append began that may make a second salt

cache == <<mu, loaded, last>>
keys  == <<salts, salt, derived>>
history == <<recorded, overlapped, split>>
vars  == <<file, keys, cache, pc, call, entry, buffer, clock, crashes, history>>

NoSalt   == 0
ZeroSalt == 1    \* make([]byte, 16), before rand.Reader has filled it
Never    == 0

Salt == Nat
Entry == [secret : Secrets, at : 1..MaxRecords, ok : BOOLEAN]
(* An entry sealed by EncryptWithKey: only the same passphrase with the    *)
(* same salt yields the key that opens it.                                 *)
Seal(e, pass, from) == [entry |-> e, pass |-> pass, salt |-> from]
Opens(sealed, pass, from) == sealed.pass = pass /\ sealed.salt = from

EmptyFile == [salt |-> NoSalt, entries |-> <<>>]

\* What List returns to a process whose key was derived from a salt; the rest it skips.
Opened(hf, pass, from) ==
  {hf.entries[i].entry : i \in {j \in DOMAIN hf.entries : Opens(hf.entries[j], pass, from)}}

\* What a process that starts now would read: it derives its key from the file's salt.
Readable(pass) == Opened(file, pass, file.salt)

NoAnswers == [s \in Secrets |-> Never]

\* The index that load builds: the latest success of each secret.
Index(entries) ==
  [s \in Secrets |->
     LET dates == {e.at : e \in {x \in entries : x.secret = s /\ x.ok}}
     IN  IF dates = {} THEN Never ELSE CHOOSE d \in dates : \A x \in dates : x <= d]

\* A log that an earlier process like p left, with one success in it.
FirstSalt == ZeroSalt + 1
Success(s) == [secret |-> s, at |-> 1, ok |-> TRUE]

NoLogYet == file = EmptyFile /\ salts = ZeroSalt /\ recorded = {}

LogFound(p, s) ==
  /\ file     = [salt |-> FirstSalt, entries |-> <<Seal(Success(s), Passphrase[p], FirstSalt)>>]
  /\ salts    = FirstSalt
  /\ recorded = {[by |-> p, entry |-> Success(s)]}

\* The processes start, with no log or with that of earlier ones.
Init ==
  /\ NoLogYet \/ \E found \in Earlier : LogFound(found[1], found[2])
  /\ salt     = [p \in Processes |-> NoSalt]
  /\ derived  = [p \in Processes |-> NoSalt]
  /\ mu       = [p \in Processes |-> Nobody]
  /\ loaded   = [p \in Processes |-> FALSE]
  /\ last     = [p \in Processes |-> NoAnswers]
  /\ pc       = [t \in Threads |-> "idle"]
  /\ call     = [t \in Threads |-> "none"]
  /\ entry    = [t \in Threads |-> {}]
  /\ buffer   = [t \in Threads |-> EmptyFile]
  /\ clock    = 1
  /\ crashes  = 0
  /\ overlapped = {}
  /\ split = FALSE

-----------------------------------------------------------------------------
Goto(t, label) == pc' = [pc EXCEPT ![t] = label]
At(t, label)   == pc[t] = label
Idle(t)        == At(t, "idle")
Recording(t)   == call[t] = "record"
Appending(t)   == Recording(t) /\ pc[t] \notin {"invalidate", "failed"}

Dates(entries) == {e.at : e \in entries}

\* A first append begins beside another, or beside a process that has a salt no file has.
SecondSalt(p, others) ==
  /\ file.salt = NoSalt
  /\ others # {} \/ \E q \in Processes \ {p} : salt[q] # NoSalt

(* History.Record is called with the outcome of a rotation.  Within a      *)
(* process the scheduler holds the mutex of the secret around it; nothing  *)
(* keeps outcomes of two secrets, or of two processes, apart.              *)
Record(t, s, ok) ==
  LET p      == ProcessOf[t]
      new    == [secret |-> s, at |-> clock + 1, ok |-> ok]
      others == {u \in Threads : Appending(u)}
  IN  /\ Idle(t)
      /\ clock < MaxRecords
      /\ \A u \in Threads :
           Recording(u) /\ ProcessOf[u] = p => \A e \in entry[u] : e.secret # s
      /\ clock' = clock + 1
      /\ call'  = [call EXCEPT ![t] = "record"]
      /\ entry' = [entry EXCEPT ![t] = {new}]
      /\ Goto(t, "read")
      /\ overlapped' = overlapped \cup UNION {Dates(entry[u] \cup {new}) : u \in others}
      /\ split' = (split \/ SecondSalt(p, others))
      /\ UNCHANGED <<file, keys, cache, buffer, crashes, recorded>>

\* History.LastSuccess is called; which secret it asks about changes nothing.
Ask(t) ==
  /\ Idle(t)
  /\ call' = [call EXCEPT ![t] = "ask"]
  /\ Goto(t, "lock")
  /\ UNCHANGED <<file, keys, cache, entry, buffer, clock, crashes, history>>

\* LastSuccess takes the mutex, and loads the answers unless they are cached.
Lock(t) ==
  LET p == ProcessOf[t]
  IN  /\ At(t, "lock")
      /\ mu[p] = Nobody
      /\ mu' = [mu EXCEPT ![p] = t]
      /\ Goto(t, IF loaded[p] THEN "answer" ELSE "read")
      /\ UNCHANGED <<file, keys, loaded, last, call, entry, buffer, clock, crashes, history>>

FailKeepingLock(t) ==
  /\ Goto(t, IF call[t] = "ask" THEN "idle" ELSE "failed")
  /\ buffer' = [buffer EXCEPT ![t] = EmptyFile]

\* Where a call that failed goes: LastSuccess returns the error, Record drops the cache.
Fail(t) ==
  /\ Goto(t, IF call[t] = "ask" THEN "answer" ELSE "failed")
  /\ buffer' = [buffer EXCEPT ![t] = EmptyFile]

\* readFile.  List returns at once when there are no entries.
ReadFile(t) ==
  /\ At(t, "read")
  /\ \/ /\ buffer' = [buffer EXCEPT ![t] = file]
        /\ Goto(t, IF call[t] = "ask" /\ file.entries = <<>> THEN "index" ELSE "key")
     \/ Fault("read") /\ Fail(t)
  /\ UNCHANGED <<file, keys, cache, call, entry, clock, crashes, history>>

\* Where ensureKey returns to.
WithKey(t) == Goto(t, IF call[t] = "ask" THEN "index" ELSE "seal")

\* ensureKey looks whether the key is cached; the file's salt is not looked at then.
CheckKey(t) ==
  LET p == ProcessOf[t]
  IN  /\ At(t, "key")
      /\ IF derived[p] # NoSalt THEN WithKey(t) ELSE Goto(t, "salt")
      /\ UNCHANGED <<file, keys, cache, call, entry, buffer, clock, crashes, history>>

TakeOwnSalt(t) ==
  LET p == ProcessOf[t]
  IN  /\ At(t, "salt")
      /\ Goto(t, IF salt[p] = NoSalt THEN "allocate" ELSE "derive")
      /\ UNCHANGED <<file, keys, cache, call, entry, buffer, clock, crashes, history>>

\* ensureKey takes the salt from the file, if it has one, and looks whether it has any.
TakeSalt(t) ==
  LET p == ProcessOf[t]
      s == IF buffer[t].salt # NoSalt THEN buffer[t].salt ELSE salt[p]
  IN  /\ At(t, "salt")
      /\ salt' = [salt EXCEPT ![p] = s]
      /\ Goto(t, IF s = NoSalt THEN "allocate" ELSE "derive")
      /\ UNCHANGED <<file, salts, derived, cache, call, entry, buffer, clock, crashes, history>>

\* ensureKey allocates a salt of zeros, which another thread may see,
AllocateSalt(t) ==
  LET p == ProcessOf[t]
  IN  /\ At(t, "allocate")
      /\ salt' = [salt EXCEPT ![p] = ZeroSalt]
      /\ Goto(t, "fill")
      /\ UNCHANGED <<file, salts, derived, cache, call, entry, buffer, clock, crashes, history>>

\* and fills whatever salt the Store has by now.
FillSalt(t) ==
  LET p == ProcessOf[t]
  IN  /\ At(t, "fill")
      /\ salts' = salts + 1
      /\ salt'  = [salt EXCEPT ![p] = salts + 1]
      /\ Goto(t, "derive")
      /\ UNCHANGED <<file, derived, cache, call, entry, buffer, clock, crashes, history>>

\* ensureKey derives the key; Argon2id's run is one step here.
DeriveKey(t) ==
  LET p == ProcessOf[t]
  IN  /\ At(t, "derive")
      /\ derived' = [derived EXCEPT ![p] = salt[p]]
      /\ WithKey(t)
      /\ UNCHANGED <<file, salts, salt, cache, call, entry, buffer, clock, crashes, history>>

\* Append seals the entry with the cached key and adds it to what it has read.
SealEntry(t) ==
  LET p == ProcessOf[t]
      new == {Seal(e, Passphrase[p], derived[p]) : e \in entry[t]}
  IN  /\ At(t, "seal")
      /\ buffer' = [buffer EXCEPT ![t].entries = Append(@, CHOOSE x \in new : TRUE)]
      /\ Goto(t, "replace")
      /\ UNCHANGED <<file, keys, cache, call, entry, clock, crashes, history>>

ReplaceEntriesOnly(t) ==
  /\ At(t, "replace")
  /\ \/ /\ file' = buffer[t]
        /\ Goto(t, "invalidate")
        /\ buffer' = [buffer EXCEPT ![t] = EmptyFile]
     \/ Fault("write") /\ Fail(t) /\ UNCHANGED file
  /\ UNCHANGED <<keys, cache, call, entry, clock, crashes, history>>

(* writeFile: the Store's salt overwrites the one that was read, and the   *)
(* temporary file is renamed into place, or nothing is changed.            *)
ReplaceFile(t) ==
  LET p == ProcessOf[t]
  IN  /\ At(t, "replace")
      /\ \/ /\ file' = [buffer[t] EXCEPT !.salt = IF salt[p] # NoSalt THEN salt[p] ELSE @]
            /\ Goto(t, "invalidate")
            /\ buffer' = [buffer EXCEPT ![t] = EmptyFile]
         \/ Fault("write") /\ Fail(t) /\ UNCHANGED file
      /\ UNCHANGED <<keys, cache, call, entry, clock, crashes, history>>

Confirmed(t) ==
  IF At(t, "invalidate") THEN {[by |-> ProcessOf[t], entry |-> e] : e \in entry[t]} ELSE {}

InvalidateWithoutLock(t) ==
  LET p == ProcessOf[t]
  IN  /\ pc[t] \in {"invalidate", "failed"}
      /\ loaded' = [loaded EXCEPT ![p] = FALSE]
      /\ last'   = [last EXCEPT ![p] = NoAnswers]
      /\ recorded' = recorded \cup Confirmed(t)
      /\ call'   = [call EXCEPT ![t] = "none"]
      /\ entry'  = [entry EXCEPT ![t] = {}]
      /\ Goto(t, "idle")
      /\ UNCHANGED <<file, keys, mu, buffer, clock, crashes, overlapped, split>>

\* Record drops the cached answers under the mutex, and returns what Append returned.
Invalidate(t) ==
  LET p == ProcessOf[t]
  IN  /\ pc[t] \in {"invalidate", "failed"}
      /\ mu[p] = Nobody
      /\ loaded' = [loaded EXCEPT ![p] = FALSE]
      /\ last'   = [last EXCEPT ![p] = NoAnswers]
      /\ recorded' = recorded \cup Confirmed(t)
      /\ call'   = [call EXCEPT ![t] = "none"]
      /\ entry'  = [entry EXCEPT ![t] = {}]
      /\ Goto(t, "idle")
      /\ UNCHANGED <<file, keys, mu, buffer, clock, crashes, overlapped, split>>

\* load indexes what List could open.
IndexAnswers(t) ==
  LET p == ProcessOf[t]
  IN  /\ At(t, "index")
      /\ last'   = [last EXCEPT ![p] = Index(Opened(buffer[t], Passphrase[p], derived[p]))]
      /\ loaded' = [loaded EXCEPT ![p] = TRUE]
      /\ Goto(t, "answer")
      /\ UNCHANGED <<file, keys, mu, call, entry, buffer, clock, crashes, history>>

AnswerKeepingLock(t) ==
  /\ At(t, "answer")
  /\ call'   = [call EXCEPT ![t] = "none"]
  /\ buffer' = [buffer EXCEPT ![t] = EmptyFile]
  /\ Goto(t, "idle")
  /\ UNCHANGED <<file, keys, cache, entry, clock, crashes, history>>

\* LastSuccess returns what the index says, or the error, and lets the mutex go.
Answer(t) ==
  LET p == ProcessOf[t]
  IN  /\ At(t, "answer")
      /\ mu'     = [mu EXCEPT ![p] = Nobody]
      /\ call'   = [call EXCEPT ![t] = "none"]
      /\ buffer' = [buffer EXCEPT ![t] = EmptyFile]
      /\ Goto(t, "idle")
      /\ UNCHANGED <<file, keys, loaded, last, entry, clock, crashes, history>>

\* The process dies, losing what it had in memory, and is started again.
Crash(p) ==
  LET mine(f, v) == [t \in Threads |-> IF ProcessOf[t] = p THEN v ELSE f[t]]
  IN  /\ Fault("crash")
      /\ crashes < MaxCrashes
      /\ crashes' = crashes + 1
      /\ salt'    = [salt EXCEPT ![p] = NoSalt]
      /\ derived' = [derived EXCEPT ![p] = NoSalt]
      /\ mu'      = [mu EXCEPT ![p] = Nobody]
      /\ loaded'  = [loaded EXCEPT ![p] = FALSE]
      /\ last'    = [last EXCEPT ![p] = NoAnswers]
      /\ pc'      = mine(pc, "idle")
      /\ call'    = mine(call, "none")
      /\ entry'   = mine(entry, {})
      /\ buffer'  = mine(buffer, EmptyFile)
      /\ UNCHANGED <<file, salts, clock, history>>

-----------------------------------------------------------------------------
Step(t) ==
  \/ Lock(t) \/ ReadFile(t) \/ CheckKey(t) \/ TakeSalt(t) \/ AllocateSalt(t)
  \/ FillSalt(t) \/ DeriveKey(t) \/ SealEntry(t) \/ ReplaceFile(t) \/ Invalidate(t)
  \/ IndexAnswers(t) \/ Answer(t)

Next ==
  \/ \E t \in Threads : \E s \in Rotates[t], ok \in BOOLEAN : Record(t, s, ok)
  \/ \E t \in Askers : Ask(t)
  \/ \E t \in Threads : Step(t)
  \/ \E p \in Processes : Crash(p)

Spec == Init /\ [][Next]_vars

(* A thread inside a call takes its next step, and one that waits for the  *)
(* mutex gets it if it is free again and again: a Go mutex hands itself to *)
(* a waiter that has waited long enough.                                   *)
Fairness == \A t \in Threads : SF_vars(Step(t))

FairSpec == Spec /\ Fairness

-----------------------------------------------------------------------------
Labels == {"idle", "lock", "read", "key", "salt", "allocate", "fill", "derive",
           "seal", "replace", "invalidate", "failed", "index", "answer"}

SealedEntry == [entry : Entry, pass : {Passphrase[p] : p \in Processes}, salt : Salt]
HistoryFile == [salt : Salt, entries : Seq(SealedEntry)]

\* The mutex is held exactly by the thread that is inside LastSuccess.
MutexIsHeld ==
  \A p \in Processes, t \in Threads :
    mu[p] = t <=> ProcessOf[t] = p /\ call[t] = "ask" /\ pc[t] # "lock"

TypeOK ==
  /\ file     \in HistoryFile
  /\ salts    \in Nat
  /\ salt     \in [Processes -> Salt]
  /\ derived  \in [Processes -> Salt]
  /\ mu       \in [Processes -> Threads \cup {Nobody}]
  /\ loaded   \in [Processes -> BOOLEAN]
  /\ last     \in [Processes -> [Secrets -> Nat]]
  /\ pc       \in [Threads -> Labels]
  /\ call     \in [Threads -> {"none", "record", "ask"}]
  /\ entry    \in [Threads -> SUBSET Entry]
  /\ buffer   \in [Threads -> HistoryFile]
  /\ clock    \in Nat
  /\ crashes  \in Nat
  /\ recorded \subseteq [by : Processes, entry : Entry]
  /\ overlapped \subseteq 1..MaxRecords
  /\ split    \in BOOLEAN
  /\ MutexIsHeld

(* What can be lost, and nothing else.  Appends that overlap write back    *)
(* what they read before the other; and while the log has no salt, two     *)
(* first appends make two, as does one in a process beside one whose first *)
(* write failed: then each process may go on sealing under its own.        *)
Exposed(e) == split \/ e.at \in overlapped

(* An entry whose Record returned nil can be read by any process that has  *)
(* the same passphrase and starts now, unless another append overlapped    *)
(* its own: appends that overlap each other, before it or after it, take   *)
(* nothing else away, nor does a crash, a failed write, or a process that  *)
(* seals with a key it cached long ago (store.go:36-66, 131-199).          *)
EntriesReadable ==
  \A r \in recorded : ~Exposed(r.entry) => r.entry \in Readable(Passphrase[r.by])

(* An answer is never older than a success that this process has recorded, *)
(* unless another append overlapped its own: a load that began before the  *)
(* append, and ends after it, does not put the old answer back             *)
(* (history.go:34-60).                                                     *)
AnswersAreFresh ==
  \A p \in Processes : loaded[p] =>
    \A r \in recorded :
      r.by = p /\ r.entry.ok /\ ~Exposed(r.entry) => last[p][r.entry.secret] >= r.entry.at

(* "the next policy check sees the rotation that just happened"            *)
(* (history.go:48-49), of every success that this process has recorded.    *)
NextCheckSeesRotation ==
  \A p \in Processes : loaded[p] =>
    \A r \in recorded : r.by = p /\ r.entry.ok => last[p][r.entry.secret] >= r.entry.at

(* What can be read stays readable, confirmed or written by a process that *)
(* died before it could say so: a rename takes away only entries whose     *)
(* append overlapped another (store.go:36-66, 131-199).                    *)
ReadableOnlyGrows ==
  [][\A p \in Processes :
       {e \in Readable(Passphrase[p]) : ~Exposed(e)} \subseteq Readable(Passphrase[p])']_vars

(* Every call returns: no step blocks but for the mutex, and the mutex is  *)
(* let go of on every path, the failing ones included.                     *)
CallsReturn == \A t \in Threads : pc[t] # "idle" ~> pc[t] = "idle"
=============================================================================
