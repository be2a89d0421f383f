------------------------------- MODULE EnvFile -------------------------------
(***************************************************************************)
(* A .env file as internal/infrastructure/envstore reads, changes and      *)
(* replaces it.                                                            *)
(*                                                                         *)
(* A line of text is a record: a kind, and for a KEY=VALUE line its key,   *)
(* value, quote and the dressing around them that reading ignores (an      *)
(* "export " prefix, indentation, a carriage return).  Where a value is    *)
(* unquoted and is followed by a remark, the remark is part of the value.  *)
(* A file is a record [lines, mode, synced]; synced says that the data is  *)
(* on the disk.                                                            *)
(***************************************************************************)
EXTENDS Naturals, Sequences, SequencesExt

Pair(key, value, quote, dressing) ==
  [kind |-> "pair", key |-> key, value |-> value, quote |-> quote,
   dressing |-> dressing]

NoKey == "no key"
Other(kind) ==
  [kind |-> kind, key |-> NoKey, value |-> "", quote |-> "none",
   dressing |-> "none"]

-----------------------------------------------------------------------------
(* reader.go and types.go *)

\* The index maps a key to the last line that has it.
Index(lines, key) ==
  LET at == {i \in DOMAIN lines : lines[i].key = key}
  IN  CHOOSE i \in at : \A j \in at : j <= i

Has(lines, key) == \E i \in DOMAIN lines : lines[i].key = key

\* Get, and Lookup on an opened document.
Lookup(lines, key) ==
  IF Has(lines, key)
    THEN [found |-> TRUE, value |-> lines[Index(lines, key)].value]
    ELSE [found |-> FALSE, value |-> ""]

Keys(lines) ==
  SelectSeq([i \in DOMAIN lines |-> lines[i].key], LAMBDA key : key # NoKey)

-----------------------------------------------------------------------------
(* writer.go *)

(* Set rebuilds the text of the line from the key, the quote and the new   *)
(* value: whatever else was on the line is gone.                           *)
SetLine(line, value) == [line EXCEPT !.value = value, !.dressing = "none"]

SetFirst(lines, key, value) ==
  IF Has(lines, key)
    THEN LET at == {i \in DOMAIN lines : lines[i].key = key}
         IN  [lines EXCEPT ![CHOOSE i \in at : \A j \in at : i <= j] =
                SetLine(@, value)]
    ELSE lines

Set(lines, key, value) ==
  IF Has(lines, key)
    THEN [lines EXCEPT ![Index(lines, key)] = SetLine(@, value)]
    ELSE lines

(* The steps of writeAtomic, in order.  disk is [path, temp]: the file,    *)
(* and the temporary file beside it.                                       *)
NoFile == [lines |-> <<>>, mode |-> "none", synced |-> FALSE]
DefaultMode == "0600"          \* os.CreateTemp

StepsWithoutSync == <<"stat", "create", "write", "close", "chmod", "rename">>

WriteSteps == <<"stat", "create", "write", "sync", "close", "chmod", "rename">>

Perform(step, disk, lines) ==
  CASE step = "create" -> [disk EXCEPT !.temp = [NoFile EXCEPT !.mode = DefaultMode]]
    [] step = "write"  -> [disk EXCEPT !.temp.lines = lines]
    [] step = "sync"   -> [disk EXCEPT !.temp.synced = TRUE]
    [] step = "chmod"  -> [disk EXCEPT !.temp.mode = disk.path.mode]
    [] step = "rename" -> [path |-> disk.temp, temp |-> NoFile]
    [] OTHER           -> disk

(* The disk after the first n steps. *)
After(n, disk, lines) ==
  LET after[k \in 0..n] ==
        IF k = 0 THEN disk ELSE Perform(WriteSteps[k], after[k - 1], lines)
  IN  after[n]

(* How a call goes: done is the number of steps that succeed, and stop     *)
(* what happens then: "return" (the next step failed, or there is none) or *)
(* "crash", after which the deferred removal of the temporary file does    *)
(* not run.                                                                *)
Calls == {c \in [done : 0..Len(WriteSteps), stop : {"return", "crash"}] :
            c.done = Len(WriteSteps) => c.stop = "return"}

WriteAtomic(disk, lines, call) ==
  LET after == After(call.done, disk, lines)
  IN  [ok   |-> call.done = Len(WriteSteps),
       disk |-> IF call.stop = "crash" THEN after
                                       ELSE [after EXCEPT !.temp = NoFile]]

-----------------------------------------------------------------------------
(* store.go *)

(* Write: the file is read and parsed, the key has to be there, and the    *)
(* bytes that were read are returned as the snapshot.                      *)
Write(disk, key, value, call) ==
  LET before == disk.path.lines
  IN  IF Has(before, key)
        THEN LET written == WriteAtomic(disk, Set(before, key, value), call)
             IN  [ok |-> written.ok, snapshot |-> before, disk |-> written.disk]
        ELSE [ok |-> FALSE, snapshot |-> <<>>, disk |-> disk]

RestoreInPlace(disk, snapshot, call) ==
  [ok   |-> TRUE,
   disk |-> [disk EXCEPT !.path.lines = snapshot, !.path.mode = DefaultMode]]

Restore(disk, snapshot, call) == WriteAtomic(disk, snapshot, call)
=============================================================================
