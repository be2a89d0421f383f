--------------------------- MODULE AtomicRotation ---------------------------
(***************************************************************************)
(* What the rotator promises about a secret, without saying how.           *)
(*                                                                         *)
(* The value of a secret is the one value that its service, its .env files *)
(* and its containers all hold.  An attempt either replaces that value     *)
(* everywhere by a fresh one or leaves it everywhere as it was; the only   *)
(* other ends are named: a rollback failure reported to the caller, a      *)
(* process that died, a service that answered the opposite of what it did. *)
(* After one of those there is no promise about the value until an attempt *)
(* succeeds.                                                               *)
(***************************************************************************)
EXTENDS Integers

CONSTANT Secrets

VARIABLES
  value,     \* the value all parties hold, NoValue where nothing is promised
  busy,      \* is an attempt in progress
  standing   \* "settled", or what excuses a disagreement

NoValue == -1

Init ==
  /\ busy = [s \in Secrets |-> FALSE]
  /\ standing \in [Secrets -> {"settled", "inherited"}]
  /\ value = [s \in Secrets |-> IF standing[s] = "settled" THEN 0 ELSE NoValue]

Start(s) ==
  /\ ~busy[s]
  /\ busy' = [busy EXCEPT ![s] = TRUE]
  /\ UNCHANGED <<value, standing>>

\* Every party holds the same value, which no attempt committed before.
Commit(s) ==
  /\ busy[s]
  /\ busy' = [busy EXCEPT ![s] = FALSE]
  /\ value'[s] \in Nat
  /\ value'[s] > value[s]
  /\ value' = [value EXCEPT ![s] = value'[s]]
  /\ standing' = [standing EXCEPT ![s] = "settled"]

\* Every party holds what it held before.
Abort(s) ==
  /\ busy[s]
  /\ busy' = [busy EXCEPT ![s] = FALSE]
  /\ UNCHANGED <<value, standing>>

\* The parties disagree, and the caller is told so.
Report(s) ==
  /\ busy[s]
  /\ busy' = [busy EXCEPT ![s] = FALSE]
  /\ value' = [value EXCEPT ![s] = NoValue]
  /\ standing' = [standing EXCEPT ![s] = "reported"]

\* The service did the opposite of what it said.
Deceive(s) ==
  /\ busy[s]
  /\ value' = [value EXCEPT ![s] = NoValue]
  /\ standing' = [standing EXCEPT ![s] = "deceived"]
  /\ UNCHANGED busy

\* An attempt ends as a success that the service's lie made untrue.
Misjudge(s) ==
  /\ busy[s]
  /\ busy' = [busy EXCEPT ![s] = FALSE]
  /\ value' = [value EXCEPT ![s] = NoValue]
  /\ standing' = [standing EXCEPT ![s] = "deceived"]

\* The process dies in the middle of every attempt in progress.
Interrupt ==
  /\ busy' = [s \in Secrets |-> FALSE]
  /\ value' = [s \in Secrets |-> IF busy[s] THEN NoValue ELSE value[s]]
  /\ standing' = [s \in Secrets |-> IF busy[s] THEN "interrupted" ELSE standing[s]]

Next ==
  \/ \E s \in Secrets : Start(s) \/ Commit(s) \/ Abort(s) \/ Report(s) \/ Deceive(s) \/ Misjudge(s)
  \/ Interrupt

vars == <<value, busy, standing>>

Spec == Init /\ [][Next]_vars
=============================================================================
