----------------------------- MODULE MCAuditLog -----------------------------
(***************************************************************************)
(* Configurations of module AuditLog: the daemon, whose job and policy     *)
(* goroutines record and ask, and a rotate command run beside it with the  *)
(* same master passphrase.                                                 *)
(***************************************************************************)
EXTENDS AuditLog

CONSTANTS daemon, command, job, policy, other, db, api, masterKey

MCProcessOf  == [t \in Threads |-> IF t = other THEN command ELSE daemon]
MCRotates == [t \in Threads |-> IF t = policy THEN {api} ELSE {db}]
MCEarlier == {<<daemon, db>>}
MCPassphrase == [p \in Processes |-> masterKey]
=============================================================================
