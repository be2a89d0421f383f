------------------------------ MODULE MCDaemon ------------------------------
(***************************************************************************)
(* A configuration of module Daemon: db has a schedule, a container's      *)
(* schedule label and a max_age, api a max_age only.  Two cron goroutines  *)
(* let db's entries fire while an earlier firing, or the policy, rotates.  *)
(***************************************************************************)
EXTENDS Daemon

CONSTANTS db, api

MCSecrets    == {db, api}
MCSchedules  == {db}
MCLabels     == {db}
MCWithMaxAge == {db, api}
=============================================================================
