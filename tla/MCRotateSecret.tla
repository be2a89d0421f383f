--------------------------- MODULE MCRotateSecret ---------------------------
(***************************************************************************)
(* Configurations of module RotateSecret for TLC: what an operator could   *)
(* write in rotator.yml, cut down to what the properties can tell apart.   *)
(*                                                                         *)
(* db is a database account that rotates its own password, app an account  *)
(* that another one administers, hook a secret set by a command that has   *)
(* no verify command, cache a redis password, key a generic secret.        *)
(***************************************************************************)
EXTENDS RotateAgreement

CONSTANTS db, app, hook, cache, key, env1, env2, env3, c1, c2, c3

MCKindOf ==
  [s \in Secrets |-> CASE s = db    -> "mysql"
                       [] s = app   -> "postgres"
                       [] s = hook  -> "command"
                       [] s = cache -> "redis"
                       [] s = key   -> "generic"]

(* Apart: db and hook share no file and no container.                      *)
ApartEnvFiles == [s \in Secrets |-> IF s = db THEN <<env1, env2>> ELSE <<env3>>]
ApartContainersOf == [s \in Secrets |-> IF s = db THEN <<c1, c2>> ELSE <<c3>>]
ApartReads ==
  [c \in Containers |->
     [s \in Secrets |-> IF s = db THEN (IF c = c1 THEN env1 ELSE env2) ELSE env3]]

(* Together: env1 holds every secret, and c2 uses several of them.         *)
TogetherEnvFiles == [s \in Secrets |-> IF s = db THEN <<env1, env2>> ELSE <<env1>>]
TogetherContainersOf ==
  [s \in Secrets |-> CASE s = db  -> <<c1, c2>>
                       [] s = key -> <<>>
                       [] OTHER   -> <<c2>>]
TogetherReads == [c \in Containers |-> [s \in Secrets |-> env1]]

\* db administers itself and app, and app finds db's password in env1.
MCAdminAccount == [s \in Secrets |-> IF s = app THEN db ELSE s]
MCAdminPasswordEnv == [s \in Secrets |-> IF s = app THEN db ELSE Absent]

NoAdminPassword == [s \in Secrets |-> Absent]
\* The initial password of db, written into rotator.yml as provider.password.
DbAdminPassword == [s \in Secrets |-> IF s = db THEN 0 ELSE Absent]

\* Every file holds the initial value of every key.
FilesInOrder == [f \in Files |-> [a \in Accounts |-> 0]]

AllFaults == FaultKinds

Once  == [s \in Secrets |-> 1]
Twice == [s \in Secrets |-> 2]
DbTwice == [s \in Secrets |-> IF s = db THEN 2 ELSE 1]
=============================================================================
