---------------------------- MODULE RestartOrder ----------------------------
(***************************************************************************)
(* The order in which a rotation restarts containers: the dependency order *)
(* of a Compose project (container/compose.go), its application to the     *)
(* entries that rotator.yml lists (cli/rotate.go) and the resolution of    *)
(* those entries to containers (container/resolve.go).                     *)
(*                                                                         *)
(* Names are naturals, ordered as the code orders the strings.  A project  *)
(* is a function from its services to the names each one depends_on; the   *)
(* Compose loader that reads it is external.  A container is a record      *)
(* [name, service, project, number] in which 0 stands for a label that     *)
(* the container does not have.                                            *)
(***************************************************************************)
EXTENDS Integers, FiniteSets, SequencesExt, FiniteSetsExt

NoLabel == 0

\* Results of the functions that can fail.
Failed == [ok |-> FALSE, names |-> <<>>]
Returns(names) == [ok |-> TRUE, names |-> names]

-----------------------------------------------------------------------------
(* compose.go *)

ReadyIgnoringUndefined(project, done) ==
  {n \in DOMAIN project \ done : project[n] \cap DOMAIN project \subseteq done}

(* The nodes whose in-degree has come down to zero once the nodes in done  *)
(* have been popped.  A dependency on a name that is not a service is      *)
(* never popped, so its dependents never become ready.                     *)
Ready(project, done) ==
  {n \in DOMAIN project \ done : project[n] \subseteq done}

(* Kahn's algorithm: the queue is kept sorted, so its head is the least    *)
(* ready node, and it is popped until it is empty.  A sort that does not   *)
(* reach every node has met a cycle.                                       *)
Pop(project, order) ==
  LET ready == Ready(project, ToSet(order))
  IN  IF ready = {} THEN order ELSE Append(order, Min(ready))

TopoSort(project) ==
  LET nodes == Cardinality(DOMAIN project)
      popped[k \in 0..nodes] == IF k = 0 THEN <<>> ELSE Pop(project, popped[k - 1])
  IN  IF Len(popped[nodes]) = nodes THEN Returns(popped[nodes]) ELSE Failed

\* The names of a list that are chosen, in its order.
Those(names, chosen) ==
  LET kept[i \in 0..Len(names)] ==
        IF i = 0 THEN <<>>
        ELSE IF names[i] \in chosen THEN Append(kept[i - 1], names[i])
                                    ELSE kept[i - 1]
  IN  kept[Len(names)]

FilterInConfiguredOrder(allOrder, targets) == Those(targets, ToSet(allOrder))

\* The targets in the order of allOrder, each once however often it is listed.
FilterDependencyOrder(allOrder, targets) == Those(allOrder, ToSet(targets))

-----------------------------------------------------------------------------
(* cli/rotate.go *)

(* What ResolveComposeFile and LoadDependencyOrder find: an explicit       *)
(* compose_file that does not exist, no Compose file at all, one that does *)
(* not parse, or a project.                                                *)
ComposeStates == {"missing", "none", "unparsable", "project"}

(* Fewer than two entries, no Compose file, or one without an order leave  *)
(* the configured order; an entry that is no service of the project goes   *)
(* to the end.                                                             *)
ApplyDependencyOrder(configured, compose, project) ==
  LET sorted  == TopoSort(project)
      ordered == FilterDependencyOrder(sorted.names, configured)
      unknown == Those(configured, ToSet(configured) \ ToSet(ordered))
  IN  CASE Len(configured) < 2 -> Returns(configured)
        [] Len(configured) >= 2 /\ compose = "missing" -> Failed
        [] Len(configured) >= 2 /\ compose = "project" /\ sorted.ok ->
             Returns(ordered \o unknown)
        [] OTHER -> Returns(configured)

-----------------------------------------------------------------------------
(* resolve.go and fleet.go *)

(* The replicas of a service in the order of their numbers, or of their    *)
(* names where a number is missing or shared: a comparison that need not   *)
(* be transitive, and where no order agrees with it any may come out.      *)
SortByReplica(matches) ==
  LET Before(c, d) ==
        IF c.number # d.number /\ NoLabel \notin {c.number, d.number}
          THEN c.number < d.number
          ELSE c.name < d.name
      orders == {s \in [1..Cardinality(matches) -> matches] : IsInjective(s)}
      Sorted(s) == \A i, j \in DOMAIN s : i < j => ~ Before(s[j], s[i])
  IN  CHOOSE s \in orders : (\E t \in orders : Sorted(t)) => Sorted(s)

DistinctProjects(matches) == {c.project : c \in matches}

ResolveToOneReplica(want, fleet) ==
  LET named == {c \in fleet : want \in {c.name, c.service}}
  IN  IF named = {} THEN Failed ELSE Returns(<<Min({c.name : c \in named})>>)

(* One entry: the container of that name if there is one, else every       *)
(* replica of the Compose service of that name, which has to be the        *)
(* service of a single project.                                            *)
ResolveEntry(want, fleet) ==
  LET matches == {c \in fleet : c.service = want}
  IN  IF \E c \in fleet : c.name = want
        THEN Returns(<<want>>)
        ELSE IF Cardinality(DistinctProjects(matches)) # 1
               THEN Failed
               ELSE LET sorted == SortByReplica(matches)
                    IN  Returns([i \in DOMAIN sorted |-> sorted[i].name])

(* An inventory that cannot be read or is empty leaves the entries as they *)
(* are; otherwise the first entry that does not resolve fails the call.    *)
ResolveContainerNames(requested, listed, fleet) ==
  LET entries == [i \in DOMAIN requested |-> ResolveEntry(requested[i], fleet)]
  IN  IF requested = <<>> \/ ~ listed \/ fleet = {}
        THEN Returns(requested)
        ELSE IF \E i \in DOMAIN entries : ~ entries[i].ok
               THEN Failed
               ELSE Returns(FlattenSeq([i \in DOMAIN entries |->
                                          entries[i].names]))

(* What a rotation restarts, in order: the command orders the entries, and *)
(* the use case has the fleet resolve them.                                *)
RestartList(configured, compose, project, listed, fleet) ==
  LET ordered == ApplyDependencyOrder(configured, compose, project)
  IN  IF ordered.ok
        THEN ResolveContainerNames(ordered.names, listed, fleet)
        ELSE Failed
=============================================================================
