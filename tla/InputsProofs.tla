---------------------------- MODULE InputsProofs ----------------------------
(***************************************************************************)
(* The theorems about Inputs: for every set of questions, of any size, the *)
(* answer to each is what its property says.                               *)
(***************************************************************************)
EXTENDS InputLemmas

-----------------------------------------------------------------------------
(* The invariant                                                          *)

\* Nothing is known of an answer but that it is the code's for the input.
\* That is inductive, and every property below follows from it.
InputsInv ==
  /\ input \in Questions
  /\ Asked("restart") =>
       answer.value = [restarted |-> RestartList(input.configured, input.compose,
                                       input.project, input.listed, input.fleet),
                       sorted    |-> TopoSort(input.project).ok]
  /\ Asked("file") =>
       LET written == Write(DiskOf(input.lines), input.key, input.value, input.call)
       IN  answer.value = [written  |-> written,
                           restored |-> Restore(written.disk, written.snapshot, Complete)]
  /\ Asked("age") => answer.value = ParseMaxAge(input.groups)
  /\ Asked("policy") =>
       LET report == Report(input.maxAge, input.hasHistory, input.answers, input.now)
       IN  answer.value = [status |-> Status(report, input.overdueOnly),
                           daemon |-> DueForDaemon(report)]
  /\ Asked("configuration") =>
       LET found == Discover(input.place)
       IN  answer.value = [found   |-> found,
                           loaded  |-> Loaded(input.definitions, input.place),
                           compose |-> ResolveComposeFile(found, Unset, input.place),
                           history |-> HistoryPath(found, Unset, Unset)]

\* The invariant is one: each action answers what its function returns (Go functions
\* without state: topoSort, writeAtomic, ParseMaxAge, Evaluate, Load).
THEOREM InputsInvariant == Spec => []InputsInv
<1>1. Init => InputsInv
  BY DEF Init, InputsInv, Asked, Unanswered
<1>2. InputsInv /\ [Next]_vars => InputsInv'
  <2> SUFFICES ASSUME InputsInv, [Next]_vars PROVE InputsInv'
    OBVIOUS
  <2>1. CASE OrderContainers
    BY <2>1 DEF InputsInv, OrderContainers, Unasked, Asked, Answer
  <2>2. CASE WriteFile
    BY <2>2 DEF InputsInv, WriteFile, Unasked, Asked, Answer
  <2>3. CASE ReadAge
    BY <2>3 DEF InputsInv, ReadAge, Unasked, Asked, Answer
  <2>4. CASE JudgeSecrets
    BY <2>4 DEF InputsInv, JudgeSecrets, Unasked, Asked, Answer
  <2>5. CASE LoadConfiguration
    BY <2>5 DEF InputsInv, LoadConfiguration, Unasked, Asked, Answer
  <2>6. CASE UNCHANGED vars
    BY <2>6 DEF InputsInv, vars, Asked
  <2>7. QED
    BY <2>1, <2>2, <2>3, <2>4, <2>5, <2>6 DEF Next
<1>3. QED
  BY <1>1, <1>2, PTL DEF Spec

\* An input is of the kind that its question says.
LEMMA InputKinds ==
  ASSUME InputsInv
  PROVE  /\ input.question = "restart" => RestartInput(input)
         /\ input.question = "file" => FileInput(input)
         /\ input.question = "age" => AgeInput(input)
         /\ input.question = "policy" => PolicyInput(input)
         /\ input.question = "configuration" => ConfigurationInput(input)
<1>1. \/ RestartInput(input) \/ FileInput(input) \/ AgeInput(input)
      \/ PolicyInput(input)  \/ ConfigurationInput(input)
  BY QuestionsAssumption DEF InputsInv
<1>2. QED
  BY <1>1 DEF RestartInput, FileInput, AgeInput, PolicyInput, ConfigurationInput

-----------------------------------------------------------------------------
(* Restart order                                                          *)

\* What the answer to a restart is.
LEMMA RestartAnswer ==
  ASSUME InputsInv, Asked("restart")
  PROVE  /\ RestartInput(input)
         /\ answer.value.restarted = RestartList(input.configured, input.compose,
                                        input.project, input.listed, input.fleet)
  BY InputKinds DEF InputsInv, Asked

\* What a restart that is answered starts from.
LEMMA RestartFacts ==
  ASSUME InputsInv, Asked("restart"), answer.value.restarted.ok
  PROVE  LET ordered == ApplyDependencyOrder(input.configured, input.compose, input.project)
         IN  /\ input.configured \in Seq(Nat) /\ input.compose \in ComposeStates
             /\ input.listed \in BOOLEAN
             /\ DOMAIN input.project \subseteq Nat /\ IsFiniteSet(DOMAIN input.project)
             /\ IsFiniteSet(input.fleet) /\ input.fleet \subseteq Container
             /\ ordered.ok
             /\ answer.value.restarted = ResolveContainerNames(ordered.names, input.listed, input.fleet)
             /\ ordered.names \in Seq(Nat) /\ ToSet(ordered.names) = ToSet(input.configured)
<1> DEFINE ordered == ApplyDependencyOrder(input.configured, input.compose, input.project)
<1>1. RestartInput(input)
  BY RestartAnswer
<1>2. input.configured \in Seq(Nat \ {NoLabel}) /\ Nat \ {NoLabel} \subseteq Nat
  BY <1>1 DEF RestartInput
<1>3. input.configured \in Seq(Nat)
  BY <1>2, Widened
<1>4. /\ ordered.ok
      /\ answer.value.restarted = ResolveContainerNames(ordered.names, input.listed, input.fleet)
  BY RestartAnswer, RestartedIs
<1>5. ordered.names \in Seq(Nat) /\ ToSet(ordered.names) = ToSet(input.configured)
  BY <1>1, <1>3, <1>4, OrderedIs DEF RestartInput
<1>6. QED
  BY <1>1, <1>3, <1>4, <1>5 DEF RestartInput

\* topoSort fails exactly on the projects of which no service order exists, for projects of
\* any size (compose.go:73).
THEOREM SortsUnlessCyclic == Spec => []SortedUnlessCyclic
<1>1. ASSUME InputsInv PROVE SortedUnlessCyclic
  <2> SUFFICES ASSUME Asked("restart")
               PROVE  answer.value.sorted <=> HasOrder(input.project)
    BY Zenon DEF SortedUnlessCyclic
  <2> DEFINE project == input.project
  <2>1. DOMAIN project \subseteq Nat /\ IsFiniteSet(DOMAIN project)
    BY <1>1, InputKinds DEF Asked, RestartInput
  <2>2. answer.value.sorted = TopoSort(project).ok
    BY <1>1 DEF InputsInv, Asked
  <2> HIDE DEF project
  <2>3. TopoSort(project).ok <=> HasOrder(project)
    BY <2>1, SortsWhatHasAnOrder
  <2>4. QED
    BY <2>2, <2>3, Zenon DEF project
<1>2. QED
  BY <1>1, InputsInvariant, PTL

\* The restart order has the containers that the configured entries denote and no others,
\* for any entries, project and inventory (rotate.go:107, resolve.go:28).
THEOREM RestartsWhatIsConfigured == Spec => []NothingDropped
<1>1. ASSUME InputsInv PROVE NothingDropped
  <2> SUFFICES ASSUME Asked("restart"), answer.value.restarted.ok
               PROVE  ToSet(answer.value.restarted.names) =
                        IF input.listed /\ input.fleet # {}
                          THEN {c.name : c \in UNION {Denoted(e, input.fleet) :
                                                        e \in ToSet(input.configured)}}
                          ELSE ToSet(input.configured)
    BY Zenon DEF NothingDropped
  <2> DEFINE configured == input.configured
             fleet == input.fleet
             listed == input.listed
             ordered == ApplyDependencyOrder(configured, input.compose, input.project)
             names == answer.value.restarted.names
  <2>1. /\ configured \in Seq(Nat) /\ listed \in BOOLEAN
        /\ IsFiniteSet(fleet) /\ fleet \subseteq Container
    BY <1>1, RestartFacts
  <2>2. /\ ordered.ok
        /\ answer.value.restarted = ResolveContainerNames(ordered.names, listed, fleet)
    BY <1>1, RestartFacts
  <2>3. ordered.names \in Seq(Nat) /\ ToSet(ordered.names) = ToSet(configured)
    BY <1>1, RestartFacts
  <2>4. ResolveContainerNames(ordered.names, listed, fleet).ok
    BY <2>2
  <2> HIDE DEF ordered, configured
  <2>5. IF listed /\ fleet # {}
          THEN \E from : Resolves(names, ordered.names, fleet, from)
          ELSE names = ordered.names
    BY <2>1, <2>2, <2>3, <2>4, ResolvedNames
  <2> HIDE DEF names
  <2>6. CASE ~ (listed /\ fleet # {})
    BY <2>3, <2>5, <2>6 DEF names, configured
  <2>7. CASE listed /\ fleet # {}
    <3>1. PICK from : Resolves(names, ordered.names, fleet, from)
      BY <2>5, <2>7
    <3> DEFINE denoted == {c.name : c \in UNION {Denoted(e, fleet) : e \in ToSet(configured)}}
    <3>2. ToSet(names) \subseteq denoted
      <4>1. ASSUME NEW i \in DOMAIN names PROVE names[i] \in denoted
        <5>1. from[i] \in DOMAIN ordered.names
              /\ names[i] \in Called(Denoted(ordered.names[from[i]], fleet))
          BY <3>1 DEF Resolves
        <5>2. ordered.names[from[i]] \in ToSet(configured)
          BY <2>3, <5>1 DEF ToSet
        <5>3. QED
          BY <5>1, <5>2 DEF Called
      <4>2. QED
        BY <4>1 DEF ToSet
    <3>3. denoted \subseteq ToSet(names)
      <4>1. ASSUME NEW e \in ToSet(configured), NEW c \in Denoted(e, fleet)
            PROVE  c.name \in ToSet(names)
        <5>1. PICK k \in DOMAIN ordered.names : ordered.names[k] = e
          BY <2>3 DEF ToSet
        <5>2. Called(Denoted(e, fleet)) \subseteq ToSet(names)
          BY <3>1, <5>1 DEF Resolves
        <5>3. QED
          BY <5>2 DEF Called
      <4>2. QED
        BY <4>1
    <3>4. ToSet(names) = denoted
      BY <3>2, <3>3
    <3>5. QED
      BY <2>7, <3>4 DEF names, configured
  <2>8. QED
    BY <2>6, <2>7
<1>2. QED
  BY <1>1, InputsInvariant, PTL

\* A listed service is restarted after the listed services it needs, directly or through
\* others that are not listed, with all their replicas (rotate.go:107, compose.go:53).
THEOREM NeededAreRestartedFirst == Spec => []DependenciesFirst
<1>1. ASSUME InputsInv PROVE DependenciesFirst
  <2> DEFINE configured == input.configured
             project == input.project
             fleet == input.fleet
             names == answer.value.restarted.names
             Found(n) == {i \in DOMAIN names : \E c \in Denoted(n, fleet) : c.name = names[i]}
  <2> SUFFICES ASSUME Asked("restart"), input.compose = "project", input.listed,
                      HasOrder(project), ListedOnce(configured, fleet),
                      answer.value.restarted.ok,
                      NEW n \in ToSet(configured) \cap DOMAIN project,
                      NEW m \in Needs(project, n) \cap (ToSet(configured) \cap DOMAIN project),
                      NEW i \in Found(m), NEW j \in Found(n)
               PROVE  i < j
    BY Zenon DEF DependenciesFirst
  <2> DEFINE ordered == ApplyDependencyOrder(configured, input.compose, project)
  <2>1. /\ configured \in Seq(Nat) /\ input.listed \in BOOLEAN
        /\ DOMAIN project \subseteq Nat /\ IsFiniteSet(DOMAIN project)
        /\ IsFiniteSet(fleet) /\ fleet \subseteq Container
    BY <1>1, RestartFacts
  <2>2. /\ ordered.ok
        /\ answer.value.restarted = ResolveContainerNames(ordered.names, input.listed, fleet)
    BY <1>1, RestartFacts
  <2>3. ordered.names \in Seq(Nat) /\ ToSet(ordered.names) = ToSet(configured)
    BY <1>1, RestartFacts
  <2>4. ResolveContainerNames(ordered.names, input.listed, fleet).ok
    BY <2>2
  <2>5. \A k, l \in DOMAIN ordered.names :
          ordered.names[k] = m /\ ordered.names[l] = n => k < l
    <3>1. ordered = ApplyDependencyOrder(configured, "project", project)
      OBVIOUS
    <3>2. /\ HasOrder(project)
          /\ n \in ToSet(configured) \cap DOMAIN project
          /\ m \in Needs(project, n) \cap (ToSet(configured) \cap DOMAIN project)
      OBVIOUS
    <3> HIDE DEF configured, project, Found, names, fleet
    <3> DEFINE answered == ApplyDependencyOrder(configured, "project", project)
    <3>3. \A k, l \in DOMAIN answered.names :
            answered.names[k] = m /\ answered.names[l] = n => k < l
      BY <2>1, <3>2, OrderedFirst
    <3> HIDE DEF answered, ordered
    <3>4. ordered = answered
      BY <3>1, Zenon DEF answered
    <3>5. QED
      BY <3>3, <3>4, Zenon
  <2> HIDE DEF ordered, configured, project
  <2>6. fleet # {}
    <3>1. \E c \in Denoted(n, fleet) : TRUE
      OBVIOUS
    <3>2. QED
      BY <3>1 DEF Denoted
  <2>7. PICK from : Resolves(names, ordered.names, fleet, from)
    <3> DEFINE resolved == ResolveContainerNames(ordered.names, input.listed, fleet)
    <3>1. IF input.listed /\ fleet # {}
            THEN \E from : Resolves(resolved.names, ordered.names, fleet, from)
            ELSE resolved.names = ordered.names
      <4> HIDE DEF fleet, Found, names
      <4>1. QED
        BY <2>1, <2>3, <2>4, ResolvedNames
    <3>2. resolved.names = names
      BY <2>2, Zenon
    <3> HIDE DEF resolved, names, fleet, Found
    <3>3. QED
      BY <3>1, <3>2, <2>6
  <2>8. ASSUME NEW e \in ToSet(configured), NEW h \in Found(e)
        PROVE  h \in DOMAIN names /\ from[h] \in DOMAIN ordered.names
               /\ ordered.names[from[h]] = e
    <3>1. PICK c \in Denoted(e, fleet) : c.name = names[h]
      OBVIOUS
    <3>2. /\ h \in DOMAIN names /\ from[h] \in DOMAIN ordered.names
          /\ names[h] \in Called(Denoted(ordered.names[from[h]], fleet))
      BY <2>7 DEF Resolves
    <3>3. PICK d \in Denoted(ordered.names[from[h]], fleet) : d.name = names[h]
      BY <3>2 DEF Called
    <3>4. ordered.names[from[h]] \in ToSet(configured)
      BY <2>3, <3>2 DEF ToSet
    <3>5. QED
      BY <3>1, <3>2, <3>3, <3>4 DEF ListedOnce
  <2>9. from[i] < from[j]
    BY <2>5, <2>8
  <2>10. j <= i => from[j] <= from[i]
    BY <2>7, <2>8 DEF Resolves
  <2>11. i \in Nat /\ j \in Nat /\ from[i] \in Nat /\ from[j] \in Nat
    <3>1. DOMAIN names = 1..Len(names) /\ DOMAIN ordered.names = 1..Len(ordered.names)
      BY <2>3, <2>7 DEF Resolves
    <3>2. i \in DOMAIN names /\ j \in DOMAIN names
          /\ from[i] \in DOMAIN ordered.names /\ from[j] \in DOMAIN ordered.names
      BY <2>8
    <3>3. QED
      BY <3>1, <3>2
  <2>12. QED
    BY <2>9, <2>10, <2>11
<1>2. QED
  BY <1>1, InputsInvariant, PTL

-----------------------------------------------------------------------------
(* .env files                                                             *)

(* What the answer to a write is made of.                                  *)
OldDisk == DiskOf(input.lines)
Changed == Set(input.lines, input.key, input.value)

\* What the answer to a write is.
LEMMA FileAnswers ==
  ASSUME InputsInv, Asked("file")
  PROVE  /\ input.lines \in Seq(Line) /\ input.value \in STRING /\ input.call \in Calls
         /\ OldDisk \in Disk /\ OldDisk.temp = NoFile
         /\ answer.value.written = Write(OldDisk, input.key, input.value, input.call)
         /\ answer.value.restored =
              Restore(answer.value.written.disk, answer.value.written.snapshot, Complete)
<1>1. FileInput(input)
  BY InputKinds DEF Asked
<1>2. OldDisk \in Disk /\ OldDisk.temp = NoFile
  <2> DEFINE yes == TRUE
             mode == "0640"
  <2>1. yes \in BOOLEAN /\ mode \in Modes /\ input.lines \in Seq(Line)
    BY <1>1 DEF FileInput, Modes
  <2>2. OldDisk = [path |-> [lines |-> input.lines, mode |-> mode, synced |-> yes], temp |-> NoFile]
    BY DEF OldDisk, DiskOf
  <2> HIDE DEF yes, mode
  <2>3. QED
    BY <2>1, <2>2, NoFileIs DEF Disk, File
<1>3. QED
  BY <1>1, <1>2 DEF FileInput, InputsInv, OldDisk

\* A key that the file has is written, or the old file stays; another is refused.
LEMMA WriteIs ==
  ASSUME InputsInv, Asked("file")
  PROVE  LET write == answer.value.written
         IN  /\ Has(input.lines, input.key) =>
                  /\ write.snapshot = input.lines
                  /\ NewOrOld(write, OldDisk, Changed, input.call)
             /\ ~ Has(input.lines, input.key) =>
                  ~ write.ok /\ write.disk = OldDisk
<1> DEFINE write == answer.value.written
<1>1. OldDisk.path.lines = input.lines
  BY DEF OldDisk, DiskOf
<1>2. CASE Has(input.lines, input.key)
  <2>1. Changed \in Seq(Line)
    BY <1>2, FileAnswers, SetIs DEF Changed, ChangedLast
  <2>2. NewOrOld(WriteAtomic(OldDisk, Changed, input.call), OldDisk, Changed, input.call)
    BY <2>1, FileAnswers, WriteAtomicIs
  <2>3. write.snapshot = input.lines
        /\ write.ok = WriteAtomic(OldDisk, Changed, input.call).ok
        /\ write.disk = WriteAtomic(OldDisk, Changed, input.call).disk
    BY <1>1, <1>2, FileAnswers DEF Write, Changed
  <2>4. QED
    BY <1>2, <2>2, <2>3 DEF NewOrOld
<1>3. CASE ~ Has(input.lines, input.key)
  <2>1. ~ write.ok /\ write.disk = OldDisk
    BY <1>1, <1>3, FileAnswers DEF Write
  <2>2. QED
    BY <2>1, <1>3
<1>4. QED
  BY <1>2, <1>3

\* writeAtomic replaces the file or leaves it, for any file, key and value, at whichever
\* step it fails or the process dies (writer.go:44).
THEOREM WritesAreAllOrNothing == Spec => []WriteIsAllOrNothing
<1>1. ASSUME InputsInv PROVE WriteIsAllOrNothing
  <2> SUFFICES ASSUME Asked("file")
               PROVE  /\ answer.value.written.disk.path =
                           [OldDisk.path EXCEPT !.lines =
                              IF answer.value.written.ok
                                THEN Set(input.lines, input.key, input.value) ELSE @]
                      /\ input.call.stop = "return" => answer.value.written.disk.temp = NoFile
    BY DEF WriteIsAllOrNothing, OldDisk
  <2> DEFINE write == answer.value.written
             file == [lines |-> Changed, mode |-> OldDisk.path.mode, synced |-> TRUE]
  <2>1. /\ OldDisk.path \in File /\ OldDisk.path.synced = TRUE /\ OldDisk.temp = NoFile
    BY <1>1, FileAnswers DEF OldDisk, DiskOf, Disk
  <2>2. /\ [OldDisk.path EXCEPT !.lines = @] = OldDisk.path
        /\ [OldDisk.path EXCEPT !.lines = Changed]
             = [lines |-> Changed, mode |-> OldDisk.path.mode, synced |-> OldDisk.path.synced]
    BY <2>1 DEF File
  <2>3. file = [OldDisk.path EXCEPT !.lines = Changed]
    BY <2>1, <2>2, Zenon
  <2> HIDE DEF file
  <2>4. CASE Has(input.lines, input.key) /\ input.call.done = 7
    <3>1. write.ok /\ write.disk = [path |-> file, temp |-> NoFile]
      BY <1>1, <2>4, WriteIs DEF NewOrOld, file
    <3>2. QED
      BY <3>1, <2>3 DEF Changed
  <2>5. CASE Has(input.lines, input.key) /\ input.call.done # 7
    <3>1. /\ ~ write.ok /\ write.disk.path = OldDisk.path
          /\ input.call.stop = "return" => write.disk.temp = NoFile
      BY <1>1, <2>5, WriteIs DEF NewOrOld
    <3>2. QED
      BY <3>1, <2>2
  <2>6. CASE ~ Has(input.lines, input.key)
    <3>1. ~ write.ok /\ write.disk = OldDisk
      BY <1>1, <2>6, WriteIs
    <3>2. QED
      BY <3>1, <2>1, <2>2
  <2>7. QED
    BY <2>4, <2>5, <2>6
<1>2. QED
  BY <1>1, InputsInvariant, PTL

\* A write that succeeds put the changed lines on the disk.
LEMMA SuccessIs ==
  ASSUME InputsInv, Asked("file"), answer.value.written.ok
  PROVE  /\ ChangedLast(Changed, input.lines, input.key, input.value)
         /\ answer.value.written.snapshot = input.lines
         /\ answer.value.written.disk =
              [path |-> [lines |-> Changed, mode |-> OldDisk.path.mode, synced |-> TRUE],
               temp |-> NoFile]
<1>1. Has(input.lines, input.key) /\ input.call.done = 7
  BY WriteIs DEF NewOrOld
<1>2. ChangedLast(Changed, input.lines, input.key, input.value)
  BY <1>1, FileAnswers, SetIs DEF Changed
<1>3. QED
  BY <1>1, <1>2, WriteIs DEF NewOrOld

\* After a write that succeeds a reader finds the new value under the key and the old ones
\* under the others, however often the file lists the key (writer.go:10, store.go:32).
THEOREM WritesAreRead == Spec => []WrittenValueIsRead
<1>1. ASSUME InputsInv PROVE WrittenValueIsRead
  <2> SUFFICES ASSUME Asked("file"), answer.value.written.ok
               PROVE  LET lines == answer.value.written.disk.path.lines
                      IN  /\ Lookup(lines, input.key) = [found |-> TRUE, value |-> input.value]
                          /\ \A key \in ToSet(Keys(input.lines)) \ {input.key} :
                               Lookup(lines, key) = Lookup(input.lines, key)
                          /\ Keys(lines) = Keys(input.lines)
                          /\ \A i \in DOMAIN input.lines : input.lines[i].key # input.key =>
                               lines[i] = input.lines[i]
    BY DEF WrittenValueIsRead
  <2> DEFINE last == Index(input.lines, input.key)
  <2>1. answer.value.written.disk.path.lines = Changed
    BY <1>1, SuccessIs
  <2>2. /\ Changed \in Seq(Line) /\ input.lines \in Seq(Line)
        /\ DOMAIN Changed = DOMAIN input.lines
        /\ last \in DOMAIN input.lines /\ input.lines[last].key = input.key
        /\ Changed[last].value = input.value
        /\ \A i \in DOMAIN input.lines : Changed[i].key = input.lines[i].key
        /\ \A i \in DOMAIN input.lines \ {last} : Changed[i] = input.lines[i]
        /\ \A k : (Has(Changed, k) <=> Has(input.lines, k)) /\ Index(Changed, k) = Index(input.lines, k)
    BY <1>1, SuccessIs, FileAnswers DEF ChangedLast
  <2> HIDE DEF last
  <2>3. Lookup(Changed, input.key) = [found |-> TRUE, value |-> input.value]
    <3>1. Has(Changed, input.key) /\ Index(Changed, input.key) = last
      BY <2>2 DEF Has, last
    <3>2. QED
      BY <3>1, <2>2 DEF Lookup
  <2>4. \A key : key # input.key => Lookup(Changed, key) = Lookup(input.lines, key)
    <3> SUFFICES ASSUME NEW key, key # input.key
                 PROVE  Lookup(Changed, key) = Lookup(input.lines, key)
      OBVIOUS
    <3>1. CASE Has(input.lines, key)
      <4>1. Index(input.lines, key) \in DOMAIN input.lines
            /\ input.lines[Index(input.lines, key)].key = key
        BY <2>2, <3>1, IndexIs
      <4>2. Changed[Index(input.lines, key)] = input.lines[Index(input.lines, key)]
        BY <4>1, <2>2
      <4>3. Has(Changed, key) /\ Index(Changed, key) = Index(input.lines, key)
        BY <2>2, <3>1, Zenon
      <4>4. QED
        BY <4>2, <4>3, <3>1 DEF Lookup
    <3>2. CASE ~ Has(input.lines, key)
      BY <3>2, <2>2 DEF Lookup
    <3>3. QED
      BY <3>1, <3>2
  <2>5. Keys(Changed) = Keys(input.lines)
    BY <2>2, KeysAreTheKeys
  <2>6. \A i \in DOMAIN input.lines : input.lines[i].key # input.key => Changed[i] = input.lines[i]
    BY <2>2
  <2>7. QED
    BY <2>1, <2>3, <2>4, <2>5, <2>6
<1>2. QED
  BY <1>1, InputsInvariant, PTL

\* Store.Restore puts back what Store.Write returned as the snapshot, line by line and with
\* its permissions (store.go:55).
THEOREM RestoresAreExact == Spec => []RestoreIsExact
<1>1. ASSUME InputsInv PROVE RestoreIsExact
  <2> SUFFICES ASSUME Asked("file"), answer.value.written.ok
               PROVE  answer.value.restored = [ok |-> TRUE, disk |-> DiskOf(input.lines)]
    BY DEF RestoreIsExact
  <2> DEFINE disk == answer.value.written.disk
             back == WriteAtomic(disk, input.lines, Complete)
  <2>1. input.lines \in Seq(Line) /\ Changed \in Seq(Line)
    BY <1>1, FileAnswers, SuccessIs DEF ChangedLast
  <2>2. answer.value.restored = back
    BY <1>1, FileAnswers, SuccessIs DEF Restore
  <2>3. Complete \in Calls /\ Complete.done = 7
    BY DEF Complete, Calls, WriteSteps
  <2>4. disk \in Disk /\ disk.temp = NoFile /\ disk.path.mode = "0640"
    <3> DEFINE yes == TRUE
               mode == "0640"
    <3>1. yes \in BOOLEAN /\ mode \in Modes /\ OldDisk.path.mode = mode
      BY DEF Modes, OldDisk, DiskOf
    <3>2. disk = [path |-> [lines |-> Changed, mode |-> mode, synced |-> yes], temp |-> NoFile]
      BY <1>1, <3>1, SuccessIs
    <3> HIDE DEF yes
    <3>3. disk \in Disk
      <4> HIDE DEF mode
      <4>1. QED
        BY <2>1, <3>1, <3>2, NoFileIs DEF Disk, File
    <3>4. QED
      BY <3>2, <3>3
  <2> HIDE DEF disk
  <2>5. NewOrOld(back, disk, input.lines, Complete)
    BY <2>1, <2>3, <2>4, WriteAtomicIs
  <2>6. back.ok /\ back.disk = DiskOf(input.lines)
    BY <2>3, <2>4, <2>5 DEF NewOrOld, DiskOf
  <2>7. back = [ok |-> TRUE, disk |-> back.disk]
    BY <2>6 DEF WriteAtomic
  <2>8. QED
    BY <2>2, <2>6, <2>7
<1>2. QED
  BY <1>1, InputsInvariant, PTL

-----------------------------------------------------------------------------
(* Policy                                                                 *)

\* Every max_age whose hours fit in a duration, of any number of groups, is read by
\* ParseMaxAge as what is written, and shown by String as one that reads back (policy.go:29, 96).
THEOREM AgesAreReadAsWritten == Spec => []AgeMeansWhatIsWritten
<1>1. ASSUME InputsInv PROVE AgeMeansWhatIsWritten
  <2> SUFFICES ASSUME Asked("age"), Written(input.groups) <= MaxDuration
               PROVE  /\ answer.value.ok <=> \/ input.groups = <<>>
                                             \/ WellFormed(input.groups) /\ Written(input.groups) > 0
                      /\ answer.value.ok => answer.value.age = Written(input.groups)
                      /\ IsSet(answer.value.age) =>
                         ParseMaxAge(Render(answer.value.age)) = answer.value
    BY Zenon DEF AgeMeansWhatIsWritten
  <2> DEFINE groups == input.groups
  <2>1. groups \in Seq(Group) /\ answer.value = ParseMaxAge(groups)
    BY <1>1, InputKinds DEF InputsInv, Asked, AgeInput
  <2>2. answer.value =
           IF groups = <<>> THEN Accepted(NoMaxAge)
           ELSE IF WellFormed(groups) /\ Written(groups) > 0
                  THEN Accepted(Written(groups)) ELSE Rejected
    BY <2>1, ParseMaxAgeIs
  <2>3. Written(groups) \in Nat /\ (groups = <<>> => Written(groups) = 0)
    <3>1. Written(groups) \in Nat
      BY <2>1, GroupTypes, SumBounds DEF Written
    <3>2. groups = <<>> => Hours(groups) = <<>>
      BY DEF Hours
    <3>3. QED
      BY <3>1, <3>2, SumOfNone DEF Written
  <2> HIDE DEF groups
  <2>4. answer.value.ok <=> \/ groups = <<>>
                            \/ WellFormed(groups) /\ Written(groups) > 0
    BY <2>2, <2>3 DEF Accepted, Rejected
  <2>5. answer.value.ok => answer.value.age = Written(groups)
    BY <2>2, <2>3 DEF Accepted, Rejected, NoMaxAge
  <2>6. ASSUME IsSet(answer.value.age)
        PROVE  ParseMaxAge(Render(answer.value.age)) = answer.value
    <3>1. answer.value = Accepted(Written(groups)) /\ Written(groups) > 0
      BY <2>2, <2>3, <2>6 DEF Accepted, Rejected, NoMaxAge, IsSet
    <3>2. Written(groups) \in 1..MaxDuration /\ answer.value.age = Written(groups)
      BY <2>3, <3>1, DurationAssumption DEF Accepted, groups
    <3>3. QED
      BY <3>1, <3>2, RenderReadsBack
  <2>7. QED
    BY <2>4, <2>5, <2>6, Zenon DEF groups
<1>2. QED
  BY <1>1, InputsInvariant, PTL

\* rotator status --overdue succeeds exactly when every secret with a policy is proven
\* to meet it, whatever the history answers for whichever secrets (status.go:54, policy.go:133).
THEOREM StatusGatesOnProof == Spec => []StatusGateIsSound
<1>1. ASSUME InputsInv PROVE StatusGateIsSound
  <2> SUFFICES ASSUME Asked("policy"), input.overdueOnly
               PROVE  ~ answer.value.status.fails
                        <=> \A s \in DOMAIN input.maxAge : IsSet(input.maxAge[s]) => Proven(s)
    BY DEF StatusGateIsSound
  <2> DEFINE report == Report(input.maxAge, input.hasHistory, input.answers, input.now)
  <2>1. PolicyInput(input) /\ input.overdueOnly
        /\ answer.value.status = Status(report, input.overdueOnly)
    <3>1. PolicyInput(input)
      BY <1>1, InputKinds DEF Asked
    <3>2. answer.value = [status |-> Status(report, input.overdueOnly),
                          daemon |-> DueForDaemon(report)]
      BY <1>1, Zenon DEF InputsInv
    <3>3. QED
      BY <3>1, <3>2
  <2>2. DOMAIN report.standings = DOMAIN input.maxAge
    BY DEF Report
  <2>3. \A s \in DOMAIN input.maxAge :
          NeedsAttention(report.standings[s]) <=> IsSet(input.maxAge[s]) /\ ~ Proven(s)
    BY <2>1, StandingIs DEF NeedsAttention, Proven
  <2> HIDE DEF report
  <2>4. answer.value.status.fails <=> Attention(report) # {}
    <3>1. Status(report, input.overdueOnly).fails <=> input.overdueOnly /\ Attention(report) # {}
      BY <2>1 DEF Status
    <3>2. QED
      BY <3>1, <2>1, Zenon
  <2>5. QED
    BY <2>2, <2>3, <2>4 DEF Attention
<1>2. QED
  BY <1>1, InputsInvariant, PTL

\* The daemon's due list is the secrets whose last success on record is older than their
\* policy, or absent, and none whose history cannot be read (daemon.go:120, compliance.go:59).
THEOREM DaemonRotatesTheTooOld == Spec => []DueIsExactlyTooOld
<1>1. ASSUME InputsInv PROVE DueIsExactlyTooOld
  <2> SUFFICES ASSUME Asked("policy")
               PROVE  answer.value.daemon.due =
                        {s \in DOMAIN input.maxAge :
                           /\ IsSet(input.maxAge[s]) /\ input.hasHistory
                           /\ input.answers[s].kind # "error"
                           /\ ~ Proven(s)}
    BY DEF DueIsExactlyTooOld
  <2> DEFINE report == Report(input.maxAge, input.hasHistory, input.answers, input.now)
  <2>1. PolicyInput(input) /\ answer.value.daemon = DueForDaemon(report)
    BY <1>1, InputKinds DEF InputsInv, Asked
  <2>2. DOMAIN report.standings = DOMAIN input.maxAge /\ report.readable = input.hasHistory
    BY DEF Report
  <2>3. \A s \in DOMAIN input.maxAge : input.hasHistory =>
          (DueForRotation(report.standings[s])
             <=> IsSet(input.maxAge[s]) /\ ~ Proven(s) /\ input.answers[s].kind # "error")
    BY <2>1, StandingIs DEF DueForRotation, Proven
  <2> HIDE DEF report
  <2>4. CASE input.hasHistory
    BY <2>1, <2>2, <2>3, <2>4 DEF DueForDaemon, Due
  <2>5. CASE ~ input.hasHistory
    BY <2>1, <2>2, <2>5 DEF DueForDaemon
  <2>6. QED
    BY <2>4, <2>5
<1>2. QED
  BY <1>1, InputsInvariant, PTL

-----------------------------------------------------------------------------
(* Configuration                                                          *)

\* What the answer to a load is.
LEMMA ConfigurationAnswer ==
  ASSUME InputsInv, Asked("configuration")
  PROVE  LET found == Discover(input.place)
         IN  /\ ConfigurationInput(input) /\ PlaceOK(input.place)
             /\ answer.value.found = found
             /\ answer.value.loaded = Loaded(input.definitions, input.place)
             /\ answer.value.compose = ResolveComposeFile(found, Unset, input.place)
             /\ answer.value.history = HistoryPath(found, Unset, Unset)
<1>1. ConfigurationInput(input)
  BY InputKinds DEF Asked
<1>2. LET found == Discover(input.place)
      IN  answer.value = [found   |-> found,
                          loaded  |-> Loaded(input.definitions, input.place),
                          compose |-> ResolveComposeFile(found, Unset, input.place),
                          history |-> HistoryPath(found, Unset, Unset)]
  BY Zenon DEF InputsInv
<1>3. QED
  BY <1>1, <1>2 DEF ConfigurationInput

\* From whichever directory a configuration is loaded, it names the same .env files,
\* Compose file and history (config.go:168, 178, 226, discover.go:112).
THEOREM FilesAreBesideTheConfiguration == Spec => []SameFilesFromAnywhere
<1>1. ASSUME InputsInv PROVE SameFilesFromAnywhere
  <2> DEFINE place == input.place
             found == Discover(place)
             base == ConfigDir(found)
             cwd == place.cwd
             compose == ResolveComposeFile(found, Unset, place)
             loaded == Loaded(input.definitions, place)
  <2> SUFFICES ASSUME Asked("configuration"), found.kind = "found"
               PROVE  /\ ~ IsUnset(NamedConfig(place)) =>
                           Located(found.path, cwd) = Located(NamedConfig(place), cwd)
                      /\ Located(found.path, cwd) \in place.exists
                      /\ compose.kind = "found" <=>
                           InDirectory(ComposeFileNames) \cap place.exists # {}
                      /\ compose.kind = "found" => Located(compose.path, cwd)
                           \in InDirectory(ComposeFileNames) \cap place.exists
                      /\ Located(HistoryPath(found, Unset, Unset), cwd) =
                           Directory \o <<".rotator", "history.json">>
                      /\ \A i \in DOMAIN loaded.secrets :
                           LET written == EnvFilesOf(Definitions[i])
                           IN  /\ Len(loaded.secrets[i].envFiles) = Len(written)
                               /\ \A j \in DOMAIN written :
                                    Located(loaded.secrets[i].envFiles[j], cwd) = Beside(written[j])
    BY <1>1, ConfigurationAnswer, Zenon DEF SameFilesFromAnywhere
  <2>1. /\ ConfigurationInput(input) /\ PlaceOK(place)
        /\ answer.value.found = found
        /\ cwd \in Seq(Component)
    BY <1>1, ConfigurationAnswer, PathsArePaths DEF PlaceOK
  <2>2. /\ base \in Paths /\ ~ IsUnset(base)
        /\ Located(base, cwd) = Directory
    BY <2>1, DirectoryIs DEF Directory
  <2>3. ~ IsUnset(NamedConfig(place)) =>
          Located(found.path, cwd) = Located(NamedConfig(place), cwd)
    BY <2>1, FoundIs
  <2>4. Located(found.path, cwd) \in place.exists
    BY <2>1, FoundIs DEF Exists
  <2>5. Located(HistoryPath(found, Unset, Unset), cwd) =
          Directory \o <<".rotator", "history.json">>
    <3>1. Located(HistoryPath(found, Unset, Unset), cwd) =
            Located(base, cwd) \o <<".rotator", "history.json">>
      BY <2>1, <2>2, HistoryIs
    <3>2. QED
      BY <3>1, <2>2, Zenon
  <2>6. DOMAIN ComposeFileNames = 1..4
    BY DEF ComposeFileNames
  <2>7. \A i \in 1..4 : Located(ComposeCandidate(found, i), cwd) = Directory \o <<ComposeFileNames[i]>>
    BY <2>1, <2>2, CandidatesAre
  <2>8. InDirectory(ComposeFileNames) = {Located(ComposeCandidate(found, i), cwd) : i \in 1..4}
    BY <2>6, <2>7 DEF InDirectory
  <2> HIDE DEF compose
  <2>9. \/ /\ compose.kind = "none"
           /\ \A i \in 1..4 : Located(ComposeCandidate(found, i), cwd) \notin place.exists
        \/ \E i \in 1..4 : /\ compose = ConfigAt(ComposeCandidate(found, i))
                           /\ Located(ComposeCandidate(found, i), cwd) \in place.exists
    BY ComposeIs DEF Exists, compose
  <2>10. /\ compose.kind = "found" <=> InDirectory(ComposeFileNames) \cap place.exists # {}
         /\ compose.kind = "found" => Located(compose.path, cwd)
              \in InDirectory(ComposeFileNames) \cap place.exists
    BY <2>8, <2>9 DEF ConfigAt
  <2> DEFINE Anchored(p) == IF p.abs THEN p.at ELSE Located(base, cwd) \o p.at
  <2>11. \A p \in Paths :
           /\ IsUnset(ResolveRelative(base, p)) <=> IsUnset(p)
           /\ ~ IsUnset(p) => Located(ResolveRelative(base, p), cwd) = Anchored(p)
    BY <2>1, <2>2, ResolvedIs
  <2>12. ASSUME NEW i \in DOMAIN loaded.secrets
         PROVE  LET written == EnvFilesOf(Definitions[i])
                IN  /\ Len(loaded.secrets[i].envFiles) = Len(written)
                    /\ \A j \in DOMAIN written :
                         Located(loaded.secrets[i].envFiles[j], cwd) = Beside(written[j])
    <3> DEFINE written == EnvFilesOf(Definitions[i])
               files == EnvFilesOf(Canonical(input, i))
    <3>1. i \in DOMAIN input.definitions /\ Acceptable(Canonical(input, i), base)
          /\ loaded.secrets[i] = NewSecret(Canonical(input, i), base)
      BY <2>1, LoadedIs
    <3>2. loaded.secrets[i].envFiles = files /\ ValidEnvFiles(files)
      BY <3>1, SecretIs, Zenon
    <3>3. /\ written \in Seq(Paths) /\ Len(files) = Len(written)
          /\ DOMAIN files = DOMAIN written
          /\ \A k \in DOMAIN written : files[k] = ResolveRelative(base, written[k])
      BY <2>1, <3>1, AnchoredFiles DEF Definitions
    <3> HIDE DEF written, files, loaded
    <3>4. ASSUME NEW j \in DOMAIN written
          PROVE  Located(loaded.secrets[i].envFiles[j], cwd) = Beside(written[j])
      <4>1. written[j] \in Paths /\ files[j] = ResolveRelative(base, written[j])
        BY <3>3
      <4>2. ~ IsUnset(files[j])
        BY <3>2, <3>3 DEF ValidEnvFiles
      <4>3. Located(files[j], cwd) = Anchored(written[j])
        <5> HIDE DEF Anchored, base, cwd
        <5> DEFINE p == written[j]
        <5>1. /\ IsUnset(ResolveRelative(base, p)) <=> IsUnset(p)
              /\ ~ IsUnset(p) => Located(ResolveRelative(base, p), cwd) = Anchored(p)
          BY <4>1, <2>11
        <5> HIDE DEF p
        <5>2. files[j] = ResolveRelative(base, p)
          BY <4>1 DEF p
        <5>3. Located(files[j], cwd) = Anchored(p)
          BY <4>2, <5>1, <5>2
        <5>4. QED
          BY <5>3 DEF p
      <4>4. Anchored(written[j]) = Beside(written[j])
        <5>1. Located(base, cwd) = Directory
          BY <2>2
        <5>2. QED
          BY <5>1, Zenon DEF Beside
      <4>5. QED
        BY <4>3, <4>4, <3>2, Zenon
    <3>5. QED
      BY <3>2, <3>3, <3>4 DEF written
  <2>14. QED
    BY <2>3, <2>4, <2>5, <2>10, <2>12 DEF compose
<1>2. QED
  BY <1>1, InputsInvariant, PTL

\* A program configured by a path is the one beside the configuration, wherever that is
\* found under an absolute path (translate.go:155, command.go:121).
THEOREM PathsNameTheirPrograms == Spec => []ProgramIsTheScript
<1>1. ASSUME InputsInv PROVE ProgramIsTheScript
  <2> DEFINE place == input.place
             found == Discover(place)
             base == ConfigDir(found)
             loaded == Loaded(input.definitions, place)
  <2> SUFFICES ASSUME Asked("configuration"), found.path.abs, NEW i \in DOMAIN loaded.secrets,
                      HasSeparator(Definitions[i].command.apply)
               PROVE  LET written == Definitions[i].command.apply
                          command == loaded.secrets[i].target.command
                      IN  Executed(command.apply, command.workingDir, place.cwd) = Beside(written)
    BY <1>1, ConfigurationAnswer DEF ProgramIsTheScript
  <2>1. /\ ConfigurationInput(input) /\ PlaceOK(place)
        /\ answer.value.found = found
    BY <1>1, ConfigurationAnswer
  <2>2. /\ found.kind = "found"
        /\ i \in DOMAIN input.definitions
        /\ loaded.secrets[i] = NewSecret(Canonical(input, i), base)
    BY <2>1, LoadedIs
  <2>3. loaded.secrets[i].target = TargetFor(Canonical(input, i), base)
    BY <2>2, SecretIs, Zenon
  <2> DEFINE written == Definitions[i].command.apply
             command == loaded.secrets[i].target.command
  <2>4. /\ command.apply.abs
        /\ command.apply.at = IF written.abs THEN written.at ELSE base.at \o written.at
    <3>1. LET com == TargetFor(Canonical(input, i), base).command
          IN  /\ com.apply.abs
              /\ com.apply.at = IF written.abs THEN written.at ELSE base.at \o written.at
      BY <2>1, <2>2, CommandIs DEF Definitions
    <3>2. QED
      BY <3>1, <2>3, Zenon
  <2>5. Directory = base.at
    <3>1. base.abs /\ Located(base, place.cwd) = Directory
      BY <2>1, <2>2, BaseIsAbsolute, DirectoryIs DEF Directory
    <3>2. QED
      BY <3>1 DEF Located
  <2> HIDE DEF command, written, loaded
  <2>6. Executed(command.apply, command.workingDir, place.cwd) = command.apply.at
    BY <2>4 DEF Executed, HasSeparator
  <2>7. QED
    BY <2>4, <2>5, <2>6 DEF Beside, command, written
<1>2. QED
  BY <1>1, InputsInvariant, PTL

\* Every secret of a configuration that loads is one the use case can rotate, up to the
\* aliases, the overflowing ages and the padded names that LoadedSecretsAreSound excepts: what
\* NewSecret checks is so of what the translation makes of any file (secret.go:39, translate.go:37).
THEOREM LoadingIsSound == Spec => []LoadedSecretsAreSound
<1>1. ASSUME InputsInv PROVE LoadedSecretsAreSound
  <2> DEFINE place == input.place
             base == ConfigDir(Discover(place))
             loaded == answer.value.loaded
             secrets == loaded.secrets
             d(i) == Canonical(input, i)
  <2> SUFFICES ASSUME Asked("configuration"), loaded.ok
               PROVE  /\ \A i \in DOMAIN secrets :
                           LET s == secrets[i]
                           IN  /\ s.envFiles # <<>>
                               /\ \A j, k \in DOMAIN s.envFiles :
                                    /\ j # k /\ Located(s.envFiles[j], place.cwd) = Located(s.envFiles[k], place.cwd)
                                    => MissedAlias(s.envFiles[j], s.envFiles[k])
                               /\ "TODO" \notin {s.target.host, s.target.adminUser, s.target.adminPassword}
                               /\ s.kind \in {"mysql", "postgres"} => "" \notin {s.target.host, s.target.adminUser}
                               /\ s.kind = "command" => ~ IsUnset(s.target.command.apply)
                               /\ Definitions[i].maxAge # <<>> => IsSet(s.maxAge)
                               /\ /\ Definitions[i].maxAge # <<>>
                                  /\ Written(Definitions[i].maxAge) <= MaxDuration
                                  => s.maxAge = Written(Definitions[i].maxAge)
                      /\ \A i, j \in DOMAIN secrets :
                           /\ i # j /\ ~ Definitions[i].name.padded /\ ~ Definitions[j].name.padded
                           => secrets[i].name # secrets[j].name
    BY Zenon DEF LoadedSecretsAreSound
  <2>1. ConfigurationInput(input)
    BY <1>1, ConfigurationAnswer
  <2>2. /\ Discover(place).kind = "found"
        /\ DOMAIN secrets = DOMAIN input.definitions
        /\ \A i \in DOMAIN input.definitions :
             /\ Acceptable(d(i), base)
             /\ secrets[i] = NewSecret(d(i), base)
             /\ \A j \in DOMAIN input.definitions : i < j => d(i).name # d(j).name
    <3>1. loaded = Loaded(input.definitions, place)
      BY <1>1, ConfigurationAnswer
    <3>2. QED
      BY <2>1, <3>1, LoadedIs
  <2>3. \A i \in DOMAIN input.definitions :
          /\ DefinitionOK(input.definitions[i])
          /\ d(i).name = input.definitions[i].name /\ d(i).maxAge = input.definitions[i].maxAge
    BY <2>1 DEF Canonical, Normalize, ConfigurationInput, DefinitionOK
  <2>4. ASSUME NEW i \in DOMAIN input.definitions
        PROVE
          /\ secrets[i].name = d(i).name.text
          /\ secrets[i].kind = d(i).kind
          /\ secrets[i].envFiles = EnvFilesOf(d(i))
          /\ secrets[i].target = TargetFor(d(i), base)
          /\ secrets[i].maxAge = ParseMaxAge(d(i).maxAge).age
          /\ Translatable(d(i)) /\ ValidName(d(i).name)
          /\ ValidEnvFiles(EnvFilesOf(d(i)))
          /\ ParseMaxAge(d(i).maxAge).ok
          /\ ValidTarget(d(i).kind, TargetFor(d(i), base))
    <3>1. Acceptable(d(i), base) /\ secrets[i] = NewSecret(d(i), base)
      BY <2>2
    <3>2. /\ Translatable(d(i)) /\ ValidName(d(i).name)
          /\ ValidEnvFiles(EnvFilesOf(d(i)))
          /\ ParseMaxAge(d(i).maxAge).ok
          /\ ValidTarget(d(i).kind, TargetFor(d(i), base))
      BY <3>1, SecretIs, Zenon
    <3>3. /\ secrets[i].name = SecretName(d(i).name)
          /\ secrets[i].kind = d(i).kind
          /\ secrets[i].envFiles = EnvFilesOf(d(i))
          /\ secrets[i].target = TargetFor(d(i), base)
          /\ secrets[i].maxAge = ParseMaxAge(d(i).maxAge).age
      <4> DEFINE new == NewSecret(d(i), base)
      <4>1. /\ new.name = SecretName(d(i).name)
            /\ new.kind = d(i).kind
            /\ new.envFiles = EnvFilesOf(d(i))
            /\ new.target = TargetFor(d(i), base)
            /\ new.maxAge = ParseMaxAge(d(i).maxAge).age
        BY SecretIs, Zenon
      <4>2. secrets[i] = new
        BY <3>1
      <4> HIDE DEF secrets, d, new
      <4>3. QED
        BY <4>1, <4>2
    <3>4. SecretName(d(i).name) = d(i).name.text
      BY DEF SecretName
    <3>5. QED
      BY <3>2, <3>3, <3>4, Zenon
  <2> HIDE DEF secrets, d
  <2>5. ASSUME NEW i \in DOMAIN secrets
        PROVE  LET s == secrets[i]
               IN  /\ s.envFiles # <<>>
                   /\ \A j, k \in DOMAIN s.envFiles :
                        /\ j # k /\ Located(s.envFiles[j], place.cwd) = Located(s.envFiles[k], place.cwd)
                        => MissedAlias(s.envFiles[j], s.envFiles[k])
                   /\ "TODO" \notin {s.target.host, s.target.adminUser, s.target.adminPassword}
                   /\ s.kind \in {"mysql", "postgres"} => "" \notin {s.target.host, s.target.adminUser}
                   /\ s.kind = "command" => ~ IsUnset(s.target.command.apply)
                   /\ Definitions[i].maxAge # <<>> => IsSet(s.maxAge)
                   /\ /\ Definitions[i].maxAge # <<>>
                      /\ Written(Definitions[i].maxAge) <= MaxDuration
                      => s.maxAge = Written(Definitions[i].maxAge)
    <3> DEFINE s == secrets[i]
    <3>1. i \in DOMAIN input.definitions
      BY <2>2
    <3>2. /\ s.envFiles # <<>>
          /\ \A j, k \in DOMAIN s.envFiles :
               /\ j # k /\ Located(s.envFiles[j], place.cwd) = Located(s.envFiles[k], place.cwd)
               => MissedAlias(s.envFiles[j], s.envFiles[k])
      <4>1. LET files == EnvFilesOf(d(i))
            IN  /\ files # <<>>
                /\ \A j, k \in DOMAIN files :
                     /\ j # k /\ Located(files[j], place.cwd) = Located(files[k], place.cwd)
                     => MissedAlias(files[j], files[k])
        BY <2>1, <2>2, <2>4, <3>1, AnchoredApart DEF d
      <4>2. s.envFiles = EnvFilesOf(d(i))
        BY <2>4, <3>1
      <4>3. QED
        BY <4>1, <4>2, Zenon
    <3>3. /\ "TODO" \notin {s.target.host, s.target.adminUser, s.target.adminPassword}
          /\ s.kind \in {"mysql", "postgres"} => "" \notin {s.target.host, s.target.adminUser}
          /\ s.kind = "command" => ~ IsUnset(s.target.command.apply)
      <4>1. LET target == TargetFor(d(i), base)
            IN  /\ "TODO" \notin {target.host, target.adminUser, target.adminPassword}
                /\ d(i).kind \in {"mysql", "postgres"} => "" \notin {target.host, target.adminUser}
                /\ d(i).kind = "command" => ~ IsUnset(target.command.apply)
        BY <2>4, <3>1, TargetIsSound, Zenon
      <4>2. s.target = TargetFor(d(i), base) /\ s.kind = d(i).kind
        BY <2>4, <3>1
      <4>3. QED
        BY <4>1, <4>2, Zenon
    <3>4. /\ Definitions[i].maxAge # <<>> => IsSet(s.maxAge)
          /\ /\ Definitions[i].maxAge # <<>>
             /\ Written(Definitions[i].maxAge) <= MaxDuration
             => s.maxAge = Written(Definitions[i].maxAge)
      <4> DEFINE groups == Definitions[i].maxAge
      <4>1. groups \in Seq(Group) /\ s.maxAge = ParseMaxAge(groups).age /\ ParseMaxAge(groups).ok
        BY <2>3, <2>4, <3>1 DEF Definitions, DefinitionOK
      <4> HIDE DEF groups, s
      <4>2. groups # <<>> => IsSet(s.maxAge)
        BY <4>1, AcceptedAgeIsSet
      <4>3. groups # <<>> /\ Written(groups) <= MaxDuration => s.maxAge = Written(groups)
        BY <4>1, AcceptedAgeIsWritten
      <4>4. QED
        BY <4>2, <4>3, Zenon DEF groups
    <3>5. QED
      BY <3>2, <3>3, <3>4, Zenon
  <2>6. ASSUME NEW i \in DOMAIN secrets, NEW j \in DOMAIN secrets, i < j,
               ~ Definitions[i].name.padded, ~ Definitions[j].name.padded
        PROVE  secrets[i].name # secrets[j].name
    <3>1. i \in DOMAIN input.definitions /\ j \in DOMAIN input.definitions
      BY <2>2
    <3>2. d(i).name # d(j).name
      BY <2>2, <2>6, <3>1
    <3>3. /\ ~ d(i).name.spaced /\ ~ d(j).name.spaced
          /\ ~ d(i).name.padded /\ ~ d(j).name.padded
          /\ d(i).name \in [text : STRING, padded : BOOLEAN, spaced : BOOLEAN]
          /\ d(j).name \in [text : STRING, padded : BOOLEAN, spaced : BOOLEAN]
      BY <2>3, <2>4, <2>6, <3>1 DEF ValidName, DefinitionOK, Definitions
    <3>4. d(i).name.text # d(j).name.text
      BY <3>2, <3>3
    <3>5. QED
      BY <2>4, <3>1, <3>4
  <2>7. \A i, j \in DOMAIN secrets : i < j \/ j < i \/ i = j
    BY <2>1, <2>2 DEF ConfigurationInput
  <2>8. QED
    BY <2>5, <2>6, <2>7 DEF secrets
<1>2. QED
  BY <1>1, InputsInvariant, PTL

\* A file with a deprecated key loads to the secrets that it loads to under the current
\* name, with a warning (config.go:205, 234).
THEOREM UpgradesKeepMeaning == Spec => []UpgradeKeepsMeaning
<1>1. ASSUME InputsInv PROVE UpgradeKeepsMeaning
  <2> SUFFICES ASSUME Asked("configuration"), NEW old \in DOMAIN CanonicalKey,
                      Len(Definitions) = 1, Value(Provider(1), old) # "",
                      Value(Provider(1), CanonicalKey[old]) = ""
               PROVE  LET modern == Loaded(<<[Definitions[1] EXCEPT
                                !.provider = Renamed(Provider(1), old, CanonicalKey[old])]>>, input.place)
                      IN  /\ modern.ok = answer.value.loaded.ok
                          /\ modern.secrets = answer.value.loaded.secrets
                          /\ modern.ok => /\ answer.value.loaded.warnings # {}
                                          /\ modern.warnings \subseteq answer.value.loaded.warnings
    BY Zenon DEF UpgradeKeepsMeaning
  <2>1. ConfigurationInput(input) /\ answer.value.loaded = Loaded(input.definitions, input.place)
    BY <1>1, ConfigurationAnswer
  <2> DEFINE upgraded == Replaced(Definitions[1], Renamed(Provider(1), old, CanonicalKey[old]))
             modern == Loaded(<<upgraded>>, input.place)
             loaded == Loaded(input.definitions, input.place)
  <2>2. /\ modern.ok = loaded.ok
        /\ modern.secrets = loaded.secrets
        /\ modern.ok => loaded.warnings # {} /\ modern.warnings \subseteq loaded.warnings
    BY <2>1, UpgradedLoad, Zenon DEF Definitions, Provider, Deprecated
  <2>3. QED
    BY <2>1, <2>2, Zenon DEF Replaced
<1>2. QED
  BY <1>1, InputsInvariant, PTL

\* No provider key that is set can be taken out of a file that loads without changing the
\* secrets or the warnings, but for a length that repeats another (translate.go:22, 94).
THEOREM EveryKeyCounts == Spec => []NothingIsSilentlyIgnored
<1>1. ASSUME InputsInv PROVE NothingIsSilentlyIgnored
  <2> SUFFICES ASSUME Asked("configuration"), Len(Definitions) = 1, answer.value.loaded.ok,
                      NEW key \in DOMAIN Provider(1), Provider(1)[key] # "",
                      key = "length" => ~ SameLength(Definitions[1])
               PROVE  answer.value.loaded #
                        Loaded(<<[Definitions[1] EXCEPT !.provider =
                                    [k \in DOMAIN @ \ {key} |-> @[k]]]>>, input.place)
    BY Zenon DEF NothingIsSilentlyIgnored
  <2>1. ConfigurationInput(input) /\ answer.value.loaded = Loaded(input.definitions, input.place)
    BY <1>1, ConfigurationAnswer
  <2>2. Given(Provider(1), key)
    BY Zenon DEF Given, Value
  <2>3. Loaded(input.definitions, input.place) #
          Loaded(<<Replaced(Definitions[1], Without(Provider(1), key))>>, input.place)
    BY <2>1, <2>2, KeyCountsForLoad, Zenon DEF Definitions, Provider
  <2>4. Replaced(Definitions[1], Without(Provider(1), key)) =
          [Definitions[1] EXCEPT !.provider = [k \in DOMAIN @ \ {key} |-> @[k]]]
    BY Zenon DEF Replaced, Without, Provider
  <2>5. QED
    BY <2>1, <2>3, <2>4, Zenon
<1>2. QED
  BY <1>1, InputsInvariant, PTL

=============================================================================
