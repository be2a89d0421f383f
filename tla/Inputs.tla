------------------------------- MODULE Inputs -------------------------------
(***************************************************************************)
(* The parts of the program that compute an answer and keep no state: the  *)
(* restart order, the .env file, the policy and the configuration.  A      *)
(* behaviour takes one input and answers it; the properties relate the     *)
(* answer to the input.                                                    *)
(***************************************************************************)
EXTENDS RestartOrder, EnvFile, Configuration

CONSTANT Questions               \* the inputs that are asked about

VARIABLES input, answer

vars == <<input, answer>>

Unanswered == [given |-> FALSE]
Answer(value) == [given |-> TRUE, value |-> value]

-----------------------------------------------------------------------------
(* What the inputs are: what the callers of these functions can hand them. *)

Container == [name : Nat \ {NoLabel}, service : Nat, project : Nat, number : Nat]

RestartInput(i) ==
  /\ i.question = "restart"
  /\ i.configured \in Seq(Nat \ {NoLabel})
  /\ i.compose \in ComposeStates /\ i.listed \in BOOLEAN
  /\ IsFiniteSet(DOMAIN i.project) /\ DOMAIN i.project \subseteq Nat \ {NoLabel}
  /\ \A s \in DOMAIN i.project : i.project[s] \subseteq Nat
  /\ IsFiniteSet(i.fleet) /\ i.fleet \subseteq Container

Line == [kind : {"pair", "comment", "malformed"}, key : STRING, value : STRING,
         quote : {"none", "single", "double"}, dressing : {"none", "export"}]

FileInput(i) ==
  /\ i.question = "file"
  /\ i.lines \in Seq(Line)
  /\ i.key \in STRING \ {NoKey} /\ i.value \in STRING
  /\ i.call \in Calls

Group == [number : Nat, unit : DOMAIN UnitsInHours]

AgeInput(i) == i.question = "age" /\ i.groups \in Seq(Group)

PolicyInput(i) ==
  /\ i.question = "policy"
  /\ i.now \in Nat
  /\ \A s \in DOMAIN i.maxAge :
       /\ i.maxAge[s] \in Nat
       /\ \/ i.answers[s] \in {Unreadable, NeverRotated}
          \/ i.answers[s].kind = "success" /\ i.answers[s].time \in Nat
  /\ i.hasHistory \in BOOLEAN /\ i.overdueOnly \in BOOLEAN

Path == [abs : BOOLEAN, dot : BOOLEAN, at : Seq(STRING)]

DefinitionOK(d) ==
  /\ DOMAIN d = {"name", "kind", "envKey", "envFile", "envFiles", "containers",
                 "provider", "command", "maxAge", "length"}
  /\ d.name \in [text : STRING, padded : BOOLEAN, spaced : BOOLEAN]
  /\ d.envFile \in Path /\ d.envFiles \in Seq(Path)
  /\ DOMAIN d.provider \subseteq STRING
  /\ \A key \in DOMAIN d.provider : d.provider[key] \in STRING
  /\ d.command \in [apply : Path, verify : Path, restore : Path, workingDir : Path,
                    timeout : STRING]
  /\ d.maxAge \in Seq(Group)
  /\ d.length \in Nat

\* --config, or ROTATOR_CONFIG where there is none.
NamedConfig(place) == IF IsUnset(place.explicit) THEN place.fromEnv ELSE place.explicit

PlaceOK(place) ==
  /\ place.explicit \in Path /\ place.fromEnv \in Path
  /\ place.cwd \in Seq(STRING)
  /\ place.exists \subseteq Seq(STRING) \ {<<>>, place.cwd}

ConfigurationInput(i) ==
  /\ i.question = "configuration"
  /\ PlaceOK(i.place)
  /\ DOMAIN i.definitions = 1..Len(i.definitions) /\ Len(i.definitions) \in Nat
  /\ \A j \in DOMAIN i.definitions : DefinitionOK(i.definitions[j])

ASSUME QuestionsAssumption ==
  \A i \in Questions : \/ RestartInput(i) \/ FileInput(i) \/ AgeInput(i)
                       \/ PolicyInput(i)  \/ ConfigurationInput(i)

-----------------------------------------------------------------------------
(* What is asked of each, and answered.                                    *)

Unasked(question) == input.question = question /\ ~ answer.given

OrderContainers ==
  /\ Unasked("restart")
  /\ answer' = Answer([restarted |-> RestartList(input.configured, input.compose,
                                       input.project, input.listed, input.fleet),
                       sorted    |-> TopoSort(input.project).ok])
  /\ UNCHANGED input

DiskOf(lines) ==
  [path |-> [lines |-> lines, mode |-> "0640", synced |-> TRUE], temp |-> NoFile]

Complete == [done |-> Len(WriteSteps), stop |-> "return"]

\* A write that may stop anywhere, and the restore of what it returned.
WriteFile ==
  /\ Unasked("file")
  /\ LET written == Write(DiskOf(input.lines), input.key, input.value, input.call)
     IN  answer' = Answer([written  |-> written,
                           restored |-> Restore(written.disk, written.snapshot, Complete)])
  /\ UNCHANGED input

ReadAge ==
  /\ Unasked("age")
  /\ answer' = Answer(ParseMaxAge(input.groups))
  /\ UNCHANGED input

JudgeSecrets ==
  /\ Unasked("policy")
  /\ LET report == Report(input.maxAge, input.hasHistory, input.answers, input.now)
     IN  answer' = Answer([status |-> Status(report, input.overdueOnly),
                           daemon |-> DueForDaemon(report)])
  /\ UNCHANGED input

Loaded(definitions, place) ==
  LET found == Discover(place)
  IN  IF found.kind = "found" THEN Load(definitions, found, place) ELSE LoadFailed

LoadConfiguration ==
  /\ Unasked("configuration")
  /\ LET found == Discover(input.place)
     IN  answer' = Answer([found   |-> found,
                           loaded  |-> Loaded(input.definitions, input.place),
                           compose |-> ResolveComposeFile(found, Unset, input.place),
                           history |-> HistoryPath(found, Unset, Unset)])
  /\ UNCHANGED input

Init == input \in Questions /\ answer = Unanswered

Next == OrderContainers \/ WriteFile \/ ReadAge \/ JudgeSecrets \/ LoadConfiguration

Spec == Init /\ [][Next]_vars

Asked(question) == answer.given /\ input.question = question

-----------------------------------------------------------------------------
(* Restart order *)

Names(project) == DOMAIN project \cup UNION Range(project)

\* Reference: what service n needs, directly or through others.
Needs(project, n) ==
  {m \in Names(project) :
     \A closed \in SUBSET Names(project) :
       /\ project[n] \subseteq closed
       /\ \A k \in closed \cap DOMAIN project : project[k] \subseteq closed
       => m \in closed}

HasOrder(project) ==
  \A n \in DOMAIN project : Needs(project, n) \subseteq DOMAIN project \ {n}

(* What an entry denotes: the container of that name, else the service's.  *)
Denoted(entry, fleet) ==
  LET named == {c \in fleet : c.name = entry}
  IN  IF named # {} THEN named ELSE {c \in fleet : c.service = entry}

\* No container is listed twice, under its own name and its service's.
ListedOnce(configured, fleet) ==
  \A e, f \in ToSet(configured) :
    e # f => \A c \in Denoted(e, fleet), d \in Denoted(f, fleet) : c.name # d.name

(* Of the services that are listed, none is restarted before one that it   *)
(* needs, even where what links them is not listed ("with dependencies     *)
(* restarting before their dependents", cli/rotate.go:107).                *)
DependenciesFirst ==
  Asked("restart") /\ input.compose = "project" /\ input.listed
    /\ HasOrder(input.project) /\ ListedOnce(input.configured, input.fleet)
    /\ answer.value.restarted.ok =>
      LET names == answer.value.restarted.names
          listed == ToSet(input.configured) \cap DOMAIN input.project
          At(n) == {i \in DOMAIN names :
                      \E c \in Denoted(n, input.fleet) : c.name = names[i]}
      IN  \A n \in listed : \A m \in Needs(input.project, n) \cap listed :
            \A i \in At(m), j \in At(n) : i < j

(* Whatever the Compose file says, the containers restarted are those that *)
(* the configured entries denote: reordering and resolving drop none and   *)
(* add none (cli/rotate.go:142, resolve.go:28).                            *)
NothingDropped ==
  Asked("restart") /\ answer.value.restarted.ok =>
    ToSet(answer.value.restarted.names) =
      IF input.listed /\ input.fleet # {}
        THEN {c.name : c \in UNION {Denoted(e, input.fleet) :
                                      e \in ToSet(input.configured)}}
        ELSE ToSet(input.configured)

(* The sort gives up exactly on the projects in which no order exists: a   *)
(* cycle, or a service that needs an undefined one (compose.go:130).       *)
SortedUnlessCyclic ==
  Asked("restart") => (answer.value.sorted <=> HasOrder(input.project))

-----------------------------------------------------------------------------
(* .env files *)

(* Wherever a write stops, by an error or a crash, the path holds the old  *)
(* file or the new one whole, on the disk and with its permissions; a      *)
(* write that fails leaves the old one and, unless the process died, no    *)
(* temporary file (writer.go:44, "preserving its permissions").            *)
WriteIsAllOrNothing ==
  Asked("file") =>
    LET before == DiskOf(input.lines).path
        write  == answer.value.written
    IN  /\ write.disk.path = [before EXCEPT !.lines =
                                IF write.ok THEN Set(input.lines, input.key, input.value) ELSE @]
        /\ input.call.stop = "return" => write.disk.temp = NoFile

(* A write that succeeds is read back: the key has the new value though    *)
(* the file lists it several times, every other key the value it had, and  *)
(* the keys, comments and malformed lines are where they were              *)
(* (store.go:32, "Formatting, comments, ordering ... are preserved").      *)
WrittenValueIsRead ==
  Asked("file") /\ answer.value.written.ok =>
    LET lines == answer.value.written.disk.path.lines
    IN  /\ Lookup(lines, input.key) = [found |-> TRUE, value |-> input.value]
        /\ \A key \in ToSet(Keys(input.lines)) \ {input.key} :
             Lookup(lines, key) = Lookup(input.lines, key)
        /\ Keys(lines) = Keys(input.lines)
        /\ \A i \in DOMAIN input.lines : input.lines[i].key # input.key =>
             lines[i] = input.lines[i]

(* Restoring the snapshot that a write returned gives the file back byte   *)
(* for byte and with its permissions, the dressing that the write dropped  *)
(* included (store.go:12, "undone byte for byte").                         *)
RestoreIsExact ==
  Asked("file") /\ answer.value.written.ok =>
    answer.value.restored = [ok |-> TRUE, disk |-> DiskOf(input.lines)]

-----------------------------------------------------------------------------
(* Policy *)

\* Reference: the hours that the groups add up to.
Written(groups) == Sum(Hours(groups))
\* Hours come last, as in 90d12h.
WellFormed(groups) ==
  \A i, j \in DOMAIN groups : i < j /\ groups[i].unit = "h" => groups[j].unit = "h"

(* An age that fits in a duration is read as what is written, or refused   *)
(* if it is zero or badly ordered; and status shows one that reads back    *)
(* as the same age (policy.go:96, "reads back").                           *)
AgeMeansWhatIsWritten ==
  Asked("age") /\ Written(input.groups) <= MaxDuration =>
    /\ answer.value.ok <=> \/ input.groups = <<>>
                           \/ WellFormed(input.groups) /\ Written(input.groups) > 0
    /\ answer.value.ok => answer.value.age = Written(input.groups)
    /\ IsSet(answer.value.age) =>
         ParseMaxAge(Render(answer.value.age)) = answer.value

\* Reference: the history proves that s was rotated recently enough.
Proven(s) ==
  /\ input.hasHistory
  /\ input.answers[s].kind = "success"
  /\ input.now - input.answers[s].time <= input.maxAge[s]

(* rotator status --overdue exits with success exactly when every secret   *)
(* that has a policy is proven to meet it: no history, an unreadable one   *)
(* and none on record all fail the check (policy.go:133, "a policy that    *)
(* cannot be evaluated is not a policy that is met").                      *)
StatusGateIsSound ==
  Asked("policy") /\ input.overdueOnly =>
    (~ answer.value.status.fails
       <=> \A s \in DOMAIN input.maxAge : IsSet(input.maxAge[s]) => Proven(s))

(* The daemon rotates exactly the secrets whose policy the history shows   *)
(* to be broken: one whose history cannot be read is left alone            *)
(* (compliance.go:59), and nothing is rotated without a history.           *)
DueIsExactlyTooOld ==
  Asked("policy") =>
    answer.value.daemon.due =
      {s \in DOMAIN input.maxAge :
         /\ IsSet(input.maxAge[s]) /\ input.hasHistory
         /\ input.answers[s].kind # "error"
         /\ ~ Proven(s)}

-----------------------------------------------------------------------------
(* Configuration *)

Definitions == input.definitions
Provider(i) == Definitions[i].provider

\* The block with a key renamed, as the deprecation warning asks for.
Renamed(block, old, new) ==
  [key \in (DOMAIN block \ {old}) \cup {new} |->
     IF key = new THEN block[old] ELSE block[key]]

(* A file that uses a deprecated key loads, with a warning, to the secrets *)
(* it would load to under the current name (config.go:205, "so existing    *)
(* configs do not break on upgrade").                                      *)
UpgradeKeepsMeaning ==
  Asked("configuration") =>
    \A old \in DOMAIN CanonicalKey :
      LET block == Provider(1)
          new   == CanonicalKey[old]
          modern == Loaded(<<[Definitions[1] EXCEPT
                                !.provider = Renamed(block, old, new)]>>, input.place)
      IN  /\ Len(Definitions) = 1 /\ Value(block, old) # "" /\ Value(block, new) = ""
          => /\ modern.ok = answer.value.loaded.ok
             /\ modern.secrets = answer.value.loaded.secrets
             /\ modern.ok => /\ answer.value.loaded.warnings # {}
                             /\ modern.warnings \subseteq answer.value.loaded.warnings

(* Two spellings of a file that are not told to be one, as paths are       *)
(* compared by their text (secret.go:113): absolute beside relative, and   *)
(* absolute with a redundant part beside absolute without.                 *)
MissedAlias(f, g) == f.abs # g.abs \/ (f.abs /\ f.dot # g.dot)

(* What the use case may rely on once a configuration is loaded: a secret  *)
(* lives in at least one file, and in none twice but where the spellings   *)
(* are a missed alias, which relative ones never are, nor a relative one   *)
(* and a clean absolute one below a configuration under an absolute path;  *)
(* its target keeps no TODO, a database has an account to change passwords *)
(* with and a command secret a program; a max_age that is written down is  *)
(* in force, and is the age it says if that fits in a duration; and two    *)
(* secrets whose names are written without space around them have          *)
(* different names (domain/secret.go:9).                                   *)
LoadedSecretsAreSound ==
  Asked("configuration") /\ answer.value.loaded.ok =>
    LET secrets == answer.value.loaded.secrets
    IN  /\ \A i \in DOMAIN secrets :
             LET s == secrets[i]
                 maxAge == Definitions[i].maxAge
             IN  /\ s.envFiles # <<>>
                 /\ \A j, k \in DOMAIN s.envFiles :
                      /\ j # k
                      /\ Located(s.envFiles[j], input.place.cwd)
                           = Located(s.envFiles[k], input.place.cwd)
                      => MissedAlias(s.envFiles[j], s.envFiles[k])
                 /\ "TODO" \notin {s.target.host, s.target.adminUser, s.target.adminPassword}
                 /\ s.kind \in {"mysql", "postgres"} => "" \notin {s.target.host, s.target.adminUser}
                 /\ s.kind = "command" => ~ IsUnset(s.target.command.apply)
                 /\ maxAge # <<>> => IsSet(s.maxAge)
                 /\ maxAge # <<>> /\ Written(maxAge) <= MaxDuration =>
                      s.maxAge = Written(maxAge)
        /\ \A i, j \in DOMAIN secrets :
             /\ i # j /\ ~ Definitions[i].name.padded /\ ~ Definitions[j].name.padded
             => secrets[i].name # secrets[j].name

\* The directory of the configuration that was found.
Directory == Front(Located(answer.value.found.path, input.place.cwd))

InDirectory(names) == {Directory \o <<names[i]>> : i \in DOMAIN names}

\* Where a path is that is written in the configuration.
Beside(path) == IF path.abs THEN path.at ELSE Directory \o path.at

(* The configuration that is named is the one loaded though others are in  *)
(* the way, and from whatever directory it is loaded it names the same     *)
(* .env files, Compose file and history, all beside it (config.go:168 and  *)
(* :226, "so a scheduled run and a manual run from another directory touch *)
(* the same files").                                                       *)
SameFilesFromAnywhere ==
  Asked("configuration") /\ answer.value.found.kind = "found" =>
    LET At(path) == Located(path, input.place.cwd)
        loaded  == answer.value.loaded
        compose == answer.value.compose
    IN  /\ ~ IsUnset(NamedConfig(input.place)) =>
             At(answer.value.found.path) = At(NamedConfig(input.place))
        /\ At(answer.value.found.path) \in input.place.exists
        /\ compose.kind = "found" <=> InDirectory(ComposeFileNames) \cap input.place.exists # {}
        /\ compose.kind = "found" =>
             At(compose.path) \in InDirectory(ComposeFileNames) \cap input.place.exists
        /\ At(answer.value.history) = Directory \o <<".rotator", "history.json">>
        /\ \A i \in DOMAIN loaded.secrets :
             LET written == EnvFilesOf(Definitions[i])
             IN  /\ Len(loaded.secrets[i].envFiles) = Len(written)
                 /\ \A j \in DOMAIN written :
                      At(loaded.secrets[i].envFiles[j]) = Beside(written[j])

\* The provider block repeats the length of the secret, or the one for none.
SameLength(definition) ==
  PasswordLength(LengthFor(definition)) = PasswordLength(definition.length)

(* Every provider key that is set counts, unless it is a length and says   *)
(* what the secret's own says: without it the load would give other        *)
(* secrets, or other warnings (translate.go:22, "a key that is not here is *)
(* reported rather than silently ignored").                                *)
NothingIsSilentlyIgnored ==
  Asked("configuration") /\ Len(Definitions) = 1 /\ answer.value.loaded.ok =>
    \A key \in DOMAIN Provider(1) :
      /\ Provider(1)[key] # ""
      /\ key = "length" => ~ SameLength(Definitions[1])
      =>
      answer.value.loaded #
        Loaded(<<[Definitions[1] EXCEPT !.provider =
                    [k \in DOMAIN @ \ {key} |-> @[k]]]>>, input.place)

(* Once a configuration is found under an absolute path, a program that it *)
(* configures by path runs from the file beside it, from whatever          *)
(* directory it was loaded (translate.go:157, "so a script path means the  *)
(* same thing to a manual run and to the daemon").                         *)
ProgramIsTheScript ==
  Asked("configuration") /\ answer.value.found.kind = "found"
    /\ answer.value.found.path.abs =>
      \A i \in DOMAIN answer.value.loaded.secrets :
        LET written == Definitions[i].command.apply
            command == answer.value.loaded.secrets[i].target.command
        IN  HasSeparator(written) =>
              Executed(command.apply, command.workingDir, input.place.cwd) = Beside(written)
=============================================================================
