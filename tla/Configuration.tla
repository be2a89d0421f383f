---------------------------- MODULE Configuration ----------------------------
(***************************************************************************)
(* How rotator.yml is found (configfile/discover.go), brought into its     *)
(* canonical shape (config.go), translated (translate.go) and validated    *)
(* into secrets (domain/secret.go, target.go, command.go, kind.go,         *)
(* values.go), and what the command runner makes of the paths in it.       *)
(*                                                                         *)
(* A path is a record [abs, dot, at]: whether it starts with "/", whether  *)
(* it is written with a redundant part, a leading "./" if it is relative   *)
(* and a "/./" or "//" if it is absolute, and its components; ".." is left *)
(* out.  Text is a member of a small set.  The YAML parser and the overlay *)
(* of environment variables are external.                                  *)
(***************************************************************************)
EXTENDS Policy, FiniteSets

-----------------------------------------------------------------------------
(* Paths *)

Abs(at) == [abs |-> TRUE, dot |-> FALSE, at |-> at]
Rel(at) == [abs |-> FALSE, dot |-> FALSE, at |-> at]
Dotted(at) == [abs |-> FALSE, dot |-> TRUE, at |-> at]
Unset == Rel(<<>>)               \* the empty string
Here == Dotted(<<>>)             \* "."

IsUnset(path) == path = Unset

\* filepath.Join and filepath.Dir, which clean a redundant part away.
Join(base, path) ==
  LET at == base.at \o path.at
  IN  IF at = <<>> /\ ~ base.abs THEN Here ELSE [abs |-> base.abs, dot |-> FALSE, at |-> at]
Dir(path) == IF Len(path.at) = 1 /\ ~ path.abs
               THEN Here
               ELSE [path EXCEPT !.at = Front(@), !.dot = FALSE]

HasSeparator(path) == path.abs \/ path.dot \/ Len(path.at) > 1

\* The file that a process in the directory cwd opens under this path.
Located(path, cwd) == IF path.abs THEN path.at ELSE cwd \o path.at

ResolveRelative(base, path) ==
  IF IsUnset(path) \/ path.abs THEN path ELSE Join(base, path)

-----------------------------------------------------------------------------
(* discover.go.  A place is [explicit, fromEnv, cwd, exists]: the --config *)
(* flag, ROTATOR_CONFIG, the working directory and the files that exist.   *)

SearchPaths ==
  <<Rel(<<"rotator.yml">>), Rel(<<"rotator.yaml">>), Rel(<<".rotator.yml">>),
    Abs(<<"config", "rotator.yml">>), Abs(<<"config", "rotator.yaml">>),
    Abs(<<"etc", "rotator", "rotator.yml">>),
    Abs(<<"etc", "rotator", "rotator.yaml">>)>>

Exists(path, place) == Located(path, place.cwd) \in place.exists

ConfigMissing == [kind |-> "error"]
NoConfig == [kind |-> "none"]
ConfigAt(path) == [kind |-> "found", path |-> path]

(* An explicit path wins over ROTATOR_CONFIG, either has to exist, and     *)
(* without one the search paths are probed, under their absolute names.    *)
Discover(place) ==
  LET named  == IF IsUnset(place.explicit) THEN place.fromEnv
                                           ELSE place.explicit
      first  == SelectInSeq(SearchPaths, LAMBDA path : Exists(path, place))
  IN  CASE ~ IsUnset(named) /\ Exists(named, place) -> ConfigAt(named)
        [] ~ IsUnset(named) /\ ~ Exists(named, place) -> ConfigMissing
        [] IsUnset(named) /\ first # 0 ->
             ConfigAt(Abs(Located(SearchPaths[first], place.cwd)))
        [] OTHER -> NoConfig

\* Config.Dir, and the directory of the rotation history.
ConfigDir(found) == IF found.kind = "found" THEN Dir(found.path) ELSE Here

DataDir(found, flag, fromEnv) ==
  CASE ~ IsUnset(flag) -> flag
    [] IsUnset(flag) /\ ~ IsUnset(fromEnv) -> fromEnv
    [] OTHER -> Join(ConfigDir(found), Rel(<<".rotator">>))

HistoryPath(found, flag, fromEnv) ==
  Join(DataDir(found, flag, fromEnv), Rel(<<"history.json">>))

ComposeFileNames ==
  <<"compose.yaml", "compose.yml", "docker-compose.yaml", "docker-compose.yml">>

NoCompose == [kind |-> "none"]

\* An explicit compose_file has to exist; the usual names are probed else.
ResolveComposeFile(found, composeFile, place) ==
  LET base      == ConfigDir(found)
      named     == ResolveRelative(base, composeFile)
      candidate == [i \in DOMAIN ComposeFileNames |->
                      Join(base, Rel(<<ComposeFileNames[i]>>))]
      first     == SelectInSeq(candidate, LAMBDA path : Exists(path, place))
  IN  CASE ~ IsUnset(composeFile) /\ Exists(named, place) -> ConfigAt(named)
        [] ~ IsUnset(composeFile) /\ ~ Exists(named, place) -> ConfigMissing
        [] IsUnset(composeFile) /\ first # 0 -> ConfigAt(candidate[first])
        [] OTHER -> NoCompose

-----------------------------------------------------------------------------
(* config.go: normalize.  A definition is a record with the keys of an     *)
(* entry under secrets:, its provider block a function from the keys that  *)
(* are written to their values.                                            *)

Value(provider, key) == IF key \in DOMAIN provider THEN provider[key] ELSE ""

CanonicalKey == [user |-> "username", pass |-> "password"]

CanonicalUnlessPresent(provider) ==
  LET moved == {old \in DOMAIN CanonicalKey : Value(provider, old) # ""}
      taken == {old \in moved : CanonicalKey[old] \notin DOMAIN provider}
  IN  [key \in (DOMAIN provider \ moved) \cup {CanonicalKey[old] : old \in taken} |->
         IF \E old \in taken : CanonicalKey[old] = key
           THEN provider[CHOOSE old \in taken : CanonicalKey[old] = key]
           ELSE provider[key]]

(* A deprecated key that is set moves to its current name, unless that one *)
(* is set too; an empty one stays where it is.                             *)
CanonicalProvider(provider) ==
  LET moved == {old \in DOMAIN CanonicalKey : Value(provider, old) # ""}
      taken == {old \in moved : Value(provider, CanonicalKey[old]) = ""}
  IN  [key \in (DOMAIN provider \ moved) \cup {CanonicalKey[old] : old \in taken} |->
         IF \E old \in taken : CanonicalKey[old] = key
           THEN provider[CHOOSE old \in taken : CanonicalKey[old] = key]
           ELSE provider[key]]

DeprecationWarnings(provider) ==
  {<<IF Value(provider, CanonicalKey[old]) = "" THEN "deprecated" ELSE "both set", old>> :
     old \in {o \in DOMAIN CanonicalKey : Value(provider, o) # ""}}

NormalizeOneFile(definition, base) ==
  [definition EXCEPT !.envFile = ResolveRelative(base, @),
                     !.provider = CanonicalProvider(@)]

Normalize(definition, base) ==
  [definition EXCEPT
     !.envFile = ResolveRelative(base, @),
     !.envFiles = [i \in DOMAIN @ |-> ResolveRelative(base, @[i])],
     !.provider = CanonicalProvider(@)]

-----------------------------------------------------------------------------
(* translate.go *)

ProviderKeys == {"host", "port", "username", "password", "password_env",
                 "database", "target_user", "target_user_host", "length"}

\* The texts that strconv.Atoi reads.
Numbers == [n \in {"5", "64", "5433"} |->
              CASE n = "5" -> 5 [] n = "64" -> 64 [] n = "5433" -> 5433]
IsNumber(text) == text \in DOMAIN Numbers

UnknownKeysIgnored(provider) == {}

UnknownKeyWarnings(provider) ==
  {<<"unrecognised", key>> : key \in DOMAIN provider \ ProviderKeys}

\* Which provider keys still hold the marker that rotator init writes.
Placeholders(provider) == {key \in DOMAIN provider : provider[key] = "TODO"}

\* env_file wins over env_files.
EnvFilesOf(definition) ==
  IF IsUnset(definition.envFile) THEN definition.envFiles
                                 ELSE <<definition.envFile>>

LeaveProgram(base, program) == program

(* A command is the path of its program, Unset when it is not configured.  *)
(* A path is anchored to the configuration, a bare name is left to PATH.   *)
(* A timeout is "none", "valid", "negative" or "unreadable".               *)
AnchorProgram(base, program) ==
  IF HasSeparator(program) /\ ~ program.abs THEN Join(base, program) ELSE program

NoCommand == [apply |-> Unset, verify |-> Unset, restore |-> Unset,
              workingDir |-> Unset, timeout |-> "none"]

CommandFor(command, base) ==
  IF command = NoCommand THEN NoCommand ELSE
  [apply      |-> AnchorProgram(base, command.apply),
   verify     |-> AnchorProgram(base, command.verify),
   restore    |-> AnchorProgram(base, command.restore),
   workingDir |-> IF IsUnset(command.workingDir) THEN base
                  ELSE ResolveRelative(base, command.workingDir),
   timeout    |-> command.timeout]

AbsentProgramWarnings(command, place) ==
  {<<"absent program", c>> : c \in {c \in {"apply", "verify", "restore"} :
     /\ ~ IsUnset(command[c]) /\ HasSeparator(command[c])
     /\ ~ Exists(command[c], place)}}

\* The number in a provider field that may be left out.
NumberOr(text, default) == IF text = "" THEN default ELSE Numbers[text]

Translatable(definition) ==
  /\ \A key \in {"port", "length"} :
       LET text == Value(definition.provider, key)
       IN  text = "" \/ IsNumber(text)
  /\ definition.command.timeout # "unreadable"
  /\ Placeholders(definition.provider) = {}

TargetFor(definition, base) ==
  LET p == definition.provider
  IN  [host             |-> Value(p, "host"),
       port             |-> NumberOr(Value(p, "port"), 0),
       adminUser        |-> Value(p, "username"),
       adminPassword    |-> Value(p, "password"),
       adminPasswordEnv |-> Value(p, "password_env"),
       database         |-> Value(p, "database"),
       targetUser       |-> Value(p, "target_user"),
       targetUserHost   |-> Value(p, "target_user_host"),
       command          |-> CommandFor(definition.command, base)]

\* provider.length wins over the secret's own length.
LengthFor(definition) ==
  NumberOr(Value(definition.provider, "length"), definition.length)

-----------------------------------------------------------------------------
(* domain: kind.go, values.go, target.go, command.go *)

Kinds ==
  [mysql    |-> [port |-> 3306, admin |-> TRUE,  database |-> FALSE],
   postgres |-> [port |-> 5432, admin |-> TRUE,  database |-> TRUE],
   redis    |-> [port |-> 6379, admin |-> FALSE, database |-> FALSE],
   generic  |-> [port |-> 0,    admin |-> FALSE, database |-> FALSE],
   command  |-> [port |-> 0,    admin |-> FALSE, database |-> FALSE]]

(* A name is [text, padded, spaced]: its text without the space around it, *)
(* whether there is such space, and whether there is space inside.         *)
ValidName(name) == name.text # "" /\ ~ name.spaced
SecretName(name) == name.text

DefaultPasswordLength == 32
ValidLength(n) == n = 0 \/ n \in 8..256
PasswordLength(n) == IF n = 0 THEN DefaultPasswordLength ELSE n

EffectivePort(target, kind) ==
  IF target.port > 0 THEN target.port ELSE Kinds[kind].port
EffectiveTargetUser(target) ==
  IF target.targetUser # "" THEN target.targetUser ELSE target.adminUser
EffectiveTargetUserHost(target) ==
  IF target.targetUserHost # "" THEN target.targetUserHost ELSE "%"

ValidTarget(kind, target) ==
  CASE kind = "command" -> /\ ~ IsUnset(target.command.apply)
                           /\ target.command.timeout # "negative"
    [] kind = "generic" -> TRUE
    [] OTHER -> /\ target.host # ""
                /\ Kinds[kind].admin => target.adminUser # ""

TargetWarnings(kind, target) ==
  {w \in {"no verify", "command ignored", "no password", "no database"} :
     CASE w = "no verify"       -> /\ kind = "command"
                                   /\ IsUnset(target.command.verify)
       [] w = "command ignored" -> /\ kind # "command"
                                   /\ ~ IsUnset(target.command.apply)
       [] w = "no password"     -> /\ Kinds[kind].admin
                                   /\ target.adminPassword = ""
                                   /\ target.adminPasswordEnv = ""
       [] w = "no database"     -> /\ Kinds[kind].database
                                   /\ target.database = ""}

ValidEnvFilesIfListedTwice(files) ==
  files # <<>> /\ \A i \in DOMAIN files : ~ IsUnset(files[i])

ValidEnvFiles(files) ==
  /\ files # <<>>
  /\ \A i \in DOMAIN files : ~ IsUnset(files[i])
  /\ IsInjective(files)

-----------------------------------------------------------------------------
(* domain/secret.go: NewSecret, on what specFor gives it.                  *)

Acceptable(d, base) ==
  /\ Translatable(d)
  /\ ValidName(d.name)
  /\ d.kind \in DOMAIN Kinds
  /\ d.envKey # ""
  /\ ValidEnvFiles(EnvFilesOf(d))
  /\ ValidLength(LengthFor(d))
  /\ ParseMaxAge(d.maxAge).ok
  /\ ValidTarget(d.kind, TargetFor(d, base))
  /\ \A i \in DOMAIN d.containers : d.containers[i] # ""

NewSecret(d, base) ==
  [name       |-> SecretName(d.name),
   kind       |-> d.kind,
   envKey     |-> d.envKey,
   envFiles   |-> EnvFilesOf(d),
   containers |-> d.containers,
   target     |-> TargetFor(d, base),
   maxAge     |-> ParseMaxAge(d.maxAge).age,
   length     |-> PasswordLength(LengthFor(d))]

(* Load, once a file is found: every definition is translated, the first   *)
(* that is not acceptable, or whose name is written like an earlier one,   *)
(* fails the whole load.                                                   *)
LoadFailed == [ok |-> FALSE, secrets |-> <<>>, warnings |-> {}]

Load(definitions, found, place) ==
  LET base == ConfigDir(found)
      d    == [i \in DOMAIN definitions |-> Normalize(definitions[i], base)]
  IN  IF \E i \in DOMAIN d : \/ ~ Acceptable(d[i], base)
                             \/ \E j \in 1..i - 1 : d[j].name = d[i].name
        THEN LoadFailed
        ELSE [ok       |-> TRUE,
              secrets  |-> [i \in DOMAIN d |-> NewSecret(d[i], base)],
              warnings |-> UNION {
                DeprecationWarnings(definitions[i].provider)
                  \cup UnknownKeyWarnings(d[i].provider)
                  \cup AbsentProgramWarnings(CommandFor(d[i].command, base), place)
                  \cup {<<"target", w>> :
                          w \in TargetWarnings(d[i].kind, TargetFor(d[i], base))} :
                i \in DOMAIN d}]

\* Find returns the first secret of that name; RequireSecrets wants one.
Find(secrets, name) ==
  LET at == {i \in DOMAIN secrets : secrets[i].name = name}
  IN  IF at = {} THEN 0 ELSE CHOOSE i \in at : \A j \in at : i <= j

RequireSecrets(secrets) == secrets # <<>>

-----------------------------------------------------------------------------
(* credential/command.go: the file that the runner executes.  A bare name  *)
(* is looked up on PATH; a relative path is executed after the change to   *)
(* the working directory of the command.                                   *)
OnPath(name) == <<"PATH", name>>

Executed(program, workingDir, cwd) ==
  CASE ~ HasSeparator(program) -> OnPath(program.at[1])
    [] HasSeparator(program) /\ program.abs -> program.at
    [] OTHER -> Located(workingDir, cwd) \o program.at
=============================================================================
