------------------------------ MODULE MCInputs ------------------------------
(***************************************************************************)
(* The inputs that TLC asks about: every member of bounded sets, chosen so *)
(* that each way through the code is taken.                                *)
(***************************************************************************)
EXTENDS Inputs

-----------------------------------------------------------------------------
(* Restarts: three services with every dependency between them, and one    *)
(* that may depend on a name that is not a service.                        *)

Services == 1..3
Undefined == 9
Plain == 7                       \* a container outside Compose

Projects == {p \in [Services -> SUBSET (Services \cup {Undefined})] :
               \A s \in Services : s \notin p[s] /\ (Undefined \in p[s] => s = 2)}
Chain == [s \in Services |-> IF s < 3 THEN {s + 1} ELSE {}]

Running(name, service, project, number) ==
  [name |-> name, service |-> service, project |-> project, number |-> number]

\* Replica 2 of service 1 is named after replica 10, as strings sort.
Scaled == {Running(11, 1, 1, 10), Running(12, 1, 1, 2),
           Running(21, 2, 1, 1), Running(31, 3, 1, 1),
           Running(Plain, NoLabel, NoLabel, NoLabel)}
Pinned == {Running(s, s, 1, 1) : s \in Services}
Fleets == {{}, Pinned, Scaled, Scaled \cup {Running(22, 2, 2, 1)},
           {c \in Scaled : c.service # 3}}

Configured == BoundedSeq(Services \cup {Plain}, 3)

RestartInputs ==
  [question : {"restart"}, configured : Configured, compose : {"project"},
   project : Projects, listed : {TRUE}, fleet : {Scaled}]
  \cup
  [question : {"restart"}, configured : Configured, compose : ComposeStates,
   project : {Chain}, listed : BOOLEAN, fleet : Fleets]

-----------------------------------------------------------------------------
(* Files of at most three lines.                                           *)

Key == "KEY"
FileLines ==
  BoundedSeq({Pair(Key, "old", "none", "none"), Pair(Key, "stale", "double", "none"),
              Pair(Key, "old", "single", "export"),
              Pair("OTHER", "other", "none", "export"),
              Other("comment"), Other("malformed")}, 3)

FileInputs ==
  [question : {"file"}, lines : FileLines, key : {Key}, value : {"new"}, call : Calls]

-----------------------------------------------------------------------------
(* Ages of at most two groups, on both sides of the largest duration, and  *)
(* two secrets judged at one time.                                         *)

AgeInputs ==
  [question : {"age"},
   groups : BoundedSeq([number : {0, 1, 3, 7, 21, 22, 43, 600},
                        unit : DOMAIN UnitsInHours], 2)]

HistoryAnswers == {Unreadable, NeverRotated} \cup {RotatedAt(t) : t \in {0, 3, 9}}

PolicyInputs ==
  [question : {"policy"}, maxAge : [1..2 -> {NoMaxAge, 2, 3, 5}],
   hasHistory : BOOLEAN, answers : [1..2 -> HistoryAnswers], overdueOnly : BOOLEAN,
   now : {6}]

-----------------------------------------------------------------------------
(* Configurations: /app/rotator.yml with its files beside it, and a decoy  *)
(* configuration in /home and in /etc.                                     *)

AppFile(name) == <<"app", name>>
Files == {AppFile("rotator.yml"), AppFile("compose.yml"), AppFile("rotate.sh"),
          <<"app", "hooks", "rotate.sh">>, <<"home", "rotator.yml">>,
          <<"home", "compose.yaml">>, <<"etc", "rotator", "rotator.yml">>}

Place(explicit, fromEnv, cwd) ==
  [explicit |-> explicit, fromEnv |-> fromEnv, cwd |-> cwd, exists |-> Files]

Aliased(path) == [path EXCEPT !.dot = TRUE]
AbsoluteConfig == Abs(AppFile("rotator.yml"))
AbsolutePlaces ==
  {Place(Unset, Unset, <<"app">>), Place(AbsoluteConfig, Unset, <<"home">>),
   Place(Aliased(AbsoluteConfig), Unset, <<"home">>),
   Place(Unset, AbsoluteConfig, <<"home">>),
   Place(AbsoluteConfig, Abs(<<"etc", "rotator", "rotator.yml">>), <<>>)}
RelativePlaces ==
  {Place(Rel(<<"rotator.yml">>), Unset, <<"app">>),
   Place(Dotted(<<"rotator.yml">>), Unset, <<"app">>),
   Place(Unset, Rel(AppFile("rotator.yml")), <<>>)}
Places == AbsolutePlaces \cup RelativePlaces

Definition(kind, provider) ==
  [name |-> [text |-> "db", padded |-> FALSE, spaced |-> FALSE], kind |-> kind,
   envKey |-> Key, envFile |-> Unset, envFiles |-> <<Rel(<<".env">>)>>,
   containers |-> <<>>, provider |-> provider, command |-> NoCommand,
   maxAge |-> <<>>, length |-> 0]

(* The provider blocks that give each key of choices one of its values, or *)
(* leave it out.                                                           *)
LeftOut == "left out"
Blocks(choices) ==
  {[key \in {k \in DOMAIN f : f[k] # LeftOut} |-> f[key]] :
     f \in {g \in [DOMAIN choices -> UNION Range(choices)] :
              \A k \in DOMAIN choices : g[k] \in choices[k]}}

Account == {LeftOut, "", "v", "w", "TODO"}
Accounts == Blocks([host |-> {LeftOut, "h"}, user |-> Account, username |-> Account,
                    pass |-> {LeftOut, "v"}, password |-> {LeftOut, "", "w"}])
Details == Blocks([host |-> {"h"}, username |-> {"v"},
                   port |-> {LeftOut, "", "5433", "h"}, length |-> {LeftOut, "5", "64"},
                   target_user |-> {LeftOut, "w"}, nonsense |-> {LeftOut, "", "v"}])

Reachable == [key \in {"host", "username"} |-> "h"]

Script == [NoCommand EXCEPT !.apply = Dotted(<<"rotate.sh">>)]
Programs == {Unset, Dotted(<<"rotate.sh">>), Rel(<<"hooks", "rotate.sh">>),
             Abs(AppFile("rotate.sh")), Aliased(Abs(AppFile("rotate.sh"))), Rel(<<"rotate">>)}
Commands == [apply : Programs, verify : {Unset, Rel(<<"rotate">>)}, restore : {Unset},
             workingDir : {Unset, Rel(<<"work">>)}, timeout : {"none", "negative"}]

\* /app/.env relative and absolute, the latter as /app/./.env, too.
EnvFileChoices == {Rel(<<".env">>), Dotted(<<".env">>), Abs(AppFile(".env")),
                   Aliased(Abs(AppFile(".env"))), Rel(<<"conf", ".env">>), Unset}

Single(definitions) == {<<d>> : d \in definitions}
ProviderDefinitions ==
  {Definition(kind, block) : kind \in {"mysql", "redis", "generic"}, block \in Accounts}
    \cup {Definition(kind, block) : kind \in DOMAIN Kinds \cup {"other"}, block \in Details}
FileDefinitions ==
  {[Definition("redis", Reachable) EXCEPT !.envFile = f, !.envFiles = fs] :
     f \in EnvFileChoices, fs \in BoundedSeq(EnvFileChoices, 2)}
NamedDefinitions ==
  {[Definition("redis", Reachable) EXCEPT !.name = n] :
     n \in [text : {"", "db", "web"}, padded : BOOLEAN, spaced : BOOLEAN]}
AgedDefinitions ==
  {[Definition("generic", <<>>) EXCEPT !.maxAge = <<[number |-> n, unit |-> unit]>>] :
     n \in {0, 1, 43, 600}, unit \in DOMAIN UnitsInHours}
CommandDefinitions ==
  {[Definition(kind, <<>>) EXCEPT !.command = c] :
     kind \in {"command", "generic"}, c \in Commands}

ConfigurationInputs ==
  [question : {"configuration"}, place : {Place(Unset, Unset, <<"app">>)},
   definitions : Single(ProviderDefinitions \cup AgedDefinitions)]
  \cup
  [question : {"configuration"}, place : Places,
   definitions : Single(FileDefinitions \cup CommandDefinitions)
                   \cup {<<d, e>> : d \in NamedDefinitions, e \in NamedDefinitions}]

-----------------------------------------------------------------------------
AllInputs ==
  RestartInputs \cup FileInputs \cup AgeInputs \cup PolicyInputs \cup ConfigurationInputs
=============================================================================
