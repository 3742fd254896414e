------------------------------- MODULE Config -------------------------------
(***************************************************************************)
(* Where a pass gets its settings from: the command line merges flags,     *)
(* environment and defaults once (internal/config/config.go); the web      *)
(* server keeps records that requests validate and replace, and builds the *)
(* settings of a run from them (internal/web: api.go, runner.go, store.go).*)
(*                                                                         *)
(* A text is empty, blank (spaces only), a value the code knows, or        *)
(* "other"; a number is itself, Unset, or Junk or Blank, which do not parse.*)
(***************************************************************************)
EXTENDS Integers, Sequences, FiniteSets

CONSTANTS
  Inputs,        \* what a command line and its environment may be
  SettingsSent, ConnectionsSent, TasksSent   \* what requests may send

Unset == -1000
Junk  == -1001
Blank == -1002
Hour  == 60            \* minutes

TextNames   == {"url", "token", "username", "password", "direction", "cleanup",
                "conflict", "mode", "types", "remote", "local", "tasksFile"}
NumberNames == {"concurrency", "rate", "retries", "interval"}

Directions == {"both", "pull", "push"}
Cleanups   == {"none", "local", "remote", "both"}
Conflicts  == {"newest", "remote", "local", "skip"}
Modes      == {"direct", "proxy"}
Types      == {"", "video", "audio", "image", "text"}
Trimmed(s) == IF s = "blank" THEN "" ELSE s      \* strings.TrimSpace

Names == TextNames \union NumberNames

ASSUME ConfigAssumption ==
  /\ \A in \in Inputs :
       /\ DOMAIN in = {"flags", "env", "dryRun", "envDryRun", "lines", "file"}
       /\ DOMAIN in.env = Names /\ DOMAIN in.flags \subseteq Names
       /\ {in.lines, in.file} \subseteq Seq(STRING)
  /\ SettingsSent \subseteq [interval : Int, concurrency : Int, rate : Int, retries : Int]
  /\ ConnectionsSent \subseteq [url : STRING, auth : STRING, token : STRING,
                                username : STRING, password : STRING, mode : STRING]
  /\ TasksSent \subseteq [remote : STRING, local : STRING, direction : STRING,
                          cleanup : STRING, conflict : STRING, types : STRING,
                          interval : Int, rate : Int]

VARIABLES
  command,    \* the subcommand: sync (or daemon) or web
  input,      \* the command line: [flags, env, dryRun, envDryRun, lines, file]
  parsed,     \* Parse's result: {} before it and when it refuses, or {config}
  settings, connections, tasks    \* the web server's records, {} or {record}
cli        == <<command, input, parsed>>
web        == <<settings, connections, tasks>>
configVars == <<cli, web>>

NoInput == [flags |-> [f \in {} |-> ""]]

defaultSettings == [interval |-> Hour, concurrency |-> 4, rate |-> 0, retries |-> 3]

ConfigInit ==
  /\ \/ command = "sync" /\ input \in Inputs
     \/ command = "web" /\ input = NoInput
  /\ parsed = {}
  /\ settings = defaultSettings /\ connections = {} /\ tasks = {}

-----------------------------------------------------------------------------
(* The command line. *)

\* pick: an environment variable that is empty counts as unset.
Text(in, f) == IF f \in DOMAIN in.flags THEN in.flags[f] ELSE in.env[f]

\* Mutant of Number: the environment is parsed first, and may be refused.
NumberOfEnv(in, f, default) ==
  IF in.env[f] = Junk THEN Junk
  ELSE IF f \in DOMAIN in.flags /\ in.flags[f] # Unset THEN in.flags[f]
  ELSE IF in.env[f] # Unset THEN in.env[f] ELSE default

\* pickInt, pickInt64; pickDuration also takes an empty flag for the default.
Number(in, f, default) ==
  LET v == IF f \in DOMAIN in.flags THEN in.flags[f] ELSE in.env[f]
  IN  IF v = Unset THEN default ELSE v

Default(f) == CASE f = "concurrency" -> 4 [] f = "rate" -> 0
                [] f = "retries" -> 3 [] f = "interval" -> Hour

\* parseTaskLine: a line needs both parts, and gets a leading slash; the other
\* lines give no task.
TaskLines(lines) ==
  LET good == {n \in DOMAIN lines : lines[n] \in {"rooted", "rootless"}}
  IN  [i \in 1..Cardinality(good) |-> "rooted"]

\* OPENLIST_TASKS and the tasks file; only without any of these the two flags.
TasksOf(in) ==
  LET listed == TaskLines(in.lines) \o
                (IF Text(in, "tasksFile") # "" THEN TaskLines(in.file) ELSE << >>)
  IN  IF listed # << >> THEN listed
      ELSE IF Text(in, "remote") = "" \/ Text(in, "local") = "" THEN << >>
      ELSE <<Text(in, "remote")>>

OrElse(s, default) == IF s = "" THEN default ELSE s

\* normalize and the first half of normalizeConfig.
Normal(c) == [c EXCEPT !.direction = OrElse(@, "both"), !.cleanup = OrElse(@, "none"),
                       !.conflict = OrElse(@, "newest"), !.mode = OrElse(@, "direct")]

HasCredentials(c) == c.token # "" \/ (c.username # "" /\ c.password # "")

\* Config.validate.
Valid(c) ==
  /\ c.url # "" /\ HasCredentials(c)
  /\ c.direction \in Directions \union {""} /\ c.cleanup \in Cleanups \union {""}
  /\ c.conflict \in Conflicts \union {""} /\ c.mode \in Modes \union {""}
  /\ c.types \in Types

\* A configuration from its texts, numbers and tasks.
Configuration(text, number, list, dry) ==
  [url |-> text["url"], token |-> text["token"], username |-> text["username"],
   password |-> text["password"], direction |-> text["direction"],
   cleanup |-> text["cleanup"], conflict |-> text["conflict"], mode |-> text["mode"],
   types |-> text["types"], concurrency |-> number["concurrency"],
   rate |-> number["rate"], retries |-> number["retries"],
   interval |-> number["interval"], tasks |-> list, dryRun |-> dry]

Parse(in) ==
  LET c == Configuration([f \in TextNames |-> Text(in, f)],
                         [f \in NumberNames |-> Number(in, f, Default(f))],
                         TasksOf(in), in.dryRun \/ in.envDryRun)
  IN  IF /\ \A f \in NumberNames : c[f] # Junk
         /\ Text(in, "tasksFile") # "missing"
         /\ c.tasks # << >> /\ Valid(c)
        THEN {Normal(c)}
        ELSE {}

Start ==
  /\ command = "sync" /\ parsed = {}
  /\ parsed' = Parse(input)
  /\ UNCHANGED <<command, input, web>>

-----------------------------------------------------------------------------
(* The web server. *)

\* parseDurFlex, d <= 0 refused.
Positive(interval) == interval \notin {Unset, Junk, Blank} /\ interval > 0

handleSettingsSave(st) ==
  /\ st.interval = Unset \/ Positive(st.interval)
  /\ settings' =
       [interval    |-> IF st.interval = Unset THEN Hour ELSE st.interval,
        concurrency |-> IF st.concurrency \in 1..64 THEN st.concurrency ELSE 4,
        rate        |-> IF st.rate < 0 THEN 0 ELSE st.rate,
        retries     |-> IF st.retries \in 0..20 THEN st.retries ELSE 3]
  /\ UNCHANGED <<cli, connections, tasks>>

\* Mutant of validConnection: half a login is accepted.
validHalfConnection(c) ==
  /\ c.url = "http"
  /\ CASE c.auth \in {"", "token"} -> Trimmed(c.token) # ""
       [] c.auth = "password" -> Trimmed(c.username) # "" \/ Trimmed(c.password) # ""
       [] OTHER -> FALSE

\* validateConnection; "http" is an address with a scheme and a host.
validConnection(c) ==
  /\ c.url = "http"
  /\ CASE c.auth \in {"", "token"} -> Trimmed(c.token) # ""
       [] c.auth = "password" -> Trimmed(c.username) # "" /\ Trimmed(c.password) # ""
       [] OTHER -> FALSE

handleConnectionSave(c) ==
  /\ validConnection(c)
  /\ connections' = {[c EXCEPT !.auth = OrElse(@, "token"), !.mode = OrElse(@, "direct")]}
  /\ UNCHANGED <<cli, settings, tasks>>

\* validateTask, which looks at neither the types nor the rate. A blank interval
\* passes, but scheduleInterval does not take it for an unset one.
handleTaskSave(t) ==
  /\ Trimmed(t.remote) # "" /\ Trimmed(t.local) # ""
  /\ OrElse(t.direction, "both") \in Directions
  /\ OrElse(t.cleanup, "none") \in Cleanups
  /\ OrElse(t.conflict, "newest") \in Conflicts
  /\ t.interval \in {Unset, Blank} \/ Positive(t.interval)
  /\ connections # {}
  /\ tasks' = {[t EXCEPT !.direction = OrElse(@, "both"), !.cleanup = OrElse(@, "none"),
                         !.conflict = OrElse(@, "newest")]}
  /\ UNCHANGED <<cli, settings, connections>>

\* The server stops and LoadStore reads what the last request saved.
LoadStore ==
  /\ settings' = [settings EXCEPT !.concurrency = IF @ = 0 THEN 4 ELSE @,
                                  !.retries = IF @ = 0 THEN 3 ELSE @,
                                  !.interval = IF @ = Unset THEN Hour ELSE @]
  /\ UNCHANGED <<cli, connections, tasks>>

\* Mutant of normalizeConfig: no retries are taken at their word.
normalizeStrings(c) == Normal(c)

normalizeConfig(c) ==
  [Normal(c) EXCEPT !.concurrency = IF @ <= 0 THEN 4 ELSE @,
                    !.retries = IF @ <= 0 THEN 3 ELSE @]

\* scheduleInterval.
scheduleInterval(t) ==
  LET i == IF t.interval = Unset THEN settings.interval ELSE t.interval
  IN  IF Positive(i) THEN i ELSE Hour

buildConfig(t, c) ==
  normalizeConfig(Configuration(
    [f \in TextNames |-> IF f \in {"url", "token", "username", "password", "mode"}
                           THEN c[f] ELSE IF f = "tasksFile" THEN "" ELSE t[f]],
    [concurrency |-> settings.concurrency, retries |-> settings.retries,
     rate |-> IF settings.rate > 0 /\ t.rate = 0 THEN settings.rate ELSE t.rate,
     interval |-> scheduleInterval(t)],
    <<t.remote>>, FALSE))

\* What a run of the task would be given now.
Built == {buildConfig(t, c) : t \in tasks, c \in connections}

Serve ==
  /\ command = "web"
  /\ \/ \E st \in SettingsSent : handleSettingsSave(st)
     \/ \E c \in ConnectionsSent : handleConnectionSave(c)
     \/ \E t \in TasksSent : handleTaskSave(t)
     \/ LoadStore

ConfigNext == Start \/ Serve

ConfigSpec == ConfigInit /\ [][ConfigNext]_configVars

-----------------------------------------------------------------------------
\* What is parsed is what Parse says, and what the web server keeps passed its
\* handlers: numbers in their ranges, credentials, directions and policies it knows.
KeptInv ==
  /\ settings \in [interval : Nat \ {0}, concurrency : 1..64, rate : Nat, retries : 0..20]
  /\ \A c \in connections : c.url = "http" /\ HasCredentials(c)
  /\ tasks \subseteq [remote : STRING \ {""}, local : STRING, direction : Directions,
                      cleanup : Cleanups, conflict : Conflicts, types : STRING,
                      interval : Int, rate : Int]

ConfigInv ==
  /\ command \in {"sync", "web"} /\ (command = "sync" => input \in Inputs)
  /\ parsed # {} => input \in Inputs /\ parsed = Parse(input)
  /\ KeptInv

(* Whatever the two front ends accept, a pass can be run with: the settings*)
(* are among those the planner knows, there is a task, and the client has a*)
(* token or can log in (client.go:141). What the web server builds, which  *)
(* never passes Config.validate, would pass it, but for a type or download *)
(* mode it does not check, and has at least one worker, one retry and a    *)
(* time between runs (config.go:188, api.go:388-455, runner.go:93).        *)
AcceptedIsUsable ==
  /\ \A c \in parsed \union Built :
       /\ c.direction \in Directions /\ c.cleanup \in Cleanups /\ c.conflict \in Conflicts
       /\ c.tasks # << >> /\ \A i \in DOMAIN c.tasks : c.tasks[i] # ""
       /\ c.token # "" \/ (c.username # "" /\ c.password # "")
  /\ \A c \in Built : /\ Valid([c EXCEPT !.types = "", !.mode = "direct"])
                      /\ c.concurrency > 0 /\ c.retries > 0 /\ c.interval > 0

(* A restart of the web server changes no setting of a run: the defaults   *)
(* that handlers, buildConfig and LoadStore fill in, each in its own way,  *)
(* agree (store.go:95-104, runner.go:93, api.go:348-359).                  *)
RestartChangesNoSetting == [][LoadStore => Built' = Built]_configVars

(* A value given by a flag is not touched by its environment variable, not *)
(* even by one that does not parse ("flag wins", config.go:62). Not so for *)
(* switches, which the environment can turn on only.                       *)
FlagsShadowEnvironment ==
  command = "sync" =>
    \A f \in DOMAIN input.flags :
    \A v \in (IF f \in NumberNames THEN {Unset, Junk, 2} ELSE {"", "other"}) :
      Parse([input EXCEPT !.env[f] = v]) = Parse(input)
=============================================================================
