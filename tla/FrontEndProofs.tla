--------------------------- MODULE FrontEndProofs ----------------------------
(***************************************************************************)
(* Proofs about what surrounds a pass: the settings both front ends give   *)
(* it (Config), for all that command lines, environments and requests may  *)
(* say, and the daemon's loop and limiter (Daemon), for every limit, set   *)
(* of transfers, number of tasks and passes.                               *)
(***************************************************************************)
EXTENDS Config, Daemon, SequenceTheorems, FiniteSetTheorems, TLAPS

-----------------------------------------------------------------------------
(* The command line. *)

\* What parseTaskLines returns has only well-formed lines.
LEMMA LinesNamed ==
  ASSUME NEW lines \in Seq(STRING)
  PROVE  TaskLines(lines) \in Seq({"rooted"})
<1> DEFINE good == {n \in DOMAIN lines : lines[n] \in {"rooted", "rootless"}}
<1>1. Len(lines) \in Nat /\ DOMAIN lines = 1..Len(lines)
  BY LenProperties
<1> HIDE DEF good
<1>2. Cardinality(good) \in Nat
  <2>1. IsFiniteSet(1..Len(lines))
    BY <1>1, FS_Interval
  <2>2. good \subseteq 1..Len(lines)
    BY <1>1 DEF good
  <2> QED
    BY <2>1, <2>2, FS_Subset, FS_CardinalityType
<1>3. [i \in 1..Cardinality(good) |-> "rooted"] \in [1..Cardinality(good) -> {"rooted"}]
  OBVIOUS
<1>4. [i \in 1..Cardinality(good) |-> "rooted"] \in Seq({"rooted"})
  BY <1>2, <1>3, SeqDef
<1> QED
  BY <1>4 DEF TaskLines, good

LEMMA OneElement ==
  ASSUME NEW x
  PROVE  <<x>> # << >> /\ DOMAIN <<x>> = {1} /\ <<x>>[1] = x
  OBVIOUS

LEMMA OneNamed ==
  ASSUME NEW x, x # ""
  PROVE  <<x>> # << >> /\ \A i \in DOMAIN <<x>> : <<x>>[i] # ""
  BY OneElement, Zenon

LEMMA TasksNamed ==
  ASSUME NEW in \in Inputs
  PROVE  \A i \in DOMAIN TasksOf(in) : TasksOf(in)[i] # ""
<1> DEFINE listed == TaskLines(in.lines) \o
                     (IF Text(in, "tasksFile") # "" THEN TaskLines(in.file) ELSE << >>)
<1>1. TaskLines(in.lines) \in Seq({"rooted"}) /\ TaskLines(in.file) \in Seq({"rooted"})
  BY ConfigAssumption, LinesNamed
<1>2. << >> \in Seq({"rooted"})
  BY EmptySeq
<1>3. listed \in Seq({"rooted"})
  BY <1>1, <1>2, ConcatProperties
<1>4. listed # << >> => TasksOf(in) = listed
  BY Zenon DEF TasksOf
<1>5. CASE listed # << >>
  <2> HIDE DEF listed
  <2>1. DOMAIN listed = 1..Len(listed)
    BY <1>3, LenProperties
  <2>2. \A i \in 1..Len(listed) : listed[i] \in {"rooted"}
    BY <1>3, ElementOfSeq
  <2> QED
    BY <1>4, <1>5, <2>1, <2>2
<1>6. CASE listed = << >>
  <2>1. CASE Text(in, "remote") = "" \/ Text(in, "local") = ""
    <3>1. TasksOf(in) = << >>
      BY <1>6, <2>1, Zenon DEF TasksOf
    <3>2. DOMAIN << >> = {}
      OBVIOUS
    <3> QED
      BY <3>1, <3>2, Zenon
  <2>2. CASE Text(in, "remote") # "" /\ Text(in, "local") # ""
    <3>1. TasksOf(in) = <<Text(in, "remote")>>
      BY <1>6, <2>2, Zenon DEF TasksOf
    <3> QED
      BY <2>2, <3>1, OneNamed, Zenon
  <2> QED
    BY <2>1, <2>2
<1> QED
  BY <1>5, <1>6

\* The names of a configuration's fields.
Fields == {"url", "token", "username", "password", "direction", "cleanup", "conflict",
           "mode", "types", "concurrency", "rate", "retries", "interval", "tasks", "dryRun"}

LEMMA ConfigurationFields ==
  ASSUME NEW text, NEW number, NEW list, NEW dry
  PROVE  DOMAIN Configuration(text, number, list, dry) = Fields
  BY DEF Configuration, Fields

LEMMA NumbersApart ==
  ASSUME NEW text, NEW list, NEW dry
  PROVE  /\ \A m, n : \A g \in Fields \ {"concurrency", "rate", "retries", "interval"} :
              Configuration(text, m, list, dry)[g] = Configuration(text, n, list, dry)[g]
         /\ \A m : \A g \in {"concurrency", "rate", "retries", "interval"} :
              Configuration(text, m, list, dry)[g] = m[g]
<1>1. ASSUME NEW m, NEW n, NEW g \in Fields \ {"concurrency", "rate", "retries", "interval"}
      PROVE  Configuration(text, m, list, dry)[g] = Configuration(text, n, list, dry)[g]
  BY DEF Configuration, Fields
<1>2. ASSUME NEW m, NEW g \in {"concurrency", "rate", "retries", "interval"}
      PROVE  Configuration(text, m, list, dry)[g] = m[g]
  BY DEF Configuration, Fields
<1> QED
  BY <1>1, <1>2

\* normalize fills in four texts and leaves the rest.
LEMMA NormalFields ==
  ASSUME NEW c, DOMAIN c = Fields
  PROVE  /\ DOMAIN Normal(c) = Fields
         /\ \A g \in Fields :
              Normal(c)[g] = CASE g = "direction" -> OrElse(c[g], "both")
                               [] g = "cleanup"   -> OrElse(c[g], "none")
                               [] g = "conflict"  -> OrElse(c[g], "newest")
                               [] g = "mode"      -> OrElse(c[g], "direct")
                               [] OTHER           -> c[g]
<1> DEFINE v1 == OrElse(c.direction, "both")
           c1 == [c EXCEPT !.direction = v1]
           v2 == OrElse(c1.cleanup, "none")
           c2 == [c1 EXCEPT !.cleanup = v2]
           v3 == OrElse(c2.conflict, "newest")
           c3 == [c2 EXCEPT !.conflict = v3]
           v4 == OrElse(c3.mode, "direct")
           c4 == [c3 EXCEPT !.mode = v4]
<1>1. Normal(c) = c4
  BY Zenon DEF Normal
<1> HIDE DEF v1, v2, v3, v4
<1>2. DOMAIN c1 = Fields /\ \A g \in Fields : c1[g] = IF g = "direction" THEN v1 ELSE c[g]
  BY DEF Fields
<1> HIDE DEF c1
<1>3. DOMAIN c2 = Fields /\ \A g \in Fields : c2[g] = IF g = "cleanup" THEN v2 ELSE c1[g]
  BY <1>2 DEF Fields
<1> HIDE DEF c2
<1>4. DOMAIN c3 = Fields /\ \A g \in Fields : c3[g] = IF g = "conflict" THEN v3 ELSE c2[g]
  BY <1>3 DEF Fields
<1> HIDE DEF c3
<1>5. DOMAIN c4 = Fields /\ \A g \in Fields : c4[g] = IF g = "mode" THEN v4 ELSE c3[g]
  BY <1>4 DEF Fields
<1> HIDE DEF c4
<1>6. /\ v2 = OrElse(c.cleanup, "none") /\ v3 = OrElse(c.conflict, "newest")
      /\ v4 = OrElse(c.mode, "direct")
  BY <1>2, <1>3, <1>4 DEF v2, v3, v4, Fields
<1> QED
  BY <1>1, <1>2, <1>3, <1>4, <1>5, <1>6 DEF v1

LEMMA ParsedUsable ==
  ASSUME NEW in \in Inputs, NEW c \in Parse(in)
  PROVE  /\ c.direction \in Directions /\ c.cleanup \in Cleanups /\ c.conflict \in Conflicts
         /\ c.tasks # << >> /\ \A i \in DOMAIN c.tasks : c.tasks[i] # ""
         /\ c.token # "" \/ (c.username # "" /\ c.password # "")
<1> DEFINE text   == [f \in TextNames |-> Text(in, f)]
           number == [f \in NumberNames |-> Number(in, f, Default(f))]
           list   == TasksOf(in)
           dry    == in.dryRun \/ in.envDryRun
           given  == Configuration(text, number, list, dry)
<1>1. c = Normal(given) /\ Valid(given) /\ given.tasks # << >>
  BY DEF Parse
<1>2. given.tasks = list /\ DOMAIN given = Fields
  BY ConfigurationFields DEF Configuration
<1> HIDE DEF given
<1>3. /\ c.direction = OrElse(given.direction, "both")
      /\ c.cleanup = OrElse(given.cleanup, "none")
      /\ c.conflict = OrElse(given.conflict, "newest")
      /\ c.token = given.token /\ c.username = given.username
      /\ c.password = given.password /\ c.tasks = given.tasks
  BY <1>1, <1>2, NormalFields DEF Fields
<1>4. c.direction \in Directions /\ c.cleanup \in Cleanups /\ c.conflict \in Conflicts
  BY <1>1, <1>3 DEF Valid, OrElse, Directions, Cleanups, Conflicts
<1>5. c.token # "" \/ (c.username # "" /\ c.password # "")
  BY <1>1, <1>3 DEF Valid, HasCredentials
<1> QED
  BY <1>1, <1>2, <1>3, <1>4, <1>5, TasksNamed

\* Of a flag's environment variable nothing is read.
LEMMA FlagShadows ==
  ASSUME NEW in \in Inputs, NEW f \in DOMAIN in.flags, NEW v
  PROVE  Parse([in EXCEPT !.env[f] = v]) = Parse(in)
<1> DEFINE other == [in EXCEPT !.env[f] = v]
<1>1. /\ DOMAIN in = {"flags", "env", "dryRun", "envDryRun", "lines", "file"}
      /\ DOMAIN in.env = Names
  BY ConfigAssumption
<1>2. /\ other.flags = in.flags /\ other.dryRun = in.dryRun
      /\ other.envDryRun = in.envDryRun /\ other.lines = in.lines /\ other.file = in.file
      /\ other.env = [in.env EXCEPT ![f] = v]
  BY <1>1
<1> HIDE DEF other
<1>3. \A g \in Names : g \notin DOMAIN in.flags => other.env[g] = in.env[g]
  BY <1>1, <1>2
<1>4. \A g \in TextNames : Text(other, g) = Text(in, g)
  BY <1>2, <1>3 DEF Text, Names
<1>5. \A g \in NumberNames : Number(other, g, Default(g)) = Number(in, g, Default(g))
  BY <1>2, <1>3 DEF Number, Names
<1>6. TasksOf(other) = TasksOf(in) /\ Text(other, "tasksFile") = Text(in, "tasksFile")
  BY <1>2, <1>4 DEF TasksOf, TextNames
<1>7. /\ [g \in TextNames |-> Text(other, g)] = [g \in TextNames |-> Text(in, g)]
      /\ [g \in NumberNames |-> Number(other, g, Default(g))]
         = [g \in NumberNames |-> Number(in, g, Default(g))]
  BY <1>4, <1>5
<1>8. Parse(other) = Parse(in)
  BY <1>2, <1>6, <1>7, Zenon DEF Parse
<1> QED
  BY <1>8 DEF other

-----------------------------------------------------------------------------
(* The web server. *)

LEMMA KeptInit == ConfigInit => KeptInv
  BY DEF ConfigInit, KeptInv, defaultSettings, Hour

\* Of what is kept, LoadStore replaces the number of retries and nothing else.
LEMMA LoadStoreKeeps ==
  ASSUME KeptInv, LoadStore
  PROVE  /\ settings' \in [interval : Nat \ {0}, concurrency : 1..64, rate : Nat, retries : 0..20]
         /\ settings'.interval = settings.interval /\ settings'.rate = settings.rate
         /\ settings'.concurrency = settings.concurrency
         /\ settings'.retries = IF settings.retries = 0 THEN 3 ELSE settings.retries
<1>1. /\ settings \in [interval : Nat \ {0}, concurrency : 1..64, rate : Nat, retries : 0..20]
      /\ settings.interval # Unset /\ settings.concurrency # 0
  <2>1. settings \in [interval : Nat \ {0}, concurrency : 1..64, rate : Nat, retries : 0..20]
    BY DEF KeptInv
  <2> QED
    BY <2>1 DEF Unset
<1> DEFINE v == IF settings.retries = 0 THEN 3 ELSE settings.retries
           s1 == [settings EXCEPT !.concurrency = IF @ = 0 THEN 4 ELSE @]
           s2 == [s1 EXCEPT !.retries = IF @ = 0 THEN 3 ELSE @]
           s3 == [s2 EXCEPT !.interval = IF @ = Unset THEN Hour ELSE @]
<1>2. settings' = s3
  BY Zenon DEF LoadStore
<1>3. s1 = settings
  BY <1>1
<1>4. s2 = [settings EXCEPT !.retries = v]
  BY <1>3
<1> HIDE DEF s1, s2
<1>5. s2.interval = settings.interval
  BY <1>1, <1>4
<1>6. s3 = s2
  BY <1>1, <1>4, <1>5
<1> QED
  BY <1>1, <1>2, <1>4, <1>6

\* What a handler stores has passed its checks.
LEMMA KeptNext ==
  ASSUME KeptInv, ConfigNext
  PROVE  KeptInv'
<1>1. CASE Start
  BY <1>1 DEF Start, web, KeptInv
<1>2. ASSUME NEW st \in SettingsSent, handleSettingsSave(st) PROVE KeptInv'
  <2>1. st \in [interval : Int, concurrency : Int, rate : Int, retries : Int]
    BY ConfigAssumption
  <2>2. settings' \in [interval : Nat \ {0}, concurrency : 1..64, rate : Nat, retries : 0..20]
    BY <1>2, <2>1 DEF handleSettingsSave, Positive, Hour
  <2> QED
    BY <1>2, <2>2 DEF handleSettingsSave, KeptInv
<1>3. ASSUME NEW c \in ConnectionsSent, handleConnectionSave(c) PROVE KeptInv'
  <2> DEFINE kept == [c EXCEPT !.auth = OrElse(@, "token"), !.mode = OrElse(@, "direct")]
  <2>1. c \in [url : STRING, auth : STRING, token : STRING,
               username : STRING, password : STRING, mode : STRING]
    BY ConfigAssumption
  <2>2. c.url = "http" /\ HasCredentials(c)
    BY <1>3 DEF handleConnectionSave, validConnection, HasCredentials, Trimmed
  <2>3. kept.url = c.url /\ kept.token = c.token /\ kept.username = c.username
        /\ kept.password = c.password
    BY <2>1
  <2>4. connections' = {kept} /\ UNCHANGED <<settings, tasks>>
    BY <1>3 DEF handleConnectionSave
  <2> HIDE DEF kept
  <2> QED
    BY <2>2, <2>3, <2>4 DEF KeptInv, HasCredentials
<1>4. ASSUME NEW t \in TasksSent, handleTaskSave(t) PROVE KeptInv'
  <2> DEFINE kept == [t EXCEPT !.direction = OrElse(@, "both"), !.cleanup = OrElse(@, "none"),
                               !.conflict = OrElse(@, "newest")]
  <2>1. t \in [remote : STRING, local : STRING, direction : STRING, cleanup : STRING,
               conflict : STRING, types : STRING, interval : Int, rate : Int]
    BY ConfigAssumption
  <2>2. t.remote # ""
    BY <1>4 DEF handleTaskSave, Trimmed
  <2>3. /\ OrElse(t.direction, "both") \in Directions /\ OrElse(t.cleanup, "none") \in Cleanups
        /\ OrElse(t.conflict, "newest") \in Conflicts
    BY <1>4 DEF handleTaskSave
  <2>4. kept \in [remote : STRING \ {""}, local : STRING, direction : Directions,
                  cleanup : Cleanups, conflict : Conflicts, types : STRING,
                  interval : Int, rate : Int]
    BY <2>1, <2>2, <2>3
  <2>5. tasks' = {kept} /\ UNCHANGED <<settings, connections>>
    BY <1>4 DEF handleTaskSave
  <2> HIDE DEF kept
  <2> QED
    BY <2>4, <2>5 DEF KeptInv
<1>5. CASE LoadStore
  BY <1>5, LoadStoreKeeps DEF LoadStore, KeptInv
<1> QED
  BY <1>1, <1>2, <1>3, <1>4, <1>5 DEF ConfigNext, Serve

LEMMA ConfigHolds == ConfigSpec => []ConfigInv
<1>1. ConfigInit => ConfigInv
  BY KeptInit DEF ConfigInit, ConfigInv
<1>2. ConfigInv /\ [ConfigNext]_configVars => ConfigInv'
  <2> SUFFICES ASSUME ConfigInv, [ConfigNext]_configVars PROVE ConfigInv'
    OBVIOUS
  <2>1. CASE ConfigNext
    <3>1. KeptInv'
      BY <2>1, KeptNext DEF ConfigInv
    <3>2. UNCHANGED <<command, input>>
      BY <2>1 DEF ConfigNext, Start, Serve, handleSettingsSave, handleConnectionSave,
                  handleTaskSave, LoadStore, cli
    <3>3. UNCHANGED parsed \/ (command = "sync" /\ parsed' = Parse(input))
      BY <2>1 DEF ConfigNext, Start, Serve, handleSettingsSave, handleConnectionSave,
                  handleTaskSave, LoadStore, cli
    <3> QED
      BY <3>1, <3>2, <3>3 DEF ConfigInv
  <2>2. CASE UNCHANGED configVars
    BY <2>2 DEF configVars, cli, web, ConfigInv, KeptInv
  <2> QED
    BY <2>1, <2>2
<1> QED
  BY <1>1, <1>2, PTL DEF ConfigSpec

\* normalizeConfig does what normalize does, and gives two numbers a default.
LEMMA BuildFields ==
  ASSUME NEW c, DOMAIN c = Fields
  PROVE  normalizeConfig(c) =
           [g \in Fields |->
              CASE g = "concurrency" -> (IF c[g] <= 0 THEN 4 ELSE c[g])
                [] g = "retries"     -> (IF c[g] <= 0 THEN 3 ELSE c[g])
                [] OTHER             -> Normal(c)[g]]
<1> DEFINE n  == Normal(c)
           v1 == IF n.concurrency <= 0 THEN 4 ELSE n.concurrency
           n1 == [n EXCEPT !.concurrency = v1]
           v2 == IF n1.retries <= 0 THEN 3 ELSE n1.retries
           n2 == [n1 EXCEPT !.retries = v2]
<1>1. normalizeConfig(c) = n2
  BY Zenon DEF normalizeConfig
<1>2. DOMAIN n = Fields /\ n.concurrency = c.concurrency /\ n.retries = c.retries
  BY NormalFields DEF Fields
<1> HIDE DEF n, v1, v2
<1>3. DOMAIN n1 = Fields /\ \A g \in Fields : n1[g] = IF g = "concurrency" THEN v1 ELSE n[g]
  BY <1>2 DEF Fields
<1> HIDE DEF n1
<1>4. n2 = [g \in Fields |-> IF g = "retries" THEN v2 ELSE n1[g]]
  BY <1>3 DEF Fields
<1> HIDE DEF n2
<1>5. /\ v1 = IF c.concurrency <= 0 THEN 4 ELSE c.concurrency
      /\ v2 = IF c.retries <= 0 THEN 3 ELSE c.retries
  BY <1>2, <1>3 DEF v1, v2, Fields
<1>6. \A g \in Fields : n2[g] = CASE g = "concurrency" -> (IF c[g] <= 0 THEN 4 ELSE c[g])
                                  [] g = "retries"     -> (IF c[g] <= 0 THEN 3 ELSE c[g])
                                  [] OTHER             -> n[g]
  BY <1>3, <1>4, <1>5
<1> QED
  BY <1>1, <1>4, <1>6 DEF n

\* The numbers buildConfig starts from.
Numbers(t) == [concurrency |-> settings.concurrency, retries |-> settings.retries,
               rate |-> IF settings.rate > 0 /\ t.rate = 0 THEN settings.rate ELSE t.rate,
               interval |-> scheduleInterval(t)]
Texts(t, c) == [f \in TextNames |-> IF f \in {"url", "token", "username", "password", "mode"}
                                      THEN c[f] ELSE IF f = "tasksFile" THEN "" ELSE t[f]]
Given(t, c) == Configuration(Texts(t, c), Numbers(t), <<t.remote>>, FALSE)

LEMMA GivenFields ==
  ASSUME NEW t, NEW c
  PROVE  /\ buildConfig(t, c) = normalizeConfig(Given(t, c))
         /\ DOMAIN Given(t, c) = Fields
         /\ Given(t, c).url = c.url /\ Given(t, c).token = c.token
         /\ Given(t, c).username = c.username /\ Given(t, c).password = c.password
         /\ Given(t, c).direction = t.direction /\ Given(t, c).cleanup = t.cleanup
         /\ Given(t, c).conflict = t.conflict /\ Given(t, c).tasks = <<t.remote>>
         /\ Given(t, c).concurrency = settings.concurrency
         /\ Given(t, c).retries = settings.retries
         /\ Given(t, c).interval = scheduleInterval(t)
<1>1. buildConfig(t, c) = normalizeConfig(Given(t, c))
  BY Zenon DEF buildConfig, Given, Texts, Numbers
<1>2. DOMAIN Given(t, c) = Fields
  BY ConfigurationFields DEF Given
<1>3. /\ Given(t, c).url = Texts(t, c)["url"] /\ Given(t, c).token = Texts(t, c)["token"]
      /\ Given(t, c).username = Texts(t, c)["username"]
      /\ Given(t, c).password = Texts(t, c)["password"]
      /\ Given(t, c).direction = Texts(t, c)["direction"]
      /\ Given(t, c).cleanup = Texts(t, c)["cleanup"]
      /\ Given(t, c).conflict = Texts(t, c)["conflict"]
      /\ Given(t, c).tasks = <<t.remote>>
      /\ Given(t, c).concurrency = Numbers(t).concurrency
      /\ Given(t, c).retries = Numbers(t).retries
      /\ Given(t, c).interval = Numbers(t).interval
  BY DEF Given, Configuration
<1>4. /\ \A f \in {"url", "token", "username", "password"} : Texts(t, c)[f] = c[f]
      /\ \A f \in {"direction", "cleanup", "conflict"} : Texts(t, c)[f] = t[f]
  BY DEF Texts, TextNames
<1>5. /\ Numbers(t).concurrency = settings.concurrency /\ Numbers(t).retries = settings.retries
      /\ Numbers(t).interval = scheduleInterval(t)
  BY DEF Numbers
<1> QED
  BY <1>1, <1>2, <1>3, <1>4, <1>5

\* A task has a time between its runs, whatever was sent for it.
LEMMA IntervalPositive ==
  ASSUME KeptInv, NEW t \in tasks
  PROVE  scheduleInterval(t) > 0
<1>1. settings.interval \in Nat \ {0}
  BY DEF KeptInv
<1>2. t.interval \in Int
  BY DEF KeptInv
<1> QED
  BY <1>1, <1>2 DEF scheduleInterval, Positive, Hour, Unset

LEMMA BuiltUsable ==
  ASSUME KeptInv, NEW b \in Built
  PROVE  /\ b.direction \in Directions /\ b.cleanup \in Cleanups /\ b.conflict \in Conflicts
         /\ b.tasks # << >> /\ \A i \in DOMAIN b.tasks : b.tasks[i] # ""
         /\ b.token # "" \/ (b.username # "" /\ b.password # "")
         /\ Valid([b EXCEPT !.types = "", !.mode = "direct"])
         /\ b.concurrency > 0 /\ b.retries > 0 /\ b.interval > 0
<1>1. PICK t \in tasks, c \in connections : b = buildConfig(t, c)
  BY DEF Built
<1> DEFINE g == Given(t, c)
<1>2. /\ t.remote # "" /\ t.direction \in Directions /\ t.cleanup \in Cleanups
      /\ t.conflict \in Conflicts
  BY DEF KeptInv
<1>3. c.url = "http" /\ HasCredentials(c)
  BY DEF KeptInv
<1>4. settings.concurrency \in 1..64 /\ settings.retries \in 0..20
  BY DEF KeptInv
<1>5. DOMAIN g = Fields /\ b = normalizeConfig(g)
  BY <1>1, GivenFields
<1>6. /\ g.url = c.url /\ g.token = c.token /\ g.username = c.username
      /\ g.password = c.password /\ g.direction = t.direction /\ g.cleanup = t.cleanup
      /\ g.conflict = t.conflict /\ g.tasks = <<t.remote>>
      /\ g.concurrency = settings.concurrency /\ g.retries = settings.retries
      /\ g.interval = scheduleInterval(t)
  BY GivenFields
<1> HIDE DEF g
<1>7. /\ DOMAIN b = Fields
      /\ b.concurrency = IF g.concurrency <= 0 THEN 4 ELSE g.concurrency
      /\ b.retries = IF g.retries <= 0 THEN 3 ELSE g.retries
      /\ \A f \in Fields \ {"concurrency", "retries"} : b[f] = Normal(g)[f]
  BY <1>5, BuildFields DEF Fields
<1>8. /\ b.direction = OrElse(g.direction, "both") /\ b.cleanup = OrElse(g.cleanup, "none")
      /\ b.conflict = OrElse(g.conflict, "newest") /\ b.url = g.url /\ b.token = g.token
      /\ b.username = g.username /\ b.password = g.password /\ b.tasks = g.tasks
      /\ b.interval = g.interval
  BY <1>5, <1>7, NormalFields DEF Fields
<1>9. /\ b.direction \in Directions /\ b.cleanup \in Cleanups /\ b.conflict \in Conflicts
  BY <1>2, <1>6, <1>8 DEF OrElse, Directions, Cleanups, Conflicts
<1>10. b.tasks = <<t.remote>>
  BY <1>6, <1>8
<1>11. b.url # "" /\ HasCredentials(b)
  BY <1>3, <1>6, <1>8 DEF HasCredentials
<1>12. Valid([b EXCEPT !.types = "", !.mode = "direct"])
  <2> DEFINE b1 == [b EXCEPT !.types = ""]
             b2 == [b1 EXCEPT !.mode = "direct"]
  <2>1. DOMAIN b1 = Fields /\ \A f \in Fields : b1[f] = IF f = "types" THEN "" ELSE b[f]
    BY <1>7 DEF Fields
  <2> HIDE DEF b1
  <2>2. \A f \in Fields : b2[f] = IF f = "mode" THEN "direct" ELSE b1[f]
    BY <2>1 DEF Fields
  <2>3. [b EXCEPT !.types = "", !.mode = "direct"] = b2
    BY Zenon DEF b1
  <2> HIDE DEF b2
  <2>4. /\ b2.url = b.url /\ b2.token = b.token /\ b2.username = b.username
        /\ b2.password = b.password /\ b2.direction = b.direction /\ b2.cleanup = b.cleanup
        /\ b2.conflict = b.conflict /\ b2.mode = "direct" /\ b2.types = ""
    BY <2>1, <2>2 DEF Fields
  <2>5. Valid(b2)
    BY <1>9, <1>11, <2>4 DEF Valid, HasCredentials, Modes, Types
  <2> QED
    BY <2>3, <2>5
<1>13. b.concurrency > 0 /\ b.retries > 0
  BY <1>4, <1>6, <1>7
<1>14. b.interval > 0
  BY <1>6, <1>8, IntervalPositive
<1>15. b.tasks # << >> /\ \A i \in DOMAIN b.tasks : b.tasks[i] # ""
  BY <1>2, <1>10, OneNamed, Zenon
<1> QED
  BY <1>9, <1>11, <1>12, <1>13, <1>14, <1>15 DEF HasCredentials

(* Whatever Parse accepts and whatever the web server builds from what it  *)
(* kept, a pass can be run with.                                           *)
THEOREM AcceptedCanRun == ConfigSpec => []AcceptedIsUsable
<1>1. ConfigInv => AcceptedIsUsable
  <2> SUFFICES ASSUME ConfigInv PROVE AcceptedIsUsable
    OBVIOUS
  <2>1. \A c \in parsed : input \in Inputs /\ c \in Parse(input)
    BY DEF ConfigInv
  <2>2. \A c \in parsed \union Built :
          /\ c.direction \in Directions /\ c.cleanup \in Cleanups /\ c.conflict \in Conflicts
          /\ c.tasks # << >> /\ \A i \in DOMAIN c.tasks : c.tasks[i] # ""
          /\ c.token # "" \/ (c.username # "" /\ c.password # "")
    BY <2>1, ParsedUsable, BuiltUsable DEF ConfigInv
  <2>3. \A c \in Built : /\ Valid([c EXCEPT !.types = "", !.mode = "direct"])
                         /\ c.concurrency > 0 /\ c.retries > 0 /\ c.interval > 0
    BY BuiltUsable DEF ConfigInv
  <2> QED
    BY <2>2, <2>3 DEF AcceptedIsUsable
<1> QED
  BY <1>1, ConfigHolds, PTL

(* The environment variable of a setting that a flag gives is not read. *)
THEOREM FlagsWin == ConfigSpec => []FlagsShadowEnvironment
<1>1. ConfigInv => FlagsShadowEnvironment
  BY FlagShadows DEF ConfigInv, FlagsShadowEnvironment
<1> QED
  BY <1>1, ConfigHolds, PTL

\* A restart turns no retries into three, which is what a run had before it.
LEMMA RestartSame ==
  ASSUME KeptInv, LoadStore
  PROVE  Built' = Built
<1>1. /\ settings'.interval = settings.interval /\ settings'.rate = settings.rate
      /\ settings'.concurrency = settings.concurrency
      /\ settings'.retries = IF settings.retries = 0 THEN 3 ELSE settings.retries
  BY LoadStoreKeeps
<1>2. settings.retries \in 0..20
  BY DEF KeptInv
<1>3. ASSUME NEW t, NEW c PROVE buildConfig(t, c)' = buildConfig(t, c)
  <2> DEFINE p == Configuration(Texts(t, c), Numbers(t), <<t.remote>>, FALSE)
             q == Configuration(Texts(t, c), Numbers(t)', <<t.remote>>, FALSE)
  <2>1. buildConfig(t, c) = normalizeConfig(p)
    BY Zenon DEF buildConfig, Texts, Numbers
  <2>2. buildConfig(t, c)' = normalizeConfig(q)
    BY Zenon DEF buildConfig, Texts, Numbers
  <2>3. scheduleInterval(t)' = scheduleInterval(t)
    BY <1>1 DEF scheduleInterval
  <2>4. /\ Numbers(t)'.concurrency = Numbers(t).concurrency
        /\ Numbers(t)'.rate = Numbers(t).rate /\ Numbers(t)'.interval = Numbers(t).interval
        /\ Numbers(t).retries = settings.retries /\ Numbers(t)'.retries = settings'.retries
    BY <1>1, <2>3 DEF Numbers
  <2>5. /\ DOMAIN p = Fields /\ DOMAIN q = Fields
        /\ \A g \in Fields \ {"retries"} : q[g] = p[g]
        /\ p.retries = settings.retries /\ q.retries = settings'.retries
    <3>1. DOMAIN p = Fields /\ DOMAIN q = Fields
      BY ConfigurationFields
    <3> DEFINE u == Texts(t, c)
               m == Numbers(t)
               n == Numbers(t)'
               l == <<t.remote>>
               d == FALSE
    <3> HIDE DEF u, m, n, l, d
    <3>2. /\ \A g \in Fields \ {"concurrency", "rate", "retries", "interval"} :
                Configuration(u, n, l, d)[g]
                = Configuration(u, m, l, d)[g]
          /\ \A k : \A g \in {"concurrency", "rate", "retries", "interval"} :
                Configuration(u, k, l, d)[g] = k[g]
      BY NumbersApart
    <3>3. p = Configuration(u, m, l, d)
          /\ q = Configuration(u, n, l, d)
      BY DEF u, m, n, l, d
    <3>4. /\ n.concurrency = m.concurrency /\ n.rate = m.rate /\ n.interval = m.interval
          /\ m.retries = settings.retries /\ n.retries = settings'.retries
      BY <2>4 DEF m, n
    <3> HIDE DEF p, q
    <3>5. \A g \in Fields \ {"concurrency", "rate", "retries", "interval"} : q[g] = p[g]
      BY <3>2, <3>3
    <3>6. \A g \in {"concurrency", "rate", "interval"} : q[g] = p[g]
      BY <3>2, <3>3, <3>4
    <3>7. p.retries = settings.retries /\ q.retries = settings'.retries
      BY <3>2, <3>3, <3>4
    <3> QED
      BY <3>1, <3>5, <3>6, <3>7
  <2> HIDE DEF p, q
  <2>6. \A g \in Fields \ {"retries"} : Normal(q)[g] = Normal(p)[g]
    BY <2>5, NormalFields
  <2>7. (IF q.retries <= 0 THEN 3 ELSE q.retries) = IF p.retries <= 0 THEN 3 ELSE p.retries
    BY <1>1, <1>2, <2>5
  <2>8. normalizeConfig(q) = normalizeConfig(p)
    BY <2>5, <2>6, <2>7, BuildFields DEF Fields
  <2> QED
    BY <2>1, <2>2, <2>8
<1>4. tasks' = tasks /\ connections' = connections
  BY DEF LoadStore
<1> QED
  BY <1>3, <1>4 DEF Built

(* A restart of the web server changes no setting of a run. *)
THEOREM RestartKeepsSettings == ConfigSpec => RestartChangesNoSetting
<1>1. ConfigInv /\ [ConfigNext]_configVars => [LoadStore => Built' = Built]_configVars
  BY RestartSame DEF ConfigInv
<1> QED
  BY <1>1, ConfigHolds, PTL DEF ConfigSpec, RestartChangesNoSetting

-----------------------------------------------------------------------------
(* The daemon. *)

USE LimitAssumption, RefillAssumption, ChunkAssumption, TAssumption,
    BoundsAssumption, StreamsAssumption

(* The bucket, the loop and the transfers have their types initially. *)
LEMMA InitType == Init => TypeOK
<1> SUFFICES ASSUME Init PROVE TypeOK
  OBVIOUS
<1>1. need \in [Streams -> 0..Chunk] /\ left \in [Jobs -> Nat]
  BY DEF Init, LimiterInit
<1>2. tokens \in 0..Limit /\ meter \in Nat
  BY DEF Init, LimiterInit
<1>3. /\ job \in [Jobs -> {"running", "ok", "failed", "skipped"}]
      /\ result \in [Tasks -> {"untried", "ok", "failed"}]
  BY DEF Init
<1>4. task \in 0..T /\ failed \in Nat /\ runCount \in Nat
  BY DEF Init
<1> QED
  BY <1>1, <1>2, <1>3, <1>4 DEF Init, LimiterInit, TypeOK

(* A step of the loop preserves the types. *)
LEMMA LoopType == ASSUME TypeOK, Loop PROVE TypeOK'
<1> USE DEF TypeOK, passVars, jobVars, status, limiterVars, StartPhase
<1>1. CASE Begin
  <2>1. need' \in [Streams -> 0..Chunk]
    BY <1>1 DEF Begin, NewRateLimiter
  <2>2. tokens' \in 0..Limit /\ meter' \in Nat /\ refilling' \in BOOLEAN
    BY <1>1 DEF Begin, NewRateLimiter
  <2>3. task' \in 0..T /\ failed' \in Nat
    BY <1>1 DEF Begin
  <2>4. result' \in [Tasks -> {"untried", "ok", "failed"}]
    BY <1>1 DEF Begin
  <2> QED
    BY <1>1, <2>1, <2>2, <2>3, <2>4 DEF Begin
<1>2. CASE ListFails
  <2>1. task + 1 \in Tasks
    BY <1>2 DEF ListFails, Tasks
  <2>2. result' \in [Tasks -> {"untried", "ok", "failed"}]
    BY <1>2, <2>1 DEF ListFails
  <2>3. task' \in 0..T /\ failed' \in Nat
    BY <1>2 DEF ListFails
  <2> QED
    BY <1>2, <2>2, <2>3 DEF ListFails
<1>3. CASE Downloads
  <2>1. task' \in 0..T
    BY <1>3 DEF Downloads
  <2>2. left' \in [Jobs -> Nat]
    BY <1>3 DEF Downloads
  <2>3. job' \in [Jobs -> {"running", "ok", "failed", "skipped"}]
    BY <1>3 DEF Downloads
  <2> QED
    BY <1>3, <2>1, <2>2, <2>3 DEF Downloads
<1>4. CASE Uploads
  <2>1. bad' \in BOOLEAN
    BY <1>4, ZenonT(30) DEF Uploads, Failures
  <2>2. left' \in [Jobs -> Nat]
    BY <1>4 DEF Uploads
  <2>3. job' \in [Jobs -> {"running", "ok", "failed", "skipped"}]
    BY <1>4 DEF Uploads
  <2> QED
    BY <1>4, <2>1, <2>2, <2>3 DEF Uploads
<1>5. CASE EndTask
  <2>1. result' \in [Tasks -> {"untried", "ok", "failed"}]
    BY <1>5 DEF EndTask
  <2>2. failed' \in Nat
    BY <1>5 DEF EndTask
  <2> QED
    BY <1>5, <2>1, <2>2 DEF EndTask
<1>6. CASE EndPass
  BY <1>6 DEF EndPass, Stop
<1>7. CASE Record
  <2>1. runCount' \in Nat
    BY <1>7 DEF Record
  <2>2. lastErr' \in BOOLEAN
    <3>1. lastErr' = (failed > 0)
      BY <1>7 DEF Record
    <3>2. lastErr' = TRUE \/ lastErr' = FALSE
      BY <3>1
    <3> QED
      BY <3>2
  <2>3. main' \in {"returned", "select"}
    BY <1>7 DEF Record
  <2> QED
    BY <1>7, <2>1, <2>2, <2>3 DEF Record
<1>8. CASE TakeTick
  BY <1>8 DEF TakeTick
<1>9. CASE Leave
  BY <1>9 DEF Leave
<1> QED
  BY <1>1, <1>2, <1>3, <1>4, <1>5, <1>6, <1>7, <1>8, <1>9 DEF Loop

(* A step of a transfer preserves them. *)
LEMMA JobType ==
  ASSUME TypeOK, NEW j \in Jobs, Copy(j) \/ Succeed(j) \/ Fail(j) \/ CutUpload(j)
  PROVE  TypeOK'
<1> USE DEF TypeOK, passVars, status, limiterVars, End
<1>1. CASE Copy(j)
  <2>1. left' \in [Jobs -> Nat]
    BY <1>1 DEF Copy
  <2>2. need' \in [Streams -> 0..Chunk]
    BY <1>1 DEF Copy, Enter
  <2> QED
    BY <1>1, <2>1, <2>2 DEF Copy, Enter
<1>2. CASE Succeed(j)
  BY <1>2 DEF Succeed
<1>3. CASE Fail(j)
  BY <1>3 DEF Fail
<1>4. CASE CutUpload(j)
  <2>1. need' \in [Streams -> 0..Chunk]
    BY <1>4 DEF CutUpload
  <2> QED
    BY <1>4, <2>1 DEF CutUpload
<1> QED
  BY <1>1, <1>2, <1>3, <1>4

(* Every step preserves them. *)
LEMMA TypeStep == TypeOK /\ [Next]_vars => TypeOK'
<1> SUFFICES ASSUME TypeOK, [Next]_vars PROVE TypeOK'
  OBVIOUS
<1> USE DEF TypeOK, passVars, jobVars, status, limiterVars
<1>1. CASE Loop
  BY <1>1, LoopType DEF TypeOK
<1>2. CASE Tick
  BY <1>2 DEF Tick
<1>3. CASE Interrupt
  BY <1>3 DEF Interrupt
<1>4. CASE RefillTick
  <2>1. tokens' \in 0..Limit /\ meter' \in Nat
    BY <1>4 DEF RefillTick, Refill, Least
  <2> QED
    BY <1>4, <2>1 DEF RefillTick, Refill
<1>5. ASSUME NEW s \in Streams, Take(s) PROVE TypeOK'
  <2>1. tokens' \in 0..Limit /\ meter' \in Nat
    BY <1>5 DEF Take, Grant
  <2>2. need' \in [Streams -> 0..Chunk]
    BY <1>5 DEF Take, Grant
  <2> QED
    BY <1>5, <2>1, <2>2 DEF Take, Grant
<1>6. ASSUME NEW j \in Jobs, Copy(j) \/ Succeed(j) \/ Fail(j) \/ CutUpload(j)
      PROVE TypeOK'
  BY <1>6, JobType DEF TypeOK
<1>7. CASE UNCHANGED vars
  BY <1>7 DEF vars
<1> QED
  BY <1>1, <1>2, <1>3, <1>4, <1>5, <1>6, <1>7 DEF Next

(* Only a new limiter, its refill and a granted Wait move tokens or meter. *)
LEMMA OthersKeepBucket ==
  ASSUME [Next]_vars, ~Begin, ~RefillTick, \A s \in Streams : ~Take(s)
  PROVE  UNCHANGED <<tokens, meter>>
<1> USE DEF limiterVars
<1>1. CASE Loop
  BY <1>1 DEF Loop, ListFails, Downloads, Uploads, EndTask, EndPass, Stop, Record,
              TakeTick, Leave
<1>2. CASE Tick \/ Interrupt
  BY <1>2 DEF Tick, Interrupt
<1>3. ASSUME NEW j \in Jobs, Copy(j) \/ Succeed(j) \/ Fail(j) \/ CutUpload(j)
      PROVE UNCHANGED <<tokens, meter>>
  BY <1>3 DEF Copy, Enter, Succeed, Fail, CutUpload
<1>4. CASE UNCHANGED vars
  BY <1>4 DEF vars
<1> QED
  BY <1>1, <1>2, <1>3, <1>4 DEF Next

(* What was let through and what may be let through at once stay within    *)
(* the bucket.                                                             *)
LEMMA RateStep == TypeOK /\ RateBound /\ [Next]_vars => RateBound'
<1> SUFFICES ASSUME TypeOK, RateBound, [Next]_vars PROVE RateBound'
  OBVIOUS
<1> USE DEF RateBound
<1>0. tokens \in Nat /\ meter \in Nat /\ tokens <= Limit
  BY DEF TypeOK
<1>1. CASE Begin
  BY <1>1 DEF Begin, NewRateLimiter
<1>2. CASE RefillTick
  <2>1. CASE meter > RefillSize
    BY <1>0, <1>2, <2>1 DEF RefillTick, Refill, Least
  <2>2. CASE ~(meter > RefillSize)
    BY <1>0, <1>2, <2>2 DEF RefillTick, Refill, Least
  <2> QED
    BY <2>1, <2>2
<1>3. ASSUME NEW s \in Streams, Take(s) PROVE RateBound'
  <2>1. need[s] \in Nat
    BY DEF TypeOK
  <2> QED
    BY <1>0, <1>3, <2>1 DEF Take, Grant
<1>4. CASE ~Begin /\ ~RefillTick /\ \A s \in Streams : ~Take(s)
  BY <1>4, OthersKeepBucket
<1> QED
  BY <1>1, <1>2, <1>3, <1>4

-----------------------------------------------------------------------------
(* Transfers, ticks of either ticker and a signal leave the loop where it  *)
(* is; a signal sets ctxErr.                                               *)
LEMMA OthersKeepPass ==
  ASSUME [Next]_vars, ~Loop
  PROVE  /\ UNCHANGED <<main, running, task, failed, result, lastErr, runCount>>
         /\ ctxErr' = ctxErr \/ ctxErr' = TRUE
<1> USE DEF passVars, status
<1>1. CASE Tick
  BY <1>1 DEF Tick
<1>2. CASE Interrupt
  BY <1>2 DEF Interrupt
<1>3. CASE RefillTick
  BY <1>3 DEF RefillTick
<1>4. ASSUME NEW s \in Streams, Take(s)
      PROVE UNCHANGED <<main, running, task, failed, result, lastErr, runCount, ctxErr>>
  BY <1>4 DEF Take
<1>5. ASSUME NEW j \in Jobs, Copy(j) \/ Succeed(j) \/ Fail(j) \/ CutUpload(j)
      PROVE UNCHANGED <<main, running, task, failed, result, lastErr, runCount, ctxErr>>
  BY <1>5 DEF Copy, Succeed, Fail, CutUpload
<1>6. CASE UNCHANGED vars
  BY <1>6 DEF vars
<1> QED
  BY <1>1, <1>2, <1>3, <1>4, <1>5, <1>6 DEF Next

(* A task counted as failed is one that failed, and the other way round,   *)
(* when the current task's result is set.                                  *)
LEMMA ResultSet ==
  ASSUME TypeOK, PassInv, running, NEW t \in Tasks, result[t] = "untried",
         NEW r \in {"ok", "failed"}, result' = [result EXCEPT ![t] = r],
         failed' = IF r = "failed" THEN failed + 1 ELSE failed
  PROVE  failed' > 0 <=> \E u \in Tasks : result'[u] = "failed"
<1>0. failed \in Nat /\ result \in [Tasks -> {"untried", "ok", "failed"}]
  BY DEF TypeOK
<1>1. \A u \in Tasks : result'[u] = IF u = t THEN r ELSE result[u]
  BY <1>0
<1>2. failed > 0 <=> \E u \in Tasks : result[u] = "failed"
  BY DEF PassInv
<1>3. CASE r = "failed"
  <2>1. failed' > 0
    BY <1>0, <1>3
  <2>2. result'[t] = "failed"
    BY <1>1, <1>3
  <2> QED
    BY <2>1, <2>2
<1>4. CASE r = "ok"
  <2>1. \A u \in Tasks : result'[u] = "failed" <=> result[u] = "failed"
    BY <1>1, <1>4
  <2>2. failed' = failed
    BY <1>4
  <2> QED
    BY <1>2, <2>1, <2>2
<1> QED
  BY <1>3, <1>4

(* The course of a pass, and what is reported between passes. *)
LEMMA PassStep ==
  TypeOK /\ PassInv /\ HealthIsHonest /\ [Next]_vars => PassInv' /\ HealthIsHonest'
<1> SUFFICES ASSUME TypeOK, PassInv, HealthIsHonest, [Next]_vars
             PROVE  PassInv' /\ HealthIsHonest'
  OBVIOUS
<1> USE DEF status, passVars, StartPhase
<1>0. /\ task \in 0..T /\ failed \in Nat
      /\ result \in [Tasks -> {"untried", "ok", "failed"}]
  BY DEF TypeOK
<1>1. CASE Begin
  <2>1. /\ main' = "tasks" /\ running' = TRUE /\ task' = 0 /\ failed' = 0
        /\ result' = [t \in Tasks |-> "untried"]
    BY <1>1 DEF Begin
  <2>2. \A t \in Tasks : result'[t] = "untried" /\ t > 0
    BY <2>1 DEF Tasks
  <2>3. \A t \in Tasks : ~(t < 0)
    BY DEF Tasks
  <2> QED
    BY <2>1, <2>2, <2>3 DEF PassInv, HealthIsHonest
<1>2. CASE ListFails
  <2>1. /\ main = "tasks" /\ running /\ task + 1 \in Tasks
        /\ main' = main /\ running' = running
        /\ task' = task + 1 /\ failed' = failed + 1
        /\ result' = [result EXCEPT ![task + 1] = "failed"]
    BY <1>0, <1>2 DEF ListFails, PassInv, Tasks
  <2>2. result[task + 1] = "untried"
    BY <1>0, <2>1 DEF PassInv
  <2>3. failed' > 0 <=> \E u \in Tasks : result'[u] = "failed"
    BY <2>1, <2>2, ResultSet
  <2>4. \A t \in Tasks : t > task' => result'[t] = "untried"
    BY <1>0, <2>1 DEF PassInv, Tasks
  <2>5. \A t \in Tasks : t < task' => result'[t] # "untried"
    BY <1>0, <2>1 DEF PassInv, Tasks
  <2>6. result'[task'] # "untried"
    BY <1>0, <2>1
  <2> QED
    BY <2>1, <2>3, <2>4, <2>5, <2>6 DEF PassInv, HealthIsHonest
<1>3. CASE Downloads
  <2>1. /\ main = "tasks" /\ running /\ task + 1 \in Tasks
        /\ main' = "down" /\ running' = running /\ task' = task + 1
        /\ failed' = failed /\ result' = result
    BY <1>0, <1>3 DEF Downloads, PassInv, Tasks
  <2>2. \A t \in Tasks : t > task' => result'[t] = "untried"
    BY <1>0, <2>1 DEF PassInv, Tasks
  <2>3. \A t \in Tasks : t < task' => result'[t] # "untried"
    BY <1>0, <2>1 DEF PassInv, Tasks
  <2>4. task' > 0 /\ result'[task'] = "untried"
    BY <1>0, <2>1 DEF PassInv, Tasks
  <2> QED
    BY <2>1, <2>2, <2>3, <2>4 DEF PassInv, HealthIsHonest
<1>4. CASE Uploads
  <2>1. /\ main = "down" /\ main' = "up"
        /\ UNCHANGED <<running, task, failed, result>>
    BY <1>4 DEF Uploads
  <2> QED
    BY <2>1 DEF PassInv, HealthIsHonest
<1>5. CASE EndTask
  <2> DEFINE r == IF bad \/ Failures THEN "failed" ELSE "ok"
  <2>1. /\ main = "up" /\ running /\ task \in Tasks /\ result[task] = "untried"
        /\ main' = "tasks" /\ running' = running /\ task' = task
    BY <1>0, <1>5 DEF EndTask, PassInv, Tasks
  <2>2. /\ r \in {"ok", "failed"} /\ result' = [result EXCEPT ![task] = r]
        /\ failed' = IF r = "failed" THEN failed + 1 ELSE failed
    BY <1>5 DEF EndTask
  <2> HIDE DEF r
  <2>3. failed' > 0 <=> \E u \in Tasks : result'[u] = "failed"
    BY <2>1, <2>2, ResultSet
  <2>4. \A t \in Tasks : t # task => result'[t] = result[t]
    BY <1>0, <2>2
  <2>5. result'[task] # "untried"
    BY <1>0, <2>1, <2>2
  <2>6. \A t \in Tasks : /\ t > task' => result'[t] = "untried"
                         /\ t < task' => result'[t] # "untried"
    BY <1>0, <2>1, <2>4 DEF PassInv, Tasks
  <2> QED
    BY <2>1, <2>3, <2>5, <2>6 DEF PassInv, HealthIsHonest
<1>6. CASE EndPass
  <2>1. /\ main = "tasks" /\ main' = "record" /\ (task = T \/ ctxErr)
        /\ UNCHANGED <<running, task, failed, result, ctxErr>>
    BY <1>6 DEF EndPass
  <2> QED
    BY <2>1 DEF PassInv, HealthIsHonest
<1>7. CASE Record
  <2>1. /\ main = "record" /\ main' \in {"returned", "select"} /\ running' = FALSE
        /\ UNCHANGED <<task, failed, result, ctxErr>>
    BY <1>7 DEF Record
  <2>2. lastErr' <=> failed > 0
    BY <1>7 DEF Record
  <2>3. lastErr' <=> \E t \in Tasks : result'[t] = "failed"
    BY <2>1, <2>2 DEF PassInv
  <2>4. ~ctxErr' => \A t \in Tasks : result'[t] # "untried"
    <3>1. SUFFICES ASSUME ~ctxErr, NEW t \in Tasks PROVE result[t] # "untried"
      BY <2>1
    <3>2. task = T /\ running
      BY <2>1, <3>1 DEF PassInv
    <3>3. t < task \/ (t = task /\ task > 0)
      BY <1>0, <3>2 DEF Tasks
    <3> QED
      BY <2>1, <3>2, <3>3 DEF PassInv
  <2> QED
    BY <2>1, <2>3, <2>4 DEF PassInv, HealthIsHonest
<1>8. CASE TakeTick \/ Leave
  <2>1. /\ main = "select" /\ main' \in {"begin", "returned"}
        /\ UNCHANGED <<running, task, failed, result, ctxErr, lastErr, runCount>>
    BY <1>8 DEF TakeTick, Leave
  <2> QED
    BY <2>1 DEF PassInv, HealthIsHonest
<1>9. CASE ~Loop
  <2>1. /\ UNCHANGED <<main, running, task, failed, result, lastErr, runCount>>
        /\ ctxErr' = ctxErr \/ ctxErr' = TRUE
    BY <1>9, OthersKeepPass
  <2> QED
    BY <2>1 DEF PassInv, HealthIsHonest
<1> QED
  BY <1>1, <1>2, <1>3, <1>4, <1>5, <1>6, <1>7, <1>8, <1>9 DEF Loop

(* Before the first pass there is nothing to report, and nothing was let   *)
(* through.                                                                *)
LEMMA InitRest == Init => RateBound /\ PassInv /\ HealthIsHonest
BY DEF Init, LimiterInit, RateBound, PassInv, HealthIsHonest

(* Type correctness: the bucket never holds more than its limit, and every *)
(* counter and every state of the loop and its transfers has its type.     *)
THEOREM TypeCorrect == Spec => []TypeOK
<1>1. Init => TypeOK
  BY InitType
<1>2. TypeOK /\ [Next]_vars => TypeOK'
  BY TypeStep
<1> QED
  BY <1>1, <1>2, PTL DEF Spec

(* Whatever the transfers do, in any stretch of time they send no more     *)
(* than a second's worth above what the limit allows for its length.       *)
THEOREM RateHolds == Spec => []RateBound
<1>1. Init => TypeOK /\ RateBound
  BY InitType, InitRest
<1>2. TypeOK /\ RateBound /\ [Next]_vars => (TypeOK /\ RateBound)'
  BY TypeStep, RateStep
<1> QED
  BY <1>1, <1>2, PTL DEF Spec

(* Between passes the health endpoint tells an error exactly when a task   *)
(* of the last pass failed, and no task was left out but by a signal.      *)
THEOREM HealthHolds == Spec => []HealthIsHonest
<1> DEFINE IInv == TypeOK /\ PassInv /\ HealthIsHonest
<1>1. Init => IInv
  BY InitType, InitRest
<1>2. IInv /\ [Next]_vars => IInv'
  BY TypeStep, PassStep
<1>3. IInv => HealthIsHonest
  OBVIOUS
<1> QED
  BY <1>1, <1>2, <1>3, PTL DEF Spec
=============================================================================
