------------------------------ MODULE MCConfig -------------------------------
(* Inputs vary one group of settings at a time: credentials, choices,       *)
(* numbers or tasks, each from the flags and from the environment.          *)
EXTENDS Config, TLC

FineEnv == [f \in TextNames \union NumberNames |->
              IF f \in NumberNames THEN Unset
              ELSE CASE f \in {"url", "token", "local"} -> "x"
                     [] f = "remote" -> "rooted" [] OTHER -> ""]
NoFlags == [f \in {} |-> ""]
Fine    == [flags |-> NoFlags, env |-> FineEnv, dryRun |-> FALSE, envDryRun |-> FALSE,
            lines |-> << >>, file |-> << >>]

\* Flags and environment variables for the names of a group.
Vary(names, values) ==
  LET some(vs) == UNION {[s -> vs] : s \in SUBSET names}
  IN  {[Fine EXCEPT !.flags = fl, !.env = en @@ FineEnv] :
         fl \in some(values), en \in [names -> values]}

MCInputs ==
  Vary({"url"}, {"", "x"})
  \union Vary({"token", "username", "password"}, {"", "x"})
  \union UNION {Vary({f}, {"", "both", "local", "proxy", "video", "other"}) :
                  f \in {"direction", "cleanup", "conflict", "mode", "types"}}
  \union Vary({"concurrency", "retries"}, {Unset, Junk, 0, 2} \ {Unset})
  \union {[Fine EXCEPT !.env["concurrency"] = a, !.env["rate"] = b, !.env["interval"] = c] :
            a, b, c \in {Unset, Junk, 0, 2}}
  \union Vary({"interval"}, {Unset, Junk, 0, 2})
  \union {[Fine EXCEPT !.env = [remote |-> r, local |-> l, tasksFile |-> t] @@ FineEnv,
                       !.lines = ls, !.file = fs, !.dryRun = d, !.envDryRun = e] :
            r \in {"", "rootless"}, l \in {"", "x"}, t \in {"", "present", "missing"},
            ls \in {<< >>, <<"half", "rootless">>}, fs \in {<< >>, <<"comment", "rooted">>},
            d, e \in BOOLEAN}

MCSettingsSent ==
  [interval : {Unset, Junk, 30}, concurrency : {0, 64, 65}, rate : {-1, 5},
   retries : {-1, 0, 21}]

MCConnectionsSent ==
  [url : {"http", "other"}, auth : {"", "token", "password", "other"},
   token : {"", "x"}, username : {"blank", "x"}, password : {"", "x"}, mode : {"", "proxy"}]

\* At most one field is not the fine one, besides the interval and the rate.
MCTasksSent ==
  {t \in [remote : {"", "rootless"}, local : {"blank", "x"}, direction : {"", "pull", "other"},
          cleanup : {"", "both", "other"}, conflict : {"", "skip", "other"},
          types : {"", "other"}, interval : {Unset, Blank, Junk, 0, 90}, rate : {-1, 0}] :
     Cardinality({f \in {"remote", "local", "direction", "cleanup", "conflict", "types"} :
                    t[f] \notin {"rootless", "x", "pull", "both", "skip"}}) <= 2}
=============================================================================
