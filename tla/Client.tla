------------------------------- MODULE Client -------------------------------
(***************************************************************************)
(* The OpenList client (internal/client/client.go) as the goroutines of a  *)
(* pass share it: one token, read without the mutex that login and         *)
(* invalidation take, and requests that log in again after a 401.          *)
(***************************************************************************)
EXTENDS Integers

CONSTANTS Callers,     \* goroutines that use the client
          NoOne,       \* the mutex is free
          MaxCalls,    \* bound: calls in total
          MaxFaults    \* bound: requests that fail but for a 401, signs that
                       \* are stale, tokens that expire

ASSUME BoundsAssumption ==
  MaxCalls \in Nat /\ MaxFaults \in Nat
ASSUME NoOneAssumption == NoOne \notin Callers

NoToken == 0         \* c.token == ""; 1 is the configured token, logins count on
Tokens  == Nat
NoOuter == -1        \* the call is not a GetInfo inside openDownload

VARIABLES
  canLogin,  \* a user name and a password are configured
  token,     \* c.token
  torn,      \* one of the two words of the string c.token has been written
  lock,      \* who holds c.mu
  issued,    \* the last token the server gave out
  valid,     \* the tokens the server accepts
  pc,        \* caller -> where it is
  call,      \* caller -> the operation under way and its loop variables
  sent,      \* caller -> the Authorization header of its last request
  refused,   \* history: caller -> the token it last discarded after a 401
  discarded, \* history: callers past ensureAuth whose token another discarded
  died,      \* a torn string was dereferenced
  begun, faults
net   == <<issued, valid>>
cell  == <<token, torn, lock>>
hist  == <<refused, discarded>>
count == <<begun, faults>>
vars  == <<canLogin, cell, net, pc, call, sent, hist, died, count>>

Ops   == {"json", "put", "get"}
Calls == [op : Ops,
          attempt : 0..3,            \* of doJSON, or of openDownload
          outer : {NoOuter} \union 0..2, \* openDownload's attempt around GetInfo
          ensures : 0..2,            \* calls of ensureAuth still to make
          sign : {"fresh", "stale"}, \* the sign of a download link
          answer : {"ok", "401"}]    \* the last answer

\* A call, or an attempt of one, before its request.
Attempt(op, attempt, outer, ensures, sign) ==
  [op |-> op, attempt |-> attempt, outer |-> outer, ensures |-> ensures,
   sign |-> sign, answer |-> "ok"]

NoCall == Attempt("json", 0, NoOuter, 0, "fresh")

\* New(baseURL, token, ...); a configuration without either is refused.
Init ==
  /\ canLogin \in BOOLEAN
  /\ token \in {NoToken, 1} /\ (token = NoToken => canLogin)
  /\ torn = FALSE /\ lock = NoOne
  /\ issued = 1 /\ valid \in SUBSET {1}
  /\ pc = [g \in Callers |-> "idle"]
  /\ call = [g \in Callers |-> NoCall]
  /\ sent = [g \in Callers |-> NoToken]
  /\ refused = [g \in Callers |-> NoToken] /\ discarded = {}
  /\ died = FALSE
  /\ begun = 0 /\ faults = 0

Goto(g, label) == pc' = [pc EXCEPT ![g] = label]
Set(g, c)      == call' = [call EXCEPT ![g] = c]

\* The request is over.
Forget(g) == sent' = [sent EXCEPT ![g] = NoToken]

\* The call returns; its variables are gone.
Return(g) ==
  /\ Goto(g, "idle")
  /\ Set(g, NoCall)
  /\ Forget(g)
  /\ refused' = [refused EXCEPT ![g] = NoToken]
  /\ discarded' = discarded \ {g}

-----------------------------------------------------------------------------
\* A pass calls an API, uploads, or opens a download with the sign it knows.
\* Upload sends its request without ensureAuth.
Begin(g) ==
  /\ pc[g] = "idle" /\ begun < MaxCalls
  /\ \E op \in Ops, sign \in {"fresh", "stale"} :
       /\ sign = "stale" => op = "get" /\ faults < MaxFaults
       /\ faults' = IF sign = "stale" THEN faults + 1 ELSE faults
       /\ Set(g, Attempt(op, 0, NoOuter, IF op = "put" THEN 0 ELSE 1, sign))
       /\ Goto(g, IF op = "put" THEN "header" ELSE "ensure")
  /\ begun' = begun + 1
  /\ UNCHANGED <<canLogin, cell, net, sent, hist, died>>

\* What follows an ensureAuth that returned nil: the next one, or the request.
Passed(g, e) ==
  /\ Goto(g, IF e > 1 THEN "ensure" ELSE "header")
  /\ Set(g, [call[g] EXCEPT !.ensures = e - 1])
  /\ discarded' = discarded \ {g}
  /\ UNCHANGED <<sent, refused>>

\* No token: on to the mutex.
Wait(g) ==
  /\ Goto(g, "wantLogin")
  /\ UNCHANGED <<call, sent, hist>>

\* Mutant of EnsureAuth: only the first attempt makes sure of a token.
EnsureAuthOnce(g) ==
  /\ pc[g] = "ensure"
  /\ \/ (token # NoToken \/ torn \/ call[g].attempt > 0) /\ Passed(g, call[g].ensures)
     \/ ~(token # NoToken \/ torn \/ call[g].attempt > 0) /\ canLogin /\ Wait(g)
     \/ ~(token # NoToken \/ torn \/ call[g].attempt > 0) /\ ~canLogin /\ Return(g)
  /\ UNCHANGED <<canLogin, cell, net, died, count>>

\* if c.token != "" { return nil }: reads the length of the string, unlocked.
EnsureAuth(g) ==
  /\ pc[g] = "ensure"
  /\ \/ (token # NoToken \/ torn) /\ Passed(g, call[g].ensures)
     \/ ~(token # NoToken \/ torn) /\ canLogin /\ Wait(g)
     \/ ~(token # NoToken \/ torn) /\ ~canLogin /\ Return(g)
  /\ UNCHANGED <<canLogin, cell, net, died, count>>

\* Mutant of TakeLock: no second look.
TakeLockBlindly(g) ==
  /\ pc[g] = "wantLogin" /\ lock = NoOne
  /\ lock' = g
  /\ Goto(g, "login")
  /\ UNCHANGED <<canLogin, token, torn, net, call, sent, hist, died, count>>

\* c.mu.Lock() and the second look at the token under it.
TakeLock(g) ==
  /\ pc[g] = "wantLogin" /\ lock = NoOne
  /\ IF token # NoToken
       THEN Passed(g, call[g].ensures) /\ UNCHANGED lock
       ELSE /\ lock' = g
            /\ Goto(g, "login")
            /\ UNCHANGED <<call, sent, hist>>
  /\ UNCHANGED <<canLogin, token, torn, net, died, count>>

\* loginLocked: the server gives out a new token, c.token is set to it, and
\* ensureAuth unlocks ...
Login(g) ==
  /\ pc[g] = "login"
  /\ issued' = issued + 1 /\ valid' = valid \union {issued + 1}
  /\ token' = issued + 1 /\ torn' = FALSE /\ lock' = NoOne
  /\ Passed(g, call[g].ensures)
  /\ UNCHANGED <<canLogin, died, count>>

\* Mutant of LoginFails: the error path does not unlock.
LoginFailsLocked(g) ==
  /\ pc[g] = "login" /\ ~torn /\ faults < MaxFaults
  /\ faults' = faults + 1
  /\ Return(g)
  /\ UNCHANGED <<canLogin, cell, net, died, begun>>

\* ... or the login fails and with it the call.
LoginFails(g) ==
  /\ pc[g] = "login" /\ ~torn /\ faults < MaxFaults
  /\ faults' = faults + 1
  /\ lock' = NoOne
  /\ Return(g)
  /\ UNCHANGED <<canLogin, token, torn, net, died, begun>>

\* A string is two words; another goroutine may see the length of one value
\* with the pointer of another, of which one is empty.
Tear(g) ==
  /\ pc[g] \in {"login", "wipe"} /\ ~torn
  /\ pc[g] = "wipe" => token # NoToken
  /\ torn' = TRUE
  /\ UNCHANGED <<canLogin, token, lock, net, pc, call, sent, hist, died, count>>

\* req.Header.Set("Authorization", c.token), unlocked; a torn string has a
\* length and a nil pointer.
ReadHeader(g) ==
  /\ pc[g] = "header"
  /\ IF torn
       THEN /\ died' = TRUE
            /\ UNCHANGED <<pc, sent>>
       ELSE /\ sent' = [sent EXCEPT ![g] = token]
            /\ Goto(g, "sent")
            /\ UNCHANGED died
  /\ UNCHANGED <<canLogin, cell, net, call, hist, count>>

\* The server refuses a token it does not know, and a download without a
\* good sign, with the same 401.
Serve(g) ==
  /\ pc[g] = "sent"
  /\ Set(g, [call[g] EXCEPT !.answer =
       IF sent[g] \in valid /\ (call[g].op = "get" => call[g].sign = "fresh")
         THEN "ok" ELSE "401"])
  /\ Goto(g, "answered")
  /\ UNCHANGED <<canLogin, cell, net, sent, hist, died, count>>

\* Any other failure ends the call; GetInfo's failure ends the download.
ServeFails(g) ==
  /\ pc[g] = "sent" /\ faults < MaxFaults
  /\ faults' = faults + 1
  /\ Return(g)
  /\ UNCHANGED <<canLogin, cell, net, died, begun>>

-----------------------------------------------------------------------------
\* doJSON and openDownload: a 401 on attempt 0 of a call that can log in.
LogsInAgain(c) == c.answer = "401" /\ c.op # "put" /\ c.attempt = 0 /\ canLogin

\* invalidateToken takes the lock ...
LockToWipe(g) ==
  /\ pc[g] = "answered" /\ LogsInAgain(call[g]) /\ lock = NoOne
  /\ lock' = g
  /\ Goto(g, "wipe")
  /\ UNCHANGED <<canLogin, token, torn, net, call, sent, hist, died, count>>

\* After that doJSON calls ensureAuth once, openDownload twice (itself and
\* the call it returns).
Retry(g) ==
  /\ Set(g, Attempt(call[g].op, 1, call[g].outer,
                    IF call[g].op = "get" THEN 2 ELSE 1, call[g].sign))
  /\ Goto(g, "ensure")

\* Mutant of Wipe: only a token that a login brought is discarded.
WipeLoggedIn(g) ==
  /\ pc[g] = "wipe"
  /\ token' = IF token = 1 THEN token ELSE NoToken
  /\ torn' = FALSE /\ lock' = NoOne
  /\ refused' = [refused EXCEPT ![g] = sent[g]]
  /\ discarded' = discarded \union {h \in Callers : pc[h] = "header"}
  /\ Retry(g)
  /\ Forget(g)
  /\ UNCHANGED <<canLogin, net, died, count>>

\* ... and discards whatever token is there.
Wipe(g) ==
  /\ pc[g] = "wipe"
  /\ token' = NoToken /\ torn' = FALSE /\ lock' = NoOne
  /\ refused' = [refused EXCEPT ![g] = sent[g]]
  /\ discarded' = discarded \union {h \in Callers : pc[h] = "header"}
  /\ Retry(g)
  /\ Forget(g)
  /\ UNCHANGED <<canLogin, net, died, count>>

\* A 401 that is not retried with a login: openDownload asks for a new sign.
AsksForSign(c) == c.answer = "401" /\ c.op = "get" /\ ~LogsInAgain(c) /\ c.attempt <= 2

AskSign(g) ==
  /\ pc[g] = "answered" /\ AsksForSign(call[g])
  /\ Set(g, Attempt("json", 0, call[g].attempt, 1, "fresh"))
  /\ Goto(g, "ensure")
  /\ Forget(g)
  /\ UNCHANGED <<canLogin, cell, net, hist, died, count>>

\* GetInfo answered with a sign: the next attempt uses it. The object may
\* have changed again by then.
UseSign(g) ==
  /\ pc[g] = "answered" /\ call[g].answer = "ok" /\ call[g].outer # NoOuter
  /\ \E sign \in {"fresh", "stale"} :
       /\ sign = "stale" => faults < MaxFaults
       /\ faults' = IF sign = "stale" THEN faults + 1 ELSE faults
       /\ Set(g, Attempt("get", call[g].outer + 1, NoOuter, 1, sign))
  /\ Goto(g, "ensure")
  /\ Forget(g)
  /\ UNCHANGED <<canLogin, cell, net, hist, died, begun>>

\* Success, a 401 that is final, or a GetInfo without a sign.
End(g) ==
  /\ pc[g] = "answered"
  /\ ~LogsInAgain(call[g]) /\ ~AsksForSign(call[g])
  /\ Return(g)
  /\ UNCHANGED <<canLogin, cell, net, died, count>>

\* External: the server lets a token expire.
Expire ==
  /\ faults < MaxFaults
  /\ faults' = faults + 1
  /\ \E t \in valid : valid' = valid \ {t}
  /\ UNCHANGED <<canLogin, cell, issued, pc, call, sent, hist, died, begun>>

Step(g) ==
  \/ EnsureAuth(g) \/ TakeLock(g) \/ Login(g) \/ LoginFails(g) \/ Tear(g)
  \/ ReadHeader(g) \/ Serve(g) \/ ServeFails(g)
  \/ LockToWipe(g) \/ Wipe(g) \/ AskSign(g) \/ UseSign(g) \/ End(g)

Next ==
  /\ ~died
  /\ \/ \E g \in Callers : Begin(g) \/ Step(g)
     \/ Expire

Spec == Init /\ [][Next]_vars

\* The mutex is starvation-free, and the server answers or the connection breaks,
\* so every caller goes on.  The transport sees to that only as far as the headers
\* (client.go:84-97): that a body read (client.go:121, inside the mutex, and 185)
\* ends is an assumption about the environment.
FairSpec == Spec /\ \A g \in Callers : WF_vars(~died /\ Step(g))

-----------------------------------------------------------------------------
TypeOK ==
  /\ canLogin \in BOOLEAN
  /\ token \in Tokens /\ issued \in Tokens \ {NoToken} /\ valid \subseteq 1..issued
  /\ torn \in BOOLEAN /\ lock \in Callers \union {NoOne}
  /\ pc \in [Callers -> {"idle", "ensure", "wantLogin", "login", "header",
                         "sent", "answered", "wipe"}]
  /\ call \in [Callers -> Calls]
  /\ \A g \in Callers : pc[g] \in {"ensure", "wantLogin", "login"} => call[g].ensures > 0
  /\ sent \in [Callers -> Tokens]
  /\ refused \in [Callers -> Tokens] /\ discarded \subseteq Callers
  /\ died \in BOOLEAN
  /\ begun \in Nat /\ faults \in Nat

\* The mutex is held by whoever logs in or wipes, and by no one else;
\* a string is torn only while it is being written.
LockInv ==
  /\ \A g \in Callers : pc[g] \in {"login", "wipe"} <=> lock = g
  /\ torn => \E g \in Callers : \/ pc[g] = "login"
                                \/ pc[g] = "wipe" /\ token # NoToken

\* A login is only under way while there is no token.
LoginInv ==
  /\ \A g \in Callers : pc[g] = "login" => token = NoToken
  /\ token <= issued
  /\ \A g \in Callers : sent[g] <= issued

\* After a refusal whatever token turns up was issued later.
NewerInv ==
  \A g \in Callers :
    /\ refused[g] <= issued
    /\ token # NoToken => token > refused[g]

(* A request that follows a refusal never repeats the token that was       *)
(* refused: it carries none, or one the server issued later. Whoever has   *)
(* logged in meanwhile, the retry in doJSON and openDownload uses a token  *)
(* it has reason to trust (invalidateToken, ensureAuth; client.go:154,208).*)
RetriesWithAnother ==
  \A g \in Callers : pc[g] \in {"sent", "answered"} =>
     sent[g] = NoToken \/ sent[g] > refused[g]

(* A request leaves without a token only if, since its ensureAuth, another *)
(* goroutine has discarded the token because of a 401 of its own (upload   *)
(* excepted, which does not call ensureAuth): the logical cost of reading  *)
(* the token outside the mutex (client.go:141, 177, 344).  Its other cost  *)
(* is a torn string, which ends the program (died, see ReadHeader).        *)
AnonymousOnlyIfDiscarded ==
  \A g \in Callers :
    pc[g] \in {"sent", "answered"} /\ call[g].op # "put" /\ sent[g] = NoToken
      => g \in discarded

HeaderInv ==
  \A g \in Callers :
    pc[g] = "header" /\ call[g].op # "put" /\ g \notin discarded
      => token # NoToken \/ torn

Inv == TypeOK /\ LockInv /\ LoginInv /\ NewerInv /\ HeaderInv /\ RetriesWithAnother

(* No login replaces a token: whatever the interleaving, a token that is   *)
(* there stays until some 401 discards it, so callers that wait for the    *)
(* lock together log in once (ensureAuth's second look, client.go:149).    *)
TokenNotOverwritten == [][token # NoToken => token' \in {NoToken, token}]_vars

(* Every call ends, unless the process dies of a torn token: the retries   *)
(* of doJSON and openDownload and the GetInfo between them are bounded,    *)
(* and the mutex is always given back.                                     *)
CallsEnd == \A g \in Callers : pc[g] # "idle" ~> (pc[g] = "idle" \/ died)
=============================================================================
