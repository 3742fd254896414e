----------------------------- MODULE RateLimiter ------------------------------
(***************************************************************************)
(* The token bucket that the transfers of one pass share                   *)
(* (internal/syncer/pool.go).  Time is counted in refills, of which the    *)
(* code makes ten a second; bytes in a unit that divides a refill.         *)
(***************************************************************************)
EXTENDS Integers

CONSTANTS Streams,     \* the goroutines that may be inside Wait
          Limit,       \* limit: the bucket's size, what a second may bring
          RefillSize,  \* limit*0.1, what one tick brings
          Chunk        \* Chunk(), the most one Wait asks for

ASSUME LimitAssumption  == Limit \in Nat /\ Limit > 0
ASSUME RefillAssumption == RefillSize \in 1..Limit
ASSUME ChunkAssumption  == Chunk \in 1..Limit

VARIABLES
  refilling,   \* the refill goroutine runs: New was called and Stop was not
  tokens,
  need,        \* stream -> the bytes its Wait asked for, 0 outside Wait
  meter        \* history: the bytes let through, draining at the limit's rate
limiterVars == <<refilling, tokens, need, meter>>

Least(a, b) == IF a < b THEN a ELSE b

LimiterInit ==
  /\ refilling = FALSE /\ tokens = 0 /\ meter = 0
  /\ need = [s \in Streams |-> 0]

\* NewRateLimiter: an empty bucket. Streams that still poll the bucket of an
\* earlier pass do so for ever and are forgotten here.
NewRateLimiter ==
  /\ refilling' = TRUE
  /\ tokens' = 0
  /\ meter' = 0
  /\ need' = [s \in Streams |-> 0]

\* Mutant of Refill: the bucket has no size.
RefillWithoutCap ==
  /\ refilling
  /\ tokens' = tokens + RefillSize
  /\ meter' = IF meter > RefillSize THEN meter - RefillSize ELSE 0
  /\ UNCHANGED <<refilling, need>>

Refill ==
  /\ refilling
  /\ tokens' = Least(tokens + RefillSize, Limit)
  /\ meter' = IF meter > RefillSize THEN meter - RefillSize ELSE 0
  /\ UNCHANGED <<refilling, need>>

Stop ==
  /\ refilling' = FALSE
  /\ UNCHANGED <<tokens, need, meter>>

\* Wait(n) for a chunk of a transfer; it never exceeds the bucket, so the
\* outer loop of Wait has one round.
Enter(s) ==
  /\ need[s] = 0
  /\ \E n \in 1..Chunk : need' = [need EXCEPT ![s] = n]
  /\ UNCHANGED <<refilling, tokens, meter>>

\* A poll that finds enough tokens. Wait knows of no context.
Grant(s) ==
  /\ need[s] > 0 /\ tokens >= need[s]
  /\ tokens' = tokens - need[s]
  /\ meter' = meter + need[s]
  /\ need' = [need EXCEPT ![s] = 0]
  /\ UNCHANGED refilling
=============================================================================
