---------------------------- MODULE TokenBucket ----------------------------
(***************************************************************************)
(* The per-connection rate limiter (apps/signaling/src/rate-limiter.ts).   *)
(* Tokens are counted in units of 1/Unit: with Unit = 1000 and time in     *)
(* milliseconds the refill of a millisecond is messagesPerSecond units, so *)
(* the code's fractional tokens are exact integers here (the rounding of   *)
(* its doubles is left out).  The clock is Date.now(): it runs with the    *)
(* time, and an adjustment may set it to anything, back included, while no *)
(* time passes.                                                            *)
(*                                                                         *)
(* An observer opens a window at any call, counts what is accepted, and    *)
(* measures the time that really passes beside what the clock says.        *)
(***************************************************************************)
EXTENDS Integers

CONSTANTS
  Unit,      \* units in a token
  Rate,      \* units refilled in a millisecond
  Burst,     \* config.burst
  MaxTime    \* bound on the clock, on the length of a window, and on
             \* how far the clock is set back in it

ASSUME BucketAssumption ==
  /\ Unit \in Nat \ {0} /\ Rate \in Nat \ {0} /\ Burst \in Nat \ {0}
  /\ MaxTime \in Nat

VARIABLES
  now,          \* Date.now()
  tokens,       \* #tokens, in units
  lastRefill,   \* #lastRefill
  answer,       \* what the last tryConsume returned
  winStart,     \* observer: lastRefill when the window was opened
  winCount,     \* observer: messages accepted in the window
  passed,       \* observer: time passed since the window was opened
  waited,       \* observer: passed at the last call
  setBack       \* observer: how far the clock was behind lastRefill when the
                \* window was opened, and how far it was set back since

tbVars == <<now, tokens, lastRefill, answer, winStart, winCount, passed, waited, setBack>>

Capacity == Burst * Unit

TBTypeOK ==
  /\ now \in 0 .. MaxTime
  /\ tokens \in 0 .. Capacity
  /\ lastRefill \in 0 .. MaxTime
  /\ answer \in BOOLEAN
  /\ winStart \in 0 .. lastRefill
  /\ winCount \in Nat
  /\ passed \in 0 .. MaxTime /\ waited \in 0 .. passed /\ setBack \in 0 .. MaxTime

TBInit ==
  /\ now \in 0 .. MaxTime
  /\ tokens = Capacity
  /\ lastRefill = now
  /\ answer = TRUE
  /\ winStart = lastRefill
  /\ winCount = 0
  /\ passed = 0 /\ waited = 0 /\ setBack = 0

\* Faulty variant: only whole tokens are added, the fraction is lost.
RefilledWholeTokens(t) ==
  LET level == tokens + (((t - lastRefill) * Rate) \div Unit) * Unit IN
  IF t <= lastRefill THEN tokens ELSE IF level < Capacity THEN level ELSE Capacity

\* What #tokens is once the time since the last refill has been credited.
Refilled(t) ==
  LET level == tokens + (t - lastRefill) * Rate IN
  IF t <= lastRefill THEN tokens ELSE IF level < Capacity THEN level ELSE Capacity

\* Faulty variant: a clock that was set back moves the last refill back too.
RefillTimeFollowsClock(t) == t

RefillTime(t) == IF t > lastRefill THEN t ELSE lastRefill

(***************************************************************************)
(* tryConsume at time t.  A refused call keeps what was refilled.          *)
(***************************************************************************)
TryConsume(t) ==
  LET granted == Refilled(t) >= Unit IN
  /\ lastRefill' = RefillTime(t)
  /\ answer' = granted
  /\ tokens' = IF granted THEN Refilled(t) - Unit ELSE Refilled(t)

Call(opensWindow) ==
  /\ TryConsume(now)
  /\ winStart' = IF opensWindow THEN lastRefill' ELSE winStart
  /\ winCount' = (IF opensWindow THEN 0 ELSE winCount) + (IF answer' THEN 1 ELSE 0)
  /\ passed' = IF opensWindow THEN 0 ELSE passed
  /\ waited' = passed'
  /\ setBack' = IF opensWindow THEN lastRefill' - now ELSE setBack
  /\ UNCHANGED now

TimePasses ==
  /\ now < MaxTime /\ passed < MaxTime
  /\ now' = now + 1 /\ passed' = passed + 1
  /\ UNCHANGED <<tokens, lastRefill, answer, winStart, winCount, waited, setBack>>

SetClock(t) ==
  /\ now' = t
  /\ setBack' = setBack + (IF t < now THEN now - t ELSE 0)
  /\ setBack' <= MaxTime
  /\ UNCHANGED <<tokens, lastRefill, answer, winStart, winCount, passed, waited>>

TBNext ==
  \/ \E opensWindow \in BOOLEAN : Call(opensWindow)
  \/ TimePasses
  \/ \E t \in 0 .. MaxTime : SetClock(t)

TBSpec == TBInit /\ [][TBNext]_tbVars
-----------------------------------------------------------------------------
(***************************************************************************)
(* Over any window a connection gets at most its burst plus the steady     *)
(* rate, wherever the window starts and however the clock is set meanwhile:*)
(* no pattern of calls makes the bucket pay a refill twice.  The tokens    *)
(* still in the bucket count as spent, so the bound can never be passed    *)
(* later either.                                                           *)
(***************************************************************************)
AllowanceBound ==
  winCount * Unit + tokens <= Capacity + (lastRefill - winStart) * Rate

(***************************************************************************)
(* Nobody is starved: a client that was accepted nothing between two calls *)
(* has waited, in time that really passed, less than one token takes.      *)
(* Calls that are refused keep what was refilled, so a client that keeps   *)
(* trying is let through as soon as one that waits.  A clock that is set   *)
(* back earns nothing until it is past lastRefill again: an empty bucket   *)
(* then refuses for that much longer, and no more.                         *)
(***************************************************************************)
NotStarved == winCount = 0 => (waited - setBack) * Rate < Unit
=============================================================================
