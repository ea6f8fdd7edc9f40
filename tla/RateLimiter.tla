---------------------------- MODULE RateLimiter ----------------------------
(***************************************************************************)
(* GlobalRateLimiter (oauth/ratelimit.py), the process-wide ceiling of     *)
(* POST /oauth/register.  check() reads the clock and then takes the lock; *)
(* a caller may lose up to Delay between the two.  On the event loop,      *)
(* which is where dcr.py calls it, Delay is 0; the class promises to be    *)
(* safe for threads, where it is not.  The limiter lives in the process: a *)
(* restart forgets what it has seen.                                       *)
(*                                                                         *)
(* Time is counted in ticks, Second of them to a second: the clock is a    *)
(* float and its fraction matters to the rounding of Retry-After.          *)
(***************************************************************************)
EXTENDS Integers, Sequences

CONSTANTS
  Callers,
  Limit,       \* limit
  Window,      \* window_seconds, in ticks
  Second,
  Delay,       \* longest time between reading the clock and taking the lock
  NoReading,
  MaxTime      \* bound on the clock

ASSUME LimitAssumption  == Limit \in Nat \ {0}
ASSUME WindowAssumption == Window \in Nat \ {0} /\ Second \in Nat \ {0}
ASSUME DelayAssumption  == Delay \in Nat /\ MaxTime \in Nat
ASSUME ReadingAssumption == NoReading \notin Nat

VARIABLES
  now,
  events,    \* _events
  reading,   \* the time a caller inside check() has read, before the lock
  log,       \* history: when this process admitted an attempt, in order
  refused    \* history: the last refusal of each caller by this process

vars == <<now, events, reading, log, refused>>

Init ==
  /\ now = 0
  /\ events = <<>>
  /\ reading = [c \in Callers |-> NoReading]
  /\ log = <<>>
  /\ refused = [c \in Callers |-> {}]

ReadClock(c) ==
  /\ reading[c] = NoReading
  /\ reading' = [reading EXCEPT ![c] = now]
  /\ UNCHANGED <<now, events, log, refused>>

Stale_WrongSign(event, t) == event <= t + Window    \* mutant: empties the bucket
Stale_SlowClock(event, t) == event < t - Window     \* mutant: < for <=
Stale(event, t) == event <= t - Window

\* The number of leading events that a check at time t drops.
Leading(t) ==
  CHOOSE k \in 0..Len(events) :
    /\ \A i \in 1..k : Stale(events[i], t)
    /\ k < Len(events) => ~Stale(events[k + 1], t)

Kept(t) == SubSeq(events, Leading(t) + 1, Len(events))

RetryAfter_Truncated(rest) == rest \div Second     \* mutant: the fraction is lost
RetryAfter(rest) == LET s == rest \div Second + 1 IN IF s < 1 THEN 1 ELSE s

Admit(c) ==
  /\ reading[c] # NoReading
  /\ Len(Kept(reading[c])) < Limit
  /\ events' = Append(Kept(reading[c]), reading[c])
  /\ reading' = [reading EXCEPT ![c] = NoReading]
  /\ log' = Append(log, now)
  /\ UNCHANGED <<now, refused>>

Unrecorded_Recorded(kept, t) == Append(kept, t)    \* mutant: a refusal counts
Unrecorded(kept, t) == kept

\* The caller is told when to come back: 429 with Retry-After.
Refuse(c) ==
  LET t == reading[c] IN
  /\ t # NoReading
  /\ Len(Kept(t)) >= Limit
  /\ events' = Unrecorded(Kept(t), t)
  /\ reading' = [reading EXCEPT ![c] = NoReading]
  /\ refused' = [refused EXCEPT ![c] =
       {[back |-> now + Second * RetryAfter(Kept(t)[1] + Window - t),
         admissions |-> Len(log)]}]
  /\ UNCHANGED <<now, log>>

Tick ==
  /\ now < MaxTime
  /\ \A c \in Callers : reading[c] # NoReading => now < reading[c] + Delay
  /\ now' = now + 1
  /\ UNCHANGED <<events, reading, log, refused>>

Restart ==
  /\ events' = <<>>
  /\ reading' = [c \in Callers |-> NoReading]
  /\ log' = <<>>
  /\ refused' = [c \in Callers |-> {}]
  /\ UNCHANGED now

Next ==
  \/ \E c \in Callers : ReadClock(c) \/ Admit(c) \/ Refuse(c)
  \/ Tick
  \/ Restart

Spec == Init /\ [][Next]_vars

-----------------------------------------------------------------------------
(***************************************************************************)
(* Properties                                                              *)
(***************************************************************************)

TypeOK ==
  /\ now \in Nat
  /\ events \in Seq(Nat)
  /\ Len(events) <= Limit
  /\ reading \in [Callers -> Nat \union {NoReading}]
  /\ log \in Seq(Nat)
  /\ \A c \in Callers : refused[c] \subseteq [back : Nat, admissions : Nat]

\* No stretch shorter than the window (less what a caller can lose before the
\* lock) holds more than Limit admissions.
WindowBound ==
  \A i \in DOMAIN log :
    i + Limit \in DOMAIN log => log[i + Limit] - log[i] >= Window - Delay

\* The limit as the class states it, whatever callers lose before the lock.
ExactWindow ==
  \A i \in DOMAIN log :
    i + Limit \in DOMAIN log => log[i + Limit] - log[i] >= Window

\* Retry-After is honest: a client that waits that long, while nobody else is
\* admitted, is not refused again.
RetryHonest ==
  \A c \in Callers : \A r \in refused[c] :
    now >= r.back /\ r.admissions = Len(log) => Len(Kept(now)) < Limit

\* Nobody is sent away for less than a second, nor for longer than the window,
\* what the caller lost before the lock and the second the rounding adds.
WaitsBounded ==
  [][\A c \in Callers : \A r \in refused'[c] \ refused[c] :
       now + Second <= r.back /\ r.back <= now + Window + Delay + Second]_vars

\* A flood of refused attempts cannot postpone recovery: one window after the
\* last admission there is room again.
FloodRecovers ==
  (\A i \in DOMAIN log : log[i] + Window <= now) => Len(Kept(now)) < Limit

\* The limiter counts a deque it trims from the front; the window it promises
\* counts every admission by its time.
RW == INSTANCE RollingWindow
ImplementsRollingWindow == RW!Spec
=============================================================================
