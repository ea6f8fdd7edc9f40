------------------------ MODULE RateLimiter_proofs ------------------------
(***************************************************************************)
(* The window bound of the limiter, for every limit, window and number of  *)
(* callers.  The deque only remembers the times that were read; the        *)
(* invariant lines it up with the history: its entries are the readings of *)
(* the last admissions, and every admission it has dropped is a window     *)
(* old, less what its caller lost before the lock.                         *)
(***************************************************************************)
EXTENDS RateLimiter, Lists_proofs, FiniteSetTheorems

USE LimitAssumption, WindowAssumption, DelayAssumption, ReadingAssumption

\* The prefix that a check drops exists.
LEMMA LeadingExists ==
  ASSUME NEW t \in Nat, events \in Seq(Nat)
  PROVE  /\ Leading(t) \in 0..Len(events)
         /\ \A i \in 1..Leading(t) : events[i] <= t - Window
         /\ Leading(t) < Len(events) => ~Stale(events[Leading(t) + 1], t)
<1> DEFINE T == {k \in 0..Len(events) : k < Len(events) => ~Stale(events[k + 1], t)}
<1>1. PICK k \in T : \A j \in T : k <= j
  <2>1. Len(events) \in T /\ T \in SUBSET Nat
    OBVIOUS
  <2>2. QED
    BY <2>1, LeastNat
<1>2. \A i \in 1..k : Stale(events[i], t)
  <2> SUFFICES ASSUME NEW i \in 1..k PROVE Stale(events[i], t)
    OBVIOUS
  <2>1. i - 1 \notin T
    <3>1. k \in Nat /\ ~(k <= i - 1)
      OBVIOUS
    <3> HIDE DEF T
    <3>2. QED
      BY <1>1, <3>1
  <2>2. i - 1 \in 0..Len(events) /\ (i - 1) + 1 = i
    BY <1>1
  <2>3. QED
    BY <2>1, <2>2
<1>3. \E j \in 0..Len(events) :
        /\ \A i \in 1..j : Stale(events[i], t)
        /\ j < Len(events) => ~Stale(events[j + 1], t)
  BY <1>1, <1>2
<1>4. /\ Leading(t) \in 0..Len(events)
      /\ \A i \in 1..Leading(t) : Stale(events[i], t)
      /\ Leading(t) < Len(events) => ~Stale(events[Leading(t) + 1], t)
  BY <1>3 DEF Leading
<1>5. QED
  BY <1>4 DEF Stale


LEMMA KeptFacts ==
  ASSUME NEW t \in Nat, events \in Seq(Nat)
  PROVE  /\ Kept(t) \in Seq(Nat)
         /\ Len(Kept(t)) = Len(events) - Leading(t)
         /\ Len(Kept(t)) <= Len(events)
         /\ \A j \in 1..Len(Kept(t)) : Kept(t)[j] = events[Leading(t) + j]
<1>1. Leading(t) \in 0..Len(events)
  BY LeadingExists
<1> DEFINE m == Leading(t) + 1
<1>2. m \in Int /\ Len(events) \in Int /\ \A i \in m..Len(events) : events[i] \in Nat
  BY <1>1
<1>3. /\ SubSeq(events, m, Len(events)) \in Seq(Nat)
      /\ Len(SubSeq(events, m, Len(events))) =
           IF m <= Len(events) THEN Len(events) - m + 1 ELSE 0
      /\ \A i \in 1..(Len(events) - m + 1) :
           SubSeq(events, m, Len(events))[i] = events[m + i - 1]
  BY <1>2, SubSeqProperties
<1> DEFINE kept == SubSeq(events, m, Len(events))
<1>4. Len(kept) = Len(events) - Leading(t)
  BY <1>1, <1>3
<1>5. \A j \in 1..Len(kept) : kept[j] = events[Leading(t) + j]
  <2> SUFFICES ASSUME NEW j \in 1..Len(kept) PROVE kept[j] = events[Leading(t) + j]
    OBVIOUS
  <2>1. j \in 1..(Len(events) - m + 1) /\ m + j - 1 = Leading(t) + j
    BY <1>1, <1>4
  <2>2. QED
    BY <1>3, <2>1
<1>6. Len(kept) <= Len(events)
  BY <1>1, <1>4
<1>7. QED
  BY <1>3, <1>4, <1>5, <1>6 DEF Kept

\* The deque never outgrows the limit, whatever the callers do.
THEOREM TypeCorrect == Spec => []TypeOK
<1>1. Init => TypeOK
  BY DEF Init, TypeOK
<1>2. ASSUME TypeOK, [Next]_vars PROVE TypeOK'
  <2>1. ASSUME NEW c \in Callers, ReadClock(c) PROVE TypeOK'
    BY <1>2, <2>1 DEF ReadClock, TypeOK
  <2>2. ASSUME NEW c \in Callers, Admit(c) PROVE TypeOK'
    <3>1. reading[c] \in Nat /\ events \in Seq(Nat)
      BY <1>2, <2>2 DEF Admit, TypeOK
    <3>2. /\ Kept(reading[c]) \in Seq(Nat)
          /\ Len(Kept(reading[c])) < Limit
      BY <2>2, <3>1, KeptFacts DEF Admit
    <3>3. events' \in Seq(Nat) /\ Len(events') <= Limit
      BY <2>2, <3>1, <3>2 DEF Admit
    <3>4. QED
      BY <1>2, <2>2, <3>3 DEF Admit, TypeOK
  <2>3. ASSUME NEW c \in Callers, Refuse(c) PROVE TypeOK'
    <3>1. reading[c] \in Nat /\ events \in Seq(Nat) /\ Len(events) <= Limit
      BY <1>2, <2>3 DEF Refuse, TypeOK
    <3>2. /\ Kept(reading[c]) \in Seq(Nat)
          /\ Len(Kept(reading[c])) <= Limit
          /\ Len(Kept(reading[c])) >= Limit
      <4>1. Len(Kept(reading[c])) >= Limit
        BY <2>3 DEF Refuse
      <4>2. /\ Kept(reading[c]) \in Seq(Nat)
            /\ Len(Kept(reading[c])) <= Len(events)
        BY <3>1, KeptFacts
      <4>3. Len(Kept(reading[c])) \in Nat /\ Len(events) \in Nat
        BY <3>1, <4>2
      <4>4. QED
        BY <3>1, <4>1, <4>2, <4>3
    <3>3. Kept(reading[c])[1] \in Nat
      BY <3>2
    <3>4. RetryAfter(Kept(reading[c])[1] + Window - reading[c]) \in Nat
      BY <3>1, <3>3 DEF RetryAfter
    <3> DEFINE back == now + Second * RetryAfter(Kept(reading[c])[1] + Window - reading[c])
    <3>5. now \in Nat /\ \A x \in Nat : now + Second * x \in Nat
      <4>1. \A x \in Nat : Second * x \in Nat
        OBVIOUS
      <4>2. now \in Nat
        BY <1>2 DEF TypeOK
      <4>3. \A y \in Nat : now + y \in Nat
        BY <4>2
      <4>4. QED
        BY <4>1, <4>2, <4>3, Zenon
    <3>6. back \in Nat
      BY <3>4, <3>5
    <3>7. [back |-> back, admissions |-> Len(log)] \in [back : Nat, admissions : Nat]
      BY <1>2, <3>6 DEF TypeOK
    <3> HIDE DEF back
    <3>8. \A d \in Callers : refused'[d] \subseteq [back : Nat, admissions : Nat]
      <4>1. refused' = [refused EXCEPT ![c] = {[back |-> back, admissions |-> Len(log)]}]
        BY <2>3 DEF Refuse, back
      <4>2. \A d \in Callers : refused'[d] = refused[d]
                            \/ refused'[d] = {[back |-> back, admissions |-> Len(log)]}
        BY <4>1
      <4>3. QED
        BY <1>2, <3>7, <4>2 DEF TypeOK
    <3>9. events' \in Seq(Nat) /\ Len(events') <= Limit
      BY <2>3, <3>2 DEF Refuse, Unrecorded
    <3>10. QED
      BY <1>2, <2>3, <3>8, <3>9 DEF Refuse, TypeOK
  <2>4. CASE Tick
    BY <1>2, <2>4 DEF Tick, TypeOK
  <2>5. CASE Restart
    BY <1>2, <2>5 DEF Restart, TypeOK
  <2>6. CASE UNCHANGED vars
    BY <1>2, <2>6 DEF vars, TypeOK
  <2>7. QED
    BY <1>2, <2>1, <2>2, <2>3, <2>4, <2>5, <2>6 DEF Next
<1>3. QED
  BY <1>1, <1>2, PTL DEF Spec

-----------------------------------------------------------------------------
\* How many admissions the deque has forgotten.
Dropped == Len(log) - Len(events)

ReadingsFresh ==
  \A c \in Callers : reading[c] # NoReading =>
    reading[c] <= now /\ now <= reading[c] + Delay

DequeRemembersLatest ==
  /\ Len(events) <= Len(log)
  /\ \A j \in DOMAIN events : log[Dropped + j] <= events[j] + Delay

DroppedAreOld == \A i \in 1..Dropped : log[i] + Window - Delay <= now

WindowInv == ReadingsFresh /\ DequeRemembersLatest /\ DroppedAreOld /\ WindowBound

\* What a check leaves in the deque still lines up with the history.
LEMMA AfterEviction ==
  ASSUME TypeOK, WindowInv, NEW c \in Callers, reading[c] # NoReading
  PROVE  LET t == reading[c]
             kept == Kept(t)
             dropped == Len(log) - Len(kept)
         IN /\ t \in Nat /\ t <= now /\ now <= t + Delay
            /\ kept \in Seq(Nat)
            /\ dropped \in Nat
            /\ \A j \in 1..Len(kept) : log[dropped + j] <= kept[j] + Delay
            /\ \A i \in 1..dropped : log[i] + Window - Delay <= now
<1> DEFINE t == reading[c]
           kept == Kept(t)
           dropped == Len(log) - Len(kept)
<1>1. /\ t \in Nat /\ now \in Nat /\ t <= now /\ now <= t + Delay
      /\ events \in Seq(Nat) /\ log \in Seq(Nat)
  BY DEF WindowInv, ReadingsFresh, TypeOK
<1>2. /\ Leading(t) \in 0..Len(events)
      /\ \A i \in 1..Leading(t) : events[i] <= t - Window
  BY <1>1, LeadingExists
<1>3. /\ kept \in Seq(Nat)
      /\ Len(kept) = Len(events) - Leading(t)
      /\ \A j \in 1..Len(kept) : kept[j] = events[Leading(t) + j]
  BY <1>1, KeptFacts
<1>4. /\ Len(events) <= Len(log)
      /\ \A j \in 1..Len(events) : log[Dropped + j] <= events[j] + Delay
      /\ \A i \in 1..Dropped : log[i] + Window - Delay <= now
  BY <1>1 DEF WindowInv, DequeRemembersLatest, DroppedAreOld
<1> HIDE DEF kept
<1>5. dropped = Dropped + Leading(t) /\ dropped \in Nat /\ Dropped \in Nat
  BY <1>1, <1>2, <1>3, <1>4 DEF Dropped
<1>6. \A j \in 1..Len(kept) : log[dropped + j] <= kept[j] + Delay
  <2> SUFFICES ASSUME NEW j \in 1..Len(kept) PROVE log[dropped + j] <= kept[j] + Delay
    OBVIOUS
  <2>1. Leading(t) + j \in 1..Len(events) /\ dropped + j = Dropped + (Leading(t) + j)
    <3> HIDE DEF dropped
    <3>1. Leading(t) \in Nat /\ j \in Nat /\ Len(events) \in Nat /\ 1 <= j /\ j <= Len(kept)
      BY <1>1, <1>2, <1>3
    <3>2. QED
      BY <1>3, <1>5, <3>1
  <2>2. log[Dropped + (Leading(t) + j)] <= events[Leading(t) + j] + Delay
    BY <1>4, <2>1
  <2>3. QED
    BY <1>3, <2>1, <2>2
<1>7. \A i \in 1..dropped : log[i] + Window - Delay <= now
  <2> SUFFICES ASSUME NEW i \in 1..dropped PROVE log[i] + Window - Delay <= now
    OBVIOUS
  <2>1. CASE i \in 1..Dropped
    BY <1>4, <2>1
  <2>2. CASE i > Dropped
    <3> DEFINE j == i - Dropped
    <3>1. j \in 1..Leading(t) /\ i = Dropped + j
      BY <1>2, <1>5, <2>2
    <3>2. j \in 1..Len(events) /\ i \in 1..Len(log)
      BY <1>1, <1>2, <1>4, <1>5, <3>1 DEF Dropped
    <3>3. log[i] <= events[j] + Delay /\ events[j] <= t - Window
      BY <1>2, <1>4, <3>1, <3>2
    <3> HIDE DEF j, t, dropped
    <3>4. log[i] \in Nat /\ events[j] \in Nat
      <4>1. log \in Seq(Nat) /\ events \in Seq(Nat)
        BY <1>1
      <4>2. QED
        BY ONLY <4>1, <3>2, ElementOfSeq
    <3>5. log[i] <= t - Window + Delay
      BY <1>1, <3>3, <3>4
    <3>6. QED
      BY <1>1, <3>4, <3>5
  <2>3. QED
    BY <1>5, <2>1, <2>2
<1>8. QED
  BY <1>1, <1>3, <1>5, <1>6, <1>7 DEF kept

LEMMA WindowStep == TypeOK /\ WindowInv /\ [Next]_vars => WindowInv'
<1> SUFFICES ASSUME TypeOK, WindowInv, [Next]_vars PROVE WindowInv'
  OBVIOUS
<1>0. now \in Nat /\ events \in Seq(Nat) /\ log \in Seq(Nat)
  BY DEF TypeOK
<1>1. ASSUME NEW c \in Callers, ReadClock(c) PROVE WindowInv'
  <2>1. ReadingsFresh'
    BY <1>0, <1>1 DEF ReadClock, WindowInv, ReadingsFresh, TypeOK
  <2>2. QED
    BY <1>1, <2>1 DEF ReadClock, WindowInv, DequeRemembersLatest, DroppedAreOld,
         Dropped, WindowBound
<1>2. ASSUME NEW c \in Callers, Admit(c) PROVE WindowInv'
  <2> DEFINE t == reading[c]
             kept == Kept(t)
             dropped == Len(log) - Len(kept)
  <2>1. /\ t \in Nat /\ t <= now /\ now <= t + Delay
        /\ kept \in Seq(Nat)
        /\ dropped \in Nat
        /\ \A j \in 1..Len(kept) : log[dropped + j] <= kept[j] + Delay
        /\ \A i \in 1..dropped : log[i] + Window - Delay <= now
    BY <1>2, AfterEviction DEF Admit
  <2>2. /\ Len(kept) < Limit
        /\ events' = Append(kept, t)
        /\ log' = Append(log, now)
        /\ now' = now
    BY <1>2 DEF Admit
  <2>3. ReadingsFresh'
    BY <1>2 DEF Admit, WindowInv, ReadingsFresh, TypeOK
  <2> HIDE DEF kept, t
  <2>4. /\ Len(events') = Len(kept) + 1 /\ Len(log') = Len(log) + 1
        /\ Len(kept) \in Nat /\ Len(log) \in Nat
        /\ \A j \in 1..Len(kept) : events'[j] = kept[j]
        /\ events'[Len(kept) + 1] = t
        /\ \A i \in 1..Len(log) : log'[i] = log[i] /\ log[i] \in Nat
        /\ log'[Len(log) + 1] = now
    BY <1>0, <2>1, <2>2
  <2>5. Dropped' = dropped /\ Len(log) = dropped + Len(kept)
    BY <2>1, <2>4 DEF Dropped
  <2> HIDE DEF dropped
  <2>6. DequeRemembersLatest'
    <3>1. Len(events') <= Len(log')
      BY <2>1, <2>4, <2>5
    <3>2. ASSUME NEW j \in 1..Len(events')
          PROVE  log'[dropped + j] <= events'[j] + Delay
      <4>1. CASE j \in 1..Len(kept)
        <5>1. dropped + j \in 1..Len(log)
          BY <2>1, <2>4, <2>5, <4>1
        <5>2. QED
          BY <2>1, <2>4, <4>1, <5>1
      <4>2. CASE j = Len(kept) + 1
        <5>1. dropped + j = Len(log) + 1
          BY <2>1, <2>4, <2>5, <4>2
        <5>2. QED
          BY <2>1, <2>4, <4>2, <5>1
      <4>3. QED
        BY <2>4, <4>1, <4>2
    <3>3. DOMAIN events' = 1..Len(events')
      BY <2>1, <2>2
    <3>4. QED
      BY <2>5, <3>1, <3>2, <3>3 DEF DequeRemembersLatest
  <2>7. DroppedAreOld'
    <3>1. \A i \in 1..dropped : i \in 1..Len(log)
      BY <2>1, <2>4, <2>5
    <3>2. QED
      BY <2>1, <2>2, <2>4, <2>5, <3>1 DEF DroppedAreOld
  <2>8. WindowBound'
    <3> SUFFICES ASSUME NEW i \in DOMAIN log', i + Limit \in DOMAIN log'
                 PROVE  log'[i + Limit] - log'[i] >= Window - Delay
      BY DEF WindowBound
    <3>1. DOMAIN log' = 1..(Len(log) + 1) /\ DOMAIN log = 1..Len(log)
      BY <1>0, <2>2
    <3>2. /\ i \in Nat /\ 1 <= i /\ i \in 1..Len(log)
          /\ i + Limit \in Nat /\ i + Limit <= Len(log) + 1
      BY <2>4, <3>1
    <3>3. CASE i + Limit <= Len(log)
      <4>1. i + Limit \in DOMAIN log /\ i \in DOMAIN log
        BY <3>1, <3>2, <3>3
      <4>2. log[i + Limit] - log[i] >= Window - Delay
        BY <4>1 DEF WindowInv, WindowBound
      <4>3. QED
        BY <2>4, <3>1, <4>1, <4>2
    <3>4. CASE i + Limit = Len(log) + 1
      <4>1. i \in 1..dropped
        BY <2>1, <2>2, <2>4, <2>5, <3>2, <3>4
      <4>2. log[i] + Window - Delay <= now
        BY <2>1, <4>1
      <4>3. log'[i] = log[i] /\ log[i] \in Nat /\ log'[i + Limit] = now
        BY <2>4, <3>2, <3>4
      <4>4. QED
        BY <1>0, <4>2, <4>3
    <3>5. QED
      BY <2>4, <3>2, <3>3, <3>4
  <2>9. QED
    BY <2>3, <2>6, <2>7, <2>8 DEF WindowInv
<1>3. ASSUME NEW c \in Callers, Refuse(c) PROVE WindowInv'
  <2> DEFINE t == reading[c]
             kept == Kept(t)
             dropped == Len(log) - Len(kept)
  <2>1. /\ kept \in Seq(Nat)
        /\ dropped \in Nat
        /\ \A j \in 1..Len(kept) : log[dropped + j] <= kept[j] + Delay
        /\ \A i \in 1..dropped : log[i] + Window - Delay <= now
    BY <1>3, AfterEviction DEF Refuse
  <2>2. events' = kept /\ log' = log /\ now' = now
    BY <1>3 DEF Refuse, Unrecorded
  <2>3. ReadingsFresh'
    BY <1>3 DEF Refuse, WindowInv, ReadingsFresh, TypeOK
  <2>4. WindowBound'
    BY <2>2 DEF WindowInv, WindowBound
  <2> HIDE DEF kept, t
  <2>5. Dropped' = dropped
    BY <2>2 DEF Dropped
  <2>6. DequeRemembersLatest'
    <3>1. Len(kept) <= Len(log) /\ DOMAIN kept = 1..Len(kept)
      BY <1>0, <2>1
    <3> HIDE DEF dropped
    <3>2. QED
      BY <2>1, <2>2, <2>5, <3>1 DEF DequeRemembersLatest
  <2> HIDE DEF dropped
  <2>7. DroppedAreOld'
    BY <2>1, <2>2, <2>5 DEF DroppedAreOld
  <2>8. QED
    BY <2>3, <2>4, <2>6, <2>7 DEF WindowInv
<1>4. CASE Tick
  <2>1. now' = now + 1 /\ UNCHANGED <<events, reading, log>>
    BY <1>4 DEF Tick
  <2>2. ReadingsFresh'
    BY <1>0, <1>4 DEF Tick, WindowInv, ReadingsFresh, TypeOK
  <2>3. DroppedAreOld'
    <3> SUFFICES ASSUME NEW i \in 1..Dropped PROVE log[i] + Window - Delay <= now + 1
      BY <2>1 DEF DroppedAreOld, Dropped
    <3>1. log[i] + Window - Delay <= now
      BY DEF WindowInv, DroppedAreOld
    <3>2. i \in 1..Len(log)
      BY <1>0 DEF Dropped
    <3>3. log[i] \in Nat
      BY <1>0, <3>2
    <3>4. QED
      BY <1>0, <3>1, <3>3
  <2>4. QED
    BY <2>1, <2>2, <2>3 DEF WindowInv, DequeRemembersLatest, Dropped, WindowBound
<1>5. CASE Restart
  BY <1>5 DEF Restart, WindowInv, ReadingsFresh, DequeRemembersLatest, DroppedAreOld,
     Dropped, WindowBound
<1>6. CASE UNCHANGED vars
  BY <1>6 DEF vars, WindowInv, ReadingsFresh, DequeRemembersLatest, DroppedAreOld,
     Dropped, WindowBound
<1>7. QED
  BY <1>1, <1>2, <1>3, <1>4, <1>5, <1>6 DEF Next

\* Any Limit + 1 admissions in a row span at least the window, less what a
\* caller can lose between the clock and the lock: on the event loop, where
\* that is nothing, the window itself.
THEOREM WindowIsBounded == Spec => []WindowBound
<1>1. Init => WindowInv
  BY DEF Init, WindowInv, ReadingsFresh, DequeRemembersLatest, DroppedAreOld, Dropped,
     WindowBound
<1>2. WindowInv => WindowBound
  BY DEF WindowInv
<1>3. QED
  BY <1>1, <1>2, WindowStep, TypeCorrect, PTL DEF Spec

\* Without that delay the limit holds exactly as the class states it.
THEOREM ExactOnEventLoop == ASSUME Delay = 0 PROVE Spec => []ExactWindow
<1>1. TypeOK /\ WindowBound => ExactWindow
  BY DEF WindowBound, ExactWindow, TypeOK
<1>2. QED
  BY <1>1, WindowIsBounded, TypeCorrect, PTL
-----------------------------------------------------------------------------
\* Recovery needs the other direction: an event is never later than the
\* admission it stands for, whatever was refused in between.
EventsPrecede == \A j \in DOMAIN events : events[j] <= log[Dropped + j]

\* What a check leaves in the deque still precedes its admissions.
LEMMA KeptPrecede ==
  ASSUME TypeOK, WindowInv, EventsPrecede, NEW t \in Nat
  PROVE  LET kept == Kept(t)
             dropped == Len(log) - Len(kept)
         IN /\ kept \in Seq(Nat)
            /\ dropped \in Nat
            /\ \A j \in 1..Len(kept) : kept[j] <= log[dropped + j]
<1> DEFINE kept == Kept(t)
           dropped == Len(log) - Len(kept)
<1>1. events \in Seq(Nat) /\ log \in Seq(Nat) /\ Len(events) <= Len(log)
  BY DEF TypeOK, WindowInv, DequeRemembersLatest
<1>2. Leading(t) \in 0..Len(events)
  BY <1>1, LeadingExists
<1>3. /\ kept \in Seq(Nat)
      /\ Len(kept) = Len(events) - Leading(t)
      /\ \A j \in 1..Len(kept) : kept[j] = events[Leading(t) + j]
  BY <1>1, KeptFacts
<1> HIDE DEF kept
<1>4. dropped = Dropped + Leading(t) /\ dropped \in Nat /\ Dropped \in Nat
  BY <1>1, <1>2, <1>3 DEF Dropped
<1>5. ASSUME NEW j \in 1..Len(kept) PROVE kept[j] <= log[dropped + j]
  <2>1. Leading(t) + j \in 1..Len(events) /\ dropped + j = Dropped + (Leading(t) + j)
    <3> HIDE DEF dropped
    <3>1. Leading(t) \in Nat /\ j \in Nat /\ Len(events) \in Nat /\ 1 <= j /\ j <= Len(kept)
      BY <1>1, <1>2, <1>3
    <3>2. QED
      BY <1>3, <1>4, <3>1
  <2>2. events[Leading(t) + j] <= log[Dropped + (Leading(t) + j)]
    BY <1>1, <2>1 DEF EventsPrecede
  <2>3. QED
    BY <1>3, <2>1, <2>2
<1>6. QED
  BY <1>3, <1>4, <1>5 DEF kept

LEMMA PrecedeStep ==
  TypeOK /\ WindowInv /\ EventsPrecede /\ [Next]_vars => EventsPrecede'
<1> SUFFICES ASSUME TypeOK, WindowInv, EventsPrecede, [Next]_vars PROVE EventsPrecede'
  OBVIOUS
<1>0. now \in Nat /\ events \in Seq(Nat) /\ log \in Seq(Nat)
  BY DEF TypeOK
<1>1. ASSUME NEW c \in Callers, ReadClock(c) PROVE EventsPrecede'
  BY <1>1 DEF ReadClock, EventsPrecede, Dropped
<1>2. ASSUME NEW c \in Callers, Admit(c) PROVE EventsPrecede'
  <2> DEFINE t == reading[c]
             kept == Kept(t)
             dropped == Len(log) - Len(kept)
  <2>1. t \in Nat /\ t <= now
    BY <1>2 DEF Admit, WindowInv, ReadingsFresh, TypeOK
  <2>2. /\ kept \in Seq(Nat)
        /\ dropped \in Nat
        /\ \A j \in 1..Len(kept) : kept[j] <= log[dropped + j]
    BY <2>1, KeptPrecede
  <2>3. events' = Append(kept, t) /\ log' = Append(log, now)
    BY <1>2 DEF Admit
  <2> HIDE DEF kept, t
  <2>4. /\ Len(events') = Len(kept) + 1 /\ Len(log') = Len(log) + 1
        /\ Len(kept) \in Nat /\ Len(log) \in Nat
        /\ \A j \in 1..Len(kept) : events'[j] = kept[j]
        /\ events'[Len(kept) + 1] = t
        /\ \A i \in 1..Len(log) : log'[i] = log[i]
        /\ log'[Len(log) + 1] = now
    BY <1>0, <2>1, <2>2, <2>3
  <2>5. Dropped' = dropped /\ Len(log) = dropped + Len(kept)
    BY <2>2, <2>4 DEF Dropped
  <2> HIDE DEF dropped
  <2>6. ASSUME NEW j \in 1..Len(events') PROVE events'[j] <= log'[dropped + j]
    <3>1. CASE j \in 1..Len(kept)
      <4>1. dropped + j \in 1..Len(log)
        BY <2>2, <2>4, <2>5, <3>1
      <4>2. QED
        BY <2>2, <2>4, <3>1, <4>1
    <3>2. CASE j = Len(kept) + 1
      <4>1. dropped + j = Len(log) + 1
        BY <2>2, <2>4, <2>5, <3>2
      <4>2. QED
        BY <2>1, <2>4, <3>2, <4>1
    <3>3. QED
      BY <2>4, <3>1, <3>2
  <2>7. DOMAIN events' = 1..Len(events')
    BY <2>1, <2>2, <2>3
  <2>8. QED
    BY <2>5, <2>6, <2>7 DEF EventsPrecede
<1>3. ASSUME NEW c \in Callers, Refuse(c) PROVE EventsPrecede'
  <2> DEFINE t == reading[c]
             kept == Kept(t)
  <2>1. t \in Nat
    BY <1>3 DEF Refuse, TypeOK
  <2>2. /\ kept \in Seq(Nat)
        /\ \A j \in 1..Len(kept) : kept[j] <= log[(Len(log) - Len(kept)) + j]
    BY <2>1, KeptPrecede
  <2>3. events' = kept /\ log' = log
    BY <1>3 DEF Refuse, Unrecorded
  <2> HIDE DEF kept
  <2>4. DOMAIN kept = 1..Len(kept)
    BY <2>2
  <2>5. QED
    BY <2>2, <2>3, <2>4 DEF EventsPrecede, Dropped
<1>4. CASE Tick
  BY <1>4 DEF Tick, EventsPrecede, Dropped
<1>5. CASE Restart
  BY <1>5 DEF Restart, EventsPrecede, Dropped
<1>6. CASE UNCHANGED vars
  BY <1>6 DEF vars, EventsPrecede, Dropped
<1>7. QED
  BY <1>1, <1>2, <1>3, <1>4, <1>5, <1>6 DEF Next

\* Once every admission is a window old, whatever is left in the deque is too:
\* a check now empties it.
LEMMA RoomAfterWindow == TypeOK /\ WindowInv /\ EventsPrecede => FloodRecovers
<1> SUFFICES ASSUME TypeOK, WindowInv, EventsPrecede,
                    \A i \in DOMAIN log : log[i] + Window <= now
             PROVE  Len(Kept(now)) < Limit
  BY DEF FloodRecovers
<1>1. /\ now \in Nat /\ events \in Seq(Nat) /\ log \in Seq(Nat)
      /\ Len(events) <= Len(log)
  BY DEF TypeOK, WindowInv, DequeRemembersLatest
<1>2. /\ Leading(now) \in 0..Len(events)
      /\ Len(Kept(now)) = Len(events) - Leading(now)
  BY <1>1, LeadingExists, KeptFacts
<1>3. Leading(now) < Len(events) => ~Stale(events[Leading(now) + 1], now)
  BY <1>1, LeadingExists
<1>4. ASSUME Leading(now) < Len(events) PROVE FALSE
  <2> DEFINE j == Leading(now) + 1
  <2>1. j \in 1..Len(events) /\ Dropped + j \in 1..Len(log)
    <3>1. Leading(now) \in Nat /\ Len(events) \in Nat /\ Len(log) \in Nat
      BY <1>1, <1>2
    <3>2. QED
      BY ONLY <1>1, <1>4, <3>1 DEF Dropped
  <2>2. events[j] <= log[Dropped + j] /\ log[Dropped + j] + Window <= now
    BY <1>1, <2>1 DEF EventsPrecede
  <2>3. events[j] \in Nat /\ log[Dropped + j] \in Nat
    <3> HIDE DEF j
    <3>1. QED
      BY <1>1, <2>1, ElementOfSeq
  <2>4. ~(events[j] <= now - Window)
    BY <1>3, <1>4 DEF Stale
  <2> HIDE DEF j
  <2>5. QED
    BY <1>1, <2>2, <2>3, <2>4
<1>5. QED
  BY <1>1, <1>2, <1>4

\* However many attempts were refused meanwhile, one window after the last
\* admission a check finds room.
THEOREM FloodsRecover == Spec => []FloodRecovers
<1>1. Init => WindowInv /\ EventsPrecede
  BY DEF Init, WindowInv, ReadingsFresh, DequeRemembersLatest, DroppedAreOld, Dropped,
     WindowBound, EventsPrecede
<1>2. QED
  BY <1>1, WindowStep, PrecedeStep, RoomAfterWindow, TypeCorrect, PTL DEF Spec
-----------------------------------------------------------------------------
\* As long as nobody was admitted since, a refusal names a time at which the
\* oldest event has left the window, unless there is room already.
RefusalInv ==
  \A c \in Callers : \A r \in refused[c] :
    /\ r.admissions <= Len(log)
    /\ r.admissions = Len(log) => Len(events) < Limit \/ events[1] + Window <= r.back

\* The rounding of Retry-After never sends a client back too early.
LEMMA RetryAfterCovers ==
  ASSUME NEW rest \in Nat
  PROVE  RetryAfter(rest) \in Nat /\ rest <= Second * RetryAfter(rest)
<1>1. rest \div Second \in Nat /\ rest < Second * (rest \div Second + 1)
  BY SMTT(30)
<1>2. RetryAfter(rest) = rest \div Second + 1
  BY <1>1 DEF RetryAfter
<1>3. Second * (rest \div Second + 1) \in Nat
  BY <1>1
<1>4. QED
  BY <1>1, <1>2, <1>3

\* A refusal drops nothing, and at its time the oldest event was in the window.
LEMMA RefusedWhenFull ==
  ASSUME TypeOK, NEW c \in Callers, Refuse(c)
  PROVE  /\ reading[c] \in Nat
         /\ Len(events) = Limit
         /\ events[1] \in Nat
         /\ Len(Kept(reading[c])) = Limit
         /\ Kept(reading[c])[1] = events[1]
         /\ events[1] + Window > reading[c]
<1> DEFINE t == reading[c]
<1>1. t \in Nat /\ events \in Seq(Nat) /\ Len(events) <= Limit /\ Len(Kept(t)) >= Limit
  BY DEF Refuse, TypeOK
<1> HIDE DEF t
<1>2. /\ Leading(t) \in 0..Len(events)
      /\ Leading(t) < Len(events) => ~Stale(events[Leading(t) + 1], t)
  BY <1>1, LeadingExists
<1>3. /\ Kept(t) \in Seq(Nat)
      /\ Len(Kept(t)) = Len(events) - Leading(t)
      /\ \A j \in 1..Len(Kept(t)) : Kept(t)[j] = events[Leading(t) + j]
  BY <1>1, KeptFacts
<1>4. Len(events) = Limit /\ Leading(t) = 0 /\ Len(Kept(t)) = Limit
  <2>1. Len(events) \in Nat /\ Leading(t) \in Nat
    BY <1>1, <1>2
  <2>2. QED
    BY <1>1, <1>3, <2>1
<1>5. 1 \in 1..Len(Kept(t)) /\ Kept(t)[1] = events[1]
  BY <1>3, <1>4
<1>6. events[1] \in Nat
  BY <1>1, <1>4
<1>7. ~Stale(events[1], t)
  BY <1>2, <1>4
<1>8. QED
  BY <1>1, <1>4, <1>5, <1>6, <1>7 DEF Stale, t

LEMMA RefusalStep == TypeOK /\ WindowInv /\ RefusalInv /\ [Next]_vars => RefusalInv'
<1> SUFFICES ASSUME TypeOK, WindowInv, RefusalInv, [Next]_vars PROVE RefusalInv'
  OBVIOUS
<1>1. ASSUME NEW c \in Callers, ReadClock(c) PROVE RefusalInv'
  BY <1>1 DEF ReadClock, RefusalInv
<1>2. ASSUME NEW c \in Callers, Admit(c) PROVE RefusalInv'
  <2>1. Len(log') = Len(log) + 1 /\ Len(log) \in Nat /\ refused' = refused
    BY <1>2 DEF Admit, TypeOK
  <2>2. ASSUME NEW d \in Callers, NEW r \in refused[d]
        PROVE  r.admissions \in Nat /\ r.admissions <= Len(log)
    BY <2>2 DEF TypeOK, RefusalInv
  <2>3. QED
    BY <2>1, <2>2 DEF RefusalInv
<1>3. ASSUME NEW c \in Callers, Refuse(c) PROVE RefusalInv'
  <2> DEFINE t == reading[c]
             kept == Kept(t)
             wait == Second * RetryAfter(kept[1] + Window - t)
             new == [back |-> now + wait, admissions |-> Len(log)]
  <2>1. /\ t \in Nat /\ Len(events) = Limit /\ events[1] \in Nat
        /\ Len(kept) = Limit /\ kept[1] = events[1]
        /\ events[1] + Window > t
    BY <1>3, RefusedWhenFull
  <2>2. events' = kept /\ log' = log
    BY <1>3 DEF Refuse, Unrecorded
  <2>3. \A d \in Callers : \A r \in refused'[d] : r \in refused[d] \/ r = new
    BY <1>3 DEF Refuse, TypeOK
  <2>4. events[1] + Window <= new.back
    <3>1. kept[1] + Window - t \in Nat
      BY <2>1
    <3>2. RetryAfter(kept[1] + Window - t) \in Nat /\ kept[1] + Window - t <= wait
      BY <3>1, RetryAfterCovers
    <3>3. wait \in Nat
      <4>1. \A x \in Nat : Second * x \in Nat
        OBVIOUS
      <4>2. QED
        BY <3>2, <4>1
    <3>4. t <= now /\ now \in Nat
      BY <1>3 DEF Refuse, WindowInv, ReadingsFresh, TypeOK
    <3> HIDE DEF wait, t, kept
    <3>5. QED
      BY <2>1, <3>2, <3>3, <3>4
  <2> HIDE DEF new, kept
  <2>5. ASSUME NEW d \in Callers, NEW r \in refused'[d]
        PROVE  /\ r.admissions <= Len(log')
               /\ r.admissions = Len(log') =>
                    Len(events') < Limit \/ events'[1] + Window <= r.back
    <3>1. CASE r \in refused[d]
      <4>1. /\ r.admissions <= Len(log)
            /\ r.admissions = Len(log) =>
                 Len(events) < Limit \/ events[1] + Window <= r.back
        BY <3>1 DEF RefusalInv
      <4>2. ~(Len(events) < Limit)
        BY <2>1
      <4>3. QED
        BY <2>1, <2>2, <4>1, <4>2
    <3>2. CASE r = new
      <4>1. r.admissions = Len(log) /\ Len(log) \in Nat
        BY <3>2 DEF new, TypeOK
      <4>2. QED
        BY <2>1, <2>2, <2>4, <3>2, <4>1
    <3>3. QED
      BY <2>3, <3>1, <3>2
  <2>6. QED
    BY <2>5 DEF RefusalInv
<1>4. CASE Tick
  BY <1>4 DEF Tick, RefusalInv
<1>5. CASE Restart
  BY <1>5 DEF Restart, RefusalInv
<1>6. CASE UNCHANGED vars
  BY <1>6 DEF vars, RefusalInv
<1>7. QED
  BY <1>1, <1>2, <1>3, <1>4, <1>5, <1>6 DEF Next

LEMMA RoomWhenBack == TypeOK /\ RefusalInv => RetryHonest
<1> SUFFICES ASSUME TypeOK, RefusalInv, NEW c \in Callers, NEW r \in refused[c],
                    now >= r.back, r.admissions = Len(log)
             PROVE  Len(Kept(now)) < Limit
  BY DEF RetryHonest
<1>1. /\ now \in Nat /\ events \in Seq(Nat) /\ Len(events) <= Limit
      /\ Len(events) \in Nat /\ r.back \in Nat
  BY DEF TypeOK
<1>2. /\ Leading(now) \in 0..Len(events)
      /\ Leading(now) < Len(events) => ~Stale(events[Leading(now) + 1], now)
      /\ Len(Kept(now)) = Len(events) - Leading(now)
  BY <1>1, LeadingExists, KeptFacts
<1>3. CASE Len(events) < Limit
  BY <1>1, <1>2, <1>3
<1>4. CASE Len(events) = Limit
  <2>1. events[1] + Window <= r.back /\ events[1] \in Nat
    BY <1>1, <1>4 DEF RefusalInv
  <2>2. Stale(events[1], now)
    BY <1>1, <2>1 DEF Stale
  <2>3. Leading(now) # 0
    BY <1>2, <1>4, <2>2
  <2>4. QED
    BY <1>1, <1>2, <1>4, <2>3
<1>5. QED
  BY <1>1, <1>3, <1>4

\* A client that comes back when Retry-After says finds room, unless somebody
\* else was admitted: whatever the fraction that is rounded away, and although
\* the clock was read before the lock.
THEOREM RetriesAreHonest == Spec => []RetryHonest
<1>1. Init => WindowInv /\ RefusalInv
  BY DEF Init, WindowInv, ReadingsFresh, DequeRemembersLatest, DroppedAreOld, Dropped,
     WindowBound, RefusalInv
<1>2. QED
  BY <1>1, WindowStep, RefusalStep, RoomWhenBack, TypeCorrect, PTL DEF Spec
-----------------------------------------------------------------------------
(***************************************************************************)
(* On the event loop the deque is the window: what it keeps are the last   *)
(* admissions, in order, and what it drops has left the window.            *)
(***************************************************************************)
Ascending ==
  /\ \A i \in DOMAIN log : log[i] <= now
  /\ \A i, j \in DOMAIN log : i <= j => log[i] <= log[j]

LEMMA AscendingStep == TypeOK /\ Ascending /\ [Next]_vars => Ascending'
<1> SUFFICES ASSUME TypeOK, Ascending, [Next]_vars PROVE Ascending'
  OBVIOUS
<1>0. now \in Nat /\ log \in Seq(Nat)
  BY DEF TypeOK
<1>1. CASE UNCHANGED <<now, log>>
  BY <1>1 DEF Ascending
<1>2. ASSUME NEW c \in Callers, Admit(c) PROVE Ascending'
  <2> DEFINE n == Len(log)
  <2>1. log' = Append(log, now) /\ now' = now
    BY <1>2 DEF Admit
  <2>2. /\ n \in Nat /\ DOMAIN log = 1..n /\ DOMAIN log' = 1..(n + 1)
        /\ \A i \in 1..n : log'[i] = log[i] /\ log[i] \in Nat
        /\ log'[n + 1] = now
    BY <1>0, <2>1
  <2> HIDE DEF n
  <2>3. \A i \in DOMAIN log' : log'[i] <= now
    BY <1>0, <2>2 DEF Ascending
  <2>4. ASSUME NEW i \in DOMAIN log', NEW j \in DOMAIN log', i <= j
        PROVE  log'[i] <= log'[j]
    <3>1. CASE j \in 1..n
      BY <2>2, <2>4, <3>1 DEF Ascending
    <3>2. CASE j = n + 1
      BY <2>2, <2>3, <3>2
    <3>3. QED
      BY <2>2, <3>1, <3>2
  <2>5. QED
    BY <2>1, <2>3, <2>4 DEF Ascending
<1>3. CASE Tick
  <2>1. \A i \in DOMAIN log : log[i] \in Nat
    BY <1>0
  <2>2. QED
    BY <1>0, <1>3, <2>1 DEF Tick, Ascending
<1>4. CASE Restart
  BY <1>4 DEF Restart, Ascending
<1>5. QED
  BY <1>1, <1>2, <1>3, <1>4 DEF Next, vars, ReadClock, Refuse

\* The rounding of Retry-After adds a second at most, and its result is never 0.
LEMMA RetryAfterBounds ==
  ASSUME NEW rest \in Nat
  PROVE  LET wait == Second * RetryAfter(rest) IN
         wait \in Nat /\ Second <= wait /\ wait <= rest + Second
<1> DEFINE q == rest \div Second
<1>1. q \in Nat /\ Second * q <= rest
  BY SMTT(30)
<1>2. RetryAfter(rest) = q + 1
  BY <1>1 DEF RetryAfter
<1> HIDE DEF q
<1>3. Second * (q + 1) = Second * q + Second /\ Second * q \in Nat
  BY <1>1, SMTT(30)
<1>4. QED
  BY <1>1, <1>2, <1>3

LEMMA WaitOffered ==
  ASSUME TypeOK, WindowInv, EventsPrecede, Ascending, NEW c \in Callers, Refuse(c),
         NEW d \in Callers, NEW r \in refused'[d] \ refused[d]
  PROVE  now + Second <= r.back /\ r.back <= now + Window + Delay + Second
<1> DEFINE t == reading[c]
           rest == Kept(t)[1] + Window - t
           wait == Second * RetryAfter(rest)
<1>1. /\ t \in Nat /\ Len(events) = Limit /\ events[1] \in Nat
      /\ Kept(t)[1] = events[1]
      /\ events[1] + Window > t
  BY RefusedWhenFull
<1>2. t <= now /\ now <= t + Delay /\ now \in Nat
  BY <1>1 DEF WindowInv, ReadingsFresh, TypeOK, Refuse
<1>3. events[1] <= now
  <2>1. 1 \in DOMAIN events /\ Dropped + 1 \in DOMAIN log
    BY <1>1 DEF WindowInv, DequeRemembersLatest, Dropped, TypeOK
  <2>2. events[1] <= log[Dropped + 1] /\ log[Dropped + 1] <= now
    BY <2>1 DEF EventsPrecede, Ascending
  <2>3. log[Dropped + 1] \in Nat
    BY <2>1 DEF TypeOK
  <2>4. QED
    BY <1>1, <1>2, <2>2, <2>3
<1>4. r.back = now + wait
  BY DEF Refuse, TypeOK
<1>5. rest \in Nat /\ rest <= Window + Delay
  BY <1>1, <1>2, <1>3
<1>6. wait \in Nat /\ Second <= wait /\ wait <= rest + Second
  BY <1>5, RetryAfterBounds
<1> HIDE DEF rest, wait
<1>7. QED
  BY <1>2, <1>4, <1>5, <1>6

\* A refused caller is sent away for a second at least, and for no longer than the
\* window, its own delay and a second: a flood makes nobody wait any longer.
THEOREM WaitsAreBounded == Spec => WaitsBounded
<1>1. Init => WindowInv /\ EventsPrecede /\ Ascending
  BY DEF Init, WindowInv, ReadingsFresh, DequeRemembersLatest, DroppedAreOld, Dropped,
     WindowBound, EventsPrecede, Ascending
<1> DEFINE Offers == \A c \in Callers : \A r \in refused'[c] \ refused[c] :
             now + Second <= r.back /\ r.back <= now + Window + Delay + Second
<1>2. TypeOK /\ WindowInv /\ EventsPrecede /\ Ascending /\ [Next]_vars => [Offers]_vars
  <2> SUFFICES ASSUME TypeOK, WindowInv, EventsPrecede, Ascending, Next PROVE Offers
    BY DEF vars
  <2>1. ASSUME NEW c \in Callers, Refuse(c) PROVE Offers
    BY <2>1, WaitOffered
  <2>2. CASE \A c \in Callers : refused'[c] \subseteq refused[c]
    BY <2>2
  <2> HIDE DEF Offers
  <2>3. QED
    BY <2>1, <2>2 DEF Next, ReadClock, Admit, Tick, Restart
<1>3. QED
  BY <1>1, <1>2, WindowStep, PrecedeStep, AscendingStep, TypeCorrect, PTL
     DEF Spec, WaitsBounded

\* RollingWindow counts with the Cardinality it brings along.
LEMMA SameCardinality == \A S : RW!Cardinality(S) = Cardinality(S)
  BY Zenon DEF RW!Cardinality, Cardinality

\* A check that is not delayed sees exactly the admissions of the window.
LEMMA DequeIsWindow ==
  ASSUME Delay = 0, TypeOK, WindowInv, EventsPrecede, Ascending,
         NEW c \in Callers, reading[c] # NoReading
  PROVE  reading[c] = now /\ Cardinality(RW!InWindow) = Len(Kept(now))
<1> DEFINE kept == Kept(now)
           dropped == Len(log) - Len(kept)
<1>1. /\ now \in Nat /\ reading[c] = now /\ events \in Seq(Nat)
      /\ log \in Seq(Nat) /\ Len(log) \in Nat /\ DOMAIN log = 1..Len(log)
  BY DEF TypeOK, WindowInv, ReadingsFresh
<1>2. /\ kept \in Seq(Nat) /\ Len(kept) \in Nat /\ dropped \in Nat
      /\ \A j \in 1..Len(kept) : kept[j] <= log[dropped + j]
      /\ \A i \in 1..dropped : log[i] + Window - Delay <= now
  <2>1. /\ kept \in Seq(Nat) /\ dropped \in Nat
        /\ \A j \in 1..Len(kept) : kept[j] <= log[dropped + j]
    BY <1>1, KeptPrecede
  <2>2. \A i \in 1..dropped : log[i] + Window - Delay <= now
    BY <1>1, AfterEviction
  <2> HIDE DEF kept, dropped
  <2>3. QED
    BY <2>1, <2>2
<1>3. Len(kept) > 0 => log[dropped + 1] + Window > now
  <2> SUFFICES ASSUME Len(kept) > 0 PROVE log[dropped + 1] + Window > now
    OBVIOUS
  <2>1. /\ Leading(now) \in 0..Len(events)
        /\ Leading(now) < Len(events) => ~Stale(events[Leading(now) + 1], now)
        /\ Len(kept) = Len(events) - Leading(now)
        /\ \A j \in 1..Len(kept) : kept[j] = events[Leading(now) + j]
    BY <1>1, LeadingExists, KeptFacts
  <2>2. ~Stale(kept[1], now)
    <3>1. 1 \in 1..Len(kept) /\ Leading(now) < Len(events)
      BY <1>1, <1>2, <2>1
    <3>2. QED
      BY <2>1, <3>1
  <2> HIDE DEF kept, dropped
  <2>3. kept[1] \in Nat /\ kept[1] <= log[dropped + 1]
    BY <1>2
  <2>4. dropped + 1 \in 1..Len(log)
    BY <1>1, <1>2 DEF dropped
  <2>5. log[dropped + 1] \in Nat
    BY <1>1, <2>4, ElementOfSeq
  <2>6. QED
    BY <1>1, <2>2, <2>3, <2>5 DEF Stale
<1> HIDE DEF kept
<1>4. Len(log) = dropped + Len(kept)
  BY <1>1, <1>2
<1> HIDE DEF dropped
<1>5. RW!InWindow = (dropped + 1)..Len(log)
  <2>1. ASSUME NEW i \in RW!InWindow PROVE i \in (dropped + 1)..Len(log)
    <3>1. i \in 1..Len(log) /\ log[i] + Window > now
      BY <1>1, <2>1 DEF RW!InWindow
    <3>2. log[i] \in Nat
      BY <1>1, <3>1, ElementOfSeq
    <3>3. i \notin 1..dropped
      BY <1>1, <1>2, <3>1, <3>2
    <3>4. QED
      BY <1>2, <3>1, <3>3
  <2>2. ASSUME NEW i \in (dropped + 1)..Len(log) PROVE i \in RW!InWindow
    <3>1. i \in 1..Len(log) /\ dropped + 1 \in 1..Len(log) /\ dropped + 1 <= i
      BY <1>1, <1>2, <2>2
    <3>2. Len(kept) > 0
      BY <1>2, <1>4, <2>2
    <3>3. log[dropped + 1] <= log[i] /\ log[i] \in Nat /\ log[dropped + 1] \in Nat
      BY <1>1, <3>1, ElementOfSeq DEF Ascending
    <3>4. log[i] + Window > now
      BY <1>1, <1>3, <3>2, <3>3
    <3>5. QED
      BY <1>1, <3>1, <3>4 DEF RW!InWindow
  <2>3. QED
    BY <2>1, <2>2
<1>6. Cardinality(RW!InWindow) = Len(log) - dropped
  <2> DEFINE first == dropped + 1
  <2>1. first \in Int /\ Len(log) \in Int
    BY <1>1, <1>2
  <2> HIDE DEF first
  <2>2. Cardinality(first..Len(log)) =
          IF first > Len(log) THEN 0 ELSE Len(log) - first + 1
    BY <2>1, FS_Interval
  <2> USE DEF first
  <2>3. QED
    BY <1>1, <1>2, <1>4, <1>5, <2>2
<1>7. QED
  BY <1>1, <1>2, <1>4, <1>6 DEF kept

LEMMA RollingStep ==
  ASSUME Delay = 0, TypeOK, WindowInv, EventsPrecede, Ascending, [Next]_vars
  PROVE  [RW!Next]_<<now, log, refused>>
<1>1. ASSUME NEW c \in Callers, ReadClock(c) PROVE UNCHANGED <<now, log, refused>>
  BY <1>1 DEF ReadClock
<1>2. ASSUME NEW c \in Callers, Admit(c) PROVE RW!Admit
  <2>1. Cardinality(RW!InWindow) < Limit
    BY <1>2, DequeIsWindow DEF Admit
  <2>2. QED
    BY <1>2, <2>1, SameCardinality DEF Admit, RW!Admit
<1>3. ASSUME NEW c \in Callers, Refuse(c)
      PROVE  RW!Refuse \/ UNCHANGED <<now, log, refused>>
  <2>1. Cardinality(RW!InWindow) >= Limit
    BY <1>3, DequeIsWindow DEF Refuse
  <2>2. QED
    BY <1>3, <2>1, SameCardinality DEF Refuse, RW!Refuse
<1>4. CASE Tick
  BY <1>4 DEF Tick, RW!TimePasses, RW!Next, TypeOK
<1>5. CASE Restart
  BY <1>5 DEF Restart, RW!Forget, RW!Next
<1>6. CASE UNCHANGED vars
  BY <1>6 DEF vars
<1>7. QED
  BY <1>1, <1>2, <1>3, <1>4, <1>5, <1>6 DEF Next, RW!Next

\* On the event loop the limiter, which trims a deque from the front, is the
\* rolling window: it admits exactly when fewer than Limit admissions are in it.
THEOREM Refinement == ASSUME Delay = 0 PROVE Spec => ImplementsRollingWindow
<1> DEFINE Inv == WindowInv /\ EventsPrecede /\ Ascending
<1>1. Init => Inv /\ RW!Init
  BY DEF Init, WindowInv, ReadingsFresh, DequeRemembersLatest, DroppedAreOld, Dropped,
     WindowBound, EventsPrecede, Ascending, RW!Init
<1>2. TypeOK /\ Inv /\ [Next]_vars => Inv'
  BY WindowStep, PrecedeStep, AscendingStep
<1>3. TypeOK /\ Inv /\ [Next]_vars => [RW!Next]_<<now, log, refused>>
  BY RollingStep
<1> HIDE DEF Inv
<1>4. QED
  BY <1>1, <1>2, <1>3, TypeCorrect, PTL DEF Spec, RW!Spec, ImplementsRollingWindow
=============================================================================
