----------------------- MODULE OfflineServer_proofs -----------------------
(***************************************************************************)
(* Proofs about OfflineServer, for any hosts, flags, users, limits and     *)
(* numbers of restarts.  The server is a limiter with more around it, so   *)
(* what is proved of RateLimiter holds here; ServerInv adds what the       *)
(* chain of sessions, clients and requests rests on.                       *)
(***************************************************************************)
EXTENDS OfflineServer, RateLimiter_proofs, FiniteSetTheorems

\* Division by a window, here because its length is a parameter.
LEMMA DivFacts ==
  ASSUME NEW W \in Nat \ {0}, NEW a \in Nat
  PROVE  /\ a \div W \in Nat
         /\ a % W \in 0..(W - 1)
         /\ a = W * (a \div W) + (a % W)
  OBVIOUS

LEMMA QuotientOrder ==
  ASSUME NEW W \in Nat \ {0}, NEW p \in Nat, NEW q \in Nat, NEW r \in 0..(W - 1),
         NEW s \in 0..(W - 1), W * q + s >= W * p + r
  PROVE  q >= p
<1> SUFFICES ASSUME q + 1 <= p PROVE FALSE
  OBVIOUS
<1>1. W * (q + 1) <= W * p
  OBVIOUS
<1>2. W * (q + 1) = W * q + W
  OBVIOUS
<1>3. W * q \in Nat /\ W * p \in Nat
  OBVIOUS
<1>4. QED
  BY <1>1, <1>2, <1>3

LEMMA QuotientMonotone ==
  ASSUME NEW W \in Nat \ {0}, NEW a \in Nat, NEW b \in Nat, a <= b
  PROVE  a \div W <= b \div W
<1>1. /\ a \div W \in Nat /\ b \div W \in Nat
      /\ a % W \in 0..(W - 1) /\ b % W \in 0..(W - 1)
      /\ a = W * (a \div W) + (a % W)
      /\ b = W * (b \div W) + (b % W)
  BY DivFacts
<1>2. W * (b \div W) + (b % W) >= W * (a \div W) + (a % W)
  BY ONLY <1>1, a <= b
<1>3. QED
  BY ONLY <1>1, <1>2, QuotientOrder, W \in Nat \ {0}

LEMMA WindowsApart ==
  ASSUME NEW W \in Nat \ {0}, NEW a \in Nat, NEW b \in Nat, b >= a + W
  PROVE  b \div W >= a \div W + 1
<1>1. (a + W) \div W = a \div W + 1
  <2>1. /\ a \div W \in Nat /\ a % W \in 0..(W - 1)
        /\ a = W * (a \div W) + (a % W)
    BY DivFacts
  <2>2. a + W = W * (a \div W + 1) + (a % W)
    BY <2>1
  <2>3. QED
    BY <2>1, <2>2
<1>2. QED
  BY <1>1, QuotientMonotone
-----------------------------------------------------------------------------
USE CliAssumption, HostsAssumption, BoundsAssumption, CallersAssumption,
    StartedAssumption

-----------------------------------------------------------------------------
LEMMA LimiterStepTaken == [ONext]_allVars => [Next]_vars
<1> SUFFICES ASSUME ONext PROVE [Next]_vars
  BY DEF allVars, limiterVars, vars
<1>1. ASSUME NEW s \in Settings, Start(s) PROVE UNCHANGED vars
  BY <1>1 DEF Start, limiterVars
<1>2. CASE Stop
  BY <1>2 DEF Stop, Next
<1>3. ASSUME NEW c \in Callers, Arrive(c) \/ RateLimited(c) \/ Unauthorized(c)
      PROVE  Next
  BY <1>3 DEF Arrive, RateLimited, Unauthorized, Next
<1>4. ASSUME NEW c \in Callers, NEW u \in Users, PassGate(c, u) PROVE Next
  BY <1>4 DEF PassGate, Next
<1>5. ASSUME NEW c \in Callers, RegisterClient(c) \/ BadMetadata(c) PROVE UNCHANGED vars
  BY <1>5 DEF RegisterClient, BadMetadata, limiterVars
<1>6. CASE Authorize
  BY <1>6 DEF Authorize, limiterVars
<1>7. ASSUME NEW u \in Users, LogIn(u) PROVE UNCHANGED vars
  BY <1>7 DEF LogIn, limiterVars
<1>8. CASE LoginTooLate
  BY <1>8 DEF LoginTooLate, limiterVars
<1>9. CASE TimePasses
  BY <1>9 DEF TimePasses, Next
<1>10. QED
  BY <1>1, <1>2, <1>3, <1>4, <1>5, <1>6, <1>7, <1>8, <1>9 DEF ONext

\* Everything around the limiter leaves it alone but for the end of the process:
\* every behaviour of the server is one of RateLimiter.
THEOREM ImplementsLimiter == OSpec => Spec
<1>1. OInit => Init
  BY DEF OInit
<1>2. QED
  BY <1>1, LimiterStepTaken, PTL DEF OSpec, Spec

\* Behind the registration handler the limit is that of an exact rolling window,
\* whatever is posted, and however the process is stopped and started.
THEOREM RegistrationWindow == OSpec => ImplementsRollingWindow
  BY ImplementsLimiter, Refinement, BoundsAssumption, PTL

-----------------------------------------------------------------------------
(***************************************************************************)
(* Types, and who can be inside.                                           *)
(***************************************************************************)
DownIsEmpty ==
  ~Up => /\ log = <<>>
         /\ \A c \in Callers : reading[c] = NoReading

AllowedLaunch == Up => SeedAllowed(launch) /\ OfflinePathAllowed(launch)

\* A client was registered by somebody with a session, or is about to be.
OwnersKnown ==
  /\ \A i \in DOMAIN clients : clients[i] \in sessions
  /\ \A c \in Callers : waiting[c] # NoUser => waiting[c] \in sessions

RequestsHaveClients == requests # 0 => clients # <<>>

\* Whoever has a session, the seeded user has one.
SeedFirst == sessions # {} => Up /\ launch.seed # NoUser /\ launch.seed \in sessions

ServerInv ==
  ServerOK /\ DownIsEmpty /\ AllowedLaunch /\ OwnersKnown /\ RequestsHaveClients /\ SeedFirst

LEMMA InitServer == TypeOK /\ OInit => ServerInv
<1> SUFFICES ASSUME TypeOK, OInit PROVE ServerInv
  OBVIOUS
<1>1. /\ launch = NotStarted /\ starts = 0 /\ since = 0 /\ now = 0 /\ sessions = {}
      /\ clients = <<>> /\ log = <<>> /\ requests = 0
      /\ waiting = [c \in Callers |-> NoUser]
      /\ reading = [c \in Callers |-> NoReading]
  BY DEF OInit, Init
<1>2. ServerOK
  BY <1>1 DEF ServerOK
<1>3. DownIsEmpty /\ AllowedLaunch /\ RequestsHaveClients /\ SeedFirst
  BY <1>1 DEF DownIsEmpty, Up, AllowedLaunch, RequestsHaveClients, SeedFirst
<1>4. OwnersKnown
  BY <1>1 DEF OwnersKnown
<1>5. QED
  BY <1>2, <1>3, <1>4 DEF ServerInv

LEMMA ServerStep == ServerInv /\ TypeOK' /\ [ONext]_allVars => ServerInv'
<1> SUFFICES ASSUME ServerInv, TypeOK', [ONext]_allVars PROVE ServerInv'
  OBVIOUS
<1> USE DEF ServerInv, DownIsEmpty, Up, AllowedLaunch, OwnersKnown,
        RequestsHaveClients, SeedFirst
<1>0. now \in Nat /\ since \in 0..now
  BY DEF ServerOK, TypeOK
<1>1. ASSUME NEW s \in Settings, Start(s) PROVE ServerInv'
  <2>1. /\ launch' = s /\ since' = now /\ now' = now /\ starts' = starts + 1
        /\ starts < MaxStarts /\ sessions' = Seeded(s)
        /\ UNCHANGED <<log, reading, clients, waiting, requests>>
    BY <1>1 DEF Start, limiterVars, vars
  <2>2. clients = <<>> /\ requests = 0 /\ \A c \in Callers : waiting[c] = NoUser
    <3>1. sessions = {}
      BY <1>1 DEF Start
    <3>2. \A c \in Callers : waiting[c] = NoUser
      BY <3>1
    <3>3. clients = <<>>
      <4>1. clients \in Seq(Users) /\ \A i \in DOMAIN clients : FALSE
        BY <3>1 DEF ServerOK
      <4>2. Len(clients) = 0
        BY <4>1
      <4>3. QED
        BY <4>1, <4>2, EmptySeq
    <3>4. QED
      BY <3>2, <3>3
  <2>3. ServerOK'
    BY <1>0, <2>1 DEF ServerOK, Seeded, Settings
  <2>4. SeedAllowed(s) /\ OfflinePathAllowed(s)
    BY <1>1 DEF Start
  <2>5. AllowedLaunch' /\ DownIsEmpty'
    BY <2>1, <2>4
  <2>6. OwnersKnown' /\ RequestsHaveClients'
    BY <2>1, <2>2
  <2>7. SeedFirst'
    BY <2>1 DEF Seeded
  <2>8. QED
    BY <2>3, <2>5, <2>6, <2>7
<1>2. CASE Stop
  BY <1>0, <1>2 DEF Stop, Restart, ServerOK
<1>3. ASSUME NEW c \in Callers, Arrive(c) PROVE ServerInv'
  BY <1>0, <1>3 DEF Arrive, ReadClock, serverVars, ServerOK
<1>4. ASSUME NEW c \in Callers, RateLimited(c) PROVE ServerInv'
  BY <1>0, <1>4 DEF RateLimited, Refuse, serverVars, ServerOK, TypeOK
<1>5. ASSUME NEW c \in Callers, Unauthorized(c) PROVE ServerInv'
  BY <1>0, <1>5 DEF Unauthorized, Admit, serverVars, ServerOK, TypeOK
<1>6. ASSUME NEW c \in Callers, NEW u \in Users, PassGate(c, u) PROVE ServerInv'
  BY <1>0, <1>6 DEF PassGate, MayRegister, Admit, ServerOK, TypeOK
<1>7. ASSUME NEW c \in Callers, RegisterClient(c) PROVE ServerInv'
  BY <1>0, <1>7 DEF RegisterClient, Done, limiterVars, vars, ServerOK
<1>8. ASSUME NEW c \in Callers, BadMetadata(c) PROVE ServerInv'
  BY <1>0, <1>8 DEF BadMetadata, limiterVars, vars, ServerOK
<1>9. CASE Authorize
  BY <1>0, <1>9 DEF Authorize, ClientKnown, limiterVars, vars, ServerOK
<1>10. ASSUME NEW u \in Users, LogIn(u) PROVE ServerInv'
  BY <1>0, <1>10 DEF LogIn, limiterVars, vars, ServerOK
<1>11. CASE LoginTooLate
  BY <1>0, <1>11 DEF LoginTooLate, limiterVars, vars, ServerOK
<1>12. CASE TimePasses
  BY <1>0, <1>12 DEF TimePasses, Tick, serverVars, ServerOK
<1>13. CASE UNCHANGED allVars
  BY <1>0, <1>13 DEF allVars, serverVars, limiterVars, vars, ServerOK
<1>14. QED
  BY <1>1, <1>2, <1>3, <1>4, <1>5, <1>6, <1>7, <1>8, <1>9, <1>10, <1>11, <1>12, <1>13
     DEF ONext

LEMMA ServerInvariant == OSpec => []ServerInv
<1>1. OSpec => []TypeOK
  BY ImplementsLimiter, TypeCorrect, PTL
<1>2. QED
  BY <1>1, InitServer, ServerStep, PTL DEF OSpec

\* The server's state stays within its types, whatever is started and stopped.
THEOREM ServerTyped == OSpec => []ServerOK
<1>1. ServerInv => ServerOK
  BY DEF ServerInv
<1>2. QED
  BY <1>1, ServerInvariant, PTL

\* Whatever is stored, a session comes first.
LEMMA UseNeedsSession == ServerInv /\ InUse => sessions # {}
<1> SUFFICES ASSUME ServerInv, InUse PROVE sessions # {}
  OBVIOUS
<1> USE DEF ServerInv
<1>1. CASE clients # <<>>
  <2>1. 1 \in DOMAIN clients
    BY <1>1, EmptySeq DEF ServerOK
  <2>2. QED
    BY <2>1 DEF OwnersKnown
<1>2. CASE requests # 0
  BY <1>1, <1>2 DEF RequestsHaveClients
<1>3. CASE \E c \in Callers : waiting[c] # NoUser
  BY <1>3 DEF OwnersKnown
<1>4. QED
  BY <1>1, <1>2, <1>3 DEF InUse

\* A server is used only through the session it was seeded with.
THEOREM StartsCold == OSpec => []ColdStart
<1>1. ServerInv => ColdStart
  BY UseNeedsSession DEF ServerInv, SeedFirst, ColdStart
<1>2. QED
  BY <1>1, ServerInvariant, PTL

\* The three guards in their three places leave no way to use a server that
\* others can reach but with all three flags set.
THEOREM NetworkNeedsOptIn == OSpec => []NetworkUseOptedIn
<1>1. ServerInv => NetworkUseOptedIn
  <2> SUFFICES ASSUME ServerInv, InUse, ~IsLoopbackHost(launch.host)
               PROVE  launch.auth = "1" /\ launch.network = "1" /\ launch.dev_seed = "1"
    BY DEF NetworkUseOptedIn
  <2>1. Up /\ launch.seed # NoUser
    BY UseNeedsSession DEF ServerInv, SeedFirst
  <2>2. SeedAllowed(launch) /\ OfflinePathAllowed(launch)
    BY <2>1 DEF ServerInv, AllowedLaunch
  <2>3. ~IsLoopback(launch.host)
    BY DEF IsLoopback, IsLoopbackHost
  <2>4. QED
    BY <2>1, <2>2, <2>3 DEF SeedAllowed, OfflinePathAllowed, FlagIsOptIn
<1>2. QED
  BY <1>1, ServerInvariant, PTL

-----------------------------------------------------------------------------
(***************************************************************************)
(* How many clients.  Admissions Limit apart are a window apart, so the    *)
(* i-th one has at least i \div Limit windows before it.                   *)
(***************************************************************************)
LEMMA WindowCount ==
  /\ \A a \in Nat : a \div Window \in Nat
  /\ \A a, b \in Nat : a <= b => a \div Window <= b \div Window
  /\ \A a, b \in Nat : b >= a + Window => b \div Window >= a \div Window + 1
  BY ONLY DivFacts, QuotientMonotone, WindowsApart, WindowAssumption

LogTimes == \A i \in DOMAIN log : log[i] \in since..now

LogBudget == \A i \in DOMAIN log : i <= Limit * ((log[i] - since) \div Window + 1)

Waiting == {c \in Callers : waiting[c] # NoUser}

\* An attempt that was admitted is at most one client, now or later.
Spent == Len(clients) + Cardinality(Waiting) <= Len(log)

BudgetInv == LogTimes /\ LogBudget /\ Spent

LEMMA WaitingFinite ==
  /\ IsFiniteSet(Waiting) /\ Cardinality(Waiting) \in Nat
  /\ IsFiniteSet(Waiting') /\ Cardinality(Waiting') \in Nat
  BY FS_Subset, FS_CardinalityType DEF Waiting

LEMMA AdmissionKeepsBudget ==
  ASSUME ServerInv, LogTimes, LogBudget, ExactWindow', since' = since, now' = now,
         log' = Append(log, now)
  PROVE  LogTimes' /\ LogBudget'
<1> DEFINE n == Len(log)
           q(t) == (t - since) \div Window
<1>1. /\ log \in Seq(Nat) /\ now \in Nat /\ since \in 0..now
  BY DEF ServerInv, ServerOK, TypeOK
<1>2. /\ n \in Nat /\ Len(log') = n + 1 /\ DOMAIN log = 1..n /\ DOMAIN log' = 1..(n + 1)
      /\ \A i \in 1..n : log'[i] = log[i]
      /\ log'[n + 1] = now
  BY <1>1
<1> HIDE DEF n
<1>3. LogTimes'
  BY <1>1, <1>2 DEF LogTimes
<1>4. \A t \in since..now : t - since \in Nat /\ q(t) \in Nat
  <2>1. \A t \in since..now : t - since \in Nat
    BY <1>1
  <2>2. QED
    BY ONLY <2>1, WindowCount
<1>8. now \in since..now
  BY <1>1
<1>5. n + 1 <= Limit * (q(now) + 1)
  <2>1. CASE n + 1 <= Limit
    <3>1. q(now) \in Nat
      BY <1>8, <1>4
    <3> HIDE DEF q
    <3>2. /\ Limit * (q(now) + 1) >= Limit * 1 /\ Limit * 1 = Limit
          /\ Limit * (q(now) + 1) \in Nat
      BY ONLY <3>1, LimitAssumption
    <3>3. QED
      BY ONLY <1>2, <2>1, <3>2, LimitAssumption
  <2>2. CASE n + 1 > Limit
    <3> DEFINE j == n + 1 - Limit
    <3>1. j \in 1..n /\ j + Limit = n + 1
      BY <1>2, <2>2, LimitAssumption
    <3>2. now - log[j] >= Window
      BY <1>2, <3>1 DEF ExactWindow
    <3>3. log[j] \in since..now /\ j <= Limit * (q(log[j]) + 1)
      BY <1>2, <3>1 DEF LogTimes, LogBudget
    <3>4. now - since >= (log[j] - since) + Window
      BY <1>1, <3>2, <3>3, WindowAssumption
    <3>10. now - since \in Nat /\ log[j] - since \in Nat
      BY <1>8, <1>4, <3>3
    <3>5. q(now) >= q(log[j]) + 1
      BY ONLY <3>10, <3>4, WindowCount
    <3>6. q(now) \in Nat /\ q(log[j]) \in Nat
      BY ONLY <3>10, WindowCount
    <3> HIDE DEF q, j
    <3>7. Limit * (q(now) + 1) >= Limit * (q(log[j]) + 1) + Limit
      BY ONLY <3>5, <3>6, LimitAssumption
    <3>8. Limit * (q(log[j]) + 1) \in Nat /\ Limit * (q(now) + 1) \in Nat
      BY ONLY <3>6, LimitAssumption
    <3>9. QED
      BY <1>2, <3>1, <3>3, <3>7, <3>8, LimitAssumption
  <2>3. QED
    BY <1>2, <2>1, <2>2, LimitAssumption
<1>6. LogBudget'
  BY <1>2, <1>5 DEF LogBudget
<1>7. QED
  BY <1>3, <1>6

LEMMA BudgetStep ==
  ServerInv /\ BudgetInv /\ ExactWindow' /\ ServerInv' /\ [ONext]_allVars => BudgetInv'
<1> SUFFICES ASSUME ServerInv, BudgetInv, ExactWindow', ServerInv', [ONext]_allVars
             PROVE  BudgetInv'
  OBVIOUS
<1>0. /\ log \in Seq(Nat) /\ now \in Nat /\ since \in 0..now /\ clients \in Seq(Users)
      /\ Len(log) \in Nat /\ Len(clients) \in Nat
  BY DEF ServerInv, ServerOK, TypeOK
<1>1. ASSUME NEW s \in Settings, Start(s) PROVE BudgetInv'
  <2>1. log = <<>> /\ UNCHANGED <<log, clients, waiting>>
    BY <1>1 DEF Start, ServerInv, DownIsEmpty, limiterVars, vars
  <2>2. DOMAIN log' = {}
    BY <2>1
  <2>3. QED
    BY <2>1, <2>2 DEF BudgetInv, LogTimes, LogBudget, Spent, Waiting
<1>2. CASE Stop
  <2>1. log' = <<>> /\ clients' = <<>> /\ waiting' = [c \in Callers |-> NoUser]
    BY <1>2 DEF Stop, Restart
  <2>2. DOMAIN log' = {} /\ Waiting' = {}
    BY <2>1 DEF Waiting
  <2>3. QED
    BY <2>1, <2>2, FS_EmptySet DEF BudgetInv, LogTimes, LogBudget, Spent
<1>3. ASSUME UNCHANGED <<log, since, now, clients, waiting>> PROVE BudgetInv'
  BY <1>3 DEF BudgetInv, LogTimes, LogBudget, Spent, Waiting
<1>4. ASSUME NEW c \in Callers, Unauthorized(c) PROVE BudgetInv'
  <2>1. log' = Append(log, now) /\ UNCHANGED <<since, now, clients, waiting>>
    BY <1>4 DEF Unauthorized, Admit, serverVars
  <2>2. LogTimes' /\ LogBudget'
    BY <2>1, AdmissionKeepsBudget DEF BudgetInv
  <2>3. Len(log') = Len(log) + 1 /\ Waiting' = Waiting
    BY <1>0, <2>1 DEF Waiting
  <2>4. Spent'
    BY <1>0, <2>1, <2>3, WaitingFinite DEF BudgetInv, Spent
  <2>5. QED
    BY <2>2, <2>4 DEF BudgetInv
<1>5. ASSUME NEW c \in Callers, NEW u \in Users, PassGate(c, u) PROVE BudgetInv'
  <2>1. /\ log' = Append(log, now) /\ UNCHANGED <<since, now, clients>>
        /\ waiting' = [waiting EXCEPT ![c] = u]
    BY <1>5 DEF PassGate, Admit
  <2>2. LogTimes' /\ LogBudget'
    BY <2>1, AdmissionKeepsBudget DEF BudgetInv
  <2>3. Len(log') = Len(log) + 1 /\ Waiting' = Waiting \union {c}
    BY <1>0, <2>1 DEF Waiting, ServerInv, ServerOK
  <2>4. Cardinality(Waiting') <= Cardinality(Waiting) + 1
    BY <2>3, WaitingFinite, FS_AddElement
  <2>5. Spent'
    BY <1>0, <2>1, <2>3, <2>4, WaitingFinite DEF BudgetInv, Spent
  <2>6. QED
    BY <2>2, <2>5 DEF BudgetInv
<1>6. ASSUME NEW c \in Callers, RegisterClient(c) PROVE BudgetInv'
  <2>1. /\ c \in Waiting /\ clients' = Append(clients, waiting[c])
        /\ waiting' = [waiting EXCEPT ![c] = NoUser]
        /\ UNCHANGED <<log, since, now>>
    BY <1>6 DEF RegisterClient, Done, Waiting, limiterVars, vars
  <2>2. Len(clients') = Len(clients) + 1 /\ Waiting' = Waiting \ {c}
    BY <1>0, <2>1 DEF Waiting, ServerInv, ServerOK
  <2>3. Cardinality(Waiting') = Cardinality(Waiting) - 1
    BY <2>1, <2>2, WaitingFinite, FS_RemoveElement
  <2>4. Spent'
    BY <1>0, <2>1, <2>2, <2>3, WaitingFinite DEF BudgetInv, Spent
  <2>5. QED
    BY <2>1, <2>4 DEF BudgetInv, LogTimes, LogBudget
<1>7. ASSUME NEW c \in Callers, BadMetadata(c) PROVE BudgetInv'
  <2>1. /\ waiting' = [waiting EXCEPT ![c] = NoUser]
        /\ UNCHANGED <<log, since, now, clients>>
    BY <1>7 DEF BadMetadata, limiterVars, vars
  <2>2. Waiting' \subseteq Waiting
    BY <2>1 DEF Waiting, ServerInv, ServerOK
  <2>3. Cardinality(Waiting') <= Cardinality(Waiting)
    BY <2>2, WaitingFinite, FS_Subset
  <2>4. Spent'
    BY <1>0, <2>1, <2>3, WaitingFinite DEF BudgetInv, Spent
  <2>5. QED
    BY <2>1, <2>4 DEF BudgetInv, LogTimes, LogBudget
<1>8. CASE TimePasses
  <2>1. now' = now + 1 /\ UNCHANGED <<log, since, clients, waiting>>
    BY <1>8 DEF TimePasses, Tick, serverVars
  <2>2. LogTimes'
    BY <1>0, <2>1 DEF BudgetInv, LogTimes
  <2>3. LogBudget' /\ Spent'
    BY <2>1 DEF BudgetInv, LogBudget, Spent, Waiting
  <2>4. QED
    BY <2>2, <2>3 DEF BudgetInv
<1>9. ASSUME NEW c \in Callers, Arrive(c) \/ RateLimited(c) PROVE BudgetInv'
  BY <1>3, <1>9 DEF Arrive, ReadClock, RateLimited, Refuse, serverVars
<1>10. ASSUME NEW u \in Users, LogIn(u) PROVE BudgetInv'
  BY <1>3, <1>10 DEF LogIn, limiterVars, vars
<1>11. CASE Authorize \/ LoginTooLate \/ UNCHANGED allVars
  BY <1>3, <1>11 DEF Authorize, LoginTooLate, allVars, serverVars, limiterVars, vars
<1>12. QED
  BY <1>1, <1>2, <1>4, <1>5, <1>6, <1>7, <1>8, <1>9, <1>10, <1>11 DEF ONext

LEMMA BudgetBounds == ServerInv /\ BudgetInv => ClientsBounded
<1> SUFFICES ASSUME ServerInv, BudgetInv PROVE ClientsBounded
  OBVIOUS
<1>1. /\ log \in Seq(Nat) /\ now \in Nat /\ since \in 0..now /\ clients \in Seq(Users)
      /\ Len(log) \in Nat /\ Len(clients) \in Nat /\ Cardinality(Waiting) \in Nat
  BY WaitingFinite DEF ServerInv, ServerOK, TypeOK
<1> DEFINE q(t) == (t - since) \div Window
<1>2. q(now) \in Nat
  <2>1. now - since \in Nat
    BY <1>1
  <2>2. QED
    BY ONLY <2>1, WindowCount
<1>3. Len(log) <= Limit * (q(now) + 1)
  <2>1. CASE Len(log) = 0
    <3> HIDE DEF q
    <3>1. Limit * (q(now) + 1) \in Nat
      BY ONLY <1>2, LimitAssumption
    <3>2. QED
      BY <2>1, <3>1
  <2>2. CASE Len(log) # 0
    <3> DEFINE n == Len(log)
    <3>1. log[n] \in since..now /\ n <= Limit * (q(log[n]) + 1)
      BY <1>1, <2>2 DEF BudgetInv, LogTimes, LogBudget
    <3>2. log[n] - since \in Nat /\ now - since \in Nat /\ log[n] - since <= now - since
      BY <1>1, <3>1
    <3>3. q(log[n]) <= q(now) /\ q(log[n]) \in Nat
      BY ONLY <3>2, WindowCount
    <3> HIDE DEF q
    <3>4. /\ Limit * (q(log[n]) + 1) <= Limit * (q(now) + 1)
          /\ Limit * (q(log[n]) + 1) \in Nat /\ Limit * (q(now) + 1) \in Nat
      BY ONLY <1>2, <3>3, LimitAssumption
    <3>5. QED
      BY <1>1, <3>1, <3>4
  <2>3. QED
    BY <2>1, <2>2
<1>4. Limit * (q(now) + 1) \in Nat
  <2> HIDE DEF q
  <2>1. QED
    BY ONLY <1>2, LimitAssumption
<1> DEFINE budget == Limit * (q(now) + 1)
<1>5. Len(clients) + Cardinality(Waiting) <= budget
  <2> HIDE DEF budget
  <2>1. budget \in Nat /\ Len(log) <= budget
    BY <1>3, <1>4 DEF budget
  <2>2. QED
    BY <1>1, <2>1 DEF BudgetInv, Spent
<1>6. QED
  BY <1>5 DEF ClientsBounded, Waiting, ServerInv, OwnersKnown

\* A process stores at most Limit clients per window of its life.
THEOREM ClientsAlwaysBounded == OSpec => []ClientsBounded
<1>1. OSpec => []ExactWindow
  BY ImplementsLimiter, ExactOnEventLoop, BoundsAssumption, PTL
<1>2. OInit => BudgetInv
  <2> SUFFICES ASSUME OInit PROVE BudgetInv
    OBVIOUS
  <2>1. log = <<>> /\ clients = <<>> /\ waiting = [c \in Callers |-> NoUser]
    BY DEF OInit, Init
  <2>2. DOMAIN log = {} /\ Waiting = {}
    BY <2>1 DEF Waiting
  <2>3. QED
    BY <2>1, <2>2, FS_EmptySet DEF BudgetInv, LogTimes, LogBudget, Spent
<1>3. QED
  BY <1>1, <1>2, BudgetStep, BudgetBounds, ServerInvariant, PTL DEF OSpec
=============================================================================
