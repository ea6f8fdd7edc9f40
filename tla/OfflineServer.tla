--------------------------- MODULE OfflineServer ---------------------------
(***************************************************************************)
(* The offline server as its operator starts it (__main__.py, server.py,   *)
(* oauth/startup_guards.py): which command lines are served, and what can  *)
(* be reached from there.  Registration stands behind RateLimiter and      *)
(* needs a session; a session needs a login, which needs a request of a    *)
(* registered client.  Everything lives in the process and dies with it.   *)
(*                                                                         *)
(* The limiter is asked on the event loop, so Delay is 0 here.  AuthFlow   *)
(* has the flow in detail; here a request is one of so many.               *)
(***************************************************************************)
EXTENDS RateLimiter, FiniteSets

CONSTANTS
  Users,          \* the names a login form accepts: any
  CliUsers,       \* those of them that _VALID_USER_ID matches
  Hosts,
  LoopbackHosts,  \* _LOOPBACK_HOSTS, the same set in both modules
  Normal,         \* host.strip().lower()
  Flags,          \* values of an environment variable
  NoUser, NotStarted,
  MaxRequests, MaxStarts    \* bounds

ASSUME CliAssumption == CliUsers \subseteq Users /\ NoUser \notin Users
ASSUME HostsAssumption == \A h \in LoopbackHosts : Normal[h] = h
ASSUME CallersAssumption == IsFiniteSet(Callers)
ASSUME BoundsAssumption == MaxRequests \in Nat /\ MaxStarts \in Nat /\ Delay = 0

VARIABLES
  launch,     \* host, flags and seed of the running process
  starts,
  since,      \* history: when it was started
  sessions,   \* MockSessionStore: who has a session
  clients,    \* MockClientStore: the owners of the clients, in order
  waiting,    \* owner of the client a handler will register once it has the body
  requests    \* MockAuthRequestStateStore: how many are pending

limiterVars == vars
serverVars == <<launch, starts, since, sessions, clients, waiting, requests>>
allVars == <<limiterVars, serverVars>>

Settings == [host : Hosts, auth : Flags, network : Flags, dev_seed : Flags,
             seed : Users \union {NoUser}]

ASSUME StartedAssumption == NotStarted \notin Settings

Up == launch # NotStarted

OInit ==
  /\ Init
  /\ launch = NotStarted
  /\ starts = 0
  /\ since = 0
  /\ sessions = {}
  /\ clients = <<>>
  /\ waiting = [c \in Callers |-> NoUser]
  /\ requests = 0

FlagIsOptIn_Truthy(value) == value # ""     \* mutant: "true" and "0" opt in as well
FlagIsOptIn(value) == value = "1"

IsLoopback(host) == host \in LoopbackHosts              \* __main__._is_loopback
IsLoopbackHost(host) == Normal[host] \in LoopbackHosts  \* startup_guards._is_loopback_host

\* main() takes --seed-session only in a legal form, and on a loopback host or
\* with a flag of its own.
SeedAllowed(s) ==
  s.seed # NoUser =>
    /\ s.seed \in CliUsers
    /\ IsLoopback(s.host) \/ FlagIsOptIn(s.dev_seed)

\* ensure_offline_path_allowed.
OfflinePathAllowed(s) ==
  /\ FlagIsOptIn(s.auth)
  /\ IsLoopbackHost(s.host) \/ FlagIsOptIn(s.network)

Seeded(s) == IF s.seed = NoUser THEN {} ELSE {s.seed}

Start(s) ==
  /\ ~Up
  /\ starts < MaxStarts
  /\ SeedAllowed(s)
  /\ OfflinePathAllowed(s)
  /\ launch' = s
  /\ starts' = starts + 1
  /\ since' = now
  /\ sessions' = Seeded(s)
  /\ UNCHANGED <<limiterVars, clients, waiting, requests>>

Stop ==
  /\ Up
  /\ starts < MaxStarts
  /\ Restart
  /\ launch' = NotStarted
  /\ sessions' = {}
  /\ clients' = <<>>
  /\ waiting' = [c \in Callers |-> NoUser]
  /\ requests' = 0
  /\ UNCHANGED <<starts, since>>

Idle(c) == reading[c] = NoReading /\ waiting[c] = NoUser

\* POST /oauth/register: the limiter comes first ...
Arrive(c) ==
  /\ Up
  /\ Idle(c)
  /\ ReadClock(c)
  /\ UNCHANGED serverVars

RateLimited(c) == Refuse(c) /\ UNCHANGED serverVars

MayRegister_Anybody(u) == TRUE     \* mutant: the session gate is off, as for the broker
MayRegister(u) == u \in sessions

\* ... then the session, and the handler awaits the body of the request.
PassGate(c, u) ==
  /\ Admit(c)
  /\ MayRegister(u)
  /\ waiting' = [waiting EXCEPT ![c] = u]
  /\ UNCHANGED <<launch, starts, since, sessions, clients, requests>>

\* No cookie, or one of an earlier process.  The attempt has been counted.
Unauthorized(c) == Admit(c) /\ UNCHANGED serverVars

Done_Again(c) == waiting      \* mutant: one attempt registers twice
Done(c) == [waiting EXCEPT ![c] = NoUser]

RegisterClient(c) ==
  /\ waiting[c] # NoUser
  /\ clients' = Append(clients, waiting[c])
  /\ waiting' = Done(c)
  /\ UNCHANGED <<limiterVars, launch, starts, since, sessions, requests>>

\* The body is not JSON, or not the metadata of a client.
BadMetadata(c) ==
  /\ waiting[c] # NoUser
  /\ waiting' = [waiting EXCEPT ![c] = NoUser]
  /\ UNCHANGED <<limiterVars, launch, starts, since, sessions, clients, requests>>

ClientKnown == clients # <<>>

Authorize ==
  /\ Up
  /\ ClientKnown
  /\ requests < MaxRequests
  /\ requests' = requests + 1
  /\ UNCHANGED <<limiterVars, launch, starts, since, sessions, clients, waiting>>

\* The mock login believes the name it is given.
LogIn(u) ==
  /\ requests > 0
  /\ requests' = requests - 1
  /\ sessions' = sessions \union {u}
  /\ UNCHANGED <<limiterVars, launch, starts, since, clients, waiting>>

LoginTooLate ==
  /\ requests > 0
  /\ requests' = requests - 1
  /\ UNCHANGED <<limiterVars, launch, starts, since, sessions, clients, waiting>>

TimePasses == Tick /\ UNCHANGED serverVars

ONext ==
  \/ \E s \in Settings : Start(s)
  \/ Stop
  \/ \E c \in Callers :
       \/ Arrive(c) \/ RateLimited(c) \/ Unauthorized(c)
       \/ \E u \in Users : PassGate(c, u)
       \/ RegisterClient(c) \/ BadMetadata(c)
  \/ Authorize
  \/ \E u \in Users : LogIn(u)
  \/ LoginTooLate
  \/ TimePasses

OSpec == OInit /\ [][ONext]_allVars

-----------------------------------------------------------------------------
(***************************************************************************)
(* Properties                                                              *)
(***************************************************************************)

ServerOK ==
  /\ TypeOK
  /\ launch \in Settings \union {NotStarted}
  /\ starts \in 0..MaxStarts
  /\ since \in 0..now
  /\ sessions \subseteq Users
  /\ clients \in Seq(Users)
  /\ waiting \in [Callers -> Users \union {NoUser}]
  /\ requests \in 0..MaxRequests

\* Somebody is past the door: there is a session, a client or a login under way.
InUse ==
  \/ sessions # {} \/ clients # <<>> \/ requests # 0
  \/ \E c \in Callers : waiting[c] # NoUser

\* Nobody gets into a server but through the session it was started with: not
\* by registering, not by logging in, and not with what an earlier process knew.
ColdStart == InUse => Up /\ launch.seed \in sessions

\* On a host that others can reach nobody gets in unless the operator set all
\* three flags, each to exactly "1": the two of the start-up guard and the one
\* of the seed.  A server with the first two only is served and never used.
NetworkUseOptedIn ==
  InUse /\ ~IsLoopbackHost(launch.host) =>
    launch.auth = "1" /\ launch.network = "1" /\ launch.dev_seed = "1"

\* Whatever is posted to a process, and however long the bodies take, it stores
\* at most Limit clients in each Window since it was started, all of people who
\* have a session.
ClientsBounded ==
  /\ Len(clients) + Cardinality({c \in Callers : waiting[c] # NoUser})
       <= Limit * ((now - since) \div Window + 1)
  /\ \A i \in DOMAIN clients : clients[i] \in sessions
=============================================================================
