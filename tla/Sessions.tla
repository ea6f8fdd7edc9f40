------------------------------ MODULE Sessions ------------------------------
(***************************************************************************)
(* A login as its client knows it: RefreshTokens and BearerGate together,  *)
(* as the offline server runs them (server.py).  The token endpoint        *)
(* (oauth/token.py) mints an access token, which the gate will accept, and *)
(* a refresh token, which the store keeps.  The two have nothing in common *)
(* but the user, the client and the scope: an access token does not know   *)
(* the family it came with, and the gate does not ask the store.           *)
(***************************************************************************)
EXTENDS RefreshTokens

CONSTANTS
  Tasks, Transports, Scopes, AllowedScopes, Paths, LowerCase,  \* see BearerGate
  AccessTTL, Leeway, Absent, NoClaims, NoJwt, NoTransport, Idle,
  MaxRestarts, MaxTokens,
  NotYet                                  \* a session that has not ended

VARIABLES
  key, tokens, granted, context, request, transport, acted,   \* see BearerGate
  session    \* history, by family: the login that opened it, the access
             \* tokens it was given, and when its client was turned away

\* The gate of the offline server: no broker, no key set, one clock.
G == INSTANCE BearerGate WITH
       NoToken <- NoJwt, Broker <- FALSE, Jwks <- [kid \in {} |-> {}], Skew <- 0,
       AppClient <- CHOOSE c \in Clients : TRUE

ASSUME ScopesAssumption == ScopeParams = SUBSET Scopes
ASSUME LifetimeAssumption == AccessTTL \in Nat
ASSUME LowerCaseAssumption == LowerCase["mcp"] = "mcp"
ASSUME NoneAssumption ==
  /\ NotYet \notin Nat
  /\ NoJwt \notin G!Jwt /\ NoClaims \notin G!Claims
  /\ Idle \notin G!Request /\ NoTransport \notin G!TransportSession

gateVars == <<now, key, tokens, granted, context, request, transport, acted>>
storeVars == <<items, consumedFamilies, familyMembers, reply, lineage>>
sessionVars == <<gateVars, storeVars, session>>

Login(u, c, scope) == [sub |-> u, client_id |-> c, scope |-> scope]

NoSession == [logins |-> {}, tokens |-> {}, ended |-> NotYet]

SInit ==
  /\ Init
  /\ G!Init
  /\ session = [f \in Families |-> NoSession]

\* The authorization_code grant, once the code has been redeemed.
OpenSession(u, c, scope, f, r) ==
  /\ Grant(r, f, u, c, scope)
  /\ G!Mint(u, c, scope)
  /\ session' = [session EXCEPT ![f] =
       [logins |-> {Login(u, c, scope)}, tokens |-> {G!MintedToken(u, c, scope)},
        ended |-> NotYet]]

\* What the access token that goes with a rotation says.
AsRecorded_ClientsScope(record, scope) == scope   \* mutant: the scope of the form
AsRecorded(record, scope) == record.scope

\* The refresh_token grant.  The form may ask for a scope; nobody reads it.
RefreshSession(r, s, asked) ==
  LET old == items[r]
      scope == AsRecorded(old, asked) IN
  /\ Rotate(r, s)
  /\ G!Mint(old.user_id, old.client_id, scope)
  /\ session' = [session EXCEPT
       ![old.family_id].tokens = @ \union {G!MintedToken(old.user_id, old.client_id, scope)}]

TurnedAway(families) ==
  [f \in Families |->
     IF f \in families /\ session[f].ended = NotYet
       THEN [session[f] EXCEPT !.ended = now] ELSE session[f]]

\* A refresh is refused: the client of that family has to log in again.
RefuseRefresh(r) ==
  /\ ReplayConsumed(r) \/ RefuseUnknown(r) \/ RefuseExpired(r)
  /\ session' = TurnedAway({f \in Families : r \in lineage[f]})
  /\ UNCHANGED <<key, tokens, granted, context, request, transport, acted>>

\* The gate works without the store.
GateStep(step) == step /\ UNCHANGED <<storeVars, session>>

TimePasses == Tick /\ G!Tick /\ UNCHANGED session

\* Both forget: the store is empty and the key is new.
RestartServer ==
  /\ Restart
  /\ G!Restart
  /\ session' = TurnedAway({f \in Families : lineage[f] # {}})

SNext ==
  \/ \E u \in Users, c \in Clients, scope \in ScopeParams, f \in Families, r \in Tokens :
       OpenSession(u, c, scope, f, r)
  \/ \E r, s \in Tokens, asked \in ScopeParams : Live(r) /\ RefreshSession(r, s, asked)
  \/ \E r \in Tokens : RefuseRefresh(r)
  \/ \E t \in Tasks, path \in Paths : GateStep(G!PassPublic(t, path))
  \/ \E t \in Tasks, path \in Paths, tok \in tokens : GateStep(G!Admit(t, path, tok))
  \/ \E t \in Tasks, x \in Transports : GateStep(G!OpenTransport(t, x))
  \/ \E t \in Tasks, x \in Transports : GateStep(G!CallTool(t, x))
  \/ \E t \in Tasks, x \in Transports : GateStep(G!CloseTransport(t, x))
  \/ \E t \in Tasks : GateStep(G!Finish(t))
  \/ TimePasses
  \/ RestartServer

SSpec == SInit /\ [][SNext]_sessionVars

-----------------------------------------------------------------------------
(***************************************************************************)
(* Properties                                                              *)
(***************************************************************************)

SessionOK ==
  session \in
    [Families -> [logins : SUBSET [sub : Users, client_id : Clients, scope : SUBSET Scopes],
                  tokens : SUBSET G!Jwt, ended : Nat \union {NotYet}]]

\* The gate's own promise, offline: behind every call of a tool are two tokens
\* of the key now in use, the one that opened the transport session and the one
\* that carried the call, each handed out within its lifetime.
ToolsRunOnGrantedTokens == G!ToolsRunOnGrantedTokens

\* Whatever tool runs, however often the tokens were renewed, it runs for the
\* user, the client and the scope of a login that took place: the login whose
\* token opened the transport session.
ToolsActForALogin ==
  \A a \in acted : \E f \in Families :
    /\ a.opener \in session[f].tokens
    /\ Login(a.claims.sub, a.claims.client_id, a.claims.scope) \in session[f].logins

\* The gate does not know that a login has ended.  What it lets through for its
\* tokens came within the lifetime of an access token from then, be it to open
\* a transport session or to carry a call.  (A transport session opened before
\* keeps the login's identity, and other tokens may carry calls to it.)
EndedSessionsFade ==
  \A a \in acted : \A f \in Families :
    session[f].ended # NotYet =>
      /\ a.opener \in session[f].tokens => a.opened < session[f].ended + AccessTTL
      /\ a.token \in session[f].tokens => a.since < session[f].ended + AccessTTL

\* Whoever has a session and was not turned away holds a refresh token that only
\* its age can make useless, and renews what the login said: nothing that others
\* do ends a session.
OpenSessionsCanRefresh ==
  \A f \in Families :
    session[f].logins # {} /\ session[f].ended = NotYet =>
      \E r \in Tokens :
        /\ Live(r)
        /\ items[r].family_id = f
        /\ Login(items[r].user_id, items[r].client_id, items[r].scope) \in session[f].logins
=============================================================================
