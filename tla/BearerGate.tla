----------------------------- MODULE BearerGate -----------------------------
(***************************************************************************)
(* The bearer gate in front of the MCP transport: the access tokens of the *)
(* token endpoint (oauth/tokens.py, or Cognito's), their validation        *)
(* (oauth/bearer.py, keys.py), the middleware (oauth/metadata.py) and the  *)
(* identity it binds to the request (oauth/context.py).                    *)
(*                                                                         *)
(* A task of the server works on one request after the other; a request    *)
(* ends with an answer, an exception or the client going away, and the     *)
(* middleware's finally clause runs in each case.  A refused request       *)
(* changes nothing and is a stuttering step.                               *)
(*                                                                         *)
(* The transport is FastMCP's streamable HTTP with its default, stateful   *)
(* sessions (server.py): the request that opens a transport session starts *)
(* a task for it, which copies that request's context, and every tool of   *)
(* the session runs there, whichever request carries the call.             *)
(***************************************************************************)
EXTENDS Integers, Sequences, FiniteSets, PublicPaths

CONSTANTS
  Tasks, Users,
  Transports,     \* Mcp-Session-Ids; one that was closed stands for a new one
  Clients,        \* client ids; in the broker, the app clients of the pool
  AppClient,      \* the app client this server is configured with
  Broker,         \* TRUE: Cognito's tokens; FALSE: self-minted ones
  Jwks,           \* Cognito's key set: the JWKs by their kid
  Scopes,         \* the scopes tokens are asked for with
  AllowedScopes,  \* _ALLOWED_SCOPES
  Paths,
  AccessTTL,      \* lifetime of an access token
  Leeway,         \* _IAT_LEEWAY_SECONDS
  Skew,           \* how far Cognito's clock may be ahead
  Absent,         \* a claim or a JWK member that is not there
  NoClaims, NoToken, NoTransport, Idle,
  MaxTime, MaxRestarts, MaxTokens    \* bounds on the clock, restarts and tokens

ASSUME ModeAssumption == Broker \in BOOLEAN /\ AppClient \in Clients
ASSUME AbsentAssumption == Absent \notin Clients
ASSUME TimeAssumption ==
  /\ AccessTTL \in Nat /\ Leeway \in Nat /\ Skew \in Nat
  /\ MaxTime \in Nat /\ MaxRestarts \in Nat /\ MaxTokens \in Nat
ASSUME PathsAssumption ==
  /\ \A path \in Paths : path \in Seq(STRING)
  /\ LowerCase["mcp"] = "mcp"
ASSUME SkewAssumption == Skew <= Leeway
ASSUME JwksAssumption ==
  \A kid \in DOMAIN Jwks : \A m \in {"kty", "use", "alg"} : m \in DOMAIN Jwks[kid]

Jwt ==
  [kid : DOMAIN Jwks \union {"phase1"}, key : Nat, iss : {"AS"},
   aud : Clients \union {"mcp", Absent}, client_id : Clients \union {Absent},
   token_use : {"access", "id"}, sub : Users, scope : SUBSET Scopes,
   iat : Nat, exp : Nat]
Claims ==
  [sub : Users, client_id : Clients, scope : SUBSET Scopes, exp : Nat, iat : Nat]
Request ==
  [path : Paths, token : Jwt \union {NoToken}, prior : Claims \union {NoClaims},
   since : Nat]

TransportSession ==
  [claims : Claims \union {NoClaims}, token : Jwt \union {NoToken}, since : Nat]

ASSUME NoneAssumption ==
  /\ NoToken \notin Jwt /\ NoClaims \notin Claims
  /\ Idle \notin Request /\ NoTransport \notin TransportSession

VARIABLES
  now,
  key,       \* generation of the in-process signing key
  tokens,    \* history: every JWT issued, to this server's clients or others
  granted,   \* history: the access tokens among them that this server's
             \* token endpoint handed out, and when
  context,   \* _current_claims, by task
  request,   \* the request a task works on
  transport, \* the context of a transport session's task; history: the token
             \* of the request that opened it, and when that request came
  acted      \* history: the last tool call, with the token that opened its
             \* session (opener, opened) and the one that carried it (token, since)

vars == <<now, key, tokens, granted, context, request, transport, acted>>

Init ==
  /\ now = 0
  /\ key = 0
  /\ tokens = {}
  /\ granted = {}
  /\ context = [t \in Tasks |-> NoClaims]
  /\ request = [t \in Tasks |-> Idle]
  /\ transport = [x \in Transports |-> NoTransport]
  /\ acted = {}

-----------------------------------------------------------------------------
(***************************************************************************)
(* Tokens                                                                  *)
(***************************************************************************)

\* mint_access_token; KID is one and the same for every generation of keys.
MintedToken(u, c, scope) ==
  [kid |-> "phase1", key |-> key, iss |-> "AS", aud |-> "mcp", client_id |-> c,
   token_use |-> "access", sub |-> u, scope |-> scope,
   iat |-> now, exp |-> now + AccessTTL]

\* Cognito's access and ID tokens, signed at time at by its clock.
CognitoToken(use, kid, u, c, at) ==
  [kid |-> kid, key |-> 0, iss |-> "AS", token_use |-> use, sub |-> u,
   aud |-> IF use = "id" THEN c ELSE Absent,
   client_id |-> IF use = "id" THEN Absent ELSE c,
   scope |-> Scopes, iat |-> at, exp |-> at + AccessTTL]

\* The token endpoint puts the scope the client asked for into the token.
Mint(u, c, scope) ==
  /\ ~Broker
  /\ Cardinality(tokens) < MaxTokens
  /\ tokens' = tokens \union {MintedToken(u, c, scope)}
  /\ granted' = granted \union {[token |-> MintedToken(u, c, scope), at |-> now]}
  /\ UNCHANGED <<now, key, context, request, transport, acted>>

UsableJwk(jwk) ==
  /\ jwk.kty = "RSA"
  /\ jwk.use \in {"sig", Absent}
  /\ jwk.alg \in {"RS256", Absent}

\* A login with app client c; this server passes its own on.
CognitoIssues(kid, u, c, at) ==
  /\ Broker
  /\ UsableJwk(Jwks[kid])
  /\ Cardinality(tokens) < MaxTokens
  /\ tokens' = tokens \union
       {CognitoToken(use, kid, u, c, at) : use \in {"access", "id"}}
  /\ granted' = granted \union
       (IF c = AppClient
          THEN {[token |-> CognitoToken("access", kid, u, c, at), at |-> now]}
          ELSE {})
  /\ UNCHANGED <<now, key, context, request, transport, acted>>

\* A client gets its tokens from whoever issues them in this mode.
Issue ==
  IF Broker
    THEN \E kid \in DOMAIN Jwks, u \in Users, c \in Clients, ahead \in 0..Skew :
           CognitoIssues(kid, u, c, now + ahead)
    ELSE \E u \in Users, c \in Clients, scope \in SUBSET Scopes : Mint(u, c, scope)

-----------------------------------------------------------------------------
(***************************************************************************)
(* validate_bearer_token                                                   *)
(***************************************************************************)

SignatureHolds_Unchecked(tok) == TRUE              \* mutant: stale keys verify
SignatureHolds(tok) ==
  IF Broker THEN tok.kid \in DOMAIN Jwks /\ UsableJwk(Jwks[tok.kid])
            ELSE tok.kid = "phase1" /\ tok.key = key

Unexpired(tok) == now < tok.exp

Mature_Strict(tok) == tok.iat <= now                   \* mutant: no leeway
Mature(tok) == tok.iat <= now + Leeway

IsAccessToken(tok) == tok.token_use = "access"

MeantForUs_Any(tok) == TRUE                            \* mutant
MeantForUs(tok) == IF Broker THEN tok.client_id = AppClient ELSE tok.aud = "mcp"

ScopesKnown(tok) == tok.scope \subseteq AllowedScopes

Accepts(tok) ==
  /\ SignatureHolds(tok)
  /\ tok.iss = "AS"
  /\ Unexpired(tok)
  /\ Mature(tok)
  /\ IsAccessToken(tok)
  /\ MeantForUs(tok)
  /\ tok.client_id # Absent
  /\ ScopesKnown(tok)

UserClaims(tok) ==
  [sub |-> tok.sub, client_id |-> tok.client_id, scope |-> tok.scope,
   exp |-> tok.exp, iat |-> tok.iat]

-----------------------------------------------------------------------------
(***************************************************************************)
(* BearerEnforcementMiddleware and the tools behind it                     *)
(***************************************************************************)

\* A path on the allow-list passes with whatever is bound, and binds nothing.
PassPublic(t, path) ==
  /\ request[t] = Idle
  /\ IsPublicPath(path)
  /\ request' = [request EXCEPT ![t] =
       [path |-> path, token |-> NoToken, prior |-> context[t], since |-> now]]
  /\ UNCHANGED <<now, key, tokens, granted, context, transport, acted>>

\* Any other path needs one token, which must be valid; its claims are bound.
Admit(t, path, tok) ==
  /\ request[t] = Idle
  /\ ~IsPublicPath(path)
  /\ Accepts(tok)
  /\ context' = [context EXCEPT ![t] = UserClaims(tok)]
  /\ request' = [request EXCEPT ![t] =
       [path |-> path, token |-> tok, prior |-> context[t], since |-> now]]
  /\ UNCHANGED <<now, key, tokens, granted, transport, acted>>

AtTransport(t) == request[t] # Idle /\ request[t].path = <<"mcp">>

\* A request without a session id: the task of the new session copies the
\* context of the request's.
OpenTransport(t, x) ==
  /\ AtTransport(t)
  /\ transport[x] = NoTransport
  /\ transport' = [transport EXCEPT ![x] =
       [claims |-> context[t], token |-> request[t].token, since |-> request[t].since]]
  /\ UNCHANGED <<now, key, tokens, granted, context, request, acted>>

\* Any admitted request may carry a call to any session.  The tool runs in the
\* session's task, whose context never changes, for the user require_user_claims
\* finds there; that it may run after its request ended is the same step later.
CallTool(t, x) ==
  /\ AtTransport(t)
  /\ transport[x] # NoTransport /\ transport[x].claims # NoClaims
  /\ acted' = {[claims |-> transport[x].claims,
                opener |-> transport[x].token, opened |-> transport[x].since,
                token |-> request[t].token, since |-> request[t].since]}
  /\ UNCHANGED <<now, key, tokens, granted, context, request, transport>>

\* DELETE with the session's id.
CloseTransport(t, x) ==
  /\ AtTransport(t)
  /\ transport' = [transport EXCEPT ![x] = NoTransport]
  /\ UNCHANGED <<now, key, tokens, granted, context, request, acted>>

Unbound_Kept(t) == context[t]              \* mutant: no finally clause
Unbound(t) == IF request[t].token = NoToken THEN context[t] ELSE request[t].prior

Finish(t) ==
  /\ request[t] # Idle
  /\ context' = [context EXCEPT ![t] = Unbound(t)]
  /\ request' = [request EXCEPT ![t] = Idle]
  /\ UNCHANGED <<now, key, tokens, granted, transport, acted>>

Tick ==
  /\ now < MaxTime
  /\ now' = now + 1
  /\ UNCHANGED <<key, tokens, granted, context, request, transport, acted>>

\* The process restarts; offline, with a new signing key.
Restart ==
  /\ key < MaxRestarts
  /\ key' = key + 1
  /\ context' = [t \in Tasks |-> NoClaims]
  /\ request' = [t \in Tasks |-> Idle]
  /\ transport' = [x \in Transports |-> NoTransport]
  /\ acted' = {}
  /\ UNCHANGED <<now, tokens, granted>>

Next ==
  \/ Issue
  \/ \E t \in Tasks, path \in Paths : PassPublic(t, path)
  \/ \E t \in Tasks, path \in Paths, tok \in tokens : Admit(t, path, tok)
  \/ \E t \in Tasks, x \in Transports :
       OpenTransport(t, x) \/ CallTool(t, x) \/ CloseTransport(t, x)
  \/ \E t \in Tasks : Finish(t)
  \/ Tick
  \/ Restart

Spec == Init /\ [][Next]_vars

-----------------------------------------------------------------------------
(***************************************************************************)
(* Properties                                                              *)
(***************************************************************************)

TypeOK ==
  /\ now \in Nat
  /\ key \in Nat
  /\ tokens \subseteq Jwt
  /\ granted \subseteq [token : Jwt, at : Nat]
  /\ context \in [Tasks -> Claims \union {NoClaims}]
  /\ request \in [Tasks -> Request \union {Idle}]
  /\ transport \in [Transports -> TransportSession \union {NoTransport}]
  /\ acted \subseteq [claims : Claims, opener : Jwt \union {NoToken}, opened : Nat,
                     token : Jwt \union {NoToken}, since : Nat]

\* The task of a request carries exactly the identity of the request it works
\* on: nothing outlives a request, however it ends, and a request that shows no
\* token finds nobody's identity.  (This is the middleware's own task, from
\* which a transport session takes its copy.)
IdentityIsTheRequests ==
  \A t \in Tasks :
    context[t] = IF request[t] = Idle THEN NoClaims
                 ELSE IF request[t].token = NoToken THEN NoClaims
                 ELSE UserClaims(request[t].token)

\* This server handed the token out, as one of the key now in use, no longer
\* than the lifetime of an access token before the request came.
HandedOutInTime(tok, since) ==
  \E g \in granted :
    /\ g.token = tok
    /\ since < g.at + AccessTTL + Skew
    /\ ~Broker => tok.key = key

\* Two tokens stand behind every call of a tool, each handed out by this server
\* and shown in its lifetime: the one the transport session was opened with, for
\* whose user the tool runs, and the one of the request that carries the call.
ToolsRunOnGrantedTokens ==
  \A a \in acted :
    /\ HandedOutInTime(a.opener, a.opened)
    /\ a.claims = UserClaims(a.opener)
    /\ HandedOutInTime(a.token, a.since)

\* A tool runs for the user, the client and the scope of the token that the
\* request carrying the call was admitted with (context.py: tools "run in the
\* same asyncio task as the request that triggered them").
ToolsActForTheRequest == \A a \in acted : a.claims = UserClaims(a.token)

\* A token this server has handed out works until it expires or, offline, the
\* process restarts, although Cognito's clock may be ahead, provided it was
\* asked for with scopes the server knows.
Works(tok) == Broker \/ tok.key = key => (now < tok.exp => Accepts(tok))
GrantedTokensWork ==
  \A g \in granted : g.token.scope \subseteq AllowedScopes => Works(g.token)

\* No spelling of a path gets a request without a token to the transport,
\* even if the router resolved dots and ignored case.
NoTokenNoTransport ==
  \A t \in Tasks :
    request[t] # Idle => (request[t].token = NoToken => Resolved(request[t].path) # <<"mcp">>)
=============================================================================
