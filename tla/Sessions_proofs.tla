-------------------------- MODULE Sessions_proofs --------------------------
(***************************************************************************)
(* Proofs about Sessions, for any number of logins, tokens and tasks and   *)
(* any lifetimes.  The composition is first shown to be one of the         *)
(* refresh-token store and one of the gate, so that what is proved of the  *)
(* store holds here; SessionInv then ties the two together.                *)
(***************************************************************************)
EXTENDS Sessions, RefreshTokens_proofs, Lists_proofs

USE TokenAssumption, FamilyAssumption, RecordAssumption, ScopesAssumption

-----------------------------------------------------------------------------
(***************************************************************************)
(* The two components.                                                     *)
(***************************************************************************)
LEMMA StoreStepTaken == [SNext]_sessionVars => [Next]_vars
<1> SUFFICES ASSUME SNext PROVE [Next]_vars
  BY DEF sessionVars, gateVars, storeVars, vars
<1>1. ASSUME NEW u \in Users, NEW c \in Clients, NEW sc \in ScopeParams, NEW f \in Families,
             NEW r \in Tokens, OpenSession(u, c, sc, f, r)
      PROVE  Next
  BY <1>1 DEF OpenSession, Next
<1>2. ASSUME NEW r \in Tokens, NEW s \in Tokens, NEW asked \in ScopeParams,
             RefreshSession(r, s, asked)
      PROVE  Next
  BY <1>2 DEF RefreshSession, Next
<1>3. ASSUME NEW r \in Tokens, RefuseRefresh(r) PROVE Next
  BY <1>3 DEF RefuseRefresh, Next
<1>4. ASSUME NEW t \in Tasks, NEW path \in Paths, GateStep(G!PassPublic(t, path))
      PROVE  UNCHANGED vars
  BY <1>4 DEF GateStep, G!PassPublic, storeVars, vars
<1>5. ASSUME NEW t \in Tasks, NEW path \in Paths, NEW tok \in tokens,
             GateStep(G!Admit(t, path, tok))
      PROVE  UNCHANGED vars
  BY <1>5 DEF GateStep, G!Admit, storeVars, vars
<1>6. ASSUME NEW t \in Tasks, NEW x \in Transports,
             GateStep(G!OpenTransport(t, x)) \/ GateStep(G!CallTool(t, x))
               \/ GateStep(G!CloseTransport(t, x))
      PROVE  UNCHANGED vars
  BY <1>6 DEF GateStep, G!OpenTransport, G!CallTool, G!CloseTransport, storeVars, vars
<1>7. ASSUME NEW t \in Tasks, GateStep(G!Finish(t)) PROVE UNCHANGED vars
  BY <1>7 DEF GateStep, G!Finish, storeVars, vars
<1>8. CASE TimePasses
  BY <1>8 DEF TimePasses, Next
<1>9. CASE RestartServer
  BY <1>9 DEF RestartServer, Next
<1>10. QED
  BY <1>1, <1>2, <1>3, <1>4, <1>5, <1>6, <1>7, <1>8, <1>9 DEF SNext

\* The gate in front of it changes nothing for the store: every behaviour of
\* the server is one of RefreshTokens.
THEOREM ImplementsStore == SSpec => Spec
<1>1. SInit => Init
  BY DEF SInit
<1>2. QED
  BY <1>1, StoreStepTaken, PTL DEF SSpec, Spec

\* Live tokens belong to a user, a client and a scope of the model.
LEMMA LiveGrantee ==
  ASSUME TypeOK, NEW r \in Tokens, Live(r)
  PROVE  /\ items[r].user_id \in Users
         /\ items[r].client_id \in Clients
         /\ items[r].scope \in ScopeParams
  BY LiveRecord, RecordFields

LEMMA GateStepTaken == TypeOK /\ [SNext]_sessionVars => [G!Next]_(G!vars)
<1> SUFFICES ASSUME TypeOK, SNext PROVE [G!Next]_(G!vars)
  BY DEF sessionVars, gateVars, G!vars
<1>1. ASSUME NEW u \in Users, NEW c \in Clients, NEW sc \in ScopeParams, NEW f \in Families,
             NEW r \in Tokens, OpenSession(u, c, sc, f, r)
      PROVE  G!Next
  BY <1>1 DEF OpenSession, G!Next, G!Issue
<1>2. ASSUME NEW r \in Tokens, NEW s \in Tokens, NEW asked \in ScopeParams, Live(r),
             RefreshSession(r, s, asked)
      PROVE  G!Next
  <2>1. G!Mint(items[r].user_id, items[r].client_id, items[r].scope)
    BY <1>2 DEF RefreshSession, AsRecorded
  <2>2. QED
    BY <1>2, <2>1, LiveGrantee DEF G!Next, G!Issue
<1>3. ASSUME NEW r \in Tokens, RefuseRefresh(r) PROVE UNCHANGED G!vars
  BY <1>3 DEF RefuseRefresh, ReplayConsumed, RefuseUnknown, RefuseExpired, G!vars
<1>4. ASSUME NEW t \in Tasks, NEW path \in Paths, GateStep(G!PassPublic(t, path))
      PROVE  G!Next
  BY <1>4 DEF GateStep, G!Next
<1>5. ASSUME NEW t \in Tasks, NEW path \in Paths, NEW tok \in tokens,
             GateStep(G!Admit(t, path, tok))
      PROVE  G!Next
  BY <1>5 DEF GateStep, G!Next
<1>6. ASSUME NEW t \in Tasks, NEW x \in Transports,
             GateStep(G!OpenTransport(t, x)) \/ GateStep(G!CallTool(t, x))
               \/ GateStep(G!CloseTransport(t, x))
      PROVE  G!Next
  BY <1>6 DEF GateStep, G!Next
<1>7. ASSUME NEW t \in Tasks, GateStep(G!Finish(t)) PROVE G!Next
  BY <1>7 DEF GateStep, G!Next
<1>8. CASE TimePasses
  BY <1>8 DEF TimePasses, G!Next
<1>9. CASE RestartServer
  BY <1>9 DEF RestartServer, G!Next
<1>10. QED
  BY <1>1, <1>2, <1>3, <1>4, <1>5, <1>6, <1>7, <1>8, <1>9 DEF SNext

\* Nor does the store change anything for the gate, which only ever sees tokens
\* that a token endpoint may mint.
THEOREM ImplementsGate == SSpec => G!Spec
<1>1. SInit => G!Init
  BY DEF SInit
<1>2. QED
  BY <1>1, GateStepTaken, ImplementsStore, TypeCorrect, PTL DEF SSpec, G!Spec

-----------------------------------------------------------------------------
(***************************************************************************)
(* The invariant.  On the store's side: a session has a usable refresh     *)
(* token exactly until its client is turned away, and that token records   *)
(* its login.  On the gate's side: every access token belongs to a session *)
(* and was minted before that session ended, and what a request, a         *)
(* transport session or a call was shown is such a token, in time.         *)
(***************************************************************************)
Minted(f, tok) ==
  /\ tok.iat \in Nat
  /\ tok.exp = tok.iat + AccessTTL
  /\ tok.iat <= now
  /\ session[f].ended # NotYet => tok.iat <= session[f].ended
  /\ Login(tok.sub, tok.client_id, tok.scope) \in session[f].logins

TokensInv == \A f \in Families : \A tok \in session[f].tokens : Minted(f, tok)

OwnedInv == \A tok \in tokens : tok \in G!Jwt /\ \E f \in Families : tok \in session[f].tokens

Tied(f) ==
  /\ session[f].logins = {} <=> lineage[f] = {}
  /\ session[f].ended = NotYet => (lineage[f] # {} => LiveTokens(f) # {})
  /\ session[f].ended # NotYet => lineage[f] # {} /\ LiveTokens(f) = {}
StoreTied == \A f \in Families : Tied(f)

RecordsInv ==
  \A r \in Tokens :
    Live(r) => Login(items[r].user_id, items[r].client_id, items[r].scope)
                 \in session[items[r].family_id].logins

\* What the gate has checked of a token, and when.
InTime(tok, since) == tok \in tokens /\ since \in Nat /\ since < tok.exp

TaskInv(t) ==
  /\ request[t] # Idle =>
       /\ request[t].prior = NoClaims
       /\ request[t].path = <<"mcp">> => context[t] # NoClaims
  /\ context[t] # NoClaims =>
       /\ request[t] # Idle
       /\ InTime(request[t].token, request[t].since)
       /\ context[t] = G!UserClaims(request[t].token)

TransportInv(x) ==
  transport[x] # NoTransport =>
    /\ InTime(transport[x].token, transport[x].since)
    /\ transport[x].claims = G!UserClaims(transport[x].token)

CallInv(a) ==
  /\ InTime(a.opener, a.opened)
  /\ a.claims = G!UserClaims(a.opener)
  /\ InTime(a.token, a.since)

GateTied ==
  /\ key \in Nat
  /\ context \in [Tasks -> G!Claims \union {NoClaims}]
  /\ request \in [Tasks -> G!Request \union {Idle}]
  /\ \A t \in Tasks : TaskInv(t)
  /\ DOMAIN transport = Transports /\ \A x \in Transports : TransportInv(x)
  /\ \A a \in acted : CallInv(a)

SessionInv ==
  /\ SessionOK
  /\ TokensInv
  /\ OwnedInv
  /\ StoreTied
  /\ RecordsInv
  /\ GateTied

LEMMA InitSession == SInit => SessionInv
<1> SUFFICES ASSUME SInit PROVE SessionInv
  OBVIOUS
<1>1. /\ session = [f \in Families |-> [logins |-> {}, tokens |-> {}, ended |-> NotYet]]
      /\ lineage = [f \in Families |-> {}]
      /\ items = [t \in Tokens |-> NoRecord]
      /\ tokens = {} /\ acted = {} /\ key = 0
      /\ context = [t \in Tasks |-> NoClaims]
      /\ request = [t \in Tasks |-> Idle]
      /\ transport = [x \in Transports |-> NoTransport]
  BY DEF SInit, NoSession, Init, G!Init
<1>2. SessionOK
  BY <1>1 DEF SessionOK
<1>3. TokensInv /\ OwnedInv /\ StoreTied /\ RecordsInv
  BY <1>1 DEF TokensInv, OwnedInv, StoreTied, Tied, RecordsInv, Live
<1>4. GateTied
  BY <1>1 DEF GateTied, TaskInv, TransportInv
<1>5. QED
  BY <1>2, <1>3, <1>4 DEF SessionInv

-----------------------------------------------------------------------------
(***************************************************************************)
(* An access token is given to a session that has not ended.               *)
(***************************************************************************)
GivenTo(f, tok) ==
  /\ tokens' = tokens \union {tok}
  /\ tok \in G!Jwt
  /\ tok.iat = now /\ tok.exp = now + AccessTTL
  /\ \A g \in Families : g # f => session'[g] = session[g]
  /\ session'[f].tokens = session[f].tokens \union {tok}
  /\ session[f].ended = NotYet /\ session'[f].ended = NotYet
  /\ session[f].logins \subseteq session'[f].logins
  /\ Login(tok.sub, tok.client_id, tok.scope) \in session'[f].logins
  /\ UNCHANGED <<now, context, request, transport, acted>>

LEMMA MintedFields ==
  ASSUME now \in Nat, key \in Nat, NEW u \in Users, NEW c \in Clients, NEW sc \in ScopeParams
  PROVE  LET tok == G!MintedToken(u, c, sc)
         IN  /\ tok \in G!Jwt
             /\ tok.iat = now /\ tok.exp = now + AccessTTL
             /\ Login(tok.sub, tok.client_id, tok.scope) = Login(u, c, sc)
  BY LifetimeAssumption DEF G!MintedToken, G!Jwt, Login

LEMMA OpenGives ==
  ASSUME TypeOK, SessionInv, NEW u \in Users, NEW c \in Clients,
         NEW sc \in ScopeParams, NEW f \in Families, NEW r \in Tokens,
         OpenSession(u, c, sc, f, r)
  PROVE  /\ GivenTo(f, G!MintedToken(u, c, sc))
         /\ session'[f].logins = {Login(u, c, sc)}
<1> DEFINE tok == G!MintedToken(u, c, sc)
<1>1. /\ tok \in G!Jwt
      /\ tok.iat = now /\ tok.exp = now + AccessTTL
      /\ Login(tok.sub, tok.client_id, tok.scope) = Login(u, c, sc)
  BY MintedFields DEF TypeOK, SessionInv, GateTied
<1>2. /\ session' = [session EXCEPT ![f] =
           [logins |-> {Login(u, c, sc)}, tokens |-> {tok}, ended |-> NotYet]]
      /\ tokens' = tokens \union {tok}
      /\ UNCHANGED <<now, context, request, transport, acted>>
      /\ lineage[f] = {}
  BY DEF OpenSession, G!Mint, Grant, FreshFamily
<1>3. session[f].logins = {} /\ session[f].ended = NotYet
  BY <1>2 DEF SessionInv, StoreTied, Tied
<1>4. session[f].tokens = {}
  BY <1>3 DEF SessionInv, TokensInv, Minted
<1> HIDE DEF tok
<1>5. /\ \A g \in Families : g # f => session'[g] = session[g]
      /\ session'[f] = [logins |-> {Login(u, c, sc)}, tokens |-> {tok}, ended |-> NotYet]
  BY <1>2 DEF SessionInv, SessionOK
<1>6. /\ session'[f].logins = {Login(u, c, sc)}
      /\ session'[f].tokens = {tok}
      /\ session'[f].ended = NotYet
  BY <1>5
<1>7. GivenTo(f, tok)
  BY <1>1, <1>2, <1>3, <1>4, <1>5, <1>6 DEF GivenTo
<1>8. QED
  BY <1>6, <1>7 DEF tok

LEMMA RefreshGives ==
  ASSUME TypeOK, SessionInv, NEW r \in Tokens, NEW s \in Tokens,
         NEW asked \in ScopeParams, Live(r), RefreshSession(r, s, asked)
  PROVE  LET f == items[r].family_id
             tok == G!MintedToken(items[r].user_id, items[r].client_id, items[r].scope)
         IN  /\ f \in Families
             /\ GivenTo(f, tok)
             /\ session'[f].logins = session[f].logins
<1> DEFINE f == items[r].family_id
           tok == G!MintedToken(items[r].user_id, items[r].client_id, items[r].scope)
<1>1. /\ tok \in G!Jwt
      /\ tok.iat = now /\ tok.exp = now + AccessTTL
      /\ Login(tok.sub, tok.client_id, tok.scope)
           = Login(items[r].user_id, items[r].client_id, items[r].scope)
  BY MintedFields, LiveGrantee DEF TypeOK, SessionInv, GateTied
<1>2. f \in Families /\ r \in LiveTokens(f)
  BY LiveFamily
<1>3. /\ session' = [session EXCEPT ![f].tokens = @ \union {tok}]
      /\ tokens' = tokens \union {tok}
      /\ UNCHANGED <<now, context, request, transport, acted>>
  BY DEF RefreshSession, AsRecorded, G!Mint
<1>4. session[f].ended = NotYet
  BY <1>2 DEF SessionInv, StoreTied, Tied
<1>5. Login(tok.sub, tok.client_id, tok.scope) \in session[f].logins
  BY <1>1 DEF SessionInv, RecordsInv
<1>6. session[f] \in [logins : SUBSET [sub : Users, client_id : Clients, scope : SUBSET Scopes],
                      tokens : SUBSET G!Jwt, ended : Nat \union {NotYet}]
  BY <1>2 DEF SessionInv, SessionOK
<1> HIDE DEF tok, f
<1>7. /\ \A g \in Families : g # f => session'[g] = session[g]
      /\ session'[f] = [session[f] EXCEPT !.tokens = @ \union {tok}]
  BY <1>2, <1>3 DEF SessionInv, SessionOK
<1>8. /\ session'[f].tokens = session[f].tokens \union {tok}
      /\ session'[f].ended = session[f].ended
      /\ session'[f].logins = session[f].logins
  BY <1>6, <1>7
<1>9. QED
  BY <1>1, <1>2, <1>3, <1>4, <1>5, <1>7, <1>8 DEF GivenTo, f, tok

LEMMA GivenKeeps ==
  ASSUME TypeOK, SessionInv, NEW f \in Families, NEW tok, GivenTo(f, tok), key' = key
  PROVE  TokensInv' /\ OwnedInv' /\ GateTied'
<1>1. TokensInv'
  <2> SUFFICES ASSUME NEW g \in Families, NEW x \in session'[g].tokens PROVE Minted(g, x)'
    BY DEF TokensInv
  <2>1. CASE g = f /\ x = tok
    BY <2>1 DEF GivenTo, Minted, TypeOK
  <2>2. CASE x \in session[g].tokens
    <3>1. Minted(g, x)
      BY <2>2 DEF SessionInv, TokensInv
    <3>2. CASE g = f
      BY <3>1, <3>2 DEF GivenTo, Minted
    <3>3. CASE g # f
      BY <3>1, <3>3 DEF GivenTo, Minted
    <3>4. QED
      BY <3>2, <3>3
  <2>3. QED
    BY <2>1, <2>2 DEF GivenTo
<1>2. OwnedInv'
  <2> SUFFICES ASSUME NEW x \in tokens'
               PROVE  x \in G!Jwt /\ \E g \in Families : x \in session'[g].tokens
    BY DEF OwnedInv
  <2>1. CASE x = tok
    BY <2>1 DEF GivenTo
  <2>2. CASE x \in tokens
    <3>1. PICK g \in Families : x \in session[g].tokens
      BY <2>2 DEF SessionInv, OwnedInv
    <3>2. x \in session'[g].tokens
      BY <3>1 DEF GivenTo
    <3>3. QED
      BY <2>2, <3>2 DEF SessionInv, OwnedInv
  <2>3. QED
    BY <2>1, <2>2 DEF GivenTo
<1>3. GateTied'
  <2>1. \A t \in Tasks : TaskInv(t)'
    BY DEF GivenTo, SessionInv, GateTied, TaskInv, InTime, G!UserClaims
  <2>2. \A a \in acted' : CallInv(a)'
    BY DEF GivenTo, SessionInv, GateTied, CallInv, InTime, G!UserClaims
  <2>3. \A x \in Transports : TransportInv(x)'
    BY DEF GivenTo, SessionInv, GateTied, TransportInv, InTime, G!UserClaims
  <2>4. QED
    BY <2>1, <2>2, <2>3 DEF GivenTo, SessionInv, GateTied
<1>4. QED
  BY <1>1, <1>2, <1>3

LEMMA OpenKeeps ==
  ASSUME TypeOK, StoreInv, SessionInv, NEW u \in Users, NEW c \in Clients,
         NEW sc \in ScopeParams, NEW f \in Families, NEW r \in Tokens,
         OpenSession(u, c, sc, f, r)
  PROVE  SessionInv'
<1> DEFINE tok == G!MintedToken(u, c, sc)
<1>1. GivenTo(f, tok) /\ session'[f].logins = {Login(u, c, sc)}
  BY OpenGives
<1>2. TokensInv' /\ OwnedInv' /\ GateTied'
  BY <1>1, GivenKeeps DEF OpenSession, G!Mint
<1>3. /\ session' = [session EXCEPT ![f] =
           [logins |-> {Login(u, c, sc)}, tokens |-> {tok}, ended |-> NotYet]]
      /\ tok \in G!Jwt
  BY <1>1 DEF OpenSession, GivenTo
<1> HIDE DEF tok
<1>4. SessionOK'
  <2>1. Login(u, c, sc) \in [sub : Users, client_id : Clients, scope : SUBSET Scopes]
    BY DEF Login
  <2>2. QED
    BY <1>3, <2>1 DEF SessionInv, SessionOK
<1>5. \A g \in Families : LiveTokens(g)' = IF g = f THEN {r} ELSE LiveTokens(g)
  BY GrantEffect DEF OpenSession
<1>6. /\ lineage' = [lineage EXCEPT ![f] = @ \union {r}]
      /\ items' = [items EXCEPT ![r] = MintedRecord(u, c, sc, f)]
  BY DEF OpenSession, Grant
<1>7. ASSUME NEW g \in Families PROVE Tied(g)'
  <2>1. CASE g = f
    BY <1>1, <1>5, <1>6, <2>1 DEF Tied, GivenTo, TypeOK
  <2>2. CASE g # f
    BY <1>1, <1>5, <1>6, <2>2 DEF SessionInv, StoreTied, Tied, GivenTo, TypeOK
  <2>3. QED
    BY <2>1, <2>2
<1>8. ASSUME NEW x \in Tokens, Live(x)'
      PROVE  Login(items'[x].user_id, items'[x].client_id, items'[x].scope)
               \in session'[items'[x].family_id].logins
  <2>1. CASE x = r
    BY <1>1, <1>6, <2>1, MintedType DEF TypeOK
  <2>2. CASE x # r
    <3>1. items'[x] = items[x] /\ Live(x)
      BY <1>6, <1>8, <2>2 DEF TypeOK, Live
    <3>2. /\ items[x].family_id \in Families
          /\ Login(items[x].user_id, items[x].client_id, items[x].scope)
               \in session[items[x].family_id].logins
      BY <3>1, LiveFamily DEF SessionInv, RecordsInv
    <3>3. QED
      BY <1>1, <3>1, <3>2 DEF GivenTo
  <2>3. QED
    BY <2>1, <2>2
<1>9. QED
  BY <1>2, <1>4, <1>7, <1>8 DEF SessionInv, StoreTied, RecordsInv

LEMMA RefreshKeeps ==
  ASSUME TypeOK, StoreInv, SessionInv, NEW r \in Tokens, NEW s \in Tokens,
         NEW asked \in ScopeParams, Live(r), RefreshSession(r, s, asked)
  PROVE  SessionInv'
<1> DEFINE f == items[r].family_id
           tok == G!MintedToken(items[r].user_id, items[r].client_id, items[r].scope)
<1>1. f \in Families /\ GivenTo(f, tok) /\ session'[f].logins = session[f].logins
  BY RefreshGives
<1>2. TokensInv' /\ OwnedInv' /\ GateTied'
  BY <1>1, GivenKeeps DEF RefreshSession, G!Mint
<1>3. session' = [session EXCEPT ![f].tokens = @ \union {tok}] /\ tok \in G!Jwt
  BY <1>1 DEF RefreshSession, AsRecorded, GivenTo
<1> HIDE DEF tok
<1>4. SessionOK'
  <2>1. [session[f] EXCEPT !.tokens = @ \union {tok}]
          \in [logins : SUBSET [sub : Users, client_id : Clients, scope : SUBSET Scopes],
               tokens : SUBSET G!Jwt, ended : Nat \union {NotYet}]
    BY <1>1, <1>3 DEF SessionInv, SessionOK
  <2>2. QED
    BY <1>1, <1>3, <2>1 DEF SessionInv, SessionOK
<1>5. PICK g \in Families :
        /\ LiveTokens(g) = {r}
        /\ lineage' = [lineage EXCEPT ![g] = @ \union {s}]
        /\ items'[s].user_id = items[r].user_id
        /\ items'[s].client_id = items[r].client_id
        /\ items'[s].scope = items[r].scope
        /\ \A h \in Families : LiveTokens(h)' = IF h = g THEN {s} ELSE LiveTokens(h)
  BY RotateEffect DEF RefreshSession
<1>6. g = f
  BY <1>5 DEF LiveTokens
<1>7. ASSUME NEW h \in Families PROVE Tied(h)'
  <2>1. CASE h = f
    <3>1. session[f].logins # {}
      BY LiveFamily DEF SessionInv, RecordsInv
    <3>2. QED
      BY <1>1, <1>5, <1>6, <2>1, <3>1 DEF Tied, GivenTo, TypeOK
  <2>2. CASE h # f
    BY <1>1, <1>5, <1>6, <2>2 DEF SessionInv, StoreTied, Tied, GivenTo, TypeOK
  <2>3. QED
    BY <2>1, <2>2
<1>8. ASSUME NEW x \in Tokens, Live(x)'
      PROVE  Login(items'[x].user_id, items'[x].client_id, items'[x].scope)
               \in session'[items'[x].family_id].logins
  <2>1. CASE x = s
    <3>1. s \in LiveTokens(g)'
      BY <1>5
    <3>2. items'[s].family_id = g
      BY <3>1 DEF LiveTokens
    <3>3. Login(items[r].user_id, items[r].client_id, items[r].scope) \in session[f].logins
      BY DEF SessionInv, RecordsInv
    <3>4. QED
      BY <1>1, <1>5, <1>6, <2>1, <3>2, <3>3
  <2>2. CASE x # s
    <3>1. items'[x] = items[x] /\ Live(x)
      BY <1>8, <2>2 DEF RefreshSession, Rotate, Pop, TypeOK, Live
    <3>2. /\ items[x].family_id \in Families
          /\ Login(items[x].user_id, items[x].client_id, items[x].scope)
               \in session[items[x].family_id].logins
      BY <3>1, LiveFamily DEF SessionInv, RecordsInv
    <3>3. session'[items[x].family_id].logins = session[items[x].family_id].logins
      BY <1>1, <3>2 DEF GivenTo
    <3>4. QED
      BY <3>1, <3>2, <3>3
  <2>3. QED
    BY <2>1, <2>2
<1>9. QED
  BY <1>2, <1>4, <1>7, <1>8 DEF SessionInv, StoreTied, RecordsInv

-----------------------------------------------------------------------------
(***************************************************************************)
(* Sessions end when their clients are turned away.                        *)
(***************************************************************************)
LEMMA TurnedAwayEffect ==
  ASSUME TypeOK, SessionOK, NEW S, session' = TurnedAway(S)
  PROVE  /\ SessionOK'
         /\ \A f \in Families :
              /\ session'[f].logins = session[f].logins
              /\ session'[f].tokens = session[f].tokens
              /\ session'[f].ended =
                   IF f \in S /\ session[f].ended = NotYet THEN now ELSE session[f].ended
<1> DEFINE T == [logins : SUBSET [sub : Users, client_id : Clients, scope : SUBSET Scopes],
                 tokens : SUBSET G!Jwt, ended : Nat \union {NotYet}]
<1>1. ASSUME NEW f \in Families
      PROVE  LET new == IF f \in S /\ session[f].ended = NotYet
                          THEN [session[f] EXCEPT !.ended = now] ELSE session[f]
             IN  /\ new \in T
                 /\ new.logins = session[f].logins
                 /\ new.tokens = session[f].tokens
                 /\ new.ended =
                      IF f \in S /\ session[f].ended = NotYet THEN now ELSE session[f].ended
  BY DEF SessionOK, TypeOK
<1>2. session' \in [Families -> T]
  BY <1>1 DEF TurnedAway
<1>3. QED
  BY <1>1, <1>2 DEF TurnedAway, SessionOK

LEMMA TurnedAwayKeeps ==
  ASSUME TypeOK, SessionInv, NEW S, session' = TurnedAway(S), UNCHANGED <<now, tokens>>
  PROVE  SessionOK' /\ TokensInv' /\ OwnedInv'
<1>1. TokensInv'
  <2> SUFFICES ASSUME NEW f \in Families, NEW tok \in session'[f].tokens
               PROVE  Minted(f, tok)'
    BY DEF TokensInv
  <2>1. Minted(f, tok)
    BY TurnedAwayEffect DEF SessionInv, TokensInv
  <2>2. QED
    BY <2>1, TurnedAwayEffect DEF SessionInv, Minted
<1>2. QED
  BY <1>1, TurnedAwayEffect DEF SessionInv, OwnedInv, G!Jwt

\* What the gate holds stays good while it does nothing.
LEMMA SameTied ==
  ASSUME SessionInv, UNCHANGED <<key, tokens, context, request, transport, acted>>
  PROVE  GateTied'
<1>1. \A t \in Tasks : TaskInv(t)'
  BY DEF SessionInv, GateTied, TaskInv, InTime, G!UserClaims
<1>2. \A x \in Transports : TransportInv(x)'
  BY DEF SessionInv, GateTied, TransportInv, InTime, G!UserClaims
<1>3. \A a \in acted' : CallInv(a)'
  BY DEF SessionInv, GateTied, CallInv, InTime, G!UserClaims
<1>4. QED
  BY <1>1, <1>2, <1>3 DEF SessionInv, GateTied, G!Claims, G!Request, G!Jwt

LEMMA RefuseKeeps ==
  ASSUME TypeOK, StoreInv, SessionInv, NEW r \in Tokens, RefuseRefresh(r)
  PROVE  SessionInv'
<1> DEFINE S == {f \in Families : r \in lineage[f]}
<1>1. session' = TurnedAway(S) /\ UNCHANGED <<now, key, tokens, context, request, transport, acted>>
  BY DEF RefuseRefresh, ReplayConsumed, RefuseUnknown, RefuseExpired
<1>2. Refusal(r)
  BY DEF RefuseRefresh, Refusal
<1>3. /\ lineage' = lineage
      /\ \A f \in Families : LiveTokens(f)' = IF f \in S THEN {} ELSE LiveTokens(f)
  BY <1>2, RefusalEffect
<1>4. SessionOK' /\ TokensInv' /\ OwnedInv'
  BY <1>1, TurnedAwayKeeps
<1>5. ASSUME NEW f \in Families
      PROVE  /\ session'[f].logins = session[f].logins
             /\ session'[f].ended =
                  IF f \in S /\ session[f].ended = NotYet THEN now ELSE session[f].ended
  BY <1>1, TurnedAwayEffect DEF SessionInv
<1>6. ASSUME NEW f \in Families PROVE Tied(f)'
  <2>1. CASE f \in S
    <3>1. lineage[f] # {} /\ session'[f].ended # NotYet
      BY <1>5, <2>1, NoneAssumption DEF TypeOK
    <3>2. QED
      BY <1>3, <1>5, <2>1, <3>1 DEF SessionInv, StoreTied, Tied
  <2>2. CASE f \notin S
    BY <1>3, <1>5, <2>2 DEF SessionInv, StoreTied, Tied
  <2>3. QED
    BY <2>1, <2>2
<1> HIDE DEF S
<1>7. ASSUME NEW x \in Tokens, Live(x)'
      PROVE  Login(items'[x].user_id, items'[x].client_id, items'[x].scope)
               \in session'[items'[x].family_id].logins
  <2>1. items'[x] = items[x] /\ Live(x)
    BY <1>2, <1>7
      DEF Refusal, ReplayConsumed, Revoke, RefuseUnknown, RefuseExpired, Pop, Live, TypeOK
  <2>2. QED
    BY <1>5, <2>1, LiveFamily DEF SessionInv, RecordsInv
<1>8. GateTied'
  BY <1>1, SameTied
<1>9. QED
  BY <1>4, <1>6, <1>7, <1>8 DEF SessionInv, StoreTied, RecordsInv

LEMMA RestartKeeps ==
  ASSUME TypeOK, SessionInv, RestartServer
  PROVE  SessionInv'
<1> DEFINE S == {f \in Families : lineage[f] # {}}
<1>1. /\ session' = TurnedAway(S)
      /\ UNCHANGED <<now, tokens, lineage>>
      /\ key' = key + 1 /\ acted' = {}
      /\ context' = [t \in Tasks |-> NoClaims]
      /\ request' = [t \in Tasks |-> Idle]
      /\ transport' = [x \in Transports |-> NoTransport]
      /\ items' = [t \in Tokens |-> NoRecord]
  BY DEF RestartServer, G!Restart, Restart
<1>2. SessionOK' /\ TokensInv' /\ OwnedInv'
  BY <1>1, TurnedAwayKeeps
<1>3. ASSUME NEW f \in Families
      PROVE  /\ session'[f].logins = session[f].logins
             /\ session'[f].ended =
                  IF f \in S /\ session[f].ended = NotYet THEN now ELSE session[f].ended
  BY <1>1, TurnedAwayEffect DEF SessionInv
<1>4. \A f \in Families : LiveTokens(f)' = {}
  BY RestartEffect DEF RestartServer
<1>5. \A f \in Families : Tied(f)'
  BY <1>1, <1>3, <1>4, NoneAssumption DEF SessionInv, StoreTied, Tied, TypeOK
<1>6. RecordsInv'
  BY <1>1 DEF RecordsInv, Live
<1>7. GateTied'
  BY <1>1 DEF SessionInv, GateTied, TaskInv, TransportInv
<1>8. QED
  BY <1>2, <1>5, <1>6, <1>7 DEF SessionInv, StoreTied

-----------------------------------------------------------------------------
(***************************************************************************)
(* The gate's steps.                                                       *)
(***************************************************************************)
\* What does not look at the gate's requests stays as it is.
LEMMA GateStepKeeps ==
  ASSUME SessionInv, UNCHANGED <<storeVars, session, tokens>>, now' \in Nat, now \in Nat,
         now <= now', GateTied'
  PROVE  SessionInv'
<1>1. TokensInv'
  <2> SUFFICES ASSUME NEW f \in Families, NEW tok \in session[f].tokens PROVE Minted(f, tok)'
    BY DEF TokensInv
  <2>1. Minted(f, tok)
    BY DEF SessionInv, TokensInv
  <2>2. QED
    BY <2>1 DEF Minted
<1>2. SessionOK' /\ OwnedInv'
  BY DEF SessionInv, SessionOK, OwnedInv, G!Jwt
<1>3. StoreTied' /\ RecordsInv'
  BY DEF SessionInv, StoreTied, Tied, RecordsInv, LiveTokens, Live, storeVars
<1>4. QED
  BY <1>1, <1>2, <1>3 DEF SessionInv

\* The transport is not on the allow-list.
LEMMA TransportIsNotPublic == ~G!IsPublicPath(<<"mcp">>)
<1> DEFINE path == <<"mcp">>
           keep == {n \in DOMAIN path : path[n] \notin G!Ignored}
<1>1. Len(path) = 1 /\ DOMAIN path = 1..1 /\ path[1] = "mcp" /\ path \in Seq({"mcp"})
  OBVIOUS
<1>2. keep = {1}
  <2>1. "mcp" \notin G!Ignored
    BY DEF G!Ignored
  <2>2. QED
    BY <1>1, <2>1
<1> HIDE DEF keep
<1>3. G!Selected(path, keep) = Selected(path, keep)
  BY DEF G!Selected, Selected, G!Growing, Growing
<1>4. Selected(path, keep) = <<"mcp">>
  <2> DEFINE f == Growing(path, keep)
  <2>1. f[0] = <<>> /\ f[1] = Grown(f, path, keep, 1)
    BY <1>1, GrowingEquation
  <2> HIDE DEF f
  <2>2. f[1] = Append(f[0], path[1])
    <3>1. 1 \in keep /\ 1 - 1 = 0
      BY <1>2
    <3> HIDE DEF path
    <3>2. QED
      BY <2>1, <3>1 DEF Grown
  <2>3. f[1] = <<"mcp">>
    BY <1>1, <2>1, <2>2
  <2>4. QED
    BY <1>1, <2>3 DEF Selected, f
<1>5. G!NormalizePath(path) = [n \in 1..1 |-> LowerCase["mcp"]]
  <2>1. G!NormalizePath(path) = G!Mapped(LowerCase, G!Selected(path, keep))
    BY DEF G!NormalizePath, keep
  <2>2. G!NormalizePath(path) = G!Mapped(LowerCase, path)
    BY <1>3, <1>4, <2>1
  <2>3. QED
    BY <1>1, <2>2 DEF G!Mapped
<1>6. G!NormalizePath(path) = <<"mcp">>
  BY <1>5, LowerCaseAssumption
<1>7. <<"mcp">> # <<"health">>
  <2>1. <<"mcp">>[1] = "mcp" /\ <<"health">>[1] = "health"
    OBVIOUS
  <2>2. QED
    BY ONLY <2>1
<1>8. QED
  BY <1>1, <1>6, <1>7 DEF G!IsPublicPath

\* The transport sessions and the last call stay as good as they are.
LEMMA TransportsStay ==
  ASSUME SessionInv, UNCHANGED <<tokens, transport, acted>>
  PROVE  /\ DOMAIN transport' = Transports /\ \A x \in Transports : TransportInv(x)'
         /\ \A a \in acted' : CallInv(a)'
<1>1. \A x \in Transports : TransportInv(x)'
  BY DEF SessionInv, GateTied, TransportInv, InTime, G!UserClaims
<1>2. \A a \in acted' : CallInv(a)'
  BY DEF SessionInv, GateTied, CallInv, InTime, G!UserClaims
<1>3. QED
  BY <1>1, <1>2 DEF SessionInv, GateTied

LEMMA PublicTied ==
  ASSUME TypeOK, SessionInv, NEW t \in Tasks, NEW path \in Paths, G!PassPublic(t, path)
  PROVE  GateTied'
<1> DEFINE r0 == [path |-> path, token |-> NoJwt, prior |-> context[t], since |-> now]
<1>1. /\ request[t] = Idle
      /\ G!IsPublicPath(path)
      /\ request' = [request EXCEPT ![t] = r0]
      /\ UNCHANGED <<now, key, tokens, granted, context, transport, acted>>
  BY DEF G!PassPublic
<1>2. context[t] = NoClaims
  BY <1>1 DEF SessionInv, GateTied, TaskInv
<1>3. r0 \in G!Request
  BY <1>2 DEF TypeOK, G!Request
<1>4. path # <<"mcp">>
  BY <1>1, TransportIsNotPublic
<1>5. ASSUME NEW s \in Tasks PROVE TaskInv(s)'
  <2>1. CASE s = t
    <3>1. request'[t] = r0
      BY <1>1 DEF SessionInv, GateTied
    <3>2. request'[t].prior = NoClaims /\ request'[t].path # <<"mcp">>
      BY <1>2, <1>4, <3>1
    <3>3. context'[t] = NoClaims
      BY <1>1, <1>2
    <3>4. QED
      BY <2>1, <3>2, <3>3 DEF TaskInv
  <2>2. CASE s # t
    BY <1>1, <2>2 DEF SessionInv, GateTied, TaskInv, InTime, G!UserClaims
  <2>3. QED
    BY <2>1, <2>2
<1>6. /\ DOMAIN transport' = Transports /\ \A x \in Transports : TransportInv(x)'
      /\ \A a \in acted' : CallInv(a)'
  BY <1>1, TransportsStay
<1>7. QED
  BY <1>1, <1>3, <1>5, <1>6 DEF SessionInv, GateTied, G!Claims, G!Request, G!Jwt

LEMMA AdmitTied ==
  ASSUME TypeOK, SessionInv, NEW t \in Tasks, NEW path \in Paths, NEW tok \in tokens,
         G!Admit(t, path, tok)
  PROVE  GateTied'
<1> DEFINE r0 == [path |-> path, token |-> tok, prior |-> context[t], since |-> now]
<1>1. /\ request[t] = Idle
      /\ now < tok.exp /\ tok.client_id # Absent
      /\ context' = [context EXCEPT ![t] = G!UserClaims(tok)]
      /\ request' = [request EXCEPT ![t] = r0]
      /\ UNCHANGED <<now, key, tokens, granted, transport, acted>>
  BY DEF G!Admit, G!Accepts, G!Unexpired
<1>2. context[t] = NoClaims
  BY <1>1 DEF SessionInv, GateTied, TaskInv
<1>3. tok \in G!Jwt
  BY DEF SessionInv, OwnedInv
<1>4. G!UserClaims(tok) \in G!Claims
  BY <1>1, <1>3 DEF G!UserClaims, G!Claims, G!Jwt
<1>5. r0 \in G!Request /\ r0 # Idle /\ G!UserClaims(tok) # NoClaims
  BY <1>2, <1>3, <1>4, NoneAssumption DEF TypeOK, G!Request
<1>6. ASSUME NEW s \in Tasks PROVE TaskInv(s)'
  <2>1. CASE s = t
    <3>1. request'[t] = r0 /\ context'[t] = G!UserClaims(tok)
      BY <1>1 DEF SessionInv, GateTied
    <3>2. InTime(tok, now)'
      BY <1>1 DEF InTime, TypeOK
    <3>3. QED
      BY <1>1, <1>2, <1>5, <2>1, <3>1, <3>2 DEF TaskInv, InTime, G!UserClaims
  <2>2. CASE s # t
    BY <1>1, <2>2 DEF SessionInv, GateTied, TaskInv, InTime, G!UserClaims
  <2>3. QED
    BY <2>1, <2>2
<1>7. /\ DOMAIN transport' = Transports /\ \A x \in Transports : TransportInv(x)'
      /\ \A a \in acted' : CallInv(a)'
  BY <1>1, TransportsStay
<1>8. context' \in [Tasks -> G!Claims \union {NoClaims}]
  BY <1>1, <1>4 DEF SessionInv, GateTied
<1>9. request' \in [Tasks -> G!Request \union {Idle}]
  BY <1>1, <1>5 DEF SessionInv, GateTied
<1>10. QED
  BY <1>1, <1>6, <1>7, <1>8, <1>9 DEF SessionInv, GateTied, G!Claims, G!Request, G!Jwt

\* A request at the transport has shown a token, whose claims its task carries.
LEMMA AtTransportShown ==
  ASSUME SessionInv, NEW t \in Tasks, G!AtTransport(t)
  PROVE  /\ InTime(request[t].token, request[t].since)
         /\ context[t] = G!UserClaims(request[t].token)
  BY DEF SessionInv, GateTied, TaskInv, G!AtTransport

LEMMA OpenTied ==
  ASSUME SessionInv, NEW t \in Tasks, NEW x \in Transports, G!OpenTransport(t, x)
  PROVE  GateTied'
<1> DEFINE new == [claims |-> context[t], token |-> request[t].token, since |-> request[t].since]
<1>1. /\ transport' = [transport EXCEPT ![x] = new]
      /\ UNCHANGED <<now, key, tokens, granted, context, request, acted>>
  BY DEF G!OpenTransport
<1>2. /\ InTime(new.token, new.since)
      /\ new.claims = G!UserClaims(new.token)
  BY AtTransportShown DEF G!OpenTransport
<1> HIDE DEF new
<1>3. ASSUME NEW y \in Transports PROVE TransportInv(y)'
  <2>1. CASE y = x
    <3>1. transport'[y] = new
      BY <1>1, <2>1 DEF SessionInv, GateTied
    <3>2. InTime(transport'[y].token, transport'[y].since)
      BY <1>2, <3>1
    <3>3. transport'[y].claims = G!UserClaims(transport'[y].token)
      BY <1>2, <3>1
    <3>4. QED
      BY <1>1, <3>2, <3>3 DEF TransportInv, InTime, G!UserClaims
  <2>2. CASE y # x
    BY <1>1, <2>2 DEF SessionInv, GateTied, TransportInv, InTime, G!UserClaims
  <2>3. QED
    BY <2>1, <2>2
<1>4. \A s \in Tasks : TaskInv(s)'
  BY <1>1 DEF SessionInv, GateTied, TaskInv, InTime, G!UserClaims
<1>5. \A a \in acted' : CallInv(a)'
  BY <1>1 DEF SessionInv, GateTied, CallInv, InTime, G!UserClaims
<1>6. QED
  BY <1>1, <1>3, <1>4, <1>5 DEF SessionInv, GateTied, G!Claims, G!Request, G!Jwt

LEMMA CallTied ==
  ASSUME SessionInv, NEW t \in Tasks, NEW x \in Transports, G!CallTool(t, x)
  PROVE  GateTied'
<1>1. /\ transport[x] # NoTransport
      /\ acted' = {[claims |-> transport[x].claims,
                    opener |-> transport[x].token, opened |-> transport[x].since,
                    token |-> request[t].token, since |-> request[t].since]}
      /\ UNCHANGED <<now, key, tokens, granted, context, request, transport>>
  BY DEF G!CallTool
<1>2. /\ InTime(transport[x].token, transport[x].since)
      /\ transport[x].claims = G!UserClaims(transport[x].token)
  BY <1>1 DEF SessionInv, GateTied, TransportInv
<1>3. InTime(request[t].token, request[t].since)
  BY AtTransportShown DEF G!CallTool
<1>4. \A a \in acted' : CallInv(a)'
  BY <1>1, <1>2, <1>3 DEF CallInv, InTime, G!UserClaims
<1>5. \A y \in Transports : TransportInv(y)'
  BY <1>1 DEF SessionInv, GateTied, TransportInv, InTime, G!UserClaims
<1>6. \A s \in Tasks : TaskInv(s)'
  BY <1>1 DEF SessionInv, GateTied, TaskInv, InTime, G!UserClaims
<1>7. QED
  BY <1>1, <1>4, <1>5, <1>6 DEF SessionInv, GateTied, G!Claims, G!Request, G!Jwt

LEMMA CloseTied ==
  ASSUME SessionInv, NEW t \in Tasks, NEW x \in Transports, G!CloseTransport(t, x)
  PROVE  GateTied'
<1>1. /\ transport' = [transport EXCEPT ![x] = NoTransport]
      /\ UNCHANGED <<now, key, tokens, granted, context, request, acted>>
  BY DEF G!CloseTransport
<1>2. \A y \in Transports : TransportInv(y)'
  BY <1>1 DEF SessionInv, GateTied, TransportInv, InTime, G!UserClaims
<1>3. \A s \in Tasks : TaskInv(s)'
  BY <1>1 DEF SessionInv, GateTied, TaskInv, InTime, G!UserClaims
<1>4. \A a \in acted' : CallInv(a)'
  BY <1>1 DEF SessionInv, GateTied, CallInv, InTime, G!UserClaims
<1>5. QED
  BY <1>1, <1>2, <1>3, <1>4 DEF SessionInv, GateTied, G!Claims, G!Request, G!Jwt

LEMMA FinishTied ==
  ASSUME SessionInv, NEW t \in Tasks, G!Finish(t)
  PROVE  GateTied'
<1>1. /\ request[t] # Idle
      /\ context' = [context EXCEPT ![t] = G!Unbound(t)]
      /\ request' = [request EXCEPT ![t] = Idle]
      /\ UNCHANGED <<now, key, tokens, granted, transport, acted>>
  BY DEF G!Finish
<1>2. G!Unbound(t) = NoClaims
  <2>1. CASE request[t].token = NoJwt
    BY <2>1, <1>1, NoneAssumption
      DEF SessionInv, GateTied, TaskInv, InTime, OwnedInv, G!Unbound
  <2>2. CASE request[t].token # NoJwt
    BY <2>2, <1>1 DEF SessionInv, GateTied, TaskInv, G!Unbound
  <2>3. QED
    BY <2>1, <2>2
<1>3. ASSUME NEW s \in Tasks PROVE TaskInv(s)'
  <2>1. CASE s = t
    BY <1>1, <1>2, <2>1 DEF SessionInv, GateTied, TaskInv
  <2>2. CASE s # t
    BY <1>1, <2>2 DEF SessionInv, GateTied, TaskInv, InTime, G!UserClaims
  <2>3. QED
    BY <2>1, <2>2
<1>4. context' \in [Tasks -> G!Claims \union {NoClaims}]
  BY <1>1, <1>2 DEF SessionInv, GateTied
<1>5. request' \in [Tasks -> G!Request \union {Idle}]
  BY <1>1 DEF SessionInv, GateTied
<1>6. /\ DOMAIN transport' = Transports /\ \A x \in Transports : TransportInv(x)'
      /\ \A a \in acted' : CallInv(a)'
  BY <1>1, TransportsStay
<1>7. QED
  BY <1>1, <1>3, <1>4, <1>5, <1>6 DEF SessionInv, GateTied, G!Claims, G!Request, G!Jwt

-----------------------------------------------------------------------------
LEMMA SessionStep ==
  TypeOK /\ StoreInv /\ SessionInv /\ [SNext]_sessionVars => SessionInv'
<1> SUFFICES ASSUME TypeOK, StoreInv, SessionInv, [SNext]_sessionVars PROVE SessionInv'
  OBVIOUS
<1>0. now \in Nat
  BY DEF TypeOK
<1>1. ASSUME NEW t \in Tasks, NEW path \in Paths, GateStep(G!PassPublic(t, path))
      PROVE  SessionInv'
  <2>1. GateTied'
    BY <1>1, PublicTied DEF GateStep
  <2>2. UNCHANGED <<now, tokens, storeVars, session>>
    BY <1>1 DEF GateStep, G!PassPublic
  <2>3. QED
    BY <1>0, <2>1, <2>2, GateStepKeeps
<1>2. ASSUME NEW t \in Tasks, NEW path \in Paths, NEW tok \in tokens,
             GateStep(G!Admit(t, path, tok))
      PROVE  SessionInv'
  <2>1. GateTied'
    BY <1>2, AdmitTied DEF GateStep
  <2>2. UNCHANGED <<now, tokens, storeVars, session>>
    BY <1>2 DEF GateStep, G!Admit
  <2>3. QED
    BY <1>0, <2>1, <2>2, GateStepKeeps
<1>3. ASSUME NEW t \in Tasks, NEW x \in Transports,
             GateStep(G!OpenTransport(t, x)) \/ GateStep(G!CallTool(t, x))
               \/ GateStep(G!CloseTransport(t, x))
      PROVE  SessionInv'
  <2>1. GateTied'
    BY <1>3, OpenTied, CallTied, CloseTied DEF GateStep
  <2>2. UNCHANGED <<now, tokens, storeVars, session>>
    BY <1>3 DEF GateStep, G!OpenTransport, G!CallTool, G!CloseTransport
  <2>3. QED
    BY <1>0, <2>1, <2>2, GateStepKeeps
<1>4. ASSUME NEW t \in Tasks, GateStep(G!Finish(t)) PROVE SessionInv'
  <2>1. GateTied'
    BY <1>4, FinishTied DEF GateStep
  <2>2. UNCHANGED <<now, tokens, storeVars, session>>
    BY <1>4 DEF GateStep, G!Finish
  <2>3. QED
    BY <1>0, <2>1, <2>2, GateStepKeeps
<1>5. CASE TimePasses
  <2>1. /\ now' = now + 1
        /\ UNCHANGED <<storeVars, session, key, tokens, context, request, transport, acted>>
    BY <1>5 DEF TimePasses, Tick, G!Tick, storeVars
  <2>2. QED
    BY <1>0, <2>1, SameTied, GateStepKeeps
<1>6. CASE UNCHANGED sessionVars
  BY <1>0, <1>6, SameTied, GateStepKeeps DEF sessionVars, gateVars
<1>7. QED
  BY <1>1, <1>2, <1>3, <1>4, <1>5, <1>6, OpenKeeps, RefreshKeeps, RefuseKeeps, RestartKeeps
    DEF SNext

LEMMA SessionInvariant == SSpec => [](TypeOK /\ SessionInv)
  BY InitSession, SessionStep, ImplementsStore, TypeCorrect, StoreInvariant, PTL DEF SSpec

\* Every session keeps its type.
THEOREM SessionsTyped == SSpec => []SessionOK
  BY SessionInvariant, PTL DEF SessionInv

\* However often a login is renewed, tools run for the user, the client and the
\* scope of the login whose token opened their transport session.
THEOREM ToolsAlwaysActForALogin == SSpec => []ToolsActForALogin
<1>1. SessionInv => ToolsActForALogin
  <2> SUFFICES ASSUME SessionInv, NEW a \in acted
               PROVE  \E f \in Families :
                        /\ a.opener \in session[f].tokens
                        /\ Login(a.claims.sub, a.claims.client_id, a.claims.scope)
                             \in session[f].logins
    BY DEF ToolsActForALogin
  <2>1. a.opener \in tokens /\ a.claims = G!UserClaims(a.opener)
    BY DEF SessionInv, GateTied, CallInv, InTime
  <2>2. PICK f \in Families : a.opener \in session[f].tokens
    BY <2>1 DEF SessionInv, OwnedInv
  <2>3. Login(a.opener.sub, a.opener.client_id, a.opener.scope) \in session[f].logins
    BY <2>2 DEF SessionInv, TokensInv, Minted
  <2>4. QED
    BY <2>1, <2>2, <2>3 DEF G!UserClaims
<1>2. QED
  BY <1>1, SessionInvariant, PTL

\* A token shown in time belongs to a login that ended less than the lifetime of
\* an access token before, if it has ended.
LEMMA ShownBeforeItFades ==
  ASSUME SessionInv, NEW tok, NEW since, InTime(tok, since),
         NEW f \in Families, tok \in session[f].tokens, session[f].ended # NotYet
  PROVE  since < session[f].ended + AccessTTL
<1>1. since \in Nat /\ since < tok.exp
  BY DEF InTime
<1>2. /\ tok.iat \in Nat
      /\ tok.exp = tok.iat + AccessTTL
      /\ tok.iat <= session[f].ended
  BY DEF SessionInv, TokensInv, Minted
<1>3. session[f].ended \in Nat
  BY DEF SessionInv, SessionOK
<1>4. QED
  BY <1>1, <1>2, <1>3, LifetimeAssumption

\* The access tokens of a login outlive it by no more than their lifetime: after
\* that they neither open a transport session nor carry a call.
THEOREM EndedSessionsAlwaysFade == SSpec => []EndedSessionsFade
<1>1. SessionInv => EndedSessionsFade
  <2> SUFFICES ASSUME SessionInv, NEW a \in acted, NEW f \in Families,
                      session[f].ended # NotYet
               PROVE  /\ a.opener \in session[f].tokens =>
                           a.opened < session[f].ended + AccessTTL
                      /\ a.token \in session[f].tokens =>
                           a.since < session[f].ended + AccessTTL
    BY DEF EndedSessionsFade
  <2>1. InTime(a.opener, a.opened) /\ InTime(a.token, a.since)
    BY DEF SessionInv, GateTied, CallInv
  <2>2. QED
    BY <2>1, ShownBeforeItFades
<1>2. QED
  BY <1>1, SessionInvariant, PTL

\* A session that was not turned away can be renewed, as what it was opened for.
THEOREM OpenSessionsStayRenewable == SSpec => []OpenSessionsCanRefresh
<1>1. TypeOK /\ SessionInv => OpenSessionsCanRefresh
  <2> SUFFICES ASSUME TypeOK, SessionInv, NEW f \in Families,
                      session[f].logins # {}, session[f].ended = NotYet
               PROVE  \E r \in Tokens :
                        /\ Live(r)
                        /\ items[r].family_id = f
                        /\ Login(items[r].user_id, items[r].client_id, items[r].scope)
                             \in session[f].logins
    BY DEF OpenSessionsCanRefresh
  <2>1. PICK r \in Tokens : r \in LiveTokens(f)
    BY DEF SessionInv, StoreTied, Tied, LiveTokens
  <2>2. QED
    BY <2>1 DEF LiveTokens, SessionInv, RecordsInv
<1>2. QED
  BY <1>1, SessionInvariant, PTL

-----------------------------------------------------------------------------
(***************************************************************************)
(* The gate's own promise.  GateGrants is what the invariant of the        *)
(* sessions leaves open: every access token was handed out when it was     *)
(* minted, and what a request, a transport session or a call has shown is  *)
(* signed with the key now in use, because a restart that changes the key ends them all.       *)
(***************************************************************************)
HandedOut == \A tok \in tokens : \E g \in granted : g.token = tok /\ g.at = tok.iat

KeyInUse ==
  /\ \A t \in Tasks : context[t] # NoClaims => request[t].token.key = key
  /\ \A x \in Transports : transport[x] # NoTransport => transport[x].token.key = key
  /\ \A a \in acted : a.opener.key = key /\ a.token.key = key

GateGrants == HandedOut /\ KeyInUse

LEMMA MintGrants ==
  ASSUME GateGrants, NEW u, NEW c, NEW scope, G!Mint(u, c, scope)
  PROVE  GateGrants'
<1> DEFINE new == G!MintedToken(u, c, scope)
<1> DEFINE g0 == [token |-> new, at |-> now]
<1>1. new.iat = now /\ g0.token = new /\ g0.at = now
  BY DEF G!MintedToken
<1>2. /\ tokens' = tokens \union {new}
      /\ granted' = granted \union {g0}
      /\ UNCHANGED <<key, context, request, transport, acted>>
  BY DEF G!Mint
<1> HIDE DEF new, g0
<1>3. HandedOut'
  <2> SUFFICES ASSUME NEW tok \in tokens'
               PROVE  \E g \in granted' : g.token = tok /\ g.at = tok.iat
    BY DEF HandedOut
  <2>1. CASE tok \in tokens
    BY <1>2, <2>1 DEF GateGrants, HandedOut
  <2>2. CASE tok = new
    BY <1>1, <1>2, <2>2
  <2>3. QED
    BY <1>2, <2>1, <2>2
<1>4. KeyInUse'
  BY <1>2 DEF GateGrants, KeyInUse
<1>5. QED
  BY <1>3, <1>4 DEF GateGrants

LEMMA GrantsStep ==
  SessionInv /\ SessionInv' /\ GateGrants /\ [SNext]_sessionVars => GateGrants'
<1> SUFFICES ASSUME SessionInv, SessionInv', GateGrants, [SNext]_sessionVars
             PROVE  GateGrants'
  OBVIOUS
<1>1. ASSUME NEW u, NEW c, NEW scope, NEW f, NEW r, OpenSession(u, c, scope, f, r)
      PROVE  GateGrants'
  BY <1>1, MintGrants DEF OpenSession
<1>2. ASSUME NEW r, NEW s, NEW asked, RefreshSession(r, s, asked) PROVE GateGrants'
  BY <1>2, MintGrants DEF RefreshSession
<1>3. ASSUME UNCHANGED <<key, tokens, granted, context, request, transport, acted>> PROVE GateGrants'
  BY <1>3 DEF GateGrants, HandedOut, KeyInUse
<1>4. ASSUME NEW t \in Tasks, NEW path, G!PassPublic(t, path) PROVE GateGrants'
  <2>1. PICK r0 : request' = [request EXCEPT ![t] = r0]
    BY <1>4 DEF G!PassPublic
  <2>2. request[t] = Idle /\ UNCHANGED <<key, tokens, granted, context, transport, acted>>
    BY <1>4 DEF G!PassPublic
  <2>3. context[t] = NoClaims
    BY <2>2 DEF SessionInv, GateTied, TaskInv
  <2>4. \A s \in Tasks : context'[s] # NoClaims => request'[s].token.key = key
    BY <2>1, <2>2, <2>3 DEF GateGrants, KeyInUse
  <2>5. QED
    BY <2>2, <2>4 DEF GateGrants, HandedOut, KeyInUse
<1>5. ASSUME NEW t \in Tasks, NEW path, NEW tok, G!Admit(t, path, tok) PROVE GateGrants'
  <2>1. PICK r0 : r0.token = tok /\ request' = [request EXCEPT ![t] = r0]
    BY <1>5 DEF G!Admit
  <2>2. tok.key = key
    BY <1>5 DEF G!Admit, G!Accepts, G!SignatureHolds
  <2>3. /\ context' = [context EXCEPT ![t] = G!UserClaims(tok)]
        /\ UNCHANGED <<key, tokens, granted, transport, acted>>
    BY <1>5 DEF G!Admit
  <2>4. request \in [Tasks -> G!Request \union {Idle}]
    BY DEF SessionInv, GateTied
  <2>5. ASSUME NEW s \in Tasks, context'[s] # NoClaims PROVE request'[s].token.key = key
    <3>1. CASE s = t
      BY <2>1, <2>2, <2>4, <3>1
    <3>2. CASE s # t
      BY <2>1, <2>3, <2>5, <3>2 DEF GateGrants, KeyInUse
    <3>3. QED
      BY <3>1, <3>2
  <2>6. QED
    BY <2>3, <2>5 DEF GateGrants, HandedOut, KeyInUse
<1>6. ASSUME NEW t \in Tasks, NEW x \in Transports, G!CallTool(t, x) PROVE GateGrants'
  <2>1. /\ transport[x] # NoTransport
        /\ UNCHANGED <<key, tokens, granted, context, request, transport>>
        /\ \A a \in acted' : a.opener = transport[x].token /\ a.token = request[t].token
    BY <1>6 DEF G!CallTool
  <2>2. context[t] # NoClaims
    BY <1>6 DEF G!CallTool, G!AtTransport, SessionInv, GateTied, TaskInv
  <2>3. \A a \in acted' : a.opener.key = key /\ a.token.key = key
    BY <2>1, <2>2 DEF GateGrants, KeyInUse
  <2>4. QED
    BY <2>1, <2>3 DEF GateGrants, HandedOut, KeyInUse
<1>10. ASSUME NEW t \in Tasks, NEW x \in Transports, G!OpenTransport(t, x) PROVE GateGrants'
  <2>1. PICK new : new.token = request[t].token /\ transport' = [transport EXCEPT ![x] = new]
    BY <1>10 DEF G!OpenTransport
  <2>2. UNCHANGED <<key, tokens, granted, context, request, acted>>
    BY <1>10 DEF G!OpenTransport
  <2>3. context[t] # NoClaims
    BY <1>10 DEF G!OpenTransport, G!AtTransport, SessionInv, GateTied, TaskInv
  <2>4. \A y \in Transports : transport'[y] # NoTransport => transport'[y].token.key = key
    BY <2>1, <2>3 DEF GateGrants, KeyInUse, SessionInv, GateTied
  <2>5. QED
    BY <2>2, <2>4 DEF GateGrants, HandedOut, KeyInUse
<1>11. ASSUME NEW t \in Tasks, NEW x \in Transports, G!CloseTransport(t, x) PROVE GateGrants'
  <2>1. /\ transport' = [transport EXCEPT ![x] = NoTransport]
        /\ UNCHANGED <<key, tokens, granted, context, request, acted>>
    BY <1>11 DEF G!CloseTransport
  <2>2. \A y \in Transports : transport'[y] # NoTransport => transport'[y].token.key = key
    BY <2>1 DEF GateGrants, KeyInUse, SessionInv, GateTied
  <2>3. QED
    BY <2>1, <2>2 DEF GateGrants, HandedOut, KeyInUse
<1>7. ASSUME NEW t \in Tasks, G!Finish(t) PROVE GateGrants'
  <2>1. /\ context' = [context EXCEPT ![t] = G!Unbound(t)]
        /\ request' = [request EXCEPT ![t] = Idle]
        /\ UNCHANGED <<key, tokens, granted, transport, acted>>
    BY <1>7 DEF G!Finish
  <2>2. request'[t] = Idle
    BY <2>1 DEF SessionInv, GateTied
  <2>3. context'[t] = NoClaims
    BY <2>2 DEF SessionInv, GateTied, TaskInv
  <2>4. \A s \in Tasks : context'[s] # NoClaims => request'[s].token.key = key
    BY <2>1, <2>3 DEF GateGrants, KeyInUse
  <2>5. QED
    BY <2>1, <2>4 DEF GateGrants, HandedOut, KeyInUse
<1>8. ASSUME RestartServer PROVE GateGrants'
  <2>1. /\ context' = [t \in Tasks |-> NoClaims]
        /\ transport' = [x \in Transports |-> NoTransport]
        /\ acted' = {}
        /\ UNCHANGED <<tokens, granted>>
    BY <1>8 DEF RestartServer, G!Restart
  <2>2. QED
    BY <2>1 DEF GateGrants, HandedOut, KeyInUse
<1>9. QED
  BY <1>1, <1>2, <1>3, <1>4, <1>5, <1>6, <1>7, <1>8, <1>10, <1>11
     DEF SNext, sessionVars, gateVars, RefuseRefresh, GateStep, TimePasses, G!Tick

\* What was shown in time, with the key now in use, was handed out in time.
LEMMA ShownWasHandedOut ==
  ASSUME SessionInv, GateGrants, NEW tok, NEW since, InTime(tok, since), tok.key = key
  PROVE  G!HandedOutInTime(tok, since)
<1>1. tok \in tokens /\ since \in Nat /\ since < tok.exp
  BY DEF InTime
<1>2. PICK g \in granted : g.token = tok /\ g.at = tok.iat
  BY <1>1 DEF GateGrants, HandedOut
<1>3. PICK f \in Families : tok \in session[f].tokens
  BY <1>1 DEF SessionInv, OwnedInv
<1>4. tok.iat \in Nat /\ tok.exp = tok.iat + AccessTTL
  BY <1>3 DEF SessionInv, TokensInv, Minted
<1>5. since < g.at + AccessTTL + 0
  BY <1>1, <1>2, <1>4, LifetimeAssumption
<1>6. QED
  BY <1>2, <1>5 DEF G!HandedOutInTime

\* However often tokens are renewed and the server restarts, both tokens behind a
\* call, the one that opened the transport session and the one that carried the
\* call, were handed out within their lifetime and signed with the key now in use.
THEOREM ToolsAlwaysRunOnGrantedTokens == SSpec => []ToolsRunOnGrantedTokens
<1>1. SInit => GateGrants
  BY DEF SInit, G!Init, GateGrants, HandedOut, KeyInUse
<1>2. SessionInv /\ GateGrants => ToolsRunOnGrantedTokens
  <2> SUFFICES ASSUME SessionInv, GateGrants, NEW a \in acted
               PROVE  /\ G!HandedOutInTime(a.opener, a.opened)
                      /\ a.claims = G!UserClaims(a.opener)
                      /\ G!HandedOutInTime(a.token, a.since)
    BY DEF ToolsRunOnGrantedTokens, G!ToolsRunOnGrantedTokens
  <2>1. /\ InTime(a.opener, a.opened)
        /\ a.claims = G!UserClaims(a.opener)
        /\ InTime(a.token, a.since)
    BY DEF SessionInv, GateTied, CallInv
  <2>2. a.opener.key = key /\ a.token.key = key
    BY DEF GateGrants, KeyInUse
  <2>3. QED
    BY <2>1, <2>2, ShownWasHandedOut
<1>3. QED
  BY <1>1, <1>2, GrantsStep, SessionInvariant, PTL DEF SSpec
=============================================================================
