-------------------------- MODULE BearerGate_proofs --------------------------
(***************************************************************************)
(* Proofs about BearerGate, for any number of tasks, users, clients, keys  *)
(* and restarts.  The typing invariant comes first; GateInv adds where the *)
(* tokens come from and what the request of a task has shown.              *)
(***************************************************************************)
EXTENDS BearerGate, Lists_proofs

\* What an access token of this server's token endpoint looks like.
Ours(tok) ==
  /\ tok.iss = "AS"
  /\ IsAccessToken(tok)
  /\ MeantForUs(tok)
  /\ tok.client_id # Absent
  /\ Broker => tok.kid \in DOMAIN Jwks /\ UsableJwk(Jwks[tok.kid])
  /\ ~Broker => tok.kid = "phase1"

GrantedInv ==
  \A g \in granted :
    /\ Ours(g.token)
    /\ g.at <= now
    /\ g.token.iat <= g.at + Skew

\* A token that passes for one of ours is one: Cognito's other tokens do not.
SourceInv ==
  \A tok \in tokens :
    IsAccessToken(tok) /\ MeantForUs(tok) =>
      \E g \in granted : g.token = tok /\ tok.exp <= g.at + AccessTTL + Skew

RequestInv ==
  \A t \in Tasks :
    request[t] # Idle =>
      /\ request[t].prior = NoClaims
      /\ request[t].token # NoToken => HandedOutInTime(request[t].token, request[t].since)

\* A transport session carries the identity it was opened with.
TransportInv ==
  \A x \in Transports :
    transport[x] # NoTransport /\ transport[x].claims # NoClaims =>
      /\ HandedOutInTime(transport[x].token, transport[x].since)
      /\ transport[x].claims = UserClaims(transport[x].token)

GateInv ==
  /\ TypeOK
  /\ IdentityIsTheRequests
  /\ GrantedInv
  /\ SourceInv
  /\ RequestInv
  /\ TransportInv
  /\ ToolsRunOnGrantedTokens

-----------------------------------------------------------------------------

LEMMA MintedTokenType ==
  ASSUME TypeOK, ~Broker, NEW u \in Users, NEW c \in Clients, NEW scope \in SUBSET Scopes
  PROVE  MintedToken(u, c, scope) \in Jwt
BY TimeAssumption DEF TypeOK, MintedToken, Jwt

LEMMA CognitoTokenType ==
  ASSUME NEW kid \in DOMAIN Jwks, NEW u \in Users, NEW c \in Clients, NEW at \in Nat,
         NEW use \in {"access", "id"}
  PROVE  CognitoToken(use, kid, u, c, at) \in Jwt
BY TimeAssumption DEF CognitoToken, Jwt

LEMMA ClaimsType ==
  ASSUME NEW tok \in Jwt, tok.client_id # Absent
  PROVE  UserClaims(tok) \in Claims
BY DEF UserClaims, Jwt, Claims

LEMMA RequestType ==
  ASSUME TypeOK, NEW t \in Tasks, NEW path \in Paths, NEW tok \in Jwt \union {NoToken}
  PROVE  [path |-> path, token |-> tok, prior |-> context[t], since |-> now] \in Request
BY DEF TypeOK, Request

\* Every variable stays of its type: handed out tokens, bound claims and the
\* requests in progress.
THEOREM TypeCorrect == Spec => []TypeOK
<1>1. Init => TypeOK
  BY DEF Init, TypeOK
<1>2. TypeOK /\ [Next]_vars => TypeOK'
  <2> SUFFICES ASSUME TypeOK, [Next]_vars PROVE TypeOK'
    OBVIOUS
  <2>1. ASSUME NEW u \in Users, NEW c \in Clients, NEW scope \in SUBSET Scopes,
               Mint(u, c, scope)
        PROVE  TypeOK'
    <3>1. MintedToken(u, c, scope) \in Jwt
      BY <2>1, MintedTokenType DEF Mint
    <3>2. granted' \subseteq [token : Jwt, at : Nat]
      BY <2>1, <3>1 DEF Mint, TypeOK
    <3> QED BY <2>1, <3>1, <3>2 DEF Mint, TypeOK
  <2>2. ASSUME NEW kid \in DOMAIN Jwks, NEW u \in Users, NEW c \in Clients,
               NEW ahead \in 0..Skew, CognitoIssues(kid, u, c, now + ahead)
        PROVE  TypeOK'
    <3>0. now + ahead \in Nat
      BY TimeAssumption DEF TypeOK
    <3>1. \A use \in {"access", "id"} : CognitoToken(use, kid, u, c, now + ahead) \in Jwt
      BY <3>0, CognitoTokenType
    <3>2. granted' \subseteq [token : Jwt, at : Nat]
      BY <2>2, <3>1 DEF CognitoIssues, TypeOK
    <3>3. tokens' \subseteq Jwt
      BY <2>2, <3>1 DEF CognitoIssues, TypeOK
    <3> QED BY <2>2, <3>2, <3>3 DEF CognitoIssues, TypeOK
  <2>3. ASSUME NEW t \in Tasks, NEW path \in Paths, PassPublic(t, path) PROVE TypeOK'
    BY <2>3, RequestType DEF PassPublic, TypeOK
  <2>4. ASSUME NEW t \in Tasks, NEW path \in Paths, NEW tok \in tokens, Admit(t, path, tok)
        PROVE  TypeOK'
    <3>1. tok \in Jwt /\ UserClaims(tok) \in Claims
      BY <2>4, ClaimsType DEF TypeOK, Admit, Accepts
    <3> QED BY <2>4, <3>1, RequestType DEF Admit, TypeOK
  <2>5. ASSUME NEW t \in Tasks, NEW x \in Transports, CallTool(t, x) PROVE TypeOK'
    <3>1. request[t] \in Request /\ transport[x] \in TransportSession
      BY <2>5 DEF CallTool, AtTransport, TypeOK
    <3>2. transport[x].claims \in Claims
      BY <2>5, <3>1 DEF CallTool, TransportSession
    <3> QED BY <2>5, <3>1, <3>2 DEF CallTool, TypeOK, Request, TransportSession
  <2>10. ASSUME NEW t \in Tasks, NEW x \in Transports, OpenTransport(t, x) PROVE TypeOK'
    <3> DEFINE opened ==
          [claims |-> context[t], token |-> request[t].token, since |-> request[t].since]
    <3>1. request[t] \in Request
      BY <2>10 DEF OpenTransport, AtTransport, TypeOK
    <3>2. opened \in TransportSession
      BY <3>1 DEF TypeOK, Request, TransportSession
    <3>3. transport' = [transport EXCEPT ![x] = opened]
      BY <2>10 DEF OpenTransport
    <3> HIDE DEF opened
    <3> QED BY <2>10, <3>2, <3>3 DEF OpenTransport, TypeOK
  <2>11. ASSUME NEW t \in Tasks, NEW x \in Transports, CloseTransport(t, x) PROVE TypeOK'
    BY <2>11 DEF CloseTransport, TypeOK
  <2>6. ASSUME NEW t \in Tasks, Finish(t) PROVE TypeOK'
    <3>1. Unbound(t) \in Claims \union {NoClaims}
      BY <2>6 DEF Finish, Unbound, TypeOK, Request
    <3> QED BY <2>6, <3>1 DEF Finish, TypeOK
  <2>7. CASE Tick
    BY <2>7 DEF Tick, TypeOK
  <2>8. CASE Restart
    BY <2>8 DEF Restart, TypeOK
  <2>9. CASE UNCHANGED vars
    BY <2>9 DEF vars, TypeOK
  <2> QED BY <2>1, <2>2, <2>3, <2>4, <2>5, <2>10, <2>11, <2>6, <2>7, <2>8, <2>9
         DEF Next, Issue
<1> QED BY <1>1, <1>2, PTL DEF Spec

-----------------------------------------------------------------------------
(***************************************************************************)
(* Paths.  Without ".." segments, which the gate denies, resolving a path  *)
(* comes to the same as normalizing it, so that what a router makes of a   *)
(* public path is what the gate has judged.                                *)
(***************************************************************************)

IsResolving(done, path, m) ==
  done = [n \in 0..m |-> IF n = 0 THEN <<>> ELSE AfterSegment(done[n - 1], path[n])]

LEMMA ResolvingExists ==
  ASSUME NEW path
  PROVE  \A m \in Nat : \E done : IsResolving(done, path, m)
<1> DEFINE T == {m \in Nat : \E done : IsResolving(done, path, m)}
<1>1. 0 \in T
  <2> DEFINE g == [n \in 0..0 |-> <<>>]
  <2>1. IsResolving(g, path, 0)
    BY DEF IsResolving
  <2>2. QED
    BY <2>1
<1>2. ASSUME NEW m \in T PROVE m + 1 \in T
  <2>1. PICK f : IsResolving(f, path, m)
    OBVIOUS
  <2> DEFINE next == AfterSegment(f[m], path[m + 1])
  <2> DEFINE g == [n \in 0..(m + 1) |-> IF n = m + 1 THEN next ELSE f[n]]
  <2>2. \A n \in 0..m : f[n] = IF n = 0 THEN <<>> ELSE AfterSegment(f[n - 1], path[n])
    BY <2>1 DEF IsResolving
  <2> HIDE DEF next
  <2>3. \A n \in 0..(m + 1) :
          g[n] = IF n = 0 THEN <<>> ELSE AfterSegment(g[n - 1], path[n])
    <3> SUFFICES ASSUME NEW n \in 0..(m + 1)
                 PROVE  g[n] = IF n = 0 THEN <<>> ELSE AfterSegment(g[n - 1], path[n])
      OBVIOUS
    <3>1. CASE n = m + 1
      <4>1. n - 1 = m /\ m \in 0..(m + 1) /\ m # m + 1 /\ n # 0
        BY <3>1
      <4>2. g[m] = f[m] /\ g[m + 1] = next
        BY <4>1
      <4> HIDE DEF g
      <4>3. QED
        BY <3>1, <4>1, <4>2 DEF next
    <3>2. CASE n \in 0..m
      <4>1. n # m + 1 /\ (n # 0 => n - 1 \in 0..(m + 1) /\ n - 1 # m + 1)
        BY <3>2
      <4>2. g[n] = f[n] /\ (n # 0 => g[n - 1] = f[n - 1])
        BY <4>1
      <4> HIDE DEF g
      <4>3. QED
        BY <2>2, <3>2, <4>2
    <3>3. QED
      BY <3>1, <3>2
  <2>4. IsResolving(g, path, m + 1)
    <3> DEFINE h == [n \in 0..(m + 1) |->
                      IF n = 0 THEN <<>> ELSE AfterSegment(g[n - 1], path[n])]
    <3>1. g = h
      BY <2>3
    <3>2. QED
      BY <3>1 DEF IsResolving
  <2>5. QED
    BY <2>4
<1> HIDE DEF T
<1>3. T = Nat
  BY <1>1, <1>2, Induction DEF T
<1>4. QED
  BY <1>3 DEF T

LEMMA ResolvingEquation ==
  ASSUME NEW path, Len(path) \in Nat
  PROVE  /\ Resolving(path)[0] = <<>>
         /\ \A n \in 1..Len(path) :
              Resolving(path)[n] = AfterSegment(Resolving(path)[n - 1], path[n])
<1> DEFINE f == Resolving(path)
<1>1. \E g : IsResolving(g, path, Len(path))
  BY ResolvingExists
<1>2. f = CHOOSE g : IsResolving(g, path, Len(path))
  BY DEF Resolving, IsResolving
<1>3. IsResolving(f, path, Len(path))
  BY <1>1, <1>2
<1> HIDE DEF f
<1>4. f[0] = <<>> /\ \A n \in 1..Len(path) : f[n] = AfterSegment(f[n - 1], path[n])
  BY <1>3 DEF IsResolving
<1>5. QED
  BY <1>4 DEF f

LEMMA AfterPlainSegment ==
  ASSUME NEW done, NEW s, s # ".."
  PROVE  AfterSegment(done, s) =
           IF s \notin Ignored THEN Append(done, LowerCase[s]) ELSE done
  BY DEF AfterSegment

LEMMA PlainPathsResolve ==
  ASSUME NEW S, NEW path \in Seq(S), ~Denied(path)
  PROVE  Resolved(path) = NormalizePath(path)
<1> DEFINE keep == {n \in DOMAIN path : path[n] \notin Ignored}
<1> DEFINE f == Growing(path, keep)
<1> DEFINE g == Resolving(path)
<1> DEFINE Same(n) == f[n] \in Seq(S) /\ g[n] = Mapped(LowerCase, f[n])
<1>1. Len(path) \in Nat /\ DOMAIN path = 1..Len(path) /\ \A n \in 1..Len(path) : path[n] \in S
  OBVIOUS
<1>2. f[0] = <<>> /\ \A n \in 1..Len(path) : f[n] = Grown(f, path, keep, n)
  BY <1>1, GrowingEquation
<1>3. g[0] = <<>> /\ \A n \in 1..Len(path) : g[n] = AfterSegment(g[n - 1], path[n])
  BY <1>1, ResolvingEquation
<1>4. \A n \in 1..Len(path) : path[n] # ".."
  BY DEF Denied, Contains
<1>5. \A n \in 1..Len(path) : n \in keep <=> path[n] \notin Ignored
  BY <1>1
<1> HIDE DEF f, g, keep
<1>6. Same(0)
  BY <1>2, <1>3 DEF Mapped
<1>7. ASSUME NEW n \in Nat, n + 1 \in 0..Len(path), Same(n) PROVE Same(n + 1)
  <2>1. n + 1 \in 1..Len(path) /\ (n + 1) - 1 = n
    BY <1>1, <1>7
  <2> DEFINE s == path[n + 1]
  <2>2. f[n + 1] = IF s \notin Ignored THEN Append(f[n], s) ELSE f[n]
    BY <1>2, <1>5, <2>1 DEF Grown
  <2>3. g[n + 1] = IF s \notin Ignored THEN Append(g[n], LowerCase[s]) ELSE g[n]
    <3>1. g[n + 1] = AfterSegment(g[n], s) /\ s # ".."
      BY <1>3, <1>4, <2>1
    <3>2. \A done : AfterSegment(done, s) =
            IF s \notin Ignored THEN Append(done, LowerCase[s]) ELSE done
      BY <3>1, AfterPlainSegment
    <3>3. QED
      BY <3>1, <3>2
  <2>4. s \in S /\ f[n] \in Seq(S) /\ g[n] = Mapped(LowerCase, f[n])
    BY <1>1, <1>7, <2>1
  <2> HIDE DEF s
  <2>5. CASE s \in Ignored
    BY <2>2, <2>3, <2>4, <2>5
  <2>6. CASE s \notin Ignored
    <3>1. Append(f[n], s) \in Seq(S)
      BY <2>4, AppendProperties
    <3>2. Mapped(LowerCase, Append(f[n], s)) = Append(g[n], LowerCase[s])
      BY <2>4, MappedAppend
    <3>3. QED
      BY <2>2, <2>3, <2>6, <3>1, <3>2
  <2>7. QED
    BY <2>5, <2>6
<1>8. Same(Len(path))
  <2> DEFINE T == {n \in Nat : n \in 0..Len(path) => Same(n)}
  <2>1. ASSUME NEW n \in T PROVE n + 1 \in T
    BY <1>1, <1>7
  <2>2. 0 \in T /\ T \in SUBSET Nat
    BY <1>6
  <2> HIDE DEF T, Same
  <2>3. T = Nat
    BY <2>1, <2>2, Induction
  <2>4. QED
    BY <1>1, <2>3 DEF T
<1>9. QED
  BY <1>8 DEF Resolved, NormalizePath, Selected, f, g, keep

LEMMA PublicIsNotTransport ==
  ASSUME NEW path \in Paths, IsPublicPath(path)
  PROVE  Resolved(path) # <<"mcp">>
<1> DEFINE S == STRING
<1>1. path \in Seq(S) /\ ~Denied(path)
  BY PathsAssumption DEF IsPublicPath
<1> HIDE DEF S
<1>2. Resolved(path) = NormalizePath(path)
  BY <1>1, PlainPathsResolve
<1>3. NormalizePath(path) = <<"health">> \/ Len(NormalizePath(path)) > 1
  BY DEF IsPublicPath
<1>4. <<"mcp">> # <<"health">>
  <2>1. <<"mcp">>[1] = "mcp" /\ <<"health">>[1] = "health"
    OBVIOUS
  <2>2. QED
    BY ONLY <2>1
<1>5. Len(<<"mcp">>) = 1
  OBVIOUS
<1>6. ASSUME NormalizePath(path) = <<"mcp">> PROVE FALSE
  BY <1>3, <1>4, <1>5, <1>6
<1>7. QED
  BY <1>2, <1>6

LEMMA TransportIsNotPublic ==
  ASSUME <<"mcp">> \in Paths
  PROVE  ~IsPublicPath(<<"mcp">>)
<1> DEFINE path == <<"mcp">>
<1>1. "mcp" # ".." /\ "mcp" \notin Ignored
  BY DEF Ignored
<1>2. Len(path) = 1 /\ path[1] = "mcp"
  OBVIOUS
<1>3. /\ Resolving(path)[0] = <<>>
      /\ Resolving(path)[1] = AfterSegment(Resolving(path)[0], path[1])
  BY <1>2, ResolvingEquation
<1>4. AfterSegment(<<>>, "mcp") = Append(<<>>, LowerCase["mcp"])
  BY <1>1, AfterPlainSegment
<1>5. Resolved(path) = Append(<<>>, "mcp")
  BY <1>2, <1>3, <1>4, PathsAssumption DEF Resolved
<1>6. Append(<<>>, "mcp") = <<"mcp">>
  OBVIOUS
<1> QED BY <1>5, <1>6, PublicIsNotTransport

\* A request without a token is for a path on the allow-list.
OnlyPublicUnchecked ==
  \A t \in Tasks :
    request[t] # Idle /\ request[t].token = NoToken =>
      request[t].path \in Paths /\ IsPublicPath(request[t].path)

LEMMA UncheckedStep == TypeOK /\ OnlyPublicUnchecked /\ [Next]_vars => OnlyPublicUnchecked'
<1> SUFFICES ASSUME TypeOK, OnlyPublicUnchecked, [Next]_vars PROVE OnlyPublicUnchecked'
  OBVIOUS
<1>0. request \in [Tasks -> Request \union {Idle}]
  BY DEF TypeOK
<1>1. ASSUME NEW t \in Tasks, NEW path \in Paths, PassPublic(t, path)
      PROVE  OnlyPublicUnchecked'
  <2>1. PICK r : r.path = path /\ request' = [request EXCEPT ![t] = r]
    BY <1>1 DEF PassPublic
  <2>2. IsPublicPath(path)
    BY <1>1 DEF PassPublic
  <2>3. QED
    BY <1>0, <2>1, <2>2 DEF OnlyPublicUnchecked
<1>2. ASSUME NEW t \in Tasks, NEW path, NEW tok \in tokens, Admit(t, path, tok)
      PROVE  OnlyPublicUnchecked'
  <2>1. PICK r : r.token = tok /\ request' = [request EXCEPT ![t] = r]
    BY <1>2 DEF Admit
  <2>2. tok # NoToken
    BY NoneAssumption DEF TypeOK
  <2>3. QED
    BY <1>0, <2>1, <2>2 DEF OnlyPublicUnchecked
<1>3. ASSUME NEW t \in Tasks, Finish(t) PROVE OnlyPublicUnchecked'
  BY <1>0, <1>3 DEF Finish, OnlyPublicUnchecked
<1>4. ASSUME Restart PROVE OnlyPublicUnchecked'
  BY <1>4 DEF Restart, OnlyPublicUnchecked
<1>5. ASSUME UNCHANGED request PROVE OnlyPublicUnchecked'
  BY <1>5 DEF OnlyPublicUnchecked
<1>6. QED
  BY <1>1, <1>2, <1>3, <1>4, <1>5 DEF Next, vars, Issue, Mint, CognitoIssues, OpenTransport,
                                      CallTool, CloseTransport, Tick

LEMMA UncheckedInvariant == Spec => []OnlyPublicUnchecked
<1>1. Init => OnlyPublicUnchecked
  BY DEF Init, OnlyPublicUnchecked
<1>2. QED
  BY <1>1, UncheckedStep, TypeCorrect, PTL DEF Spec

\* However a path is spelled, a request that shows no token does not reach the
\* transport, even through a router that resolves dots and ignores case.
THEOREM NoTokenNeverReachesTransport == Spec => []NoTokenNoTransport
<1>1. OnlyPublicUnchecked => NoTokenNoTransport
  BY PublicIsNotTransport DEF OnlyPublicUnchecked, NoTokenNoTransport
<1>2. QED
  BY <1>1, UncheckedInvariant, PTL

-----------------------------------------------------------------------------

LEMMA OursMinted ==
  ASSUME TypeOK, ~Broker, NEW u \in Users, NEW c \in Clients, NEW scope \in SUBSET Scopes
  PROVE  /\ Ours(MintedToken(u, c, scope))
         /\ MintedToken(u, c, scope).iat = now
         /\ MintedToken(u, c, scope).exp = now + AccessTTL
BY AbsentAssumption DEF Ours, MintedToken, IsAccessToken, MeantForUs

LEMMA OursFromCognito ==
  ASSUME Broker, NEW kid \in DOMAIN Jwks, UsableJwk(Jwks[kid]), NEW u \in Users, NEW at \in Nat
  PROVE  /\ Ours(CognitoToken("access", kid, u, AppClient, at))
         /\ CognitoToken("access", kid, u, AppClient, at).iat = at
         /\ CognitoToken("access", kid, u, AppClient, at).exp = at + AccessTTL
BY ModeAssumption, AbsentAssumption DEF Ours, CognitoToken, IsAccessToken, MeantForUs

LEMMA OthersFromCognito ==
  ASSUME Broker, NEW use \in {"access", "id"}, NEW kid, NEW u, NEW c, NEW at,
         IsAccessToken(CognitoToken(use, kid, u, c, at)),
         MeantForUs(CognitoToken(use, kid, u, c, at))
  PROVE  use = "access" /\ c = AppClient
BY DEF CognitoToken, IsAccessToken, MeantForUs

\* A token that is accepted was handed out, in time and with this key.
LEMMA AcceptedIsShown ==
  ASSUME TypeOK, SourceInv, NEW tok \in tokens, Accepts(tok)
  PROVE  HandedOutInTime(tok, now)
<1>1. PICK g \in granted : g.token = tok /\ tok.exp <= g.at + AccessTTL + Skew
  BY DEF SourceInv, Accepts
<1>2. now < tok.exp
  BY DEF Accepts, Unexpired
<1>3. tok.exp \in Nat /\ g.at \in Nat /\ now \in Nat
  BY DEF TypeOK, Jwt
<1>4. now < g.at + AccessTTL + Skew
  BY <1>1, <1>2, <1>3, TimeAssumption
<1>5. ~Broker => tok.key = key
  BY DEF Accepts, SignatureHolds
<1> QED BY <1>1, <1>4, <1>5 DEF HandedOutInTime

\* More tokens, or a later time, take nothing back.
LEMMA ShownStays ==
  ASSUME NEW tok, NEW since, HandedOutInTime(tok, since), granted \subseteq granted', key' = key
  PROVE  HandedOutInTime(tok, since)'
BY DEF HandedOutInTime

\* What holds of the requests stays so when they and the key do.
LEMMA RequestsStay ==
  ASSUME RequestInv, TransportInv, ToolsRunOnGrantedTokens, IdentityIsTheRequests,
         granted \subseteq granted', UNCHANGED <<key, context, request, transport, acted>>
  PROVE  RequestInv' /\ TransportInv' /\ ToolsRunOnGrantedTokens' /\ IdentityIsTheRequests'
<1>1. RequestInv'
  <2> SUFFICES ASSUME NEW t \in Tasks, request'[t] # Idle
               PROVE  /\ request'[t].prior = NoClaims
                      /\ request'[t].token # NoToken =>
                           HandedOutInTime(request[t].token, request[t].since)'
    BY DEF RequestInv
  <2>1. request[t] # Idle /\ request'[t] = request[t]
    OBVIOUS
  <2>2. request[t].prior = NoClaims
    BY <2>1 DEF RequestInv
  <2>3. ASSUME request[t].token # NoToken
        PROVE  HandedOutInTime(request[t].token, request[t].since)'
    BY <2>1, <2>3 DEF RequestInv, HandedOutInTime
  <2> QED BY <2>1, <2>2, <2>3
<1>2. ToolsRunOnGrantedTokens' /\ TransportInv'
  <2>1. \A tok, since : HandedOutInTime(tok, since) => HandedOutInTime(tok, since)'
    BY DEF HandedOutInTime
  <2> QED BY <2>1 DEF ToolsRunOnGrantedTokens, TransportInv, UserClaims
<1>3. IdentityIsTheRequests'
  BY DEF IdentityIsTheRequests, UserClaims
<1> QED BY <1>1, <1>2, <1>3

LEMMA GateInductive == Init => GateInv
<1> SUFFICES ASSUME Init PROVE GateInv
  OBVIOUS
<1>1. TypeOK
  BY DEF Init, TypeOK
<1> QED BY <1>1 DEF Init, GateInv, IdentityIsTheRequests, GrantedInv, SourceInv,
                    RequestInv, TransportInv, ToolsRunOnGrantedTokens

LEMMA MintKeepsInv ==
  ASSUME GateInv, TypeOK', NEW u \in Users, NEW c \in Clients, NEW scope \in SUBSET Scopes,
         Mint(u, c, scope)
  PROVE  GateInv'
<1> DEFINE new == MintedToken(u, c, scope)
           g0  == [token |-> new, at |-> now]
<1>1. /\ ~Broker
      /\ tokens' = tokens \union {new}
      /\ granted' = granted \union {g0}
      /\ UNCHANGED <<now, key, context, request, transport, acted>>
  BY DEF Mint
<1>2. Ours(new) /\ new.iat = now /\ new.exp = now + AccessTTL
  BY <1>1, OursMinted DEF GateInv
<1>3. now \in Nat /\ Skew \in Nat /\ AccessTTL \in Nat
  BY TimeAssumption DEF GateInv, TypeOK
<1> HIDE DEF new
<1>4. GrantedInv'
  <2> SUFFICES ASSUME NEW g \in granted'
               PROVE  Ours(g.token) /\ g.at <= now /\ g.token.iat <= g.at + Skew
    BY <1>1 DEF GrantedInv
  <2>1. CASE g \in granted
    BY <2>1 DEF GateInv, GrantedInv
  <2>2. CASE g = g0
    BY <2>2, <1>2, <1>3
  <2> QED BY <2>1, <2>2, <1>1
<1>5. SourceInv'
  <2> SUFFICES ASSUME NEW tok \in tokens', IsAccessToken(tok), MeantForUs(tok)
               PROVE  \E g \in granted' : g.token = tok /\ tok.exp <= g.at + AccessTTL + Skew
    BY DEF SourceInv
  <2>1. CASE tok \in tokens
    BY <2>1, <1>1 DEF GateInv, SourceInv
  <2>2. CASE tok = new
    <3>1. g0 \in granted' /\ g0.token = tok /\ tok.exp <= g0.at + AccessTTL + Skew
      BY <2>2, <1>1, <1>2, <1>3
    <3> QED BY <3>1
  <2> QED BY <2>1, <2>2, <1>1
<1>6. RequestInv' /\ TransportInv' /\ ToolsRunOnGrantedTokens' /\ IdentityIsTheRequests'
  BY <1>1, RequestsStay DEF GateInv
<1> QED BY <1>4, <1>5, <1>6 DEF GateInv

LEMMA CognitoKeepsInv ==
  ASSUME GateInv, TypeOK', NEW kid \in DOMAIN Jwks, NEW u \in Users, NEW c \in Clients,
         NEW ahead \in 0..Skew, CognitoIssues(kid, u, c, now + ahead)
  PROVE  GateInv'
<1> DEFINE at  == now + ahead
           own == CognitoToken("access", kid, u, c, at)
           g0  == [token |-> own, at |-> now]
<1>1. /\ Broker /\ UsableJwk(Jwks[kid])
      /\ tokens' = tokens \union {CognitoToken(use, kid, u, c, at) : use \in {"access", "id"}}
      /\ granted' = granted \union (IF c = AppClient THEN {g0} ELSE {})
      /\ UNCHANGED <<now, key, context, request, transport, acted>>
  BY DEF CognitoIssues
<1>2. now \in Nat /\ Skew \in Nat /\ AccessTTL \in Nat /\ at \in Nat /\ at <= now + Skew
  BY TimeAssumption DEF GateInv, TypeOK
<1>3. c = AppClient => Ours(own) /\ own.iat = at /\ own.exp = at + AccessTTL
  BY <1>1, <1>2, OursFromCognito
<1>4. GrantedInv'
  <2> SUFFICES ASSUME NEW g \in granted'
               PROVE  Ours(g.token) /\ g.at <= now /\ g.token.iat <= g.at + Skew
    BY <1>1 DEF GrantedInv
  <2>1. CASE g \in granted
    BY <2>1 DEF GateInv, GrantedInv
  <2>2. CASE g = g0 /\ c = AppClient
    <3>1. g.token = own /\ g.at = now
      BY <2>2
    <3> HIDE DEF own
    <3> QED BY <3>1, <2>2, <1>2, <1>3
  <2> QED BY <2>1, <2>2, <1>1
<1>5. SourceInv'
  <2> SUFFICES ASSUME NEW tok \in tokens', IsAccessToken(tok), MeantForUs(tok)
               PROVE  \E g \in granted' : g.token = tok /\ tok.exp <= g.at + AccessTTL + Skew
    BY DEF SourceInv
  <2>1. CASE tok \in tokens
    BY <2>1, <1>1 DEF GateInv, SourceInv
  <2>2. ASSUME NEW use \in {"access", "id"}, tok = CognitoToken(use, kid, u, c, at)
        PROVE  \E g \in granted' : g.token = tok /\ tok.exp <= g.at + AccessTTL + Skew
    <3>1. use = "access" /\ c = AppClient
      BY <2>2, <1>1, OthersFromCognito
    <3>2. tok = own /\ g0 \in granted' /\ g0.token = own /\ g0.at = now
      BY <2>2, <3>1, <1>1
    <3>3. tok.exp = at + AccessTTL
      BY <3>1, <3>2, <1>3
    <3>4. tok.exp <= g0.at + AccessTTL + Skew
      BY <3>2, <3>3, <1>2
    <3> QED BY <3>2, <3>4
  <2> QED BY <2>1, <2>2, <1>1
<1>6. granted \subseteq granted'
  BY <1>1
<1>7. RequestInv' /\ TransportInv' /\ ToolsRunOnGrantedTokens' /\ IdentityIsTheRequests'
  BY <1>1, <1>6, RequestsStay DEF GateInv
<1> QED BY <1>4, <1>5, <1>7 DEF GateInv

LEMMA PublicKeepsInv ==
  ASSUME GateInv, TypeOK', NEW t \in Tasks, NEW path \in Paths, PassPublic(t, path)
  PROVE  GateInv'
<1> DEFINE r0 == [path |-> path, token |-> NoToken, prior |-> context[t], since |-> now]
<1>1. /\ request[t] = Idle
      /\ request' = [request EXCEPT ![t] = r0]
      /\ UNCHANGED <<now, key, tokens, granted, context, transport, acted>>
  BY DEF PassPublic
<1>2. context[t] = NoClaims
  BY <1>1 DEF GateInv, IdentityIsTheRequests
<1>3. request'[t] = r0 /\ \A s \in Tasks \ {t} : request'[s] = request[s]
  BY <1>1 DEF GateInv, TypeOK
<1>4. RequestInv'
  <2> SUFFICES ASSUME NEW s \in Tasks, request'[s] # Idle
               PROVE  /\ request'[s].prior = NoClaims
                      /\ request'[s].token # NoToken =>
                           HandedOutInTime(request[s].token, request[s].since)'
    BY DEF RequestInv
  <2>1. CASE s = t
    BY <2>1, <1>2, <1>3
  <2>2. CASE s # t
    BY <2>2, <1>1, <1>3 DEF GateInv, RequestInv, HandedOutInTime
  <2> QED BY <2>1, <2>2
<1>5. IdentityIsTheRequests'
  <2> SUFFICES ASSUME NEW s \in Tasks
               PROVE  context[s] = IF request'[s] = Idle THEN NoClaims
                                   ELSE IF request'[s].token = NoToken THEN NoClaims
                                   ELSE UserClaims(request'[s].token)
    BY <1>1 DEF IdentityIsTheRequests, UserClaims
  <2>1. CASE s = t
    BY <2>1, <1>2, <1>3
  <2>2. CASE s # t
    BY <2>2, <1>3 DEF GateInv, IdentityIsTheRequests
  <2> QED BY <2>1, <2>2
<1>6. GrantedInv' /\ SourceInv' /\ TransportInv' /\ ToolsRunOnGrantedTokens'
  BY <1>1 DEF GateInv, GrantedInv, SourceInv, TransportInv, ToolsRunOnGrantedTokens,
              HandedOutInTime, UserClaims
<1> QED BY <1>4, <1>5, <1>6 DEF GateInv

LEMMA AdmitKeepsInv ==
  ASSUME GateInv, TypeOK', NEW t \in Tasks, NEW path \in Paths, NEW tok \in tokens,
         Admit(t, path, tok)
  PROVE  GateInv'
<1> DEFINE r0 == [path |-> path, token |-> tok, prior |-> context[t], since |-> now]
<1>1. /\ request[t] = Idle
      /\ Accepts(tok)
      /\ context' = [context EXCEPT ![t] = UserClaims(tok)]
      /\ request' = [request EXCEPT ![t] = r0]
      /\ UNCHANGED <<now, key, tokens, granted, transport, acted>>
  BY DEF Admit
<1>2. context[t] = NoClaims
  BY <1>1 DEF GateInv, IdentityIsTheRequests
<1>3. /\ request'[t] = r0 /\ context'[t] = UserClaims(tok)
      /\ \A s \in Tasks \ {t} : request'[s] = request[s] /\ context'[s] = context[s]
  BY <1>1 DEF GateInv, TypeOK
<1>4. HandedOutInTime(tok, now)'
  BY <1>1, AcceptedIsShown DEF GateInv, HandedOutInTime
<1>5. r0 # Idle /\ tok # NoToken
  BY NoneAssumption, RequestType DEF GateInv, TypeOK
<1>6. RequestInv'
  <2> SUFFICES ASSUME NEW s \in Tasks, request'[s] # Idle
               PROVE  /\ request'[s].prior = NoClaims
                      /\ request'[s].token # NoToken =>
                           HandedOutInTime(request[s].token, request[s].since)'
    BY DEF RequestInv
  <2>1. CASE s = t
    BY <2>1, <1>1, <1>2, <1>3, <1>4 DEF HandedOutInTime
  <2>2. CASE s # t
    BY <2>2, <1>1, <1>3 DEF GateInv, RequestInv, HandedOutInTime
  <2> QED BY <2>1, <2>2
<1>7. IdentityIsTheRequests'
  <2> SUFFICES ASSUME NEW s \in Tasks
               PROVE  context'[s] = IF request'[s] = Idle THEN NoClaims
                                    ELSE IF request'[s].token = NoToken THEN NoClaims
                                    ELSE UserClaims(request'[s].token)
    BY DEF IdentityIsTheRequests, UserClaims
  <2>1. CASE s = t
    BY <2>1, <1>3, <1>5
  <2>2. CASE s # t
    BY <2>2, <1>3 DEF GateInv, IdentityIsTheRequests
  <2> QED BY <2>1, <2>2
<1>8. GrantedInv' /\ SourceInv' /\ TransportInv' /\ ToolsRunOnGrantedTokens'
  BY <1>1 DEF GateInv, GrantedInv, SourceInv, TransportInv, ToolsRunOnGrantedTokens,
              HandedOutInTime, UserClaims
<1> QED BY <1>6, <1>7, <1>8 DEF GateInv

\* Whoever is at the transport has shown a token.
LEMMA AtTransportIsShown ==
  ASSUME GateInv, OnlyPublicUnchecked, NEW t \in Tasks, AtTransport(t)
  PROVE  HandedOutInTime(request[t].token, request[t].since)
<1>1. request[t] # Idle /\ request[t].path = <<"mcp">>
  BY DEF AtTransport
<1>2. request[t].token # NoToken
  BY <1>1, TransportIsNotPublic DEF OnlyPublicUnchecked
<1> QED BY <1>1, <1>2 DEF GateInv, RequestInv

LEMMA OpenKeepsInv ==
  ASSUME GateInv, TypeOK', NEW t \in Tasks, NEW x \in Transports, OpenTransport(t, x)
  PROVE  GateInv'
<1>1. /\ request[t] # Idle
      /\ transport' = [transport EXCEPT ![x] =
           [claims |-> context[t], token |-> request[t].token, since |-> request[t].since]]
      /\ UNCHANGED <<now, key, tokens, granted, context, request, acted>>
  BY DEF OpenTransport, AtTransport
<1>2. ASSUME context[t] # NoClaims
      PROVE  /\ HandedOutInTime(request[t].token, request[t].since)
             /\ context[t] = UserClaims(request[t].token)
  <2>1. request[t].token # NoToken /\ context[t] = UserClaims(request[t].token)
    BY <1>1, <1>2 DEF GateInv, IdentityIsTheRequests
  <2> QED BY <1>1, <2>1 DEF GateInv, RequestInv
<1>3. TransportInv'
  <2> SUFFICES ASSUME NEW y \in Transports, transport'[y] # NoTransport,
                      transport'[y].claims # NoClaims
               PROVE  /\ HandedOutInTime(transport'[y].token, transport'[y].since)
                      /\ transport'[y].claims = UserClaims(transport'[y].token)
    BY <1>1 DEF TransportInv, HandedOutInTime, UserClaims
  <2>1. CASE y = x
    <3>1. /\ transport'[y].claims = context[t]
          /\ transport'[y].token = request[t].token
          /\ transport'[y].since = request[t].since
      BY <1>1, <2>1 DEF GateInv, TypeOK
    <3> QED BY <1>2, <3>1
  <2>2. CASE y # x
    <3>1. transport'[y] = transport[y]
      BY <1>1, <2>2 DEF GateInv, TypeOK
    <3> QED BY <3>1 DEF GateInv, TransportInv
  <2> QED BY <2>1, <2>2
<1>4. /\ GrantedInv' /\ SourceInv' /\ RequestInv' /\ IdentityIsTheRequests'
      /\ ToolsRunOnGrantedTokens'
  BY <1>1 DEF GateInv, GrantedInv, SourceInv, RequestInv, HandedOutInTime,
              IdentityIsTheRequests, ToolsRunOnGrantedTokens, UserClaims
<1> QED BY <1>3, <1>4 DEF GateInv

LEMMA CallKeepsInv ==
  ASSUME GateInv, OnlyPublicUnchecked, TypeOK', NEW t \in Tasks, NEW x \in Transports,
         CallTool(t, x)
  PROVE  GateInv'
<1>1. /\ AtTransport(t)
      /\ transport[x] # NoTransport /\ transport[x].claims # NoClaims
      /\ acted' = {[claims |-> transport[x].claims,
                    opener |-> transport[x].token, opened |-> transport[x].since,
                    token |-> request[t].token, since |-> request[t].since]}
      /\ UNCHANGED <<now, key, tokens, granted, context, request, transport>>
  BY DEF CallTool
<1>2. /\ HandedOutInTime(transport[x].token, transport[x].since)
      /\ transport[x].claims = UserClaims(transport[x].token)
  BY <1>1 DEF GateInv, TransportInv
<1>3. HandedOutInTime(request[t].token, request[t].since)
  BY <1>1, AtTransportIsShown
<1>4. \A tok, since : HandedOutInTime(tok, since) => HandedOutInTime(tok, since)'
  BY <1>1 DEF HandedOutInTime
<1>5. ToolsRunOnGrantedTokens'
  BY <1>1, <1>2, <1>3, <1>4 DEF ToolsRunOnGrantedTokens, UserClaims
<1>6. /\ GrantedInv' /\ SourceInv' /\ RequestInv' /\ TransportInv'
      /\ IdentityIsTheRequests'
  BY <1>1 DEF GateInv, GrantedInv, SourceInv, RequestInv, TransportInv, HandedOutInTime,
              IdentityIsTheRequests, UserClaims
<1> QED BY <1>5, <1>6 DEF GateInv

LEMMA CloseKeepsInv ==
  ASSUME GateInv, TypeOK', NEW t \in Tasks, NEW x \in Transports, CloseTransport(t, x)
  PROVE  GateInv'
<1>1. /\ transport' = [transport EXCEPT ![x] = NoTransport]
      /\ UNCHANGED <<now, key, tokens, granted, context, request, acted>>
  BY DEF CloseTransport
<1>2. \A y \in Transports : transport'[y] \in {transport[y], NoTransport}
  BY <1>1 DEF GateInv, TypeOK
<1>3. TransportInv'
  BY <1>1, <1>2 DEF GateInv, TransportInv, HandedOutInTime, UserClaims
<1>4. /\ GrantedInv' /\ SourceInv' /\ RequestInv' /\ IdentityIsTheRequests'
      /\ ToolsRunOnGrantedTokens'
  BY <1>1 DEF GateInv, GrantedInv, SourceInv, RequestInv, HandedOutInTime,
              IdentityIsTheRequests, ToolsRunOnGrantedTokens, UserClaims
<1> QED BY <1>3, <1>4 DEF GateInv

LEMMA FinishKeepsInv ==
  ASSUME GateInv, TypeOK', NEW t \in Tasks, Finish(t)
  PROVE  GateInv'
<1>1. /\ request[t] # Idle
      /\ context' = [context EXCEPT ![t] = Unbound(t)]
      /\ request' = [request EXCEPT ![t] = Idle]
      /\ UNCHANGED <<now, key, tokens, granted, transport, acted>>
  BY DEF Finish
<1>2. Unbound(t) = NoClaims
  BY <1>1 DEF GateInv, IdentityIsTheRequests, RequestInv, Unbound
<1>3. /\ request'[t] = Idle /\ context'[t] = NoClaims
      /\ \A s \in Tasks \ {t} : request'[s] = request[s] /\ context'[s] = context[s]
  BY <1>1, <1>2 DEF GateInv, TypeOK
<1>4. RequestInv'
  BY <1>1, <1>3 DEF GateInv, RequestInv, HandedOutInTime
<1>5. IdentityIsTheRequests'
  <2> SUFFICES ASSUME NEW s \in Tasks
               PROVE  context'[s] = IF request'[s] = Idle THEN NoClaims
                                    ELSE IF request'[s].token = NoToken THEN NoClaims
                                    ELSE UserClaims(request'[s].token)
    BY DEF IdentityIsTheRequests, UserClaims
  <2>1. CASE s = t
    BY <2>1, <1>3
  <2>2. CASE s # t
    BY <2>2, <1>3 DEF GateInv, IdentityIsTheRequests
  <2> QED BY <2>1, <2>2
<1>6. GrantedInv' /\ SourceInv' /\ TransportInv' /\ ToolsRunOnGrantedTokens'
  BY <1>1 DEF GateInv, GrantedInv, SourceInv, TransportInv, ToolsRunOnGrantedTokens,
              HandedOutInTime, UserClaims
<1> QED BY <1>4, <1>5, <1>6 DEF GateInv

LEMMA TickKeepsInv ==
  ASSUME GateInv, TypeOK', Tick
  PROVE  GateInv'
<1>1. now' = now + 1 /\ UNCHANGED <<key, tokens, granted, context, request, transport, acted>>
  BY DEF Tick
<1>2. GrantedInv'
  <2> SUFFICES ASSUME NEW g \in granted
               PROVE  Ours(g.token) /\ g.at <= now + 1 /\ g.token.iat <= g.at + Skew
    BY <1>1 DEF GrantedInv
  <2>1. Ours(g.token) /\ g.at <= now /\ g.token.iat <= g.at + Skew
    BY DEF GateInv, GrantedInv
  <2>2. g.at \in Nat /\ now \in Nat
    BY DEF GateInv, TypeOK
  <2> QED BY <2>1, <2>2
<1>3. RequestInv' /\ TransportInv' /\ ToolsRunOnGrantedTokens' /\ IdentityIsTheRequests'
  BY <1>1, RequestsStay DEF GateInv
<1>4. SourceInv'
  BY <1>1 DEF GateInv, SourceInv
<1> QED BY <1>2, <1>3, <1>4 DEF GateInv

LEMMA RestartKeepsInv ==
  ASSUME GateInv, TypeOK', Restart
  PROVE  GateInv'
<1>1. GrantedInv' /\ SourceInv'
  BY DEF Restart, GateInv, GrantedInv, SourceInv
<1>2. RequestInv' /\ TransportInv' /\ IdentityIsTheRequests' /\ ToolsRunOnGrantedTokens'
  BY DEF Restart, RequestInv, TransportInv, IdentityIsTheRequests, ToolsRunOnGrantedTokens
<1> QED BY <1>1, <1>2 DEF GateInv

LEMMA GateInvariant == Spec => []GateInv
<1>1. TypeOK' /\ OnlyPublicUnchecked /\ GateInv /\ [Next]_vars => GateInv'
  <2> SUFFICES ASSUME TypeOK', OnlyPublicUnchecked, GateInv, [Next]_vars PROVE GateInv'
    OBVIOUS
  <2>1. CASE UNCHANGED vars
    BY <2>1 DEF vars, GateInv, GrantedInv, SourceInv, RequestInv, TransportInv,
                HandedOutInTime, IdentityIsTheRequests, ToolsRunOnGrantedTokens, UserClaims
  <2> QED BY <2>1, MintKeepsInv, CognitoKeepsInv, PublicKeepsInv, AdmitKeepsInv,
             OpenKeepsInv, CallKeepsInv, CloseKeepsInv, FinishKeepsInv, TickKeepsInv,
             RestartKeepsInv DEF Next, Issue
<1> QED BY <1>1, GateInductive, TypeCorrect, UncheckedInvariant, PTL DEF Spec

\* No request sees the identity of another: what a task carries is what the
\* request it works on has shown.
THEOREM IdentityFollowsRequest == Spec => []IdentityIsTheRequests
BY GateInvariant, PTL DEF GateInv

\* Behind every call of a tool are two tokens this server handed out, each shown
\* in its lifetime and under the signing key now in use: the one that opened the
\* transport session, for whose user the tool runs, and the one that carried the
\* call.
THEOREM ToolsNeedGrantedTokens == Spec => []ToolsRunOnGrantedTokens
BY GateInvariant, PTL DEF GateInv

\* What the token endpoint hands out the gate accepts, until it expires or the
\* key is gone, as long as the clocks differ by no more than the leeway.
THEOREM GrantedTokensAreAccepted == Spec => []GrantedTokensWork
<1>1. GateInv => GrantedTokensWork
  <2> SUFFICES ASSUME GateInv, NEW g \in granted, g.token.scope \subseteq AllowedScopes,
                      Broker \/ g.token.key = key, now < g.token.exp
               PROVE  Accepts(g.token)
    BY DEF GrantedTokensWork, Works
  <2>1. Ours(g.token) /\ g.at <= now /\ g.token.iat <= g.at + Skew
    BY DEF GateInv, GrantedInv
  <2>2. SignatureHolds(g.token)
    BY <2>1 DEF Ours, SignatureHolds
  <2>3. Mature(g.token)
    <3>1. g.at \in Nat /\ g.token.iat \in Nat /\ now \in Nat
      BY DEF GateInv, TypeOK, Jwt
    <3> QED BY <2>1, <3>1, SkewAssumption, TimeAssumption DEF Mature
  <2> QED BY <2>1, <2>2, <2>3 DEF Ours, Accepts, Unexpired, ScopesKnown
<1> QED BY <1>1, GateInvariant, PTL
=============================================================================
