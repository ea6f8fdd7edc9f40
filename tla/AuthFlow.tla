------------------------------ MODULE AuthFlow ------------------------------
(***************************************************************************)
(* The authorization code grant of the server, from the registration of a  *)
(* client to the token: oauth/dcr.py, authorize.py, mock_idp.py or         *)
(* callback.py, codes.py, session.py, store.py and the first half of       *)
(* token.py.                                                               *)
(*                                                                         *)
(* All handlers run on one event loop, so a handler is one step up to its  *)
(* next await.  The only await between two accesses to the stores is the   *)
(* exchange with Cognito in the callback: that handler is two steps.       *)
(* Requests are made by anybody, in any order and any number of times; a   *)
(* request that changes nothing (an unknown id, a missing parameter) is a  *)
(* stuttering step.                                                        *)
(***************************************************************************)
EXTENDS Naturals, Sequences, RedirectUris

CONSTANTS
  Clients,       \* client ids
  Users,
  Verifiers,     \* PKCE code verifiers
  Uris,          \* redirect URIs, records of the parts RedirectUris names
  Words,         \* names and values in the queries of the URIs
  UriLists,      \* the sets of URIs clients ask to register
  Broker,        \* TRUE: Cognito logs users in; FALSE: the mock IdP does
  SeededUsers,   \* users given a session at start-up (--seed-session)
  BrokerOwner,   \* BROKER_CLIENT_OWNER
  RequestTTL, CodeTTL,
  ExchangeMax,   \* longest time an exchange with Cognito takes
  MaxTime, MaxSerial   \* bounds on the clock and on the ids handed out

\* A parameter of a query: its name, and a value of text with a code at the end.
Parameter ==
  [name : Words \union {"code"}, text : Seq(Words \union {"?code="}), code : Nat]

ASSUME ModeAssumption  == Broker \in BOOLEAN
ASSUME SeedAssumption  == SeededUsers \subseteq Users
ASSUME UriAssumption   == UriLists \subseteq SUBSET Uris
ASSUME QueryAssumption == \A uri \in Uris : uri.query \in Seq(Parameter)
ASSUME TimeAssumption  ==
  /\ RequestTTL \in Nat /\ CodeTTL \in Nat /\ ExchangeMax \in Nat
  /\ MaxTime \in Nat /\ MaxSerial \in Nat

VARIABLES
  now,
  serial,      \* opaque ids handed out so far; the next one is serial + 1
  clients,     \* MockClientStore
  sessions,    \* MockSessionStore: the users who hold a session
  requests,    \* MockAuthRequestStateStore
  callbacks,   \* callbacks waiting for Cognito's token endpoint
  codes,       \* MockAuthCodeStore
  registered,  \* history: every client ever registered
  authorized,  \* history: every authorization request ever accepted
  minted,      \* history: every code ever issued, with the request and
               \* the login it answers
  grants,      \* history: every successful answer of the token endpoint
  refused      \* history: the codes of the exchanges it refused

vars == <<now, serial, clients, sessions, requests, callbacks, codes,
          registered, authorized, minted, grants, refused>>

(***************************************************************************)
(* SHA-256 enters only through equality of digests: different verifiers    *)
(* have different challenges, and a challenge is never itself a verifier.  *)
(***************************************************************************)
S256(verifier) == [s256 |-> verifier]

RegisteredClient ==
  [client_id : Clients, owner_user_id : Users \union {BrokerOwner},
   redirect_uris : SUBSET Uris]
AuthRequestState ==
  [request_id : Nat, client_id : Clients, redirect_uri : Uris,
   code_challenge : {S256(v) : v \in Verifiers}, expires_at : Nat]
AuthCode ==
  [code : Nat, client_id : Clients, redirect_uri : Uris,
   code_challenge : {S256(v) : v \in Verifiers}, user_id : Users,
   expires_at : Nat, cognito : BOOLEAN]
TokenGrant ==
  [token : Nat, code : Nat, client_id : Clients, user_id : Users,
   redirect_uri : Uris, code_verifier : Verifiers, at : Nat]

IsRegistered(c) == \E r \in clients : r.client_id = c

Expired_GraceSecond(entry) == entry.expires_at + 1 < now   \* mutant
Expired(entry) == entry.expires_at < now

Init ==
  /\ now = 0
  /\ serial = 0
  /\ clients = {}
  /\ sessions = SeededUsers
  /\ requests = {}
  /\ callbacks = {}
  /\ codes = {}
  /\ registered = {}
  /\ authorized = {}
  /\ minted = {}
  /\ grants = {}
  /\ refused = {}

\* MockSessionStore: a user may hold several sessions and never loses one, as
\* nothing calls revoke; whether there is one is all the handlers ask.
HasSession(u) == u \in sessions
WithSession(u) == sessions \union {u}

MayRegister_Anybody(owner) == TRUE         \* mutant: no session gate
MayRegister(owner) == IF Broker THEN owner = BrokerOwner ELSE HasSession(owner)

(***************************************************************************)
(* POST /oauth/register.  Offline it needs a session, whose user owns the  *)
(* client; in the broker it is open.  Client ids are never drawn twice.    *)
(***************************************************************************)
Register(c, owner, uris) ==
  LET client == [client_id |-> c, owner_user_id |-> owner, redirect_uris |-> uris] IN
  /\ \A r \in registered : r.client_id # c
  /\ MayRegister(owner)
  /\ uris # {}
  /\ \A uri \in uris : IsSafeRedirectUri(uri)
  /\ clients' = clients \union {client}
  /\ registered' = registered \union {client}
  /\ UNCHANGED <<now, serial, sessions, requests, callbacks, codes,
                 authorized, minted, grants, refused>>

(***************************************************************************)
(* GET /oauth/authorize: the request is stored under a fresh id and the    *)
(* browser sent off to log in.                                             *)
(***************************************************************************)
Authorize(c, uri, challenge, method) ==
  LET request == [request_id |-> serial + 1, client_id |-> c, redirect_uri |-> uri,
                  code_challenge |-> challenge, expires_at |-> now + RequestTTL] IN
  /\ serial < MaxSerial
  /\ \E r \in clients : r.client_id = c /\ RedirectUriMatches(uri, r.redirect_uris)
  /\ method = "S256"
  /\ serial' = serial + 1
  /\ requests' = requests \union {request}
  /\ authorized' = authorized \union {request}
  /\ UNCHANGED <<now, clients, sessions, callbacks, codes, registered, minted, grants, refused>>

\* Mutant: the code speaks for the owner of the client, not for who logged in.
MintedCode_ForOwner(r, u) ==
  [code |-> serial + 1, client_id |-> r.client_id, redirect_uri |-> r.redirect_uri,
   code_challenge |-> r.code_challenge,
   user_id |-> (CHOOSE c \in registered : c.client_id = r.client_id).owner_user_id,
   expires_at |-> now + CodeTTL, cognito |-> Broker]

\* The code that answers request r for user u.
MintedCode(r, u) ==
  [code |-> serial + 1, client_id |-> r.client_id, redirect_uri |-> r.redirect_uri,
   code_challenge |-> r.code_challenge, user_id |-> u,
   expires_at |-> now + CodeTTL, cognito |-> Broker]

(***************************************************************************)
(* The query of the redirect that takes the code to the client.  The mock  *)
(* IdP parses the query of the redirect URI and adds a parameter.  The     *)
(* callback appends "?code=..." to the whole URI: behind a query, whoever  *)
(* parses that takes it for more of the last value.                        *)
(***************************************************************************)
CodeParameter(code) == [name |-> "code", text |-> <<>>, code |-> code]

WithCodeBehind(parameter, code) ==
  [parameter EXCEPT !.text = Append(@, "?code="), !.code = code]

Merged(query, code) == Append(query, CodeParameter(code))

Appended(query, code) ==
  IF query = <<>> THEN <<CodeParameter(code)>>
  ELSE [query EXCEPT ![Len(query)] = WithCodeBehind(@, code)]

SentQuery_Appended(uri, code) == Appended(uri.query, code)   \* mutant: the mock IdP, too
SentQuery(uri, code) ==
  IF Broker THEN Appended(uri.query, code) ELSE Merged(uri.query, code)

\* code_store.add and the redirect, at the end of the mock login and of the
\* callback.
IssueCode(r, u) ==
  /\ serial < MaxSerial
  /\ serial' = serial + 1
  /\ codes' = codes \union {MintedCode(r, u)}
  /\ minted' = minted \union
       {[code |-> MintedCode(r, u), request_id |-> r.request_id, login |-> u,
         sent |-> SentQuery(r.redirect_uri, serial + 1)]}

Remaining_Kept(r) == requests              \* mutant: the request is read, not popped
Remaining(r) == requests \ {r}

(***************************************************************************)
(* POST /_mock_idp/login (offline): the pending request is popped; if it   *)
(* is still valid the user gets a session and the client its code.         *)
(***************************************************************************)
MockLogin(r, u) ==
  /\ ~Broker
  /\ r \in requests
  /\ ~Expired(r)
  /\ requests' = Remaining(r)
  /\ sessions' = WithSession(u)
  /\ IssueCode(r, u)
  /\ UNCHANGED <<now, clients, callbacks, registered, authorized, grants, refused>>

\* The login, or Cognito's redirect, comes too late: the request is gone.
LoginTooLate(r) ==
  /\ r \in requests
  /\ Expired(r)
  /\ requests' = Remaining(r)
  /\ UNCHANGED <<now, serial, clients, sessions, callbacks, codes,
                 registered, authorized, minted, grants, refused>>

(***************************************************************************)
(* GET /oauth/callback (broker).  The request is popped, then the handler  *)
(* awaits Cognito's token endpoint; user u is the one whose Cognito code   *)
(* the browser carries.  Other handlers run in the meantime.               *)
(***************************************************************************)
CallbackStart(r, u) ==
  /\ Broker
  /\ r \in requests
  /\ ~Expired(r)
  /\ requests' = Remaining(r)
  /\ callbacks' = callbacks \union {[request |-> r, user_id |-> u, since |-> now]}
  /\ UNCHANGED <<now, serial, clients, sessions, codes, registered, authorized,
                 minted, grants, refused>>

CallbackDone(cb) ==
  /\ cb \in callbacks
  /\ callbacks' = callbacks \ {cb}
  /\ IssueCode(cb.request, cb.user_id)
  /\ UNCHANGED <<now, clients, sessions, requests, registered, authorized, grants, refused>>

\* Cognito refuses, cannot be reached in time, or answers without a subject.
CallbackFailed(cb) ==
  /\ cb \in callbacks
  /\ callbacks' = callbacks \ {cb}
  /\ UNCHANGED <<now, serial, clients, sessions, requests, codes,
                 registered, authorized, minted, grants, refused>>

(***************************************************************************)
(* POST /oauth/token, grant_type=authorization_code.  The code is popped   *)
(* before the caller has shown that it is the client the code is bound to. *)
(***************************************************************************)
VerifyPkce_Skipped(verifier, code) == TRUE               \* mutant: PKCE skipped
VerifyPkce(verifier, code) == S256(verifier) = code.code_challenge

BoundTo_AnyClient(code, c) == TRUE                         \* mutant
BoundTo(code, c) == code.client_id = c

UriBoundTo_Unchecked(code, uri) == TRUE                    \* mutant
UriBoundTo(code, uri) == RedirectUriMatches(uri, {code.redirect_uri})

Redeemable(code, c, uri, verifier) ==
  /\ ~Expired(code)
  /\ BoundTo(code, c)
  /\ UriBoundTo(code, uri)
  /\ VerifyPkce(verifier, code)
  /\ Broker => code.cognito

CodesLeft_Kept(code) == codes              \* mutant: the code is read, not popped
CodesLeft(code) == codes \ {code}

RedeemCode(code, c, uri, verifier) ==
  /\ code \in codes
  /\ IsRegistered(c)
  /\ Redeemable(code, c, uri, verifier)
  /\ serial < MaxSerial
  /\ codes' = CodesLeft(code)
  /\ serial' = serial + 1
  /\ grants' = grants \union
       {[token |-> serial + 1, code |-> code.code, client_id |-> c,
         user_id |-> code.user_id, redirect_uri |-> uri,
         code_verifier |-> verifier, at |-> now]}
  /\ UNCHANGED <<now, clients, sessions, requests, callbacks, registered,
                 authorized, minted, refused>>

RefuseCode(code, c, uri, verifier) ==
  /\ code \in codes
  /\ IsRegistered(c)
  /\ ~Redeemable(code, c, uri, verifier)
  /\ codes' = CodesLeft(code)
  /\ refused' = refused \union {code.code}
  /\ UNCHANGED <<now, serial, clients, sessions, requests, callbacks,
                 registered, authorized, minted, grants>>

Tick ==
  /\ now < MaxTime
  /\ \A cb \in callbacks : now < cb.since + ExchangeMax
  /\ now' = now + 1
  /\ UNCHANGED <<serial, clients, sessions, requests, callbacks, codes,
                 registered, authorized, minted, grants, refused>>

\* Nothing is persisted: a restart empties every store.
Restart ==
  /\ clients' = {}
  /\ sessions' = SeededUsers
  /\ requests' = {}
  /\ callbacks' = {}
  /\ codes' = {}
  /\ UNCHANGED <<now, serial, registered, authorized, minted, grants, refused>>

Next ==
  \/ \E c \in Clients, owner \in Users \union {BrokerOwner}, uris \in UriLists :
       Register(c, owner, uris)
  \/ \E c \in Clients, uri \in Uris, v \in Verifiers, method \in {"S256", "plain"} :
       Authorize(c, uri, S256(v), method)
  \/ \E r \in requests, u \in Users : MockLogin(r, u)
  \/ \E r \in requests : LoginTooLate(r)
  \/ \E r \in requests, u \in Users : CallbackStart(r, u)
  \/ \E cb \in callbacks : CallbackDone(cb)
  \/ \E cb \in callbacks : CallbackFailed(cb)
  \/ \E code \in codes, c \in Clients, uri \in Uris, v \in Verifiers :
       RedeemCode(code, c, uri, v)
  \/ \E code \in codes, c \in Clients, uri \in Uris, v \in Verifiers :
       RefuseCode(code, c, uri, v)
  \/ Tick
  \/ Restart

Spec == Init /\ [][Next]_vars

-----------------------------------------------------------------------------
(***************************************************************************)
(* Properties                                                              *)
(***************************************************************************)

TypeOK ==
  /\ now \in Nat
  /\ serial \in Nat
  /\ clients \subseteq RegisteredClient
  /\ sessions \subseteq Users
  /\ requests \subseteq AuthRequestState
  /\ callbacks \subseteq [request : AuthRequestState, user_id : Users, since : Nat]
  /\ codes \subseteq AuthCode
  /\ registered \subseteq RegisteredClient
  /\ authorized \subseteq AuthRequestState
  /\ minted \subseteq
       [code : AuthCode, request_id : Nat, login : Users, sent : Seq(Parameter)]
  /\ grants \subseteq TokenGrant
  /\ refused \subseteq Nat

\* A code is good for one exchange, whoever presents it and how often: it buys
\* tokens at most once, and nothing after an exchange that was refused.
OneExchangePerCode ==
  /\ \A g, h \in grants : g.code = h.code => g = h
  /\ \A g \in grants : g.code \notin refused

\* One login answers one authorization request: reloading the page or
\* repeating the callback while the first one waits for Cognito yields no
\* second code.
OneCodePerRequest ==
  \A m, n \in minted : m.request_id = n.request_id => m = n

\* A request yields tokens once, whatever is repeated on the way: the login, the
\* callback or the exchange.
OneGrantPerRequest ==
  \A g, h \in grants, m, n \in minted :
    /\ m.code.code = g.code /\ n.code.code = h.code
    /\ m.request_id = n.request_id
    => g = h

\* Tokens go to the client that made the authorization request, on proof of
\* the verifier behind that very request's challenge, and speak for the user
\* who logged in for it.
GrantFollowsRequest ==
  \A g \in grants :
    \E m \in minted, a \in authorized :
      /\ m.code.code = g.code
      /\ m.request_id = a.request_id
      /\ g.client_id = a.client_id
      /\ S256(g.code_verifier) = a.code_challenge
      /\ g.user_id = m.login

\* The URI that is matched at the token endpoint, only against the one stored
\* with the code, still matches one the client registered.
GrantToRegisteredUri ==
  \A g \in grants :
    \E r \in registered :
      r.client_id = g.client_id /\ RedirectUriMatches(g.redirect_uri, r.redirect_uris)

\* An authorization request is worth nothing once its lifetime, the exchange
\* with Cognito and the lifetime of its code have passed.
FlowEndsInTime ==
  \A g \in grants :
    \E m \in minted, a \in authorized :
      /\ m.code.code = g.code
      /\ m.request_id = a.request_id
      /\ g.at <= a.expires_at + (IF Broker THEN ExchangeMax ELSE 0) + CodeTTL

\* The browser takes a code to a URI the client registered, but for the port of
\* a loopback one, with all parameters registered there and one more, which is
\* that code and nothing else.
CodeDelivered ==
  \A m \in minted :
    \E r \in registered : r.client_id = m.code.client_id /\
      \E uri \in r.redirect_uris :
        /\ RedirectUriMatches(m.code.redirect_uri, {uri})
        /\ m.sent = Append(uri.query, CodeParameter(m.code.code))

\* Offline, every client belongs to somebody who was given a session at
\* start-up or has logged in.
OwnerHadSession ==
  ~Broker => \A r \in registered :
    r.owner_user_id \in SeededUsers \union {m.login : m \in minted}

-----------------------------------------------------------------------------
(***************************************************************************)
(* Refinement.  A request is open while it is pending or in the hands of a *)
(* waiting callback; it is answered while its code is stored; and a grant  *)
(* is the exchange of the request that its code answers.                   *)
(***************************************************************************)
Asked(r) ==
  [request_id |-> r.request_id, client_id |-> r.client_id, code_challenge |-> r.code_challenge]

AskedRequests == {Asked(a) : a \in authorized}
OpenRequests  == {Asked(r) : r \in requests \union {cb.request : cb \in callbacks}}

StoredAnswers ==
  {k \in [request : AskedRequests, user_id : Users] :
     \E m \in minted :
       m.code \in codes /\ m.request_id = k.request.request_id /\ m.login = k.user_id}

GrantedRequests ==
  {k \in [request : AskedRequests, user_id : Users, client_id : Clients,
          code_verifier : Verifiers] :
     \E m \in minted, g \in grants :
       /\ m.request_id = k.request.request_id /\ m.code.code = g.code
       /\ k.user_id = g.user_id /\ k.client_id = g.client_id
       /\ k.code_verifier = g.code_verifier}

CG == INSTANCE CodeGrants WITH
  Ids <- 1..MaxSerial, Challenge <- [v \in Verifiers |-> S256(v)],
  asked <- AskedRequests, open <- OpenRequests,
  answered <- StoredAnswers, granted <- GrantedRequests

\* However handlers interleave, the flow behaves as if one login answered a
\* request and one exchange its code, each at once, and nothing came back.
ImplementsCodeGrants == CG!Spec
=============================================================================
