-------------------------- MODULE AuthFlow_proofs --------------------------
(***************************************************************************)
(* Proofs about AuthFlow, for any clients, users, verifiers and URIs, both *)
(* modes and any lifetimes.                                                *)
(***************************************************************************)
EXTENDS AuthFlow, TLAPS

USE ModeAssumption, SeedAssumption, UriAssumption, TimeAssumption

-----------------------------------------------------------------------------
(***************************************************************************)
(* Redirect URIs.                                                          *)
(***************************************************************************)

\* A URI that matches one the code carries matches whatever that one matches:
\* checking at the token endpoint against the stored URI alone loses nothing.
LEMMA MatchThrough ==
  ASSUME NEW p, NEW q, NEW registeredUris,
         RedirectUriMatches(p, {q}), RedirectUriMatches(q, registeredUris)
  PROVE  RedirectUriMatches(p, registeredUris)
<1>1. CASE p = q
  BY <1>1
<1>2. CASE p # q
  <2>1. IsLoopback(p) /\ IsLoopback(q) /\ SameButPort(p, q)
    BY <1>2 DEF RedirectUriMatches
  <2>2. PICK r \in registeredUris : q = r \/ (IsLoopback(r) /\ SameButPort(q, r))
    BY DEF RedirectUriMatches
  <2>3. IsLoopback(r) /\ SameButPort(p, r)
    BY <2>1, <2>2 DEF SameButPort
  <2>4. QED
    BY <2>1, <2>3 DEF RedirectUriMatches
<1>3. QED
  BY <1>1, <1>2

-----------------------------------------------------------------------------
LEMMA RequestFields ==
  ASSUME NEW r \in AuthRequestState
  PROVE  /\ r.request_id \in Nat /\ r.client_id \in Clients /\ r.redirect_uri \in Uris
         /\ r.code_challenge \in {S256(v) : v \in Verifiers} /\ r.expires_at \in Nat
  BY DEF AuthRequestState

LEMMA CodeFields ==
  ASSUME NEW c \in AuthCode
  PROVE  /\ c.code \in Nat /\ c.client_id \in Clients /\ c.redirect_uri \in Uris
         /\ c.code_challenge \in {S256(v) : v \in Verifiers}
         /\ c.user_id \in Users /\ c.expires_at \in Nat
  BY DEF AuthCode

LEMMA MintedCodeType ==
  ASSUME TypeOK, NEW r \in AuthRequestState, NEW u \in Users
  PROVE  MintedCode(r, u) \in AuthCode
  BY RequestFields DEF TypeOK, MintedCode, AuthCode

\* A query with a code, whichever way it is put there, is a query.
LEMMA SentQueryType ==
  ASSUME NEW uri \in Uris, NEW code \in Nat
  PROVE  SentQuery(uri, code) \in Seq(Parameter)
<1> DEFINE q == uri.query
<1>1. q \in Seq(Parameter)
  BY QueryAssumption
<1>2. CodeParameter(code) \in Parameter
  <2>1. <<>> \in Seq(Words \union {"?code="})
    OBVIOUS
  <2>2. QED
    BY <2>1 DEF CodeParameter, Parameter
<1>3. ASSUME NEW p \in Parameter PROVE WithCodeBehind(p, code) \in Parameter
  <2>1. Append(p.text, "?code=") \in Seq(Words \union {"?code="})
    BY <1>3 DEF Parameter
  <2>2. QED
    BY <1>3, <2>1 DEF WithCodeBehind, Parameter
<1>4. Merged(q, code) \in Seq(Parameter)
  BY <1>1, <1>2 DEF Merged
<1>5. ASSUME q # <<>> PROVE Appended(q, code) \in Seq(Parameter)
  <2>1. Len(q) \in 1..Len(q) /\ q[Len(q)] \in Parameter
    BY <1>1, <1>5
  <2>2. WithCodeBehind(q[Len(q)], code) \in Parameter
    BY <1>3, <2>1
  <2>3. Appended(q, code) = [q EXCEPT ![Len(q)] = WithCodeBehind(q[Len(q)], code)]
    BY <1>5 DEF Appended
  <2>4. QED
    BY <1>1, <2>1, <2>2, <2>3
<1>6. ASSUME q = <<>> PROVE Appended(q, code) \in Seq(Parameter)
  BY <1>2, <1>6 DEF Appended
<1>7. QED
  BY <1>4, <1>5, <1>6 DEF SentQuery

LEMMA IssueCodeType ==
  ASSUME TypeOK, NEW r \in AuthRequestState, NEW u \in Users, IssueCode(r, u)
  PROVE  /\ serial' \in Nat
         /\ codes' \subseteq AuthCode
         /\ minted' \subseteq
              [code : AuthCode, request_id : Nat, login : Users, sent : Seq(Parameter)]
<1>1. MintedCode(r, u) \in AuthCode /\ r.request_id \in Nat
  BY MintedCodeType, RequestFields
<1>2. SentQuery(r.redirect_uri, serial + 1) \in Seq(Parameter)
  BY SentQueryType, RequestFields DEF TypeOK
<1>3. QED
  BY <1>1, <1>2 DEF IssueCode, TypeOK

LEMMA TypeStep == TypeOK /\ [Next]_vars => TypeOK'
<1> SUFFICES ASSUME TypeOK, [Next]_vars PROVE TypeOK'
  OBVIOUS
<1>1. ASSUME NEW c \in Clients, NEW owner \in Users \union {BrokerOwner},
             NEW uris \in UriLists, Register(c, owner, uris)
      PROVE  TypeOK'
  <2>1. [client_id |-> c, owner_user_id |-> owner, redirect_uris |-> uris]
          \in RegisteredClient
    BY DEF RegisteredClient
  <2>2. QED
    BY <1>1, <2>1 DEF Register, TypeOK
<1>2. ASSUME NEW c \in Clients, NEW uri \in Uris, NEW v \in Verifiers,
             NEW method \in {"S256", "plain"}, Authorize(c, uri, S256(v), method)
      PROVE  TypeOK'
  <2>1. [request_id |-> serial + 1, client_id |-> c, redirect_uri |-> uri,
         code_challenge |-> S256(v), expires_at |-> now + RequestTTL] \in AuthRequestState
    BY DEF AuthRequestState, TypeOK
  <2>2. QED
    BY <1>2, <2>1 DEF Authorize, TypeOK
<1>3. ASSUME NEW r \in requests, NEW u \in Users, MockLogin(r, u) PROVE TypeOK'
  <2>1. r \in AuthRequestState
    BY DEF TypeOK
  <2>2. QED
    BY <1>3, <2>1, IssueCodeType DEF MockLogin, WithSession, Remaining, TypeOK
<1>4. ASSUME NEW r \in requests, LoginTooLate(r) PROVE TypeOK'
  BY <1>4 DEF LoginTooLate, Remaining, TypeOK
<1>5. ASSUME NEW r \in requests, NEW u \in Users, CallbackStart(r, u) PROVE TypeOK'
  BY <1>5 DEF CallbackStart, Remaining, TypeOK
<1>6. ASSUME NEW cb \in callbacks, CallbackDone(cb) PROVE TypeOK'
  <2>1. cb.request \in AuthRequestState /\ cb.user_id \in Users
    BY DEF TypeOK
  <2>2. QED
    BY <1>6, <2>1, IssueCodeType DEF CallbackDone, TypeOK
<1>7. ASSUME NEW cb \in callbacks, CallbackFailed(cb) PROVE TypeOK'
  BY <1>7 DEF CallbackFailed, TypeOK
<1>8. ASSUME NEW code \in codes, NEW c \in Clients, NEW uri \in Uris, NEW v \in Verifiers,
             RedeemCode(code, c, uri, v)
      PROVE  TypeOK'
  <2>1. [token |-> serial + 1, code |-> code.code, client_id |-> c,
         user_id |-> code.user_id, redirect_uri |-> uri,
         code_verifier |-> v, at |-> now] \in TokenGrant
    BY CodeFields DEF TypeOK, TokenGrant
  <2>2. QED
    BY <1>8, <2>1 DEF RedeemCode, CodesLeft, TypeOK
<1>9. ASSUME NEW code \in codes, NEW c \in Clients, NEW uri \in Uris, NEW v \in Verifiers,
             RefuseCode(code, c, uri, v)
      PROVE  TypeOK'
  BY <1>9, CodeFields DEF RefuseCode, CodesLeft, TypeOK
<1>10. CASE Tick
  BY <1>10 DEF Tick, TypeOK
<1>11. CASE Restart
  BY <1>11 DEF Restart, TypeOK
<1>12. CASE UNCHANGED vars
  BY <1>12 DEF vars, TypeOK
<1>13. QED
  BY <1>1, <1>2, <1>3, <1>4, <1>5, <1>6, <1>7, <1>8, <1>9, <1>10, <1>11, <1>12 DEF Next

\* The stores and the histories keep their types.
THEOREM TypeCorrect == Spec => []TypeOK
<1>1. Init => TypeOK
  BY DEF Init, TypeOK
<1>2. QED
  BY <1>1, TypeStep, PTL DEF Spec

-----------------------------------------------------------------------------
(***************************************************************************)
(* The invariant.  An authorization request is in one place at a time:     *)
(* pending, in the hands of one waiting callback, or answered by one code; *)
(* and what a later step reads, an earlier step has recorded.              *)
(***************************************************************************)

\* Opaque ids are drawn once.
IdsBelowSerial ==
  /\ \A a \in authorized : a.request_id <= serial
  /\ \A m \in minted : m.code.code <= serial
  /\ \A g \in grants : g.token <= serial
  /\ \A k \in refused : k <= serial

IdsUnique ==
  /\ \A a, b \in authorized : a.request_id = b.request_id => a = b
  /\ \A m, n \in minted : m.code.code = n.code.code => m = n

\* The stores hold only what the history knows.
StoresInHistory ==
  /\ clients \subseteq registered
  /\ requests \subseteq authorized
  /\ \A cb \in callbacks : cb.request \in authorized
  /\ \A code \in codes : \E m \in minted : m.code = code

\* A popped request is never found again, and only one party holds it.
OnePlace ==
  /\ \A r \in requests, cb \in callbacks : cb.request.request_id # r.request_id
  /\ \A r \in requests, m \in minted : m.request_id # r.request_id
  /\ \A cb \in callbacks, m \in minted : m.request_id # cb.request.request_id
  /\ \A cb, db \in callbacks :
       cb.request.request_id = db.request.request_id => cb = db

\* A stored code has bought nothing yet and nobody has tried it.
UnredeemedCodes ==
  /\ \A code \in codes, g \in grants : g.code # code.code
  /\ \A code \in codes : code.code \notin refused

\* Every code repeats the request it answers.
CodesFollowRequests ==
  \A m \in minted :
    \E a \in authorized :
      /\ m.request_id = a.request_id
      /\ m.code.client_id = a.client_id
      /\ m.code.redirect_uri = a.redirect_uri
      /\ m.code.code_challenge = a.code_challenge
      /\ m.code.user_id = m.login

\* Every grant repeats the code it redeems.
GrantsFollowCodes ==
  \A g \in grants :
    \E m \in minted :
      /\ g.code = m.code.code
      /\ g.client_id = m.code.client_id
      /\ g.user_id = m.code.user_id
      /\ S256(g.code_verifier) = m.code.code_challenge
      /\ RedirectUriMatches(g.redirect_uri, {m.code.redirect_uri})

RequestsToRegisteredUri ==
  \A a \in authorized :
    \E r \in registered :
      r.client_id = a.client_id /\ RedirectUriMatches(a.redirect_uri, r.redirect_uris)

FlowInv ==
  /\ IdsBelowSerial
  /\ IdsUnique
  /\ StoresInHistory
  /\ OnePlace
  /\ UnredeemedCodes
  /\ CodesFollowRequests
  /\ GrantsFollowCodes
  /\ RequestsToRegisteredUri
  /\ OneExchangePerCode
  /\ OneCodePerRequest

USE DEF FlowInv

LEMMA RegisterStep ==
  ASSUME TypeOK, FlowInv, NEW c \in Clients, NEW owner, NEW uris,
         Register(c, owner, uris)
  PROVE  FlowInv'
<1>1. /\ registered \subseteq registered'
      /\ clients' \subseteq registered'
      /\ UNCHANGED <<serial, requests, callbacks, codes, authorized, minted, grants, refused>>
  BY DEF Register, StoresInHistory
<1>2. RequestsToRegisteredUri'
  BY <1>1 DEF RequestsToRegisteredUri
<1>3. QED
  BY <1>1, <1>2 DEF IdsBelowSerial, IdsUnique, StoresInHistory, OnePlace, UnredeemedCodes,
       CodesFollowRequests, GrantsFollowCodes, OneExchangePerCode, OneCodePerRequest

LEMMA AuthorizeStep ==
  ASSUME TypeOK, FlowInv, NEW c \in Clients, NEW uri \in Uris, NEW ch, NEW method,
         Authorize(c, uri, ch, method)
  PROVE  FlowInv'
<1>1. PICK a : /\ a = [request_id |-> serial + 1, client_id |-> c, redirect_uri |-> uri,
                       code_challenge |-> ch, expires_at |-> now + RequestTTL]
               /\ requests' = requests \union {a}
               /\ authorized' = authorized \union {a}
  BY DEF Authorize
<1>2. /\ serial' = serial + 1 /\ serial \in Nat
      /\ UNCHANGED <<clients, callbacks, codes, registered, minted, grants, refused>>
      /\ \E r \in clients : r.client_id = c /\ RedirectUriMatches(uri, r.redirect_uris)
  BY DEF Authorize, TypeOK
<1>3. /\ a.request_id = serial + 1
      /\ a.client_id = c
      /\ a.redirect_uri = uri
  BY <1>1
<1>4. /\ \A b \in authorized : b.request_id \in Nat /\ b.request_id <= serial
      /\ \A cb \in callbacks : cb.request \in authorized
      /\ \A m \in minted : m.request_id \in Nat /\ m.code.code \in Nat /\ m.code.code <= serial
      /\ \A g \in grants : g.token \in Nat /\ g.token <= serial
      /\ \A k \in refused : k \in Nat /\ k <= serial
  BY RequestFields, CodeFields DEF TypeOK, TokenGrant, IdsBelowSerial, StoresInHistory
<1>5. \A m \in minted : m.request_id <= serial
  BY <1>4 DEF CodesFollowRequests
<1>6. IdsBelowSerial'
  BY <1>1, <1>2, <1>3, <1>4 DEF IdsBelowSerial
<1>7. IdsUnique'
  BY <1>1, <1>2, <1>3, <1>4 DEF IdsUnique
<1>8. StoresInHistory'
  BY <1>1, <1>2 DEF StoresInHistory
<1>9. OnePlace'
  BY <1>1, <1>2, <1>3, <1>4, <1>5 DEF OnePlace
<1>10. RequestsToRegisteredUri'
  BY <1>1, <1>2, <1>3 DEF RequestsToRegisteredUri, StoresInHistory
<1>11. UnredeemedCodes' /\ GrantsFollowCodes' /\ OneExchangePerCode' /\ OneCodePerRequest'
  BY <1>2 DEF UnredeemedCodes, GrantsFollowCodes, OneExchangePerCode, OneCodePerRequest
<1>12. CodesFollowRequests'
  BY <1>1, <1>2 DEF CodesFollowRequests
<1>13. QED
  BY <1>6, <1>7, <1>8, <1>9, <1>10, <1>11, <1>12

\* Issuing the code of a request that nobody else holds.
LEMMA IssueStep ==
  ASSUME TypeOK, FlowInv, NEW r \in authorized, NEW u \in Users, IssueCode(r, u),
         requests' \subseteq requests, callbacks' \subseteq callbacks,
         \A q \in requests' : q.request_id # r.request_id,
         \A cb \in callbacks' : cb.request.request_id # r.request_id,
         \A m \in minted : m.request_id # r.request_id,
         UNCHANGED <<clients, registered, authorized, grants, refused>>
  PROVE  FlowInv'
<1>1. PICK n : /\ n = [code |-> MintedCode(r, u), request_id |-> r.request_id,
                       login |-> u, sent |-> SentQuery(r.redirect_uri, serial + 1)]
               /\ codes' = codes \union {n.code}
               /\ minted' = minted \union {n}
               /\ serial' = serial + 1
  BY DEF IssueCode
<1>2. /\ n.request_id = r.request_id
      /\ n.code.code = serial + 1
      /\ n.code.client_id = r.client_id
      /\ n.code.redirect_uri = r.redirect_uri
      /\ n.code.code_challenge = r.code_challenge
      /\ n.code.user_id = n.login
  BY <1>1 DEF MintedCode
<1>3. /\ serial \in Nat
      /\ \A a \in authorized : a.request_id \in Nat /\ a.request_id <= serial
      /\ \A m \in minted : m.code.code \in Nat /\ m.code.code <= serial
      /\ \A g \in grants : g.token \in Nat /\ g.token <= serial /\ g.code <= serial
      /\ \A k \in refused : k \in Nat /\ k <= serial
  <2>1. \A g \in grants : \E m \in minted : g.code = m.code.code
    BY DEF GrantsFollowCodes
  <2>2. QED
    BY <2>1, RequestFields, CodeFields DEF TypeOK, TokenGrant, IdsBelowSerial
<1>4. IdsBelowSerial'
  BY <1>1, <1>2, <1>3 DEF IdsBelowSerial
<1>5. IdsUnique'
  BY <1>1, <1>2, <1>3 DEF IdsUnique
<1>6. StoresInHistory'
  BY <1>1 DEF StoresInHistory
<1>7. OnePlace'
  BY <1>1, <1>2 DEF OnePlace
<1>8. UnredeemedCodes'
  BY <1>1, <1>2, <1>3 DEF UnredeemedCodes
<1>9. CodesFollowRequests'
  BY <1>1, <1>2 DEF CodesFollowRequests
<1>10. GrantsFollowCodes'
  BY <1>1 DEF GrantsFollowCodes
<1>11. OneCodePerRequest'
  BY <1>1, <1>2 DEF OneCodePerRequest
<1>12. RequestsToRegisteredUri' /\ OneExchangePerCode'
  BY DEF RequestsToRegisteredUri, OneExchangePerCode
<1>13. QED
  BY <1>4, <1>5, <1>6, <1>7, <1>8, <1>9, <1>10, <1>11, <1>12

LEMMA MockLoginStep ==
  ASSUME TypeOK, FlowInv, NEW r \in requests, NEW u \in Users, MockLogin(r, u)
  PROVE  FlowInv'
<1>1. /\ r \in authorized
      /\ IssueCode(r, u)
      /\ requests' = requests \ {r}
      /\ UNCHANGED <<clients, callbacks, registered, authorized, grants, refused>>
  BY DEF MockLogin, Remaining, StoresInHistory
<1>2. \A q \in requests' : q.request_id # r.request_id
  BY <1>1 DEF IdsUnique, StoresInHistory
<1>3. /\ \A cb \in callbacks' : cb.request.request_id # r.request_id
      /\ \A m \in minted : m.request_id # r.request_id
  BY <1>1 DEF OnePlace
<1>4. QED
  BY <1>1, <1>2, <1>3, IssueStep

LEMMA CallbackDoneStep ==
  ASSUME TypeOK, FlowInv, NEW cb \in callbacks, CallbackDone(cb)
  PROVE  FlowInv'
<1>1. /\ cb.request \in authorized
      /\ cb.user_id \in Users
      /\ IssueCode(cb.request, cb.user_id)
      /\ callbacks' = callbacks \ {cb}
      /\ UNCHANGED <<clients, requests, registered, authorized, grants, refused>>
  BY DEF CallbackDone, StoresInHistory, TypeOK
<1>2. /\ \A q \in requests' : q.request_id # cb.request.request_id
      /\ \A db \in callbacks' : db.request.request_id # cb.request.request_id
      /\ \A m \in minted : m.request_id # cb.request.request_id
  BY <1>1 DEF OnePlace
<1>3. QED
  BY <1>1, <1>2, IssueStep

LEMMA CallbackStartStep ==
  ASSUME TypeOK, FlowInv, NEW r \in requests, NEW u \in Users, CallbackStart(r, u)
  PROVE  FlowInv'
<1>1. PICK cb : /\ cb = [request |-> r, user_id |-> u, since |-> now]
                /\ callbacks' = callbacks \union {cb}
  BY DEF CallbackStart
<1>2. /\ cb.request = r
      /\ r \in authorized
      /\ requests' = requests \ {r}
      /\ UNCHANGED <<serial, clients, codes, registered, authorized, minted, grants, refused>>
  BY <1>1 DEF CallbackStart, Remaining, StoresInHistory
<1>3. \A q \in requests' : q.request_id # r.request_id
  BY <1>2 DEF IdsUnique, StoresInHistory
<1>4. OnePlace'
  BY <1>1, <1>2, <1>3 DEF OnePlace
<1>5. StoresInHistory'
  BY <1>1, <1>2 DEF StoresInHistory
<1>6. QED
  BY <1>2, <1>4, <1>5 DEF IdsBelowSerial, IdsUnique, UnredeemedCodes, CodesFollowRequests,
       GrantsFollowCodes, RequestsToRegisteredUri, OneExchangePerCode, OneCodePerRequest

LEMMA RedeemStep ==
  ASSUME TypeOK, FlowInv, NEW code \in codes, NEW c \in Clients, NEW uri \in Uris,
         NEW v \in Verifiers, RedeemCode(code, c, uri, v)
  PROVE  FlowInv'
<1>1. PICK g : /\ g = [token |-> serial + 1, code |-> code.code, client_id |-> c,
                       user_id |-> code.user_id, redirect_uri |-> uri,
                       code_verifier |-> v, at |-> now]
               /\ grants' = grants \union {g}
  BY DEF RedeemCode
<1>2. /\ g.token = serial + 1 /\ g.code = code.code /\ g.client_id = c
      /\ g.user_id = code.user_id /\ g.redirect_uri = uri /\ g.code_verifier = v
  BY <1>1
<1>3. /\ codes' = codes \ {code}
      /\ serial' = serial + 1 /\ serial \in Nat
      /\ code.client_id = c
      /\ S256(v) = code.code_challenge
      /\ RedirectUriMatches(uri, {code.redirect_uri})
      /\ UNCHANGED <<clients, requests, callbacks, registered, authorized, minted, refused>>
  BY DEF RedeemCode, CodesLeft, Redeemable, BoundTo, UriBoundTo, VerifyPkce, TypeOK
<1>4. /\ \A a \in authorized : a.request_id \in Nat /\ a.request_id <= serial
      /\ \A m \in minted : m.code.code \in Nat /\ m.code.code <= serial
      /\ \A h \in grants : h.token \in Nat /\ h.token <= serial
      /\ \A k \in refused : k \in Nat /\ k <= serial
  BY RequestFields, CodeFields DEF TypeOK, TokenGrant, IdsBelowSerial
<1>5. PICK n \in minted : n.code = code
  BY DEF StoresInHistory
<1>6. IdsBelowSerial'
  BY <1>1, <1>2, <1>3, <1>4 DEF IdsBelowSerial
<1>7. StoresInHistory'
  BY <1>3 DEF StoresInHistory
<1>8. UnredeemedCodes'
  <2>1. \A d \in codes' : d.code # code.code
    BY <1>3 DEF StoresInHistory, IdsUnique
  <2>2. QED
    BY <1>1, <1>2, <1>3, <2>1 DEF UnredeemedCodes
<1>9. GrantsFollowCodes'
  <2> DEFINE Redeems(h, m) ==
        /\ h.code = m.code.code
        /\ h.client_id = m.code.client_id
        /\ h.user_id = m.code.user_id
        /\ S256(h.code_verifier) = m.code.code_challenge
        /\ RedirectUriMatches(h.redirect_uri, {m.code.redirect_uri})
  <2>1. Redeems(g, n)
    BY <1>2, <1>3, <1>5
  <2>2. \A h \in grants : \E m \in minted : Redeems(h, m)
    BY DEF GrantsFollowCodes
  <2> HIDE DEF Redeems
  <2>3. \A h \in grants' : \E m \in minted' : Redeems(h, m)
    BY <1>1, <1>3, <1>5, <2>1, <2>2
  <2>4. QED
    BY <2>3 DEF GrantsFollowCodes, Redeems
<1>10. OneExchangePerCode'
  BY <1>1, <1>2, <1>3 DEF OneExchangePerCode, UnredeemedCodes
<1>11. IdsUnique' /\ OnePlace' /\ RequestsToRegisteredUri' /\ OneCodePerRequest'
  BY <1>3 DEF IdsUnique, OnePlace, RequestsToRegisteredUri, OneCodePerRequest
<1>12. CodesFollowRequests'
  BY <1>3 DEF CodesFollowRequests
<1>13. QED
  BY <1>6, <1>7, <1>8, <1>9, <1>10, <1>11, <1>12

\* A step that only takes entries out of the stores.
LEMMA DroppingStep ==
  ASSUME TypeOK, FlowInv, clients' \subseteq clients, requests' \subseteq requests,
         callbacks' \subseteq callbacks, codes' \subseteq codes,
         UNCHANGED <<serial, registered, authorized, minted, grants, refused>>
  PROVE  FlowInv'
  BY DEF IdsBelowSerial, IdsUnique, StoresInHistory, OnePlace, UnredeemedCodes,
     CodesFollowRequests, GrantsFollowCodes, RequestsToRegisteredUri,
     OneExchangePerCode, OneCodePerRequest

LEMMA RefuseStep ==
  ASSUME TypeOK, FlowInv, NEW code \in codes, NEW c, NEW uri, NEW v,
         RefuseCode(code, c, uri, v)
  PROVE  FlowInv'
<1>1. /\ codes' = codes \ {code}
      /\ refused' = refused \union {code.code}
      /\ UNCHANGED <<serial, clients, requests, callbacks, registered, authorized,
                     minted, grants>>
  BY DEF RefuseCode, CodesLeft
<1>2. PICK n \in minted : n.code = code
  BY DEF StoresInHistory
<1>3. IdsBelowSerial'
  BY <1>1, <1>2 DEF IdsBelowSerial
<1>4. StoresInHistory'
  BY <1>1 DEF StoresInHistory
<1>5. UnredeemedCodes'
  <2>1. \A d \in codes' : d.code # code.code
    BY <1>1 DEF StoresInHistory, IdsUnique
  <2>2. QED
    BY <1>1, <2>1 DEF UnredeemedCodes
<1>6. OneExchangePerCode'
  BY <1>1 DEF OneExchangePerCode, UnredeemedCodes
<1>7. IdsUnique' /\ OnePlace' /\ RequestsToRegisteredUri' /\ OneCodePerRequest'
  BY <1>1 DEF IdsUnique, OnePlace, RequestsToRegisteredUri, OneCodePerRequest
<1>8. CodesFollowRequests' /\ GrantsFollowCodes'
  BY <1>1 DEF CodesFollowRequests, GrantsFollowCodes
<1>9. QED
  BY <1>3, <1>4, <1>5, <1>6, <1>7, <1>8

LEMMA FlowStep == TypeOK /\ FlowInv /\ [Next]_vars => FlowInv'
<1> SUFFICES ASSUME TypeOK, FlowInv, [Next]_vars PROVE FlowInv'
  OBVIOUS
<1>1. ASSUME NEW r \in requests, LoginTooLate(r) PROVE FlowInv'
  BY <1>1, DroppingStep DEF LoginTooLate, Remaining
<1>2. ASSUME NEW cb \in callbacks, CallbackFailed(cb) PROVE FlowInv'
  BY <1>2, DroppingStep DEF CallbackFailed
<1>3. CASE Tick
  BY <1>3, DroppingStep DEF Tick
<1>4. CASE Restart
  BY <1>4, DroppingStep DEF Restart
<1>5. CASE UNCHANGED vars
  BY <1>5, DroppingStep DEF vars
<1> HIDE DEF FlowInv
<1>6. QED
  BY <1>1, <1>2, <1>3, <1>4, <1>5, RegisterStep, AuthorizeStep, MockLoginStep,
     CallbackStartStep, CallbackDoneStep, RedeemStep, RefuseStep DEF Next

THEOREM FlowInvariant == Spec => [](TypeOK /\ FlowInv)
<1>1. Init => FlowInv
  BY DEF Init, IdsBelowSerial, IdsUnique, StoresInHistory, OnePlace, UnredeemedCodes,
     CodesFollowRequests, GrantsFollowCodes, RequestsToRegisteredUri,
     OneExchangePerCode, OneCodePerRequest
<1> HIDE DEF FlowInv
<1>2. QED
  BY <1>1, TypeCorrect, FlowStep, PTL DEF Spec

\* A code buys tokens at most once, and none once an exchange was refused.
THEOREM CodesAreSingleUse == Spec => []OneExchangePerCode
<1>1. FlowInv => OneExchangePerCode
  OBVIOUS
<1> HIDE DEF FlowInv
<1>2. QED
  BY <1>1, FlowInvariant, PTL

\* An authorization request yields at most one code, also when two callbacks
\* for it overlap.
THEOREM RequestsAreSingleUse == Spec => []OneCodePerRequest
<1>1. FlowInv => OneCodePerRequest
  OBVIOUS
<1> HIDE DEF FlowInv
<1>2. QED
  BY <1>1, FlowInvariant, PTL

\* An authorization request yields tokens at most once, whichever steps of the
\* flow are repeated.
THEOREM RequestsYieldOneGrant == Spec => []OneGrantPerRequest
<1>1. FlowInv => OneGrantPerRequest
  BY DEF OneCodePerRequest, OneExchangePerCode, OneGrantPerRequest
<1> HIDE DEF FlowInv
<1>2. QED
  BY <1>1, FlowInvariant, PTL

\* Tokens go to the client of the request, against the verifier of its
\* challenge, for the user who logged in for it.
THEOREM GrantsFollowRequests == Spec => []GrantFollowsRequest
<1>1. FlowInv => GrantFollowsRequest
  BY DEF GrantsFollowCodes, CodesFollowRequests, GrantFollowsRequest
<1> HIDE DEF FlowInv
<1>2. QED
  BY <1>1, FlowInvariant, PTL

\* The redirect URI shown at the token endpoint matches a registered one.
THEOREM GrantsToRegisteredUris == Spec => []GrantToRegisteredUri
<1>1. FlowInv => GrantToRegisteredUri
  <2> SUFFICES ASSUME FlowInv, NEW g \in grants
               PROVE  \E r \in registered :
                        /\ r.client_id = g.client_id
                        /\ RedirectUriMatches(g.redirect_uri, r.redirect_uris)
    BY DEF GrantToRegisteredUri
  <2>1. PICK m \in minted : /\ g.client_id = m.code.client_id
                            /\ RedirectUriMatches(g.redirect_uri, {m.code.redirect_uri})
    BY DEF GrantsFollowCodes
  <2>2. PICK a \in authorized : /\ m.code.client_id = a.client_id
                                /\ m.code.redirect_uri = a.redirect_uri
    BY DEF CodesFollowRequests
  <2>3. PICK r \in registered : /\ r.client_id = a.client_id
                                /\ RedirectUriMatches(a.redirect_uri, r.redirect_uris)
    BY DEF RequestsToRegisteredUri
  <2>4. QED
    BY <2>1, <2>2, <2>3, MatchThrough
<1> HIDE DEF FlowInv
<1>2. QED
  BY <1>1, FlowInvariant, PTL
-----------------------------------------------------------------------------
(***************************************************************************)
(* Lifetimes, and who owns the clients.                                    *)
(***************************************************************************)

\* How long after a request's own lifetime its code may be issued.
Slack == IF Broker THEN ExchangeMax ELSE 0

\* A waiting callback took its request in time and does not wait for long; a
\* code lives on from there, and is only redeemed while it lives.
InTime ==
  /\ \A cb \in callbacks :
       cb.since <= cb.request.expires_at /\ now <= cb.since + ExchangeMax
  /\ callbacks # {} => Broker
  /\ \A m \in minted : \E a \in authorized :
       m.request_id = a.request_id /\ m.code.expires_at <= a.expires_at + Slack + CodeTTL
  /\ \A g \in grants : \E m \in minted :
       g.code = m.code.code /\ g.at <= m.code.expires_at

\* Offline a session is one of the seeded ones or comes from a login.
SessionsFromLogins ==
  ~Broker =>
    /\ sessions \subseteq SeededUsers \union {m.login : m \in minted}
    /\ \A r \in registered : r.owner_user_id \in SeededUsers \union {m.login : m \in minted}

LEMMA SlackType == Slack \in Nat
  BY DEF Slack

LEMMA IssueInTime ==
  ASSUME TypeOK, FlowInv, InTime, NEW r \in authorized, NEW u \in Users, IssueCode(r, u),
         now <= r.expires_at + Slack, callbacks' \subseteq callbacks,
         UNCHANGED <<now, authorized, grants>>
  PROVE  InTime'
<1>1. PICK n : /\ n = [code |-> MintedCode(r, u), request_id |-> r.request_id,
                       login |-> u, sent |-> SentQuery(r.redirect_uri, serial + 1)]
               /\ minted' = minted \union {n}
  BY DEF IssueCode
<1>2. n.request_id = r.request_id /\ n.code.expires_at = now + CodeTTL
  BY <1>1 DEF MintedCode
<1>3. n.code.expires_at <= r.expires_at + Slack + CodeTTL
  <2>1. now \in Nat /\ r.expires_at \in Nat /\ Slack \in Nat /\ CodeTTL \in Nat
    BY RequestFields, SlackType DEF TypeOK
  <2>2. QED
    BY ONLY <1>2, <2>1, now <= r.expires_at + Slack
<1>4. \A m \in minted' : \E a \in authorized' :
        m.request_id = a.request_id /\ m.code.expires_at <= a.expires_at + Slack + CodeTTL
  BY <1>1, <1>2, <1>3 DEF InTime
<1>5. \A g \in grants' : \E m \in minted' :
        g.code = m.code.code /\ g.at <= m.code.expires_at
  BY <1>1 DEF InTime
<1>6. QED
  BY <1>4, <1>5 DEF InTime

\* A step that issues no code and grants nothing, and lets no callback start.
LEMMA QuietInTime ==
  ASSUME InTime, callbacks' \subseteq callbacks,
         UNCHANGED <<now, authorized, minted, grants>>
  PROVE  InTime'
  BY DEF InTime

LEMMA InTimeStep == TypeOK /\ FlowInv /\ InTime /\ [Next]_vars => InTime'
<1> SUFFICES ASSUME TypeOK, FlowInv, InTime, [Next]_vars PROVE InTime'
  OBVIOUS
<1>1. ASSUME NEW c \in Clients, NEW uri \in Uris, NEW ch, NEW method,
             Authorize(c, uri, ch, method)
      PROVE  InTime'
  BY <1>1 DEF Authorize, InTime
<1>2. ASSUME NEW r \in requests, NEW u \in Users, MockLogin(r, u) PROVE InTime'
  <2>1. /\ r \in authorized /\ IssueCode(r, u)
        /\ now <= r.expires_at
        /\ UNCHANGED <<now, callbacks, authorized, grants>>
    BY <1>2, RequestFields DEF MockLogin, StoresInHistory, Expired, TypeOK
  <2>2. now <= r.expires_at + Slack
    BY <2>1, RequestFields, SlackType DEF TypeOK
  <2>3. QED
    BY <2>1, <2>2, IssueInTime
<1>3. ASSUME NEW r \in requests, NEW u \in Users, CallbackStart(r, u) PROVE InTime'
  <2>1. PICK cb : /\ cb = [request |-> r, user_id |-> u, since |-> now]
                  /\ callbacks' = callbacks \union {cb}
    BY <1>3 DEF CallbackStart
  <2>2. /\ Broker /\ cb.since = now /\ cb.request = r
        /\ UNCHANGED <<now, authorized, minted, grants>>
    BY <1>3, <2>1 DEF CallbackStart
  <2>3. now <= r.expires_at /\ now <= now + ExchangeMax
    BY <1>3, RequestFields DEF CallbackStart, Expired, TypeOK
  <2>4. QED
    BY <2>1, <2>2, <2>3 DEF InTime
<1>4. ASSUME NEW cb \in callbacks, CallbackDone(cb) PROVE InTime'
  <2>1. /\ cb.request \in authorized /\ cb.user_id \in Users
        /\ IssueCode(cb.request, cb.user_id)
        /\ callbacks' \subseteq callbacks
        /\ UNCHANGED <<now, authorized, grants>>
    BY <1>4 DEF CallbackDone, StoresInHistory, TypeOK
  <2>2. now <= cb.request.expires_at + Slack
    <3>1. Broker /\ cb.since <= cb.request.expires_at /\ now <= cb.since + ExchangeMax
      BY DEF InTime
    <3>2. now \in Nat /\ cb.since \in Nat /\ cb.request.expires_at \in Nat
      BY RequestFields DEF TypeOK
    <3>3. Slack = ExchangeMax
      BY <3>1 DEF Slack
    <3>4. QED
      BY ONLY <3>1, <3>2, <3>3, TimeAssumption
  <2>3. QED
    BY <2>1, <2>2, IssueInTime
<1>5. ASSUME NEW code \in codes, NEW c \in Clients, NEW uri \in Uris, NEW v \in Verifiers,
             RedeemCode(code, c, uri, v)
      PROVE  InTime'
  <2>1. PICK g : /\ g.code = code.code /\ g.at = now
                 /\ grants' = grants \union {g}
                 /\ UNCHANGED <<now, callbacks, authorized, minted>>
    BY <1>5 DEF RedeemCode
  <2>2. PICK m \in minted : m.code = code
    BY DEF StoresInHistory
  <2>3. now <= code.expires_at
    BY <1>5, CodeFields DEF RedeemCode, Redeemable, Expired, TypeOK
  <2>4. QED
    BY <2>1, <2>2, <2>3 DEF InTime
<1>6. CASE Tick
  <2>1. /\ now' = now + 1
        /\ \A cb \in callbacks : now < cb.since + ExchangeMax
        /\ UNCHANGED <<callbacks, authorized, minted, grants>>
    BY <1>6 DEF Tick
  <2>2. \A cb \in callbacks : now' <= cb.since + ExchangeMax
    BY <2>1 DEF TypeOK
  <2>3. QED
    BY <2>1, <2>2 DEF InTime
<1>7. ASSUME NEW c \in Clients, NEW owner, NEW uris, Register(c, owner, uris)
      PROVE  InTime'
  BY <1>7, QuietInTime DEF Register
<1>8. ASSUME NEW r \in requests, LoginTooLate(r) PROVE InTime'
  BY <1>8, QuietInTime DEF LoginTooLate
<1>9. ASSUME NEW cb \in callbacks, CallbackFailed(cb) PROVE InTime'
  BY <1>9, QuietInTime DEF CallbackFailed
<1>10. ASSUME NEW code \in codes, NEW c, NEW uri, NEW v, RefuseCode(code, c, uri, v)
       PROVE  InTime'
  BY <1>10, QuietInTime DEF RefuseCode
<1>11. CASE Restart
  BY <1>11, QuietInTime DEF Restart
<1>12. CASE UNCHANGED vars
  BY <1>12, QuietInTime DEF vars
<1> HIDE DEF FlowInv
<1>13. QED
  BY <1>1, <1>2, <1>3, <1>4, <1>5, <1>6, <1>7, <1>8, <1>9, <1>10, <1>11, <1>12 DEF Next

THEOREM TimelyInvariant == Spec => [](TypeOK /\ FlowInv /\ InTime)
<1>1. Init => InTime
  BY DEF Init, InTime
<1> HIDE DEF FlowInv
<1>2. QED
  BY <1>1, FlowInvariant, InTimeStep, PTL DEF Spec

\* Nothing is granted on an authorization request whose lifetime, exchange and
\* code lifetime are over.
THEOREM FlowsEnd == Spec => []FlowEndsInTime
<1>1. TypeOK /\ InTime => FlowEndsInTime
  <2> SUFFICES ASSUME TypeOK, InTime, NEW g \in grants
               PROVE  \E m \in minted, a \in authorized :
                        /\ m.code.code = g.code
                        /\ m.request_id = a.request_id
                        /\ g.at <= a.expires_at + Slack + CodeTTL
    BY DEF FlowEndsInTime, Slack
  <2>1. PICK m \in minted : g.code = m.code.code /\ g.at <= m.code.expires_at
    BY DEF InTime
  <2>2. PICK a \in authorized : /\ m.request_id = a.request_id
                                /\ m.code.expires_at <= a.expires_at + Slack + CodeTTL
    BY DEF InTime
  <2>3. /\ g.at \in Nat /\ m.code.expires_at \in Nat /\ a.expires_at \in Nat
        /\ Slack \in Nat /\ CodeTTL \in Nat
    BY SlackType, CodeFields, RequestFields DEF TypeOK, TokenGrant
  <2>4. g.at <= a.expires_at + Slack + CodeTTL
    BY ONLY <2>1, <2>2, <2>3
  <2>5. QED
    BY <2>1, <2>2, <2>4
<1>2. QED
  BY <1>1, TimelyInvariant, PTL

LEMMA SessionsStep == SessionsFromLogins /\ [Next]_vars => SessionsFromLogins'
<1> SUFFICES ASSUME SessionsFromLogins, ~Broker, [Next]_vars PROVE SessionsFromLogins'
  BY DEF SessionsFromLogins
<1>1. ASSUME NEW c \in Clients, NEW owner, NEW uris, Register(c, owner, uris)
      PROVE  SessionsFromLogins'
  BY <1>1 DEF Register, MayRegister, HasSession, SessionsFromLogins
<1>2. ASSUME NEW r \in requests, NEW u \in Users, MockLogin(r, u)
      PROVE  SessionsFromLogins'
  <2>1. PICK n : n.login = u /\ minted' = minted \union {n}
    BY <1>2 DEF MockLogin, IssueCode
  <2>2. sessions' = sessions \union {u} /\ registered' = registered
    BY <1>2 DEF MockLogin, WithSession
  <2>3. QED
    BY <2>1, <2>2 DEF SessionsFromLogins
<1>3. ASSUME NEW cb \in callbacks, CallbackDone(cb) PROVE SessionsFromLogins'
  BY <1>3 DEF CallbackDone, IssueCode, SessionsFromLogins
<1>4. CASE Restart
  BY <1>4 DEF Restart, SessionsFromLogins
<1>5. CASE UNCHANGED <<sessions, registered, minted>>
  BY <1>5 DEF SessionsFromLogins
<1>6. QED
  BY <1>1, <1>2, <1>3, <1>4, <1>5 DEF Next, Authorize, LoginTooLate, CallbackStart,
     CallbackFailed, RedeemCode, RefuseCode, Tick, vars

\* Offline nobody owns a client who was neither seeded nor has logged in.
THEOREM OwnersHadSessions == Spec => []OwnerHadSession
<1>1. Init => SessionsFromLogins
  BY DEF Init, SessionsFromLogins
<1>2. SessionsFromLogins => OwnerHadSession
  BY DEF SessionsFromLogins, OwnerHadSession
<1>3. QED
  BY <1>1, <1>2, SessionsStep, PTL DEF Spec

(***************************************************************************)
(* The redirects.                                                          *)
(***************************************************************************)
SentAsIssued == \A m \in minted : m.sent = SentQuery(m.code.redirect_uri, m.code.code)

LEMMA SentStep == SentAsIssued /\ [Next]_vars => SentAsIssued'
<1> SUFFICES ASSUME SentAsIssued, [Next]_vars PROVE SentAsIssued'
  OBVIOUS
<1>1. ASSUME NEW r, NEW u, IssueCode(r, u) PROVE SentAsIssued'
  <2>1. PICK n : /\ n = [code |-> MintedCode(r, u), request_id |-> r.request_id,
                         login |-> u, sent |-> SentQuery(r.redirect_uri, serial + 1)]
                 /\ minted' = minted \union {n}
    BY <1>1 DEF IssueCode
  <2>2. n.code.redirect_uri = r.redirect_uri /\ n.code.code = serial + 1
    BY <2>1 DEF MintedCode
  <2>3. n.sent = SentQuery(n.code.redirect_uri, n.code.code)
    BY <2>1, <2>2
  <2>4. QED
    BY <2>1, <2>3 DEF SentAsIssued
<1>2. CASE UNCHANGED minted
  BY <1>2 DEF SentAsIssued
<1>3. QED
  BY <1>1, <1>2 DEF Next, Register, Authorize, MockLogin, LoginTooLate, CallbackStart,
     CallbackDone, CallbackFailed, RedeemCode, RefuseCode, Tick, Restart, vars

\* A matching URI is the registered one as far as its query goes.
LEMMA MatchKeepsQuery ==
  ASSUME NEW p, NEW registeredUris, RedirectUriMatches(p, registeredUris)
  PROVE  \E uri \in registeredUris : RedirectUriMatches(p, {uri}) /\ p.query = uri.query
  BY DEF RedirectUriMatches, SameButPort

\* Where the callback's redirect is no worse than the mock IdP's.
NoQueries == \A uri \in Uris : uri.query = <<>>

\* Offline, whatever the redirect URIs look like, and in the broker if they have no
\* queries, a code is taken to a URI the client registered with nothing changed
\* but the code added.  Over all URIs the broker has no such theorem.
THEOREM CodesDelivered == Spec => [](~Broker \/ NoQueries => CodeDelivered)
<1>1. Init => SentAsIssued
  BY DEF Init, SentAsIssued
<1>2. TypeOK /\ FlowInv /\ SentAsIssued => (~Broker \/ NoQueries => CodeDelivered)
  <2> SUFFICES ASSUME TypeOK, FlowInv, SentAsIssued, ~Broker \/ NoQueries, NEW m \in minted
               PROVE  \E r \in registered : r.client_id = m.code.client_id /\
                        \E uri \in r.redirect_uris :
                          /\ RedirectUriMatches(m.code.redirect_uri, {uri})
                          /\ m.sent = Append(uri.query, CodeParameter(m.code.code))
    BY DEF CodeDelivered
  <2>1. PICK a \in authorized : /\ m.code.client_id = a.client_id
                                /\ m.code.redirect_uri = a.redirect_uri
    BY DEF CodesFollowRequests
  <2>2. PICK r \in registered : /\ r.client_id = a.client_id
                                /\ RedirectUriMatches(a.redirect_uri, r.redirect_uris)
    BY DEF RequestsToRegisteredUri
  <2>3. PICK uri \in r.redirect_uris : /\ RedirectUriMatches(a.redirect_uri, {uri})
                                       /\ a.redirect_uri.query = uri.query
    BY <2>2, MatchKeepsQuery
  <2>4. m.sent = SentQuery(a.redirect_uri, m.code.code)
    BY <2>1 DEF SentAsIssued
  <2>5. a.redirect_uri \in Uris
    BY RequestFields DEF TypeOK
  <2>6. m.sent = Append(uri.query, CodeParameter(m.code.code))
    <3>1. CASE ~Broker
      BY <2>3, <2>4, <3>1 DEF SentQuery, Merged
    <3>2. CASE NoQueries
      <4> DEFINE p == CodeParameter(m.code.code)
      <4>1. a.redirect_uri.query = <<>>
        BY <2>5, <3>2 DEF NoQueries
      <4>2. m.sent = <<p>> \/ m.sent = Append(<<>>, p)
        BY <2>4, <4>1 DEF SentQuery, Merged, Appended
      <4> HIDE DEF p
      <4>3. Append(<<>>, p) = <<p>>
        OBVIOUS
      <4>4. m.sent = Append(uri.query, p)
        BY <2>3, <4>1, <4>2, <4>3
      <4>5. QED
        BY <4>4 DEF p
    <3>3. QED
      BY <3>1, <3>2
  <2>7. QED
    BY <2>1, <2>2, <2>3, <2>6
<1> HIDE DEF FlowInv
<1>3. QED
  BY <1>1, <1>2, SentStep, FlowInvariant, PTL DEF Spec

-----------------------------------------------------------------------------
(***************************************************************************)
(* The refinement.  What a request, an answer and a grant of CodeGrants    *)
(* are is read off the stores and histories; the id of a request finds it. *)
(***************************************************************************)

\* k is the answer that the code of m holds.
Holds(m, k) ==
  m.code \in codes /\ m.request_id = k.request.request_id /\ m.login = k.user_id

\* k is the exchange of the code of m that g paid out.
Pays(m, g, k) ==
  /\ m.request_id = k.request.request_id /\ m.code.code = g.code
  /\ k.user_id = g.user_id /\ k.client_id = g.client_id
  /\ k.code_verifier = g.code_verifier

Answers == [request : AskedRequests, user_id : Users]
Exchanges ==
  [request : AskedRequests, user_id : Users, client_id : Clients, code_verifier : Verifiers]

Held == requests \union {cb.request : cb \in callbacks}

LEMMA AskedFields ==
  ASSUME NEW r
  PROVE  /\ Asked(r).request_id = r.request_id
         /\ Asked(r).client_id = r.client_id
         /\ Asked(r).code_challenge = r.code_challenge
  BY DEF Asked

\* Requests, answers and exchanges as CodeGrants sees them.
LEMMA Views ==
  /\ OpenRequests = {Asked(r) : r \in Held}
  /\ StoredAnswers = {k \in Answers : \E m \in minted : Holds(m, k)}
  /\ GrantedRequests = {k \in Exchanges : \E m \in minted, g \in grants : Pays(m, g, k)}
  BY DEF OpenRequests, Held, StoredAnswers, Answers, Holds, GrantedRequests, Exchanges, Pays

LEMMA HeldIsAuthorized ==
  ASSUME TypeOK, FlowInv
  PROVE  /\ Held \subseteq authorized
         /\ authorized \subseteq AuthRequestState
         /\ \A q, r \in authorized : q.request_id = r.request_id => q = r
  BY DEF Held, StoresInHistory, IdsUnique, TypeOK

\* A held request has not been answered.
LEMMA HeldIsUnanswered ==
  ASSUME FlowInv, NEW r \in Held, NEW m \in minted
  PROVE  m.request_id # r.request_id
  BY DEF Held, OnePlace

\* The ids of what is minted and granted have been drawn.
LEMMA DrawnIds ==
  ASSUME TypeOK, FlowInv
  PROVE  /\ serial \in Nat
         /\ \A a \in authorized : a.request_id \in Nat /\ a.request_id <= serial
         /\ \A m \in minted : /\ m.code \in AuthCode /\ m.code.code \in Nat
                              /\ m.code.code <= serial
                              /\ m.request_id \in Nat /\ m.request_id <= serial
         /\ \A g \in grants : g.code \in Nat /\ g.code <= serial
<1>1. /\ serial \in Nat
      /\ \A a \in authorized : a.request_id \in Nat /\ a.request_id <= serial
      /\ \A m \in minted : /\ m.code \in AuthCode /\ m.code.code \in Nat
                           /\ m.code.code <= serial
  BY RequestFields, CodeFields DEF TypeOK, IdsBelowSerial
<1>2. \A m \in minted : m.request_id \in Nat /\ m.request_id <= serial
  BY <1>1 DEF CodesFollowRequests
<1>3. \A g \in grants : g.code \in Nat /\ g.code <= serial
  BY <1>1 DEF GrantsFollowCodes
<1>4. QED
  BY <1>1, <1>2, <1>3

\* A step that moves no request, code or grant is a stutter.
LEMMA QuietMapped ==
  ASSUME UNCHANGED <<authorized, requests, callbacks, codes, minted, grants>>
  PROVE  UNCHANGED CG!cgVars
  BY DEF CG!cgVars, AskedRequests, OpenRequests, StoredAnswers, GrantedRequests

LEMMA AuthorizeMapped ==
  ASSUME TypeOK, FlowInv, NEW c \in Clients, NEW uri \in Uris, NEW v \in Verifiers,
         NEW method, Authorize(c, uri, S256(v), method)
  PROVE  \E r \in CG!Request : CG!Ask(r)
<1>1. PICK a : /\ a = [request_id |-> serial + 1, client_id |-> c, redirect_uri |-> uri,
                       code_challenge |-> S256(v), expires_at |-> now + RequestTTL]
               /\ requests' = requests \union {a}
               /\ authorized' = authorized \union {a}
  BY DEF Authorize
<1>2. /\ serial < MaxSerial
      /\ UNCHANGED <<callbacks, codes, minted, grants>>
  BY DEF Authorize
<1>3. a.request_id = serial + 1 /\ a.client_id = c /\ a.code_challenge = S256(v)
  BY <1>1
<1>4. Asked(a) \in CG!Request
  <2>1. serial + 1 \in 1..MaxSerial
    BY <1>2, DrawnIds
  <2>2. [w \in Verifiers |-> S256(w)][v] = S256(v)
    OBVIOUS
  <2>3. QED
    BY <1>3, <2>1, <2>2 DEF Asked, CG!Request
<1>5. \A q \in AskedRequests : q.request_id # Asked(a).request_id
  BY <1>3, DrawnIds, AskedFields DEF AskedRequests
<1>6. AskedRequests' = AskedRequests \union {Asked(a)}
  BY <1>1 DEF AskedRequests
<1>7. OpenRequests' = OpenRequests \union {Asked(a)}
  BY <1>1, <1>2 DEF OpenRequests
<1>8. \A m \in minted : m.request_id # Asked(a).request_id
  BY <1>3, DrawnIds, AskedFields
<1>9. StoredAnswers' = StoredAnswers
  BY <1>2, <1>6, <1>8 DEF StoredAnswers
<1>10. GrantedRequests' = GrantedRequests
  BY <1>2, <1>6, <1>8 DEF GrantedRequests
<1>11. QED
  BY <1>4, <1>5, <1>6, <1>7, <1>9, <1>10 DEF CG!Ask

\* A request that leaves the hands of everybody is no longer open.
LEMMA LeavesOpen ==
  ASSUME TypeOK, FlowInv, NEW r \in Held, Held' = Held \ {r}
  PROVE  /\ Asked(r) \in OpenRequests
         /\ OpenRequests' = OpenRequests \ {Asked(r)}
<1>1. \A q \in Held : Asked(q) = Asked(r) => q = r
  BY HeldIsAuthorized, AskedFields
<1>2. OpenRequests = {Asked(q) : q \in Held} /\ OpenRequests' = {Asked(q) : q \in Held'}
  BY DEF OpenRequests, Held
<1>3. QED
  BY <1>1, <1>2

LEMMA IssueMapped ==
  ASSUME TypeOK, FlowInv, NEW r \in Held, NEW u \in Users, IssueCode(r, u),
         Held' = Held \ {r}, UNCHANGED <<authorized, grants>>
  PROVE  CG!Answer(Asked(r), u)
<1>1. PICK n : /\ n = [code |-> MintedCode(r, u), request_id |-> r.request_id,
                       login |-> u, sent |-> SentQuery(r.redirect_uri, serial + 1)]
               /\ codes' = codes \union {n.code}
               /\ minted' = minted \union {n}
  BY DEF IssueCode
<1>2. /\ n.request_id = r.request_id /\ n.login = u /\ n.code.code = serial + 1
  BY <1>1 DEF MintedCode
<1>3. r \in authorized
  BY HeldIsAuthorized
<1>4. AskedRequests' = AskedRequests /\ Asked(r) \in AskedRequests
  BY <1>3 DEF AskedRequests
<1>5. StoredAnswers' = StoredAnswers \union {[request |-> Asked(r), user_id |-> u]}
  <2> DEFINE new == [request |-> Asked(r), user_id |-> u]
  <2>1. new \in Answers /\ new.request.request_id = r.request_id /\ new.user_id = u
    BY <1>4, AskedFields DEF Answers
  <2>2. \A k \in Answers : k.request.request_id = r.request_id /\ k.user_id = u => k = new
    <3> SUFFICES ASSUME NEW k \in Answers, k.request.request_id = r.request_id, k.user_id = u
                 PROVE  k = new
      OBVIOUS
    <3>1. PICK a \in authorized : k.request = Asked(a)
      BY DEF Answers, AskedRequests
    <3>2. a = r
      BY <1>3, <3>1, HeldIsAuthorized, AskedFields
    <3>3. QED
      BY <3>1, <3>2 DEF Answers
  <2>3. \A m \in minted : m.code # n.code
    BY <1>2, DrawnIds
  <2>4. \A m \in minted : m.code \in codes' <=> m.code \in codes
    BY <1>1, <2>3
  <2>5. n.code \in codes' /\ n \in minted' /\ Answers' = Answers
    BY <1>1, <1>4 DEF Answers
  <2> HIDE DEF new
  <2>6. \A k \in Answers :
          (\E m \in minted' : Holds(m, k)') <=> (\E m \in minted : Holds(m, k)) \/ k = new
    BY <1>1, <1>2, <2>1, <2>2, <2>4, <2>5 DEF Holds
  <2>7. StoredAnswers' = {k \in Answers' : \E m \in minted' : Holds(m, k)'}
    BY DEF StoredAnswers, Answers, Holds
  <2>8. QED
    BY <2>1, <2>5, <2>6, <2>7, Views DEF new
<1>6. GrantedRequests' = GrantedRequests
  <2>1. \A g \in grants : n.code.code # g.code
    BY <1>2, DrawnIds
  <2>2. QED
    BY <1>1, <1>4, <2>1 DEF GrantedRequests
<1>7. QED
  BY <1>4, <1>5, <1>6, LeavesOpen DEF CG!Answer

LEMMA LapseMapped ==
  ASSUME TypeOK, FlowInv, NEW r \in Held, Held' = Held \ {r},
         UNCHANGED <<authorized, codes, minted, grants>>
  PROVE  CG!Lapse(Asked(r))
  BY LeavesOpen DEF CG!Lapse, AskedRequests, StoredAnswers, GrantedRequests

\* The answer a stored code holds goes with it.
LEMMA CodeSpent ==
  ASSUME TypeOK, FlowInv, NEW n \in minted, n.code \in codes, NEW a \in authorized,
         n.request_id = a.request_id, codes' = codes \ {n.code},
         UNCHANGED <<authorized, minted>>
  PROVE  LET k == [request |-> Asked(a), user_id |-> n.login] IN
         k \in StoredAnswers /\ StoredAnswers' = StoredAnswers \ {k}
<1> DEFINE k == [request |-> Asked(a), user_id |-> n.login]
<1>1. AskedRequests' = AskedRequests /\ Asked(a) \in AskedRequests
  BY DEF AskedRequests
<1>2. k \in Answers /\ k.request.request_id = n.request_id /\ k.user_id = n.login
  BY <1>1, AskedFields DEF Answers, TypeOK
<1>3. Answers' = Answers
  BY <1>1 DEF Answers
<1>4. \A j \in Answers : Holds(n, j) => j = k
  <2> SUFFICES ASSUME NEW j \in Answers, Holds(n, j) PROVE j = k
    OBVIOUS
  <2>1. PICK b \in authorized : j.request = Asked(b)
    BY DEF Answers, AskedRequests
  <2>2. b.request_id = a.request_id
    BY <2>1, AskedFields DEF Holds
  <2>3. b = a
    BY <2>2, HeldIsAuthorized
  <2>4. QED
    BY <2>1, <2>3 DEF Answers, Holds
<1>5. \A m \in minted : m.request_id = n.request_id => m = n
  BY DEF OneCodePerRequest
<1>6. \A m \in minted : m.code = n.code => m = n
  BY DEF IdsUnique
<1> HIDE DEF k
<1>7. Holds(n, k)
  BY <1>2 DEF Holds
<1>8. \A j \in Answers :
        (\E m \in minted' : Holds(m, j)') <=> (\E m \in minted : Holds(m, j)) /\ j # k
  BY <1>2, <1>4, <1>5, <1>6 DEF Holds
<1>9. StoredAnswers' = {j \in Answers' : \E m \in minted' : Holds(m, j)'}
  BY DEF StoredAnswers, Answers, Holds
<1>10. QED
  BY <1>2, <1>3, <1>7, <1>8, <1>9, Views DEF k

LEMMA RedeemMapped ==
  ASSUME TypeOK, FlowInv, NEW code \in codes, NEW c \in Clients, NEW uri \in Uris,
         NEW v \in Verifiers, RedeemCode(code, c, uri, v)
  PROVE  \E k \in StoredAnswers : CG!Exchange(k, c, v)
<1>1. PICK g : /\ g = [token |-> serial + 1, code |-> code.code, client_id |-> c,
                       user_id |-> code.user_id, redirect_uri |-> uri,
                       code_verifier |-> v, at |-> now]
               /\ grants' = grants \union {g}
  BY DEF RedeemCode
<1>2. g.code = code.code /\ g.client_id = c /\ g.user_id = code.user_id /\ g.code_verifier = v
  BY <1>1
<1>3. /\ codes' = codes \ {code}
      /\ code.client_id = c
      /\ S256(v) = code.code_challenge
      /\ UNCHANGED <<requests, callbacks, authorized, minted>>
  BY DEF RedeemCode, CodesLeft, Redeemable, BoundTo, VerifyPkce
<1>4. PICK n \in minted : n.code = code
  BY DEF StoresInHistory
<1>5. PICK a \in authorized : /\ n.request_id = a.request_id
                              /\ n.code.client_id = a.client_id
                              /\ n.code.code_challenge = a.code_challenge
                              /\ n.code.user_id = n.login
  BY DEF CodesFollowRequests
<1> DEFINE k == [request |-> Asked(a), user_id |-> n.login]
           x == [request |-> k.request, user_id |-> k.user_id, client_id |-> c,
                 code_verifier |-> v]
<1>6. k \in StoredAnswers /\ StoredAnswers' = StoredAnswers \ {k}
  BY <1>3, <1>4, <1>5, CodeSpent
<1>7. /\ AskedRequests' = AskedRequests /\ Asked(a) \in AskedRequests
      /\ OpenRequests' = OpenRequests
  BY <1>3 DEF AskedRequests, OpenRequests
<1>8. c = k.request.client_id /\ [w \in Verifiers |-> S256(w)][v] = k.request.code_challenge
  BY <1>3, <1>4, <1>5, AskedFields
<1>9. GrantedRequests' = GrantedRequests \union {x}
  <2>1. /\ x \in Exchanges /\ Exchanges' = Exchanges
        /\ x.request = Asked(a) /\ x.user_id = g.user_id
        /\ x.client_id = g.client_id /\ x.code_verifier = g.code_verifier
    BY <1>2, <1>4, <1>5, <1>7 DEF Exchanges, TypeOK
  <2>2. \A m \in minted : m.code.code = g.code => m = n
    BY <1>2, <1>4 DEF IdsUnique
  <2>3. Pays(n, g, x)
    BY <1>2, <1>4, <1>5, <2>1, AskedFields DEF Pays
  <2>4. \A y \in Exchanges : Pays(n, g, y) => y = x
    <3> SUFFICES ASSUME NEW y \in Exchanges, Pays(n, g, y) PROVE y = x
      OBVIOUS
    <3>1. PICK b \in authorized : y.request = Asked(b)
      BY DEF Exchanges, AskedRequests
    <3>2. b = a
      <4>1. b.request_id = a.request_id
        BY <1>5, <3>1, AskedFields DEF Pays
      <4>2. QED
        BY <4>1, HeldIsAuthorized
    <3>3. y.user_id = x.user_id /\ y.client_id = x.client_id /\ y.code_verifier = x.code_verifier
      BY <2>1 DEF Pays
    <3> HIDE DEF k, x
    <3>4. QED
      BY <2>1, <3>1, <3>2, <3>3 DEF Exchanges
  <2> HIDE DEF k, x
  <2>5. \A y \in Exchanges :
          (\E m \in minted', h \in grants' : Pays(m, h, y))
            <=> (\E m \in minted, h \in grants : Pays(m, h, y)) \/ y = x
    <3>1. \A m \in minted, y \in Exchanges : Pays(m, g, y) => y = x
      BY <2>2, <2>4 DEF Pays
    <3>2. QED
      BY <1>1, <1>3, <2>3, <3>1
  <2>6. GrantedRequests' = {y \in Exchanges' : \E m \in minted', h \in grants' : Pays(m, h, y)}
    BY DEF GrantedRequests, Exchanges, Pays
  <2>7. QED
    BY <2>1, <2>5, <2>6, Views
<1>10. QED
  BY <1>6, <1>7, <1>8, <1>9 DEF CG!Exchange

LEMMA RefuseMapped ==
  ASSUME TypeOK, FlowInv, NEW code \in codes, NEW c, NEW uri, NEW v,
         RefuseCode(code, c, uri, v)
  PROVE  \E k \in StoredAnswers : CG!Refuse(k)
<1>1. /\ codes' = codes \ {code}
      /\ UNCHANGED <<requests, callbacks, authorized, minted, grants>>
  BY DEF RefuseCode, CodesLeft
<1>2. PICK n \in minted : n.code = code
  BY DEF StoresInHistory
<1>3. PICK a \in authorized : n.request_id = a.request_id
  BY DEF CodesFollowRequests
<1> DEFINE k == [request |-> Asked(a), user_id |-> n.login]
<1>4. k \in StoredAnswers /\ StoredAnswers' = StoredAnswers \ {k}
  BY <1>1, <1>2, <1>3, CodeSpent
<1>5. UNCHANGED <<AskedRequests, OpenRequests, GrantedRequests>>
  BY <1>1 DEF AskedRequests, OpenRequests, GrantedRequests
<1> HIDE DEF k
<1>6. QED
  BY <1>4, <1>5 DEF CG!Refuse

LEMMA RestartMapped ==
  ASSUME Restart
  PROVE  CG!Forget
<1>1. OpenRequests' = {} /\ StoredAnswers' = {}
  BY DEF Restart, OpenRequests, StoredAnswers
<1>2. UNCHANGED <<AskedRequests, GrantedRequests>>
  BY DEF Restart, AskedRequests, GrantedRequests
<1>3. QED
  BY <1>1, <1>2 DEF CG!Forget

LEMMA FlowMapped == TypeOK /\ FlowInv /\ [Next]_vars => [CG!Next]_(CG!cgVars)
<1> SUFFICES ASSUME TypeOK, FlowInv, [Next]_vars PROVE [CG!Next]_(CG!cgVars)
  OBVIOUS
<1>1. ASSUME NEW r \in requests, NEW u \in Users, MockLogin(r, u) PROVE CG!Answer(Asked(r), u)
  <2>1. \A cb \in callbacks : cb.request # r
    BY DEF OnePlace
  <2>2. r \in Held /\ Held' = Held \ {r}
    BY <1>1, <2>1 DEF MockLogin, Remaining, Held
  <2>3. QED
    BY <1>1, <2>2, IssueMapped DEF MockLogin
<1>2. ASSUME NEW r \in requests, LoginTooLate(r) PROVE CG!Lapse(Asked(r))
  <2>1. \A cb \in callbacks : cb.request # r
    BY DEF OnePlace
  <2>2. r \in Held /\ Held' = Held \ {r}
    BY <1>2, <2>1 DEF LoginTooLate, Remaining, Held
  <2>3. QED
    BY <1>2, <2>2, LapseMapped DEF LoginTooLate
<1>3. ASSUME NEW r \in requests, NEW u \in Users, CallbackStart(r, u)
      PROVE  UNCHANGED CG!cgVars
  <2>1. PICK cb : /\ cb = [request |-> r, user_id |-> u, since |-> now]
                  /\ callbacks' = callbacks \union {cb}
    BY <1>3 DEF CallbackStart
  <2>2. cb.request = r
    BY <2>1
  <2>3. Held' = Held
    BY <1>3, <2>1, <2>2 DEF CallbackStart, Remaining, Held
  <2>4. OpenRequests' = OpenRequests
    BY <2>3 DEF OpenRequests, Held
  <2>5. UNCHANGED <<authorized, codes, minted, grants>>
    BY <1>3 DEF CallbackStart
  <2>6. QED
    BY <2>4, <2>5 DEF CG!cgVars, AskedRequests, StoredAnswers, GrantedRequests
<1>4. ASSUME NEW cb \in callbacks, callbacks' = callbacks \ {cb}, requests' = requests
      PROVE  cb.request \in Held /\ Held' = Held \ {cb.request}
  <2>1. /\ \A r \in requests : r # cb.request
        /\ \A db \in callbacks : db.request = cb.request => db = cb
    BY DEF OnePlace
  <2>2. QED
    BY <1>4, <2>1 DEF Held
<1>5. ASSUME NEW cb \in callbacks, CallbackDone(cb)
      PROVE  cb.user_id \in Users /\ CG!Answer(Asked(cb.request), cb.user_id)
  <2>1. cb.user_id \in Users
    BY DEF TypeOK
  <2>2. QED
    BY <1>4, <1>5, <2>1, IssueMapped DEF CallbackDone
<1>6. ASSUME NEW cb \in callbacks, CallbackFailed(cb) PROVE CG!Lapse(Asked(cb.request))
  BY <1>4, <1>6, LapseMapped DEF CallbackFailed
<1>7. ASSUME NEW c \in Clients, NEW owner, NEW uris, Register(c, owner, uris)
      PROVE  UNCHANGED CG!cgVars
  BY <1>7, QuietMapped DEF Register
<1>8. CASE Tick
  BY <1>8, QuietMapped DEF Tick
<1>9. CASE UNCHANGED vars
  BY <1>9, QuietMapped DEF vars
<1>10. ASSUME NEW r, NEW u, CG!Answer(r, u) PROVE r \in OpenRequests
  BY <1>10 DEF CG!Answer
<1>11. ASSUME NEW r, CG!Lapse(r) PROVE r \in OpenRequests
  BY <1>11 DEF CG!Lapse
<1> HIDE DEF FlowInv
<1>12. QED
  BY <1>1, <1>2, <1>3, <1>5, <1>6, <1>7, <1>8, <1>9, <1>10, <1>11, AuthorizeMapped,
     RedeemMapped, RefuseMapped, RestartMapped DEF Next, CG!Next

\* In both modes the flow is that of CodeGrants: one answer for a request, one
\* exchange for an answer, by the client that asked, and nothing comes back.
THEOREM Refinement == Spec => ImplementsCodeGrants
<1>1. Init => CG!Init
  BY DEF Init, CG!Init, AskedRequests, OpenRequests, StoredAnswers, GrantedRequests
<1> HIDE DEF FlowInv
<1>2. QED
  BY <1>1, FlowMapped, FlowInvariant, PTL DEF Spec, CG!Spec, ImplementsCodeGrants
=============================================================================
