----------------------------- MODULE CodeGrants -----------------------------
(***************************************************************************)
(* What the authorization code grant promises, whatever stores, ids and    *)
(* waiting callbacks it is made of.  A client asks, with a challenge; one  *)
(* login answers; and one exchange turns the answer into tokens, for the   *)
(* client that asked, on proof of the verifier behind its challenge.  On   *)
(* the way a request may lapse or an answer be refused: it is then over.   *)
(***************************************************************************)
CONSTANTS
  Ids, Clients, Users, Verifiers,
  Challenge      \* Challenge[v]: the challenge of verifier v

VARIABLES
  asked,      \* every request ever made
  open,       \* the requests that may still be answered
  answered,   \* the answers that may still be exchanged
  granted     \* every exchange that yielded tokens

cgVars == <<asked, open, answered, granted>>

Request ==
  [request_id : Ids, client_id : Clients, code_challenge : {Challenge[v] : v \in Verifiers}]

Init ==
  /\ asked = {}
  /\ open = {}
  /\ answered = {}
  /\ granted = {}

\* No two requests share an id.
Ask(r) ==
  /\ \A q \in asked : q.request_id # r.request_id
  /\ asked' = asked \union {r}
  /\ open' = open \union {r}
  /\ UNCHANGED <<answered, granted>>

\* User u logs in for request r.
Answer(r, u) ==
  /\ r \in open
  /\ open' = open \ {r}
  /\ answered' = answered \union {[request |-> r, user_id |-> u]}
  /\ UNCHANGED <<asked, granted>>

\* Client c exchanges answer k, with verifier v.
Exchange(k, c, v) ==
  /\ k \in answered
  /\ c = k.request.client_id
  /\ Challenge[v] = k.request.code_challenge
  /\ answered' = answered \ {k}
  /\ granted' = granted \union
       {[request |-> k.request, user_id |-> k.user_id, client_id |-> c, code_verifier |-> v]}
  /\ UNCHANGED <<asked, open>>

\* A login that comes too late or fails ends its request.
Lapse(r) ==
  /\ r \in open
  /\ open' = open \ {r}
  /\ UNCHANGED <<asked, answered, granted>>

\* A failed exchange ends its flow too.
Refuse(k) ==
  /\ k \in answered
  /\ answered' = answered \ {k}
  /\ UNCHANGED <<asked, open, granted>>

\* A restart ends every flow that is not through.
Forget ==
  /\ open' = {}
  /\ answered' = {}
  /\ UNCHANGED <<asked, granted>>

Next ==
  \/ \E r \in Request : Ask(r)
  \/ \E r \in open : Lapse(r) \/ \E u \in Users : Answer(r, u)
  \/ \E k \in answered : Refuse(k) \/ \E c \in Clients, v \in Verifiers : Exchange(k, c, v)
  \/ Forget

Spec == Init /\ [][Next]_cgVars
=============================================================================
