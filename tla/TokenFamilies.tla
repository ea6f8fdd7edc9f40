--------------------------- MODULE TokenFamilies ---------------------------
(***************************************************************************)
(* What the self-mint refresh tokens promise, whatever the store looks     *)
(* like inside (oauth/token.py, oauth/tokens.py).  A login opens a family; *)
(* at any moment a family has at most one usable token, its current one.   *)
(* Presenting the current token either renews it, with a token nobody has  *)
(* seen, or is refused; a refusal of any token the family ever had ends    *)
(* the family, and a family that has ended never has a usable token again. *)
(***************************************************************************)
CONSTANTS Families, Tokens, NoToken

VARIABLES
  current,   \* current[f]: the usable token of family f, or NoToken
  lineage,   \* lineage[f]: every token family f has ever been given
  reply      \* the answer to the latest call of the token endpoint

tfVars == <<current, lineage, reply>>

Answer(status, t) == [status |-> status, token |-> t]

Fresh(t) == \A f \in Families : t \notin lineage[f]

Init ==
  /\ current = [f \in Families |-> NoToken]
  /\ lineage = [f \in Families |-> {}]
  /\ reply = Answer("none", NoToken)

\* A login gives a family that was never used its first token.
Open(f, t) ==
  /\ lineage[f] = {}
  /\ Fresh(t)
  /\ current' = [current EXCEPT ![f] = t]
  /\ lineage' = [lineage EXCEPT ![f] = {t}]
  /\ reply' = Answer("granted", t)

\* The current token is exchanged for a fresh one.
Renew(f, t) ==
  /\ current[f] # NoToken
  /\ Fresh(t)
  /\ current' = [current EXCEPT ![f] = t]
  /\ lineage' = [lineage EXCEPT ![f] = @ \union {t}]
  /\ reply' = Answer("granted", t)

\* A refused token takes the family it belongs to with it.
Refuse(t) ==
  /\ current' = [f \in Families |-> IF t \in lineage[f] THEN NoToken ELSE current[f]]
  /\ reply' = Answer("refused", t)
  /\ UNCHANGED lineage

\* A restart ends every family: nothing is persisted.
Forget ==
  /\ current' = [f \in Families |-> NoToken]
  /\ reply' = Answer("none", NoToken)
  /\ UNCHANGED lineage

Next ==
  \/ \E f \in Families, t \in Tokens : Open(f, t) \/ Renew(f, t)
  \/ \E t \in Tokens : Refuse(t)
  \/ Forget

Spec == Init /\ [][Next]_tfVars
=============================================================================
