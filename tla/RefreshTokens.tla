--------------------------- MODULE RefreshTokens ---------------------------
(***************************************************************************)
(* The self-mint refresh tokens of the offline authorization server: the   *)
(* store of oauth/tokens.py (MockRefreshTokenStore) driven by the two      *)
(* places that use it, the end of the authorization_code grant and the     *)
(* refresh_token grant of oauth/token.py.                                  *)
(*                                                                         *)
(* The token endpoint runs on one event loop and does not await between    *)
(* consume() and add(), so a grant is one step.  Anybody may present any   *)
(* token that was ever handed out, at any time and any number of times: a  *)
(* retry after a lost reply, a duplicated request and a second holder of   *)
(* the token look the same to the server.                                  *)
(***************************************************************************)
EXTENDS Naturals

CONSTANTS
  Tokens,        \* opaque refresh token values (secrets.token_urlsafe)
  Families,      \* opaque family ids
  Users, Clients,
  ScopeParams,   \* the scopes a login may ask for
  NoToken, NoRecord, NoFamily,
  RefreshTTL,    \* REFRESH_TOKEN_TTL_SECONDS
  MaxTime        \* bound on the clock

ASSUME TokenAssumption  == NoToken \notin Tokens
ASSUME FamilyAssumption == NoFamily \notin Families
ASSUME TTLAssumption    == RefreshTTL \in Nat /\ MaxTime \in Nat

RefreshTokenRecord ==
  [client_id : Clients, user_id : Users, scope : ScopeParams, expires_at : Nat,
   family_id : Families]

ASSUME RecordAssumption == NoRecord \notin RefreshTokenRecord

VARIABLES
  now,               \* the wall clock, in seconds
  items,             \* _items: token -> record, NoRecord where absent
  consumedFamilies,  \* _consumed_families: token -> family of a consumed token
  familyMembers,     \* _family_members: family -> its live tokens
  reply,             \* answer to the latest call
  lineage            \* history: every token each family was ever given

store == <<items, consumedFamilies, familyMembers>>
vars == <<now, items, consumedFamilies, familyMembers, reply, lineage>>

Answer(status, t) == [status |-> status, token |-> t]

\* token_urlsafe never returns a value it returned before.
FreshToken(t) == \A f \in Families : t \notin lineage[f]

FreshFamily_UserAsFamily(f) == TRUE   \* mutant: the user id doubles as family id
FreshFamily(f) == lineage[f] = {}

Live(t) == items[t] # NoRecord
LiveTokens(f) == {t \in Tokens : Live(t) /\ items[t].family_id = f}
Expired(t) == items[t].expires_at < now

Init ==
  /\ now = 0
  /\ items = [t \in Tokens |-> NoRecord]
  /\ consumedFamilies = [t \in Tokens |-> NoFamily]
  /\ familyMembers = [f \in Families |-> {}]
  /\ reply = Answer("none", NoToken)
  /\ lineage = [f \in Families |-> {}]

\* mint_refresh_token: the record a freshly drawn token gets.
MintedRecord(user, client, scope, f) ==
  [client_id |-> client, user_id |-> user, scope |-> scope,
   expires_at |-> now + RefreshTTL, family_id |-> f]

\* The dictionary updates consume() is made of.
Pop_Peek(t) == items                      \* mutant: get() for pop()
Pop(t) == [items EXCEPT ![t] = NoRecord]

Discard_Forgotten(t) == familyMembers     \* mutant: the index is not updated
Discard(t) == [familyMembers EXCEPT ![items[t].family_id] = @ \ {t}]

Tombstone_Skipped(t) == consumedFamilies                        \* mutant
Tombstone_Self(t) == [consumedFamilies EXCEPT ![t] = t]         \* mutant
Tombstone(t) == [consumedFamilies EXCEPT ![t] = items[t].family_id]

(***************************************************************************)
(* The authorization_code grant ends by minting a token in a new family    *)
(* and adding it to the store.                                             *)
(***************************************************************************)
Grant(t, f, user, client, scope) ==
  /\ FreshToken(t)
  /\ FreshFamily(f)
  /\ items' = [items EXCEPT ![t] = MintedRecord(user, client, scope, f)]
  /\ familyMembers' = [familyMembers EXCEPT ![f] = @ \union {t}]
  /\ reply' = Answer("granted", t)
  /\ lineage' = [lineage EXCEPT ![f] = @ \union {t}]
  /\ UNCHANGED <<now, consumedFamilies>>

(***************************************************************************)
(* The refresh_token grant: consume() and, when it returns a record,       *)
(* mint and add().                                                         *)
(***************************************************************************)

Revoke_Nothing(f) == UNCHANGED <<items, familyMembers>>   \* mutant: replay only refused

\* Mutant: a replay logs everybody out.
Revoke_Everything(f) ==
  /\ items' = [t \in Tokens |-> NoRecord]
  /\ familyMembers' = [g \in Families |-> {}]

\* _items and _family_members once family f has been revoked.
Revoke(f) ==
  /\ items' = [t \in Tokens |-> IF t \in familyMembers[f] THEN NoRecord ELSE items[t]]
  /\ familyMembers' = [familyMembers EXCEPT ![f] = {}]

\* A consumed token comes back: its whole family is revoked.
ReplayConsumed(t) ==
  /\ consumedFamilies[t] # NoFamily
  /\ Revoke(consumedFamilies[t])
  /\ reply' = Answer("refused", t)
  /\ UNCHANGED <<now, consumedFamilies, lineage>>

\* A token that is neither consumed nor stored.
RefuseUnknown(t) ==
  /\ consumedFamilies[t] = NoFamily
  /\ ~Live(t)
  /\ reply' = Answer("refused", t)
  /\ UNCHANGED <<now, items, consumedFamilies, familyMembers, lineage>>

\* A stored token past its expiry is dropped without becoming a reuse signal.
RefuseExpired(t) ==
  /\ consumedFamilies[t] = NoFamily
  /\ Live(t)
  /\ Expired(t)
  /\ items' = Pop(t)
  /\ familyMembers' = Discard(t)
  /\ reply' = Answer("refused", t)
  /\ UNCHANGED <<now, consumedFamilies, lineage>>

\* A usable token is consumed and its successor u stored in the same family.
Rotate(t, u) ==
  /\ consumedFamilies[t] = NoFamily
  /\ Live(t)
  /\ ~Expired(t)
  /\ FreshToken(u)
  /\ LET old == items[t]
         f   == old.family_id
     IN /\ items' = [Pop(t) EXCEPT ![u] =
                      MintedRecord(old.user_id, old.client_id, old.scope, f)]
        /\ consumedFamilies' = Tombstone(t)
        /\ familyMembers' = [Discard(t) EXCEPT ![f] = @ \union {u}]
        /\ lineage' = [lineage EXCEPT ![f] = @ \union {u}]
  /\ reply' = Answer("granted", u)
  /\ UNCHANGED now

Tick ==
  /\ now < MaxTime
  /\ now' = now + 1
  /\ UNCHANGED <<items, consumedFamilies, familyMembers, reply, lineage>>

\* The process restarts: the store is rebuilt empty.
Restart ==
  /\ items' = [t \in Tokens |-> NoRecord]
  /\ consumedFamilies' = [t \in Tokens |-> NoFamily]
  /\ familyMembers' = [f \in Families |-> {}]
  /\ reply' = Answer("none", NoToken)
  /\ UNCHANGED <<now, lineage>>

Next ==
  \/ \E t \in Tokens, f \in Families, u \in Users, c \in Clients, s \in ScopeParams :
       Grant(t, f, u, c, s)
  \/ \E t \in Tokens : ReplayConsumed(t)
  \/ \E t \in Tokens : RefuseUnknown(t)
  \/ \E t \in Tokens : RefuseExpired(t)
  \/ \E t \in Tokens, u \in Tokens : Rotate(t, u)
  \/ Tick
  \/ Restart

Spec == Init /\ [][Next]_vars

-----------------------------------------------------------------------------
(***************************************************************************)
(* Properties                                                              *)
(***************************************************************************)

TypeOK ==
  /\ now \in Nat
  /\ items \in [Tokens -> RefreshTokenRecord \union {NoRecord}]
  /\ consumedFamilies \in [Tokens -> Families \union {NoFamily}]
  /\ familyMembers \in [Families -> SUBSET Tokens]
  /\ reply \in [status : {"none", "granted", "refused"}, token : Tokens \union {NoToken}]
  /\ lineage \in [Families -> SUBSET Tokens]

\* The two indexes of the store agree: revoking a family through
\* _family_members reaches exactly the tokens that are live in _items.
IndexAgrees == \A f \in Families : familyMembers[f] = LiveTokens(f)

\* A rotation chain has at most one token that still works.
OneLivePerFamily ==
  \A t, u \in Tokens :
    Live(t) /\ Live(u) /\ items[t].family_id = items[u].family_id => t = u

\* While a family works, every earlier token of it is tombstoned, so that a
\* replay of any of them, however old, is recognised and ends the family.
PredecessorsTombstoned ==
  \A f \in Families, t \in Tokens :
    LiveTokens(f) # {} /\ t \in lineage[f] /\ ~Live(t) => consumedFamilies[t] = f

\* Once a token of a family has been refused, for reuse or for age, no token
\* of that family works any more: the holder must log in again.
RefusalEndsFamily ==
  reply.status = "refused" =>
    \A f \in Families : reply.token \in lineage[f] => LiveTokens(f) = {}

\* A family that has lost its last token never gets one again: no order of
\* rotations, replays and expiries brings a revoked session back.
StaysDead(f) == lineage[f] # {} /\ LiveTokens(f) = {} => LiveTokens(f)' = {}
NoRevival == [][\A f \in Families : StaysDead(f)]_vars

\* Rotation keeps the user, the client and the scope of the login that opened the
\* family.
SameGrantee(t, u) ==
  Live(t) /\ Live(u)' /\ items[t].family_id = items'[u].family_id =>
    /\ items[t].user_id = items'[u].user_id
    /\ items[t].client_id = items'[u].client_id
    /\ items[t].scope = items'[u].scope
GranteeStable == [][\A t, u \in Tokens : SameGrantee(t, u)]_vars

\* One call changes the tokens of one family only: a replay in one session
\* never logs out another one (a restart logs out all of them).
OnlyOneChanges ==
  \A f, g \in Families :
    LiveTokens(f)' # LiveTokens(f) /\ LiveTokens(g)' # LiveTokens(g) => f = g
SiblingsUntouched == [][Restart \/ OnlyOneChanges]_vars

\* Refinement: the usable token of a family is its live one.
TheToken(S) == IF S = {} THEN NoToken ELSE CHOOSE t \in Tokens : t \in S
LiveToken(f) == TheToken(LiveTokens(f))

TF == INSTANCE TokenFamilies WITH current <- [f \in Families |-> LiveToken(f)]

\* The store and the two grants implement TokenFamilies.
ImplementsTokenFamilies == TF!Spec
=============================================================================
