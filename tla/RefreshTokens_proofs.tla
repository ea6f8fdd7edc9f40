------------------------ MODULE RefreshTokens_proofs ------------------------
(***************************************************************************)
(* Proofs about RefreshTokens, for any number of tokens, families, users,  *)
(* clients and scopes and any lifetime.                                   *)
(***************************************************************************)
EXTENDS RefreshTokens, TLAPS

\* Every live token is filed in the lineage of its family.
LiveInLineage ==
  \A t \in Tokens : Live(t) => t \in lineage[items[t].family_id]

\* A tombstone names the family its token belonged to, and the token is gone.
TombstonesFiled ==
  \A t \in Tokens :
    consumedFamilies[t] # NoFamily => t \in lineage[consumedFamilies[t]] /\ ~Live(t)

LineagesDisjoint ==
  \A f, g \in Families, t \in Tokens : t \in lineage[f] /\ t \in lineage[g] => f = g

USE TokenAssumption, FamilyAssumption, TTLAssumption, RecordAssumption

-----------------------------------------------------------------------------
\* A minted record is a record of the store.
LEMMA MintedType ==
  ASSUME now \in Nat, NEW u \in Users, NEW c \in Clients, NEW sc \in ScopeParams,
         NEW f \in Families
  PROVE  /\ MintedRecord(u, c, sc, f) \in RefreshTokenRecord
         /\ MintedRecord(u, c, sc, f) # NoRecord
         /\ MintedRecord(u, c, sc, f).family_id = f
         /\ MintedRecord(u, c, sc, f).user_id = u
         /\ MintedRecord(u, c, sc, f).client_id = c
         /\ MintedRecord(u, c, sc, f).scope = sc
  BY DEF MintedRecord, RefreshTokenRecord

\* The fields of a stored record have their types.
LEMMA RecordFields ==
  ASSUME NEW r \in RefreshTokenRecord
  PROVE  /\ r.client_id \in Clients
         /\ r.user_id \in Users
         /\ r.scope \in ScopeParams
         /\ r.expires_at \in Nat
         /\ r.family_id \in Families
  BY DEF RefreshTokenRecord

\* A live token holds a record.
LEMMA LiveRecord ==
  ASSUME TypeOK, NEW t \in Tokens, Live(t)
  PROVE  /\ items[t] \in RefreshTokenRecord
         /\ items[t].family_id \in Families
  BY RecordFields DEF TypeOK, Live

LEMMA TypeStep == TypeOK /\ [Next]_vars => TypeOK'
<1> SUFFICES ASSUME TypeOK, [Next]_vars PROVE TypeOK'
  OBVIOUS
<1>1. ASSUME NEW t \in Tokens, NEW f \in Families, NEW u \in Users, NEW c \in Clients,
             NEW sc \in ScopeParams, Grant(t, f, u, c, sc)
      PROVE  TypeOK'
  BY <1>1, MintedType DEF Grant, TypeOK, Answer
<1>2. ASSUME NEW t \in Tokens, ReplayConsumed(t) PROVE TypeOK'
  BY <1>2 DEF ReplayConsumed, Revoke, TypeOK, Answer
<1>3. ASSUME NEW t \in Tokens, RefuseUnknown(t) PROVE TypeOK'
  BY <1>3 DEF RefuseUnknown, TypeOK, Answer
<1>4. ASSUME NEW t \in Tokens, RefuseExpired(t) PROVE TypeOK'
  BY <1>4, LiveRecord DEF RefuseExpired, Pop, Discard, TypeOK, Answer
<1>5. ASSUME NEW t \in Tokens, NEW u \in Tokens, Rotate(t, u) PROVE TypeOK'
  <2>1. /\ items[t] \in RefreshTokenRecord
        /\ items[t].family_id \in Families
    BY <1>5, LiveRecord DEF Rotate
  <2>2. MintedRecord(items[t].user_id, items[t].client_id, items[t].scope,
                   items[t].family_id)
           \in RefreshTokenRecord
    BY <2>1, RecordFields, MintedType DEF TypeOK
  <2>3. items' \in [Tokens -> RefreshTokenRecord \union {NoRecord}]
    BY <1>5, <2>2 DEF Rotate, Pop, TypeOK
  <2>4. familyMembers' \in [Families -> SUBSET Tokens]
    BY <1>5, <2>1 DEF Rotate, Discard, TypeOK
  <2>5. consumedFamilies' \in [Tokens -> Families \union {NoFamily}]
    BY <1>5, <2>1 DEF Rotate, Tombstone, TypeOK
  <2>6. lineage' \in [Families -> SUBSET Tokens]
    BY <1>5, <2>1 DEF Rotate, TypeOK
  <2>7. QED
    BY <1>5, <2>3, <2>4, <2>5, <2>6 DEF Rotate, TypeOK, Answer
<1>6. CASE Tick
  BY <1>6 DEF Tick, TypeOK
<1>7. CASE Restart
  BY <1>7 DEF Restart, TypeOK, Answer
<1>8. CASE UNCHANGED vars
  BY <1>8 DEF vars, TypeOK
<1>9. QED
  BY <1>1, <1>2, <1>3, <1>4, <1>5, <1>6, <1>7, <1>8 DEF Next

\* The store's dictionaries and the history keep their types.
THEOREM TypeCorrect == Spec => []TypeOK
<1>1. Init => TypeOK
  BY DEF Init, TypeOK, Answer
<1>2. QED
  BY <1>1, TypeStep, PTL DEF Spec

-----------------------------------------------------------------------------
(***************************************************************************)
(* The invariant.  The two indexes must agree for a revocation to reach    *)
(* every live token; the lineages must be disjoint for it to reach no      *)
(* other; and every predecessor of a live token must be tombstoned for a   *)
(* refusal of a token the store does not know to mean a dead family.       *)
(***************************************************************************)
StoreInv ==
  /\ IndexAgrees
  /\ OneLivePerFamily
  /\ PredecessorsTombstoned
  /\ RefusalEndsFamily
  /\ LiveInLineage
  /\ TombstonesFiled
  /\ LineagesDisjoint

LEMMA GrantStep ==
  ASSUME TypeOK, StoreInv, NEW t \in Tokens, NEW f \in Families,
         NEW u \in Users, NEW c \in Clients, NEW sc \in ScopeParams,
         Grant(t, f, u, c, sc)
  PROVE  StoreInv'
<1> DEFINE r == MintedRecord(u, c, sc, f)
<1>1. /\ items' = [items EXCEPT ![t] = r]
      /\ familyMembers' = [familyMembers EXCEPT ![f] = @ \union {t}]
      /\ lineage' = [lineage EXCEPT ![f] = @ \union {t}]
      /\ consumedFamilies' = consumedFamilies
      /\ reply'.status # "refused"
      /\ \A g \in Families : t \notin lineage[g]
      /\ lineage[f] = {}
  BY DEF Grant, FreshToken, FreshFamily, Answer
<1>2. r # NoRecord /\ r.family_id = f
  BY MintedType DEF TypeOK
<1>3. ~Live(t)
  BY <1>1, LiveRecord DEF StoreInv, LiveInLineage
<1>4. \A s \in Tokens : Live(s) => items[s].family_id # f /\ items[s].family_id \in Families
  BY <1>1, LiveRecord DEF StoreInv, LiveInLineage
<1> HIDE DEF r
<1>5. /\ items'[t] = r
      /\ \A s \in Tokens : s # t => items'[s] = items[s]
      /\ lineage'[f] = {t}
      /\ \A g \in Families : g # f => lineage'[g] = lineage[g]
  BY <1>1 DEF TypeOK
<1>6. IndexAgrees'
  BY <1>1, <1>2, <1>3, <1>4, <1>5 DEF StoreInv, IndexAgrees, LiveTokens, Live, TypeOK
<1>7. OneLivePerFamily'
  BY <1>2, <1>4, <1>5 DEF StoreInv, OneLivePerFamily, Live
<1>8. PredecessorsTombstoned'
  BY <1>1, <1>2, <1>4, <1>5 DEF StoreInv, PredecessorsTombstoned, LiveTokens, Live
<1>9. RefusalEndsFamily'
  BY <1>1 DEF RefusalEndsFamily
<1>10. LiveInLineage'
  BY <1>2, <1>4, <1>5 DEF StoreInv, LiveInLineage, Live
<1>11. TombstonesFiled'
  BY <1>1, <1>3, <1>5 DEF StoreInv, TombstonesFiled, Live, TypeOK
<1>12. LineagesDisjoint'
  BY <1>1, <1>5 DEF StoreInv, LineagesDisjoint
<1>13. QED
  BY <1>6, <1>7, <1>8, <1>9, <1>10, <1>11, <1>12 DEF StoreInv

LEMMA ReplayStep ==
  ASSUME TypeOK, StoreInv, NEW t \in Tokens, ReplayConsumed(t)
  PROVE  StoreInv'
<1> DEFINE f == consumedFamilies[t]
<1>1. /\ f \in Families
      /\ t \in lineage[f]
      /\ consumedFamilies' = consumedFamilies
      /\ lineage' = lineage
      /\ reply' = [status |-> "refused", token |-> t]
      /\ items' = [s \in Tokens |-> IF s \in familyMembers[f] THEN NoRecord ELSE items[s]]
      /\ familyMembers' = [familyMembers EXCEPT ![f] = {}]
  BY DEF ReplayConsumed, Revoke, Answer, StoreInv, TombstonesFiled, TypeOK
<1> HIDE DEF f
<1>2. \A s \in Tokens : /\ Live(s)' <=> Live(s) /\ items[s].family_id # f
                        /\ Live(s)' => items'[s] = items[s]
  BY <1>1 DEF StoreInv, IndexAgrees, LiveTokens, Live
<1>3. \A g \in Families : LiveTokens(g)' = IF g = f THEN {} ELSE LiveTokens(g)
  BY <1>1, <1>2 DEF LiveTokens
<1>4. IndexAgrees'
  BY <1>1, <1>3 DEF StoreInv, IndexAgrees, TypeOK
<1>5. OneLivePerFamily'
  BY <1>2 DEF StoreInv, OneLivePerFamily
<1>6. PredecessorsTombstoned'
  <2> SUFFICES ASSUME NEW g \in Families, NEW s \in Tokens,
                      LiveTokens(g)' # {}, s \in lineage[g], ~Live(s)'
               PROVE  consumedFamilies[s] = g
    BY <1>1 DEF PredecessorsTombstoned
  <2>1. g # f /\ LiveTokens(g) # {}
    BY <1>3
  <2>2. CASE ~Live(s)
    BY <2>1, <2>2 DEF StoreInv, PredecessorsTombstoned
  <2>3. CASE Live(s)
    BY <1>1, <1>2, <2>1, <2>3, LiveRecord DEF StoreInv, LiveInLineage, LineagesDisjoint
  <2>4. QED
    BY <2>2, <2>3
<1>7. RefusalEndsFamily'
  BY <1>1, <1>3 DEF RefusalEndsFamily, StoreInv, LineagesDisjoint
<1>8. LiveInLineage'
  BY <1>1, <1>2 DEF StoreInv, LiveInLineage
<1>9. TombstonesFiled'
  BY <1>1, <1>2 DEF StoreInv, TombstonesFiled
<1>10. LineagesDisjoint'
  BY <1>1 DEF StoreInv, LineagesDisjoint
<1>11. QED
  BY <1>4, <1>5, <1>6, <1>7, <1>8, <1>9, <1>10 DEF StoreInv

LEMMA UnknownStep ==
  ASSUME TypeOK, StoreInv, NEW t \in Tokens, RefuseUnknown(t)
  PROVE  StoreInv'
<1>1. /\ consumedFamilies[t] = NoFamily
      /\ ~Live(t)
      /\ reply' = [status |-> "refused", token |-> t]
      /\ UNCHANGED <<items, consumedFamilies, familyMembers, lineage>>
  BY DEF RefuseUnknown, Answer
<1>2. \A f \in Families : LiveTokens(f)' = LiveTokens(f)
  BY <1>1 DEF LiveTokens, Live
<1>3. \A f \in Families : t \in lineage[f] => LiveTokens(f) = {}
  BY <1>1 DEF StoreInv, PredecessorsTombstoned
<1>4. RefusalEndsFamily'
  BY <1>1, <1>2, <1>3 DEF RefusalEndsFamily
<1>5. IndexAgrees' /\ PredecessorsTombstoned'
  BY <1>1, <1>2 DEF StoreInv, IndexAgrees, PredecessorsTombstoned, Live
<1>6. OneLivePerFamily' /\ LiveInLineage' /\ TombstonesFiled' /\ LineagesDisjoint'
  BY <1>1 DEF StoreInv, OneLivePerFamily, LiveInLineage, TombstonesFiled,
              LineagesDisjoint, Live
<1>7. QED
  BY <1>4, <1>5, <1>6 DEF StoreInv

LEMMA ExpiredStep ==
  ASSUME TypeOK, StoreInv, NEW t \in Tokens, RefuseExpired(t)
  PROVE  StoreInv'
<1> DEFINE f == items[t].family_id
<1>1. /\ f \in Families
      /\ consumedFamilies[t] = NoFamily
      /\ Live(t)
      /\ t \in lineage[f]
      /\ items' = [items EXCEPT ![t] = NoRecord]
      /\ familyMembers' = [familyMembers EXCEPT ![f] = @ \ {t}]
      /\ reply' = [status |-> "refused", token |-> t]
      /\ UNCHANGED <<consumedFamilies, lineage>>
  BY LiveRecord DEF RefuseExpired, Pop, Discard, Answer, StoreInv, LiveInLineage
<1>2. \A s \in Tokens : /\ Live(s)' <=> Live(s) /\ s # t
                        /\ Live(s)' => items'[s] = items[s]
  BY <1>1 DEF Live, TypeOK
<1>3. \A g \in Families : LiveTokens(g)' = IF g = f THEN {} ELSE LiveTokens(g)
  BY <1>1, <1>2 DEF LiveTokens, StoreInv, OneLivePerFamily
<1>4. LiveTokens(f) = {t}
  BY <1>1 DEF LiveTokens, StoreInv, OneLivePerFamily
<1> HIDE DEF f
<1>5. IndexAgrees'
  BY <1>1, <1>3, <1>4 DEF StoreInv, IndexAgrees, TypeOK
<1>6. OneLivePerFamily'
  BY <1>2 DEF StoreInv, OneLivePerFamily
<1>7. PredecessorsTombstoned'
  <2> SUFFICES ASSUME NEW g \in Families, NEW s \in Tokens,
                      LiveTokens(g)' # {}, s \in lineage[g], ~Live(s)'
               PROVE  consumedFamilies[s] = g
    BY <1>1 DEF PredecessorsTombstoned
  <2>1. g # f /\ LiveTokens(g) # {}
    BY <1>3
  <2>2. s # t
    BY <1>1, <2>1 DEF StoreInv, LineagesDisjoint
  <2>3. QED
    BY <1>2, <2>1, <2>2 DEF StoreInv, PredecessorsTombstoned
<1>8. RefusalEndsFamily'
  BY <1>1, <1>3 DEF RefusalEndsFamily, StoreInv, LineagesDisjoint
<1>9. LiveInLineage' /\ TombstonesFiled'
  BY <1>1, <1>2 DEF StoreInv, LiveInLineage, TombstonesFiled
<1>10. LineagesDisjoint'
  BY <1>1 DEF StoreInv, LineagesDisjoint
<1>11. QED
  BY <1>5, <1>6, <1>7, <1>8, <1>9, <1>10 DEF StoreInv

LEMMA RotateStep ==
  ASSUME TypeOK, StoreInv, NEW t \in Tokens, NEW u \in Tokens, Rotate(t, u)
  PROVE  StoreInv'
<1> DEFINE f == items[t].family_id
           r == MintedRecord(items[t].user_id, items[t].client_id, items[t].scope, f)
<1>1. /\ Live(t)
      /\ f \in Families
      /\ r # NoRecord
      /\ r.family_id = f
      /\ t \in lineage[f]
      /\ \A g \in Families : u \notin lineage[g]
  BY LiveRecord, RecordFields, MintedType
     DEF Rotate, FreshToken, StoreInv, LiveInLineage, TypeOK
<1>2. /\ items' = [[items EXCEPT ![t] = NoRecord] EXCEPT ![u] = r]
      /\ consumedFamilies' = [consumedFamilies EXCEPT ![t] = f]
      /\ familyMembers' =
           [[familyMembers EXCEPT ![f] = @ \ {t}] EXCEPT ![f] = @ \union {u}]
      /\ lineage' = [lineage EXCEPT ![f] = @ \union {u}]
      /\ reply' = [status |-> "granted", token |-> u]
  BY DEF Rotate, Pop, Tombstone, Discard, Answer
<1>3. u # t /\ ~Live(u)
  BY <1>1, LiveRecord DEF StoreInv, LiveInLineage
<1>4. LiveTokens(f) = {t}
  BY <1>1 DEF LiveTokens, StoreInv, OneLivePerFamily
<1> HIDE DEF f, r
<1>5. /\ items'[u] = r
      /\ items'[t] = NoRecord
      /\ \A s \in Tokens : s # t /\ s # u => items'[s] = items[s]
      /\ lineage'[f] = lineage[f] \union {u}
      /\ \A g \in Families : g # f => lineage'[g] = lineage[g]
      /\ consumedFamilies'[t] = f
      /\ \A s \in Tokens : s # t => consumedFamilies'[s] = consumedFamilies[s]
  BY <1>1, <1>2, <1>3 DEF TypeOK
<1>6. \A s \in Tokens : Live(s)' <=> s = u \/ (Live(s) /\ s # t)
  BY <1>1, <1>3, <1>5 DEF Live
<1>7. \A g \in Families : LiveTokens(g)' = IF g = f THEN {u} ELSE LiveTokens(g)
  <2>1. ASSUME NEW g \in Families, g = f PROVE LiveTokens(g)' = {u}
    BY <1>1, <1>4, <1>5, <1>6, <2>1 DEF LiveTokens
  <2>2. ASSUME NEW g \in Families, g # f PROVE LiveTokens(g)' = LiveTokens(g)
    BY <1>1, <1>3, <1>4, <1>5, <1>6, <2>2 DEF LiveTokens
  <2>3. QED
    BY <2>1, <2>2
<1>8. IndexAgrees'
  BY <1>1, <1>2, <1>4, <1>7 DEF StoreInv, IndexAgrees, TypeOK
<1>9. OneLivePerFamily'
  <2>1. \A s \in Tokens : Live(s) /\ s # t => items[s].family_id # f
    BY <1>1, <1>4 DEF LiveTokens
  <2>2. QED
    BY <1>1, <1>5, <1>6, <2>1 DEF StoreInv, OneLivePerFamily
<1>10. PredecessorsTombstoned'
  <2> SUFFICES ASSUME NEW g \in Families, NEW s \in Tokens,
                      LiveTokens(g)' # {}, s \in lineage'[g], ~Live(s)'
               PROVE  consumedFamilies'[s] = g
    BY DEF PredecessorsTombstoned
  <2>1. LiveTokens(g) # {} /\ s # u /\ s \in lineage[g]
    BY <1>4, <1>5, <1>6, <1>7
  <2>2. CASE s = t
    BY <1>1, <1>5, <2>1, <2>2 DEF StoreInv, LineagesDisjoint
  <2>3. CASE s # t
    BY <1>5, <1>6, <2>1, <2>3 DEF StoreInv, PredecessorsTombstoned
  <2>4. QED
    BY <2>2, <2>3
<1>11. RefusalEndsFamily'
  BY <1>2 DEF RefusalEndsFamily
<1>12. LiveInLineage'
  <2> SUFFICES ASSUME NEW s \in Tokens, Live(s)'
               PROVE  s \in lineage'[items'[s].family_id]
    BY DEF LiveInLineage
  <2>1. CASE s = u
    BY <1>1, <1>5, <2>1
  <2>2. CASE s # u
    BY <1>5, <1>6, <2>2, LiveRecord DEF StoreInv, LiveInLineage
  <2>3. QED
    BY <2>1, <2>2
<1>13. TombstonesFiled'
  <2> SUFFICES ASSUME NEW s \in Tokens, consumedFamilies'[s] # NoFamily
               PROVE  s \in lineage'[consumedFamilies'[s]] /\ ~Live(s)'
    BY DEF TombstonesFiled
  <2>1. CASE s = t
    BY <1>1, <1>3, <1>5, <1>6, <2>1
  <2>2. CASE s # t
    <3>1. /\ consumedFamilies[s] \in Families
          /\ s \in lineage[consumedFamilies[s]]
          /\ ~Live(s)
      BY <1>5, <2>2 DEF StoreInv, TombstonesFiled, TypeOK
    <3>2. QED
      BY <1>1, <1>5, <1>6, <2>2, <3>1
  <2>3. QED
    BY <2>1, <2>2
<1>14. LineagesDisjoint'
  BY <1>1, <1>5 DEF StoreInv, LineagesDisjoint
<1>15. QED
  BY <1>8, <1>9, <1>10, <1>11, <1>12, <1>13, <1>14 DEF StoreInv

LEMMA RestartStep == TypeOK /\ StoreInv /\ Restart => StoreInv'
<1> SUFFICES ASSUME TypeOK, StoreInv, Restart PROVE StoreInv'
  OBVIOUS
<1>1. /\ \A t \in Tokens : ~Live(t)' /\ consumedFamilies'[t] = NoFamily
      /\ \A f \in Families : familyMembers'[f] = {}
      /\ reply'.status = "none"
      /\ lineage' = lineage
  BY DEF Restart, Live, Answer
<1>2. \A f \in Families : LiveTokens(f)' = {}
  BY <1>1 DEF LiveTokens
<1>3. QED
  BY <1>1, <1>2 DEF StoreInv, IndexAgrees, OneLivePerFamily, PredecessorsTombstoned,
       RefusalEndsFamily, LiveInLineage, TombstonesFiled, LineagesDisjoint

LEMMA StutterStep ==
  ASSUME StoreInv, UNCHANGED <<items, consumedFamilies, familyMembers, reply, lineage>>
  PROVE  StoreInv'
  BY DEF StoreInv, IndexAgrees, OneLivePerFamily, PredecessorsTombstoned,
       RefusalEndsFamily, LiveInLineage, TombstonesFiled, LineagesDisjoint, Live, LiveTokens

LEMMA StoreStep == TypeOK /\ StoreInv /\ [Next]_vars => StoreInv'
<1> SUFFICES ASSUME TypeOK, StoreInv, [Next]_vars PROVE StoreInv'
  OBVIOUS
<1>1. CASE Tick
  BY <1>1, StutterStep DEF Tick
<1>2. CASE UNCHANGED vars
  BY <1>2, StutterStep DEF vars
<1>3. QED
  BY <1>1, <1>2, GrantStep, ReplayStep, UnknownStep, ExpiredStep, RotateStep, RestartStep
     DEF Next

THEOREM StoreInvariant == Spec => [](TypeOK /\ StoreInv)
<1>1. Init => StoreInv
  BY DEF Init, StoreInv, IndexAgrees, OneLivePerFamily, PredecessorsTombstoned,
       RefusalEndsFamily, LiveInLineage, TombstonesFiled, LineagesDisjoint,
       Live, LiveTokens, Answer
<1>2. QED
  BY <1>1, TypeCorrect, StoreStep, PTL DEF Spec

\* Revoking a family reaches exactly its live tokens.
THEOREM IndexAgreement == Spec => []IndexAgrees
  BY StoreInvariant, PTL DEF StoreInv

\* A rotation chain has at most one token that works.
THEOREM OneLiveToken == Spec => []OneLivePerFamily
  BY StoreInvariant, PTL DEF StoreInv

\* Every earlier token of a working family is recognised when replayed.
THEOREM ReuseIsDetected == Spec => []PredecessorsTombstoned
  BY StoreInvariant, PTL DEF StoreInv

\* After a refusal no token of the family works.
THEOREM RefusalIsFinal == Spec => []RefusalEndsFamily
  BY StoreInvariant, PTL DEF StoreInv

-----------------------------------------------------------------------------
(***************************************************************************)
(* What each call does to the live tokens of every family.                 *)
(***************************************************************************)
Refusal(t) == ReplayConsumed(t) \/ RefuseUnknown(t) \/ RefuseExpired(t)

LEMMA GrantEffect ==
  ASSUME TypeOK, StoreInv, NEW t \in Tokens, NEW f \in Families,
         NEW u \in Users, NEW c \in Clients, NEW sc \in ScopeParams,
         Grant(t, f, u, c, sc)
  PROVE  \A g \in Families : LiveTokens(g)' = IF g = f THEN {t} ELSE LiveTokens(g)
<1> DEFINE r == MintedRecord(u, c, sc, f)
<1>1. r # NoRecord /\ r.family_id = f
  BY MintedType DEF TypeOK
<1>2. items' = [items EXCEPT ![t] = r] /\ \A g \in Families : t \notin lineage[g]
  BY DEF Grant, FreshToken
<1>3. ~Live(t)
  BY <1>2, LiveRecord DEF StoreInv, LiveInLineage
<1>4. \A s \in Tokens : Live(s) => items[s].family_id # f
  BY LiveRecord DEF Grant, FreshFamily, StoreInv, LiveInLineage
<1> HIDE DEF r
<1>5. QED
  BY <1>1, <1>2, <1>3, <1>4 DEF LiveTokens, Live, TypeOK

LEMMA RefusalEffect ==
  ASSUME TypeOK, StoreInv, NEW t \in Tokens, Refusal(t)
  PROVE  /\ lineage' = lineage
         /\ reply' = Answer("refused", t)
         /\ \A g \in Families :
              LiveTokens(g)' = IF t \in lineage[g] THEN {} ELSE LiveTokens(g)
<1>1. CASE ReplayConsumed(t)
  <2>1. PICK f \in Families : f = consumedFamilies[t]
    BY <1>1 DEF ReplayConsumed, TypeOK
  <2>2. \A g \in Families : t \in lineage[g] <=> g = f
    BY <1>1, <2>1 DEF ReplayConsumed, StoreInv, TombstonesFiled, LineagesDisjoint
  <2>3. /\ lineage' = lineage
        /\ reply' = Answer("refused", t)
        /\ items' = [s \in Tokens |-> IF s \in LiveTokens(f) THEN NoRecord ELSE items[s]]
    BY <1>1, <2>1 DEF ReplayConsumed, Revoke, StoreInv, IndexAgrees
  <2>4. QED
    BY <2>2, <2>3 DEF LiveTokens, Live
<1>2. CASE RefuseUnknown(t)
  <2>1. \A g \in Families : t \in lineage[g] => LiveTokens(g) = {}
    BY <1>2 DEF RefuseUnknown, StoreInv, PredecessorsTombstoned
  <2>2. QED
    BY <1>2, <2>1 DEF RefuseUnknown, LiveTokens, Live
<1>3. CASE RefuseExpired(t)
  <2>1. PICK f \in Families : f = items[t].family_id
    BY <1>3, LiveRecord DEF RefuseExpired
  <2>2. \A g \in Families : t \in lineage[g] <=> g = f
    BY <1>3, <2>1 DEF RefuseExpired, StoreInv, LiveInLineage, LineagesDisjoint
  <2>3. LiveTokens(f) = {t}
    BY <1>3, <2>1 DEF RefuseExpired, StoreInv, OneLivePerFamily, LiveTokens
  <2>4. /\ lineage' = lineage
        /\ reply' = Answer("refused", t)
        /\ items' = [items EXCEPT ![t] = NoRecord]
    BY <1>3 DEF RefuseExpired, Pop
  <2>5. \A g \in Families : LiveTokens(g)' = LiveTokens(g) \ {t}
    BY <2>4 DEF LiveTokens, Live, TypeOK
  <2>6. \A g \in Families : g # f => t \notin LiveTokens(g)
    BY <2>1 DEF LiveTokens
  <2>7. QED
    BY <2>2, <2>3, <2>4, <2>5, <2>6
<1>4. QED
  BY <1>1, <1>2, <1>3 DEF Refusal

LEMMA RotateEffect ==
  ASSUME TypeOK, StoreInv, NEW t \in Tokens, NEW u \in Tokens, Rotate(t, u)
  PROVE  \E f \in Families :
           /\ LiveTokens(f) = {t}
           /\ lineage' = [lineage EXCEPT ![f] = @ \union {u}]
           /\ items'[u].user_id = items[t].user_id
           /\ items'[u].client_id = items[t].client_id
           /\ items'[u].scope = items[t].scope
           /\ \A g \in Families : LiveTokens(g)' = IF g = f THEN {u} ELSE LiveTokens(g)
<1>1. PICK f \in Families : f = items[t].family_id
  BY LiveRecord DEF Rotate
<1> DEFINE r == MintedRecord(items[t].user_id, items[t].client_id, items[t].scope, f)
<1>2. /\ r # NoRecord
      /\ r.family_id = f
      /\ r.user_id = items[t].user_id
      /\ r.client_id = items[t].client_id
      /\ r.scope = items[t].scope
  BY LiveRecord, RecordFields, MintedType DEF Rotate, TypeOK
<1>3. /\ items' = [[items EXCEPT ![t] = NoRecord] EXCEPT ![u] = r]
      /\ lineage' = [lineage EXCEPT ![f] = @ \union {u}]
      /\ \A g \in Families : u \notin lineage[g]
      /\ Live(t)
  BY <1>1 DEF Rotate, Pop, FreshToken
<1>4. ~Live(u)
  BY <1>3, LiveRecord DEF StoreInv, LiveInLineage
<1>5. LiveTokens(f) = {t}
  BY <1>1, <1>3 DEF StoreInv, OneLivePerFamily, LiveTokens
<1> HIDE DEF r
<1>6. /\ items'[u] = r
      /\ items'[t] = NoRecord
      /\ \A s \in Tokens : s # t /\ s # u => items'[s] = items[s]
  BY <1>3, <1>4 DEF TypeOK
<1>7. LiveTokens(f)' = {u}
  BY <1>2, <1>5, <1>6 DEF LiveTokens, Live
<1>8. ASSUME NEW g \in Families, g # f PROVE LiveTokens(g)' = LiveTokens(g)
  BY <1>1, <1>2, <1>4, <1>6, <1>8 DEF LiveTokens, Live
<1>9. QED
  BY <1>2, <1>3, <1>5, <1>6, <1>7, <1>8

LEMMA RestartEffect ==
  ASSUME Restart PROVE \A g \in Families : LiveTokens(g)' = {}
  BY DEF Restart, LiveTokens, Live

\* A stored token tells the family it belongs to.
LEMMA LiveFamily ==
  ASSUME TypeOK, NEW t \in Tokens, Live(t)
  PROVE  items[t].family_id \in Families /\ t \in LiveTokens(items[t].family_id)
  BY LiveRecord DEF LiveTokens

-----------------------------------------------------------------------------
LEMMA StutterEffect ==
  ASSUME items' = items
  PROVE  \A g \in Families : LiveTokens(g)' = LiveTokens(g)
  BY DEF LiveTokens, Live

LEMMA NoRevivalStep ==
  TypeOK /\ StoreInv /\ [Next]_vars => [\A f \in Families : StaysDead(f)]_vars
<1> SUFFICES ASSUME TypeOK, StoreInv, Next, NEW f \in Families,
                    lineage[f] # {}, LiveTokens(f) = {}
             PROVE  LiveTokens(f)' = {}
  BY DEF StaysDead
<1>1. ASSUME NEW t \in Tokens, NEW g \in Families, NEW u \in Users, NEW c \in Clients,
             NEW sc \in ScopeParams, Grant(t, g, u, c, sc)
      PROVE  LiveTokens(f)' = {}
  BY <1>1, GrantEffect DEF Grant, FreshFamily
<1>2. ASSUME NEW t \in Tokens, Refusal(t) PROVE LiveTokens(f)' = {}
  BY <1>2, RefusalEffect
<1>3. ASSUME NEW t \in Tokens, NEW u \in Tokens, Rotate(t, u) PROVE LiveTokens(f)' = {}
  BY <1>3, RotateEffect
<1>4. CASE Tick
  BY <1>4, StutterEffect DEF Tick
<1>5. CASE Restart
  BY <1>5, RestartEffect
<1>6. QED
  BY <1>1, <1>2, <1>3, <1>4, <1>5 DEF Next, Refusal

\* A revoked or expired session never comes back.
THEOREM DeadFamiliesStayDead == Spec => NoRevival
  BY NoRevivalStep, StoreInvariant, PTL DEF Spec, NoRevival

LEMMA GranteeStep ==
  TypeOK /\ StoreInv /\ [Next]_vars => [\A t, u \in Tokens : SameGrantee(t, u)]_vars
<1> SUFFICES ASSUME TypeOK, StoreInv, TypeOK', Next, NEW s \in Tokens, NEW v \in Tokens,
                    Live(s), Live(v)', items[s].family_id = items'[v].family_id
             PROVE  /\ items[s].user_id = items'[v].user_id
                    /\ items[s].client_id = items'[v].client_id
                    /\ items[s].scope = items'[v].scope
  BY TypeStep DEF SameGrantee
<1>1. PICK f \in Families : f = items[s].family_id
  BY LiveFamily
<1>2. s \in LiveTokens(f)
  BY <1>1 DEF LiveTokens
<1>3. v \in LiveTokens(f)'
  BY <1>1 DEF LiveTokens
<1>4. CASE Live(v) /\ items'[v] = items[v]
  BY <1>4 DEF StoreInv, OneLivePerFamily
<1>5. ASSUME NEW t \in Tokens, NEW g \in Families, NEW u \in Users, NEW c \in Clients,
             NEW sc \in ScopeParams, Grant(t, g, u, c, sc)
      PROVE  Live(v) /\ items'[v] = items[v]
  <2>1. f # g
    BY <1>1, <1>5 DEF Grant, FreshFamily, StoreInv, LiveInLineage
  <2>2. ~Live(t)
    BY <1>5, LiveFamily DEF Grant, FreshToken, StoreInv, LiveInLineage
  <2>3. v # t
    BY <1>3, <1>5, <2>1, <2>2, GrantEffect DEF LiveTokens
  <2>4. QED
    BY <1>5, <2>3 DEF Grant, Live, TypeOK
<1>6. ASSUME NEW t \in Tokens, Refusal(t) PROVE Live(v) /\ items'[v] = items[v]
  BY <1>6 DEF Refusal, ReplayConsumed, Revoke, RefuseUnknown, RefuseExpired, Pop, Live, TypeOK
<1>7. ASSUME NEW t \in Tokens, NEW u \in Tokens, Rotate(t, u)
      PROVE  \/ Live(v) /\ items'[v] = items[v]
             \/ /\ items[s].user_id = items'[v].user_id
                /\ items[s].client_id = items'[v].client_id
                /\ items[s].scope = items'[v].scope
  <2>1. PICK g \in Families :
          /\ LiveTokens(g) = {t}
          /\ items'[u].user_id = items[t].user_id
          /\ items'[u].client_id = items[t].client_id
          /\ items'[u].scope = items[t].scope
          /\ \A h \in Families : LiveTokens(h)' = IF h = g THEN {u} ELSE LiveTokens(h)
    BY <1>7, RotateEffect
  <2>2. CASE f = g
    BY <1>2, <1>3, <2>1, <2>2
  <2>3. CASE f # g
    <3>1. v \in LiveTokens(f) /\ v # t
      BY <1>3, <2>1, <2>3 DEF LiveTokens
    <3>2. v # u
      BY <1>7, <3>1, LiveFamily DEF Rotate, FreshToken, StoreInv, LiveInLineage, LiveTokens
    <3>3. QED
      BY <1>7, <3>1, <3>2 DEF Rotate, Pop, Live, LiveTokens, TypeOK
  <2>4. QED
    BY <2>2, <2>3
<1>8. CASE Tick
  BY <1>4, <1>8 DEF Tick, Live
<1>9. ~Restart
  BY RestartEffect, <1>3
<1>10. QED
  BY <1>4, <1>5, <1>6, <1>7, <1>8, <1>9 DEF Next, Refusal

\* No rotation ever hands a session to another user, client or scope.
THEOREM GranteeNeverChanges == Spec => GranteeStable
  BY GranteeStep, StoreInvariant, PTL DEF Spec, GranteeStable

LEMMA SiblingStep ==
  TypeOK /\ StoreInv /\ [Next]_vars => [Restart \/ OnlyOneChanges]_vars
<1> SUFFICES ASSUME TypeOK, StoreInv, Next, ~Restart PROVE OnlyOneChanges
  OBVIOUS
<1>1. ASSUME NEW t \in Tokens, NEW g \in Families, NEW u \in Users, NEW c \in Clients,
             NEW sc \in ScopeParams, Grant(t, g, u, c, sc)
      PROVE  OnlyOneChanges
  BY <1>1, GrantEffect DEF OnlyOneChanges
<1>2. ASSUME NEW t \in Tokens, Refusal(t) PROVE OnlyOneChanges
  BY <1>2, RefusalEffect DEF OnlyOneChanges, StoreInv, LineagesDisjoint
<1>3. ASSUME NEW t \in Tokens, NEW u \in Tokens, Rotate(t, u) PROVE OnlyOneChanges
  BY <1>3, RotateEffect DEF OnlyOneChanges
<1>4. CASE Tick
  BY <1>4, StutterEffect DEF Tick, OnlyOneChanges
<1>5. QED
  BY <1>1, <1>2, <1>3, <1>4 DEF Next, Refusal

\* A call ends or changes at most one session.
THEOREM OneSessionPerCall == Spec => SiblingsUntouched
  BY SiblingStep, StoreInvariant, PTL DEF Spec, SiblingsUntouched

-----------------------------------------------------------------------------
(***************************************************************************)
(* The store implements TokenFamilies.                                     *)
(***************************************************************************)
LEMMA TheTokenValue ==
  /\ TheToken({}) = NoToken
  /\ \A t \in Tokens : TheToken({t}) = t
  BY DEF TheToken

LEMMA RefinementStep ==
  TypeOK /\ StoreInv /\ [Next]_vars => [TF!Next]_(TF!tfVars)
<1> DEFINE cur == [f \in Families |-> LiveToken(f)]
<1> SUFFICES ASSUME TypeOK, StoreInv, [Next]_vars PROVE [TF!Next]_(TF!tfVars)
  OBVIOUS
<1>a. \A f \in Families : LiveToken(f) = TheToken(LiveTokens(f))
  BY DEF LiveToken
<1>b. cur' = [f \in Families |-> TheToken(LiveTokens(f)')]
  BY DEF LiveToken, TheToken
<1>1. ASSUME NEW t \in Tokens, NEW g \in Families, NEW u \in Users, NEW c \in Clients,
             NEW sc \in ScopeParams, Grant(t, g, u, c, sc)
      PROVE  TF!Open(g, t)
  <2>1. \A f \in Families : LiveTokens(f)' = IF f = g THEN {t} ELSE LiveTokens(f)
    BY <1>1, GrantEffect
  <2>2. cur' = [cur EXCEPT ![g] = t]
    BY <1>a, <1>b, <2>1, TheTokenValue
  <2>3. /\ lineage[g] = {}
        /\ \A f \in Families : t \notin lineage[f]
        /\ lineage' = [lineage EXCEPT ![g] = {t}]
        /\ reply' = [status |-> "granted", token |-> t]
    BY <1>1 DEF Grant, FreshFamily, FreshToken, Answer, TypeOK
  <2>4. QED
    BY <2>2, <2>3 DEF TF!Open, TF!Fresh, TF!Answer
<1>2. ASSUME NEW t \in Tokens, Refusal(t) PROVE TF!Refuse(t)
  <2>1. /\ lineage' = lineage
        /\ reply' = [status |-> "refused", token |-> t]
        /\ \A f \in Families :
             LiveTokens(f)' = IF t \in lineage[f] THEN {} ELSE LiveTokens(f)
    BY <1>2, RefusalEffect DEF Answer
  <2>2. cur' = [f \in Families |-> IF t \in lineage[f] THEN NoToken ELSE cur[f]]
    BY <1>a, <1>b, <2>1, TheTokenValue
  <2>3. QED
    BY <2>1, <2>2 DEF TF!Refuse, TF!Answer
<1>3. ASSUME NEW t \in Tokens, NEW u \in Tokens, Rotate(t, u)
      PROVE  \E f \in Families : TF!Renew(f, u)
  <2>1. PICK g \in Families :
          /\ LiveTokens(g) = {t}
          /\ lineage' = [lineage EXCEPT ![g] = @ \union {u}]
          /\ \A h \in Families : LiveTokens(h)' = IF h = g THEN {u} ELSE LiveTokens(h)
    BY <1>3, RotateEffect
  <2>2. cur[g] = t /\ t # NoToken
    BY <1>a, <2>1, TheTokenValue
  <2>3. cur' = [cur EXCEPT ![g] = u]
    BY <1>a, <1>b, <2>1, TheTokenValue
  <2>4. reply' = [status |-> "granted", token |-> u] /\ \A f \in Families : u \notin lineage[f]
    BY <1>3 DEF Rotate, Answer, FreshToken
  <2>5. QED
    BY <2>1, <2>2, <2>3, <2>4 DEF TF!Renew, TF!Fresh, TF!Answer
<1>4. ASSUME Restart PROVE TF!Forget
  <2>1. cur' = [f \in Families |-> NoToken]
    BY <1>4, <1>b, RestartEffect, TheTokenValue
  <2>2. reply' = [status |-> "none", token |-> NoToken] /\ lineage' = lineage
    BY <1>4 DEF Restart, Answer
  <2>3. QED
    BY <2>1, <2>2 DEF TF!Forget, TF!Answer
<1>5. ASSUME UNCHANGED <<items, lineage, reply>> PROVE UNCHANGED TF!tfVars
  <2>1. cur' = cur
    BY <1>5, <1>a, <1>b, StutterEffect
  <2>2. QED
    BY <1>5, <2>1 DEF TF!tfVars
<1>6. CASE Tick
  BY <1>5, <1>6 DEF Tick
<1>7. CASE UNCHANGED vars
  BY <1>5, <1>7 DEF vars
<1>8. QED
  BY <1>1, <1>2, <1>3, <1>4, <1>6, <1>7 DEF Next, Refusal, TF!Next

\* The two indexes and the tombstones together behave as one current token
\* per family.
THEOREM Refinement == Spec => ImplementsTokenFamilies
<1>1. Init => TF!Init
  BY DEF Init, TF!Init, LiveToken, TheToken, LiveTokens, Live, Answer, TF!Answer
<1>2. QED
  BY <1>1, RefinementStep, StoreInvariant, PTL DEF Spec, TF!Spec, ImplementsTokenFamilies
=============================================================================
