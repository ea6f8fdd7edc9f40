SPECIFICATION Spec
CONSTANTS
  Tokens = {t1, t2, t3, t4, t5}
  Families = {f1, f2}
  Users = {alice, bob}
  Clients = {c1}
  ScopeParams = {openid}
  NoToken = NoToken
  NoRecord = NoRecord
  NoFamily = NoFamily
  RefreshTTL = 2
  MaxTime = 4
SYMMETRY Symmetry
INVARIANTS
  TypeOK
  IndexAgrees
  OneLivePerFamily
  PredecessorsTombstoned
PROPERTIES
  NoRevival
  ImplementsTokenFamilies
