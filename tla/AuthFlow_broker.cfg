SPECIFICATION Spec
CONSTANTS
  Clients = {c1, c2}
  Users = {alice, bob}
  Verifiers = {v1}
  Uris <- OneUri
  Words = {}
  UriLists <- OneUriList
  Broker = TRUE
  SeededUsers = {}
  BrokerOwner = BrokerOwner
  RequestTTL = 1
  CodeTTL = 1
  ExchangeMax = 1
  MaxTime = 4
  MaxSerial = 4
SYMMETRY Symmetry
INVARIANTS
  TypeOK
  OneCodePerRequest
  FlowEndsInTime
PROPERTIES
  ImplementsCodeGrants
