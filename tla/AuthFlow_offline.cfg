SPECIFICATION Spec
CONSTANTS
  Clients = {c1, c2}
  Users = {alice, bob}
  Verifiers = {v1, v2}
  Uris <- MCUris
  Words = {"ui", "v2"}
  UriLists <- MCUriLists
  Broker = FALSE
  SeededUsers = {alice}
  BrokerOwner = BrokerOwner
  RequestTTL = 1
  CodeTTL = 0
  ExchangeMax = 0
  MaxTime = 2
  MaxSerial = 4
SYMMETRY UserlessSymmetry
INVARIANTS
  OneExchangePerCode
  GrantFollowsRequest
  GrantToRegisteredUri
  CodeDelivered
  OwnerHadSession
