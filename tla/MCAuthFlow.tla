----------------------------- MODULE MCAuthFlow -----------------------------
\* A loopback URI on two ports, and a web URI that already has a query.
EXTENDS AuthFlow, TLC

Uri(scheme, host, port, query) ==
  [scheme |-> scheme, host |-> host, port |-> port, path |-> "/cb",
   query |-> query, fragment |-> "", userinfo |-> ""]

Version == [name |-> "ui", text |-> <<"v2">>, code |-> 0]      \* ui=v2

LoopbackOnePort == Uri("http", "127.0.0.1", "4001", <<>>)
LoopbackOtherPort == Uri("http", "127.0.0.1", "4002", <<>>)
WebWithQuery == Uri("https", "app.example", "", <<Version>>)

MCUris == {LoopbackOnePort, LoopbackOtherPort, WebWithQuery}

MCUriLists == {{LoopbackOnePort}, {WebWithQuery}}
OneUri == {LoopbackOnePort}
OneUriList == {OneUri}

Symmetry == Permutations(Clients) \union Permutations(Users) \union Permutations(Verifiers)
UserlessSymmetry == Permutations(Clients) \union Permutations(Verifiers)
=============================================================================
