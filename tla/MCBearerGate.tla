---------------------------- MODULE MCBearerGate ----------------------------
\* Spellings of the transport's path, and of paths on the allow-list.
EXTENDS BearerGate

MCPaths ==
  {<<"mcp">>, <<"health">>, <<"MCP", "">>, <<"oauth", ".", "..", "MCP">>,
   <<"", "OAuth", "token">>, <<"mcp", "..", "health">>, <<"oauth">>}

Segments == {"", ".", "..", "mcp", "MCP", "health", "oauth", "OAuth", "token"}
MCLowerCase ==
  [s \in Segments |-> CASE s = "MCP" -> "mcp" [] s = "OAuth" -> "oauth" [] OTHER -> s]

\* A key with all its metadata, and one with none but its type.
MCJwks ==
  [k1 |-> [kty |-> "RSA", use |-> "sig", alg |-> "RS256"],
   k2 |-> [kty |-> "RSA", use |-> Absent, alg |-> Absent]]

Symmetry == Permutations(Users)
=============================================================================
