---------------------------- MODULE RedirectUris ----------------------------
(***************************************************************************)
(* Redirect URIs as the authorization server takes them apart with         *)
(* urllib.parse.urlsplit: which ones a client may register (oauth/dcr.py)  *)
(* and when a presented one counts as a registered one                     *)
(* (oauth/authorize.py).  A URI is the record of its parts; two URIs are   *)
(* the same string when all their parts are equal.                         *)
(***************************************************************************)
LoopbackHosts == {"127.0.0.1", "localhost", "::1"}

IsLoopback(uri) == uri.host \in LoopbackHosts

\* The parts the loopback branch compares; the port is not among them, and
\* neither is the user part of the authority.
SameButPort(p, r) ==
  /\ p.scheme = r.scheme
  /\ p.host = r.host
  /\ p.path = r.path
  /\ p.query = r.query
  /\ p.fragment = r.fragment

RedirectUriMatches(presented, registered) ==
  \/ presented \in registered
  \/ /\ IsLoopback(presented)
     /\ \E r \in registered : IsLoopback(r) /\ SameButPort(presented, r)

IsSafeRedirectUri(uri) ==
  /\ uri.scheme \in {"http", "https"}
  /\ uri.fragment = ""
  /\ uri.userinfo = ""
  /\ uri.host # ""
  /\ uri.scheme = "https" \/ IsLoopback(uri)
=============================================================================
