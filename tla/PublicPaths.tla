---------------------------- MODULE PublicPaths ----------------------------
(***************************************************************************)
(* Which request paths the bearer gate lets through without a token        *)
(* (oauth/metadata.py).  A path is the sequence of its segments, what      *)
(* path.split("/") yields after the leading slash.                         *)
(***************************************************************************)
EXTENDS SequencesExt, Lists

CONSTANT LowerCase      \* str.lower on the segments in use, a function

Ignored == {"", "."}      \* segments that name no directory

\* _normalize_path: empty and "." segments go, the rest is lower-cased.
NormalizePath(path) ==
  Mapped(LowerCase, Selected(path, {n \in DOMAIN path : path[n] \notin Ignored}))

Denied_Never(path) == FALSE                \* mutant: ".." segments are let in
Denied(path) == Contains(path, "..")       \* _DENY_SENTINEL

IsPublicPath(path) ==
  LET norm == NormalizePath(path) IN
  /\ ~Denied(path)
  /\ \/ norm = <<"health">>
     \/ Len(norm) > 1 /\ norm[1] \in {".well-known", "oauth", "_mock_idp"}

(***************************************************************************)
(* What a router that resolves dot segments (RFC 3986, 5.2.4) and ignores  *)
(* case would make of a path: the reading the gate must not fall short of, *)
(* whatever the routers around it do.                                      *)
(***************************************************************************)
AfterSegment(done, s) ==
  CASE s \in Ignored -> done
    [] s = ".." -> IF done = <<>> THEN <<>> ELSE Front(done)
    [] OTHER -> Append(done, LowerCase[s])

\* What is left of the path after its first n segments, for every n.
Resolving(path) ==
  LET done[n \in 0..Len(path)] ==
        IF n = 0 THEN <<>> ELSE AfterSegment(done[n - 1], path[n])
  IN done

Resolved(path) == Resolving(path)[Len(path)]
=============================================================================
