--------------------------- MODULE RollingWindow ---------------------------
(***************************************************************************)
(* What a rolling-window limit promises: an attempt is admitted exactly    *)
(* when fewer than Limit attempts were admitted in the Window before it,   *)
(* and a refusal leaves no trace but what the caller is told.  It promises *)
(* so for one process at a time.                                           *)
(***************************************************************************)
EXTENDS Naturals, Sequences, FiniteSets

CONSTANTS Limit, Window

VARIABLES
  now,
  log,     \* the times of the admissions, in order
  refused  \* what refused callers were told; it changes only in a refusal

InWindow == {i \in DOMAIN log : log[i] + Window > now}

Init == now = 0 /\ log = <<>>

Admit ==
  /\ Cardinality(InWindow) < Limit
  /\ log' = Append(log, now)
  /\ UNCHANGED <<now, refused>>

Refuse ==
  /\ Cardinality(InWindow) >= Limit
  /\ refused' # refused
  /\ UNCHANGED <<now, log>>

TimePasses == now' > now /\ UNCHANGED <<log, refused>>

\* A new process counts from nothing.
Forget == log' = <<>> /\ now' = now

Next == Admit \/ Refuse \/ TimePasses \/ Forget

Spec == Init /\ [][Next]_<<now, log, refused>>
=============================================================================
