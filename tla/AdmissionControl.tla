-------------------------- MODULE AdmissionControl --------------------------
(***************************************************************************)
(* What the in-flight cap of server.py promises to the operator who sets   *)
(* COST_GUARD_MAX_IN_FLIGHT_QUERIES: a run_query_bounded call is either     *)
(* let in, when fewer than MaxInFlight calls are inside, or turned away,    *)
(* and only when the cap really is reached.  Cancellation is absent from    *)
(* this level on purpose: it may neither admit a call nor make one leave.   *)
(***************************************************************************)
EXTENDS Naturals, FiniteSets

CONSTANTS
  Calls,        \* identities of run_query_bounded calls
  MaxInFlight   \* _MAX_IN_FLIGHT_QUERIES

VARIABLES
  inside,       \* calls between acquire and release
  rejected      \* calls told that the cap is reached

vars == <<inside, rejected>>

Init == inside = {} /\ rejected = {}

Enter(c) ==
  /\ c \notin inside \cup rejected
  /\ Cardinality(inside) < MaxInFlight
  /\ inside' = inside \cup {c}
  /\ UNCHANGED rejected

Reject(c) ==
  /\ c \notin inside \cup rejected
  /\ Cardinality(inside) = MaxInFlight
  /\ rejected' = rejected \cup {c}
  /\ UNCHANGED inside

Leave(c) ==
  /\ c \in inside
  /\ inside' = inside \ {c}
  /\ UNCHANGED rejected

\* The host issues a new call under the identity of a rejected one.
Forget(c) ==
  /\ c \in rejected
  /\ rejected' = rejected \ {c}
  /\ UNCHANGED inside

\* The server process is killed and started again: nobody is inside.
Restart == inside' = {} /\ rejected' = {}

Next ==
  \/ \E c \in Calls : Enter(c) \/ Reject(c) \/ Leave(c) \/ Forget(c)
  \/ Restart

Spec == Init /\ [][Next]_vars

=============================================================================
