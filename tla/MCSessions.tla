----------------------------- MODULE MCSessions -----------------------------
(* The instance of Sessions that TLC explores. *)
EXTENDS Sessions, FiniteSets, TLC

CONSTANT MaxInFlight  \* how many requests may be between their first and last step at once

InFlight ==
  Cardinality({d \in Devices : login[d].pc = "read"}) + Cardinality(refreshing)
  + Cardinality({r \in Resets : reset[r].pc \in {"read", "revoking", "published"}})
  + Cardinality({d \in Devices : ending[d] # "none"})

FewRequestsAtOnce == InFlight <= MaxInFlight

\* Sockets and a second reset are explored in separate behaviours of the run.
SocketOrSecondReset ==
  \/ \A s \in Sockets : socket[s].pc = "idle"
  \/ Cardinality({r \in Resets : reset[r].pc # "idle"}) <= 1

Symmetry == Permutations(Devices) \cup Permutations(Resets)
=============================================================================
