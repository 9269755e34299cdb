----------------------------- MODULE MCChatSync -----------------------------
(* The instance of ChatSync that TLC explores. *)
EXTENDS ChatSync, FiniteSets, TLC

CONSTANT MaxInFlight  \* how many requests, events and pages may be under way at once

InFlight ==
  Cardinality({m \in Messages : rows[m].state = "sending"}) + Cardinality(editing)
  + Cardinality(outbox) + Len(frames) + Cardinality(pending)
  + Cardinality({s \in Slots : load[s].pc # "idle"})

FewInFlight == InFlight <= MaxInFlight

Symmetry == Permutations(Slots)
=============================================================================
