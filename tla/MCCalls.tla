------------------------------ MODULE MCCalls ------------------------------
(* The instance of Calls that TLC explores. *)
EXTENDS Calls, FiniteSets, Functions, TLC

CONSTANT MaxInFlight  \* how many frames and continuations may be under way at once

SumOver(f) == FoldFunction(+, 0, f)

InFlight ==
  SumOver([u \in Clients |-> Len(uplink[u]) + Len(inbox[u])
                             + (IF relaying[u] = None THEN 0 ELSE 1)])
  + Cardinality({m \in Prompts : Running(m)})

FewInFlight == InFlight <= MaxInFlight

Symmetry == Permutations(Clients) \cup Permutations(Prompts)
=============================================================================
