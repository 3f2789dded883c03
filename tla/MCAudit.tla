------------------------------- MODULE MCAudit -------------------------------
(* Audit on instances TLC can explore.                                     *)
EXTENDS Audit

CONSTANTS h1, h2, a1, a2, cpu, ram, disk

mcHandlers == {h1, h2}
mcArrays == {a1, a2}
mcOne == {a1}
mcRequests == {[batch |-> TRUE, names |-> <<cpu, ram>>],
               [batch |-> TRUE, names |-> <<disk>>],
               [batch |-> FALSE, names |-> <<ram>>]}
mcTwo == {[batch |-> TRUE, names |-> <<cpu, ram>>], [batch |-> FALSE, names |-> <<disk>>]}
mcFile == {"file"}
mcBoth == {"file", "url"}
Symmetry == Permutations(mcHandlers) \cup Permutations(mcArrays)
=============================================================================
