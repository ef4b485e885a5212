--------------------------- MODULE MCEventSystem ---------------------------
(* Small instances of EventSystem for TLC. *)
EXTENDS EventSystem, TLC

CONSTANTS a1, a2, c1, c2, v1, v2

OneApp  == {a1}
TwoApps == {a1, a2}
OneCallback  == {c1}
TwoCallbacks == {c1, c2}
OneVcpu  == {v1}
TwoVcpus == {v1, v2}

Symmetry == Permutations(Apps) \cup Permutations(Callbacks) \cup Permutations(Vcpus)
=============================================================================
