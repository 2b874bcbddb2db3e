----------------------------- MODULE MCBiometrics -----------------------------
(* A small instance of Biometrics: one event and its photos. *)
EXTENDS Biometrics, TLC

CONSTANT race
OneEvent == [p \in Photos |-> race]
Swaps == Permutations(Consents) \cup Permutations(Searches) \cup Permutations(Erasures)
=============================================================================
