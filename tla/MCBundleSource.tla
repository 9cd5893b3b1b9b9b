-------------------------- MODULE MCBundleSource --------------------------
(* Instances of BundleSource for TLC. *)
EXTENDS BundleSource, TLC

CONSTANTS app, v1, v2

Symmetry == Permutations(Tasks) \cup Permutations(Cells)

(* The application ships version v1 of its bundle, or nothing. *)
ShippedFirst == app :> v1
ShippedNothing == app :> None

(* A process whose remote directory has a version at the start. *)
InitInstalled == Init /\ \A b \in Bundles : HasEntry(saved, b)
SpecInstalled == InitInstalled /\ [][Next]_vars /\ Fairness
=============================================================================
