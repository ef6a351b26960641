------------------------------ MODULE MCRelay ------------------------------
(* Small instances of Relay for TLC: the .cfg files give the constants.    *)
EXTENDS Relay, TLC

\* Receivers that are alike may be exchanged.
ReceiverSymmetry == Permutations(Receivers)
=============================================================================
