---------------------------- MODULE MCDirectPath ----------------------------
(* Small instances of DirectPath for TLC. *)
EXTENDS DirectPath

\* Equal and unequal shares, one side only, and nothing known.
MCBandwidths == {<<1, 1>>, <<3, 1>>, <<1, 3>>, <<2, 1>>, <<1, 0>>, <<0, 1>>, <<0, 0>>}
=============================================================================
