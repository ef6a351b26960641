------------------------------ MODULE MCWebRtc ------------------------------
(* A small instance of WebRtc for TLC. *)
EXTENDS WebRtc
=============================================================================
