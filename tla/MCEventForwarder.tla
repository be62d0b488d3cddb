-------------------------- MODULE MCEventForwarder --------------------------
(***************************************************************************)
(* Small instances of EventForwarder for TLC.                              *)
(***************************************************************************)
EXTENDS EventForwarder

CONSTANTS a, b     \* the two controllers
=============================================================================
