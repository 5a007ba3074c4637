------------------------------ MODULE MCWebRenderer ------------------------------
(***************************************************************************)
(* The web renderer with one or two browser connections, buffers of one    *)
(* message, and more traces than a buffer holds.                           *)
(***************************************************************************)
EXTENDS WebRenderer

================================================================================
