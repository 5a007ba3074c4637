-------------------------- MODULE MCConnectionManager --------------------------
(***************************************************************************)
(* The dial loop on durations of 5 bits: every configured pair of          *)
(* reconnect_initial and reconnect_max of that width, the negative and the *)
(* overflowing ones included.                                              *)
(***************************************************************************)
EXTENDS ConnectionManager

================================================================================
