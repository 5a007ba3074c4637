-------------------------------- MODULE MCService --------------------------------
(***************************************************************************)
(* Service.Run on a few sessions of a few deliveries each. The delays of   *)
(* its dial loop are 1, 2, 2, ...                                          *)
(***************************************************************************)
EXTENDS Service

================================================================================
