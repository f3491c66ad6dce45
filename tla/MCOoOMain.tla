------------------------------ MODULE MCOoOMain ------------------------------
(***************************************************************************)
(* The driver around the pipeline, on the traces of MCOoO.                 *)
(***************************************************************************)
EXTENDS MCOoO, OoOMain
=============================================================================
