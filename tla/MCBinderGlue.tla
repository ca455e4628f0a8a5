----------------------------- MODULE MCBinderGlue -----------------------------
(***************************************************************************)
(* The model-checking instance of BinderGlue: each service can die and     *)
(* come back twice (three lives).                                          *)
(***************************************************************************)
EXTENDS BinderGlue
=============================================================================
