-------------------------- MODULE MCTemplatePallet --------------------------
(* TemplatePallet with block numbers of four bits.                          *)
EXTENDS TemplatePallet

CONSTANTS A, B
=============================================================================
