------------------------------- MODULE MCTlsf -------------------------------
(* A pool of a few words for TLC.                                          *)
EXTENDS Tlsf
=============================================================================
