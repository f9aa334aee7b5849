------------------------------- MODULE MCProc -------------------------------
(* The process table on small machines.                                    *)
EXTENDS Proc
=============================================================================
