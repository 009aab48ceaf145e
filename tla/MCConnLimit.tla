----------------------------- MODULE MCConnLimit -----------------------------
(* Small instances of ConnLimit for TLC.                                    *)
EXTENDS ConnLimit
=============================================================================
