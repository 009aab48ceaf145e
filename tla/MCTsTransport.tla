---------------------------- MODULE MCTsTransport ----------------------------
(* Small instances of TsTransport for TLC.                                  *)
EXTENDS TsTransport
=============================================================================
