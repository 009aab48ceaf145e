---------------------------- MODULE MCFrameWriter ----------------------------
(* Small instances of FrameWriter for TLC.                                  *)
EXTENDS FrameWriter
=============================================================================
