---------------------------- MODULE MCRowBuffers ----------------------------
(* RowBuffers for TLC.                                                     *)
EXTENDS Buffers

Spec == B!Spec
=============================================================================
