---------------------------- MODULE MCMetaLoader ----------------------------
(* MetaLoader for TLC: the constants are given in the .cfg files.          *)
EXTENDS MetaLoader
=============================================================================
