---------------------------- MODULE MCInodeCache ---------------------------
(* The cache for TLC; see the configurations.                                *)
EXTENDS InodeCache
=============================================================================
