------------------------------- MODULE MCAhci -------------------------------
(* The AHCI driver for TLC.                                                 *)
EXTENDS Ahci
CONSTANTS x, y
MCData == {x, y}
=============================================================================
