---------------------------- MODULE MCAnchoring ----------------------------
(***************************************************************************)
(* Small instances of checkpoint anchoring for TLC.                        *)
(***************************************************************************)
EXTENDS Anchoring, TLC

CONSTANTS r1, r2
=============================================================================
