---------------------------- MODULE MCImageBlock ----------------------------
(* Instances of ImageBlock for TLC. *)
EXTENDS ImageBlock
=============================================================================
