------------------------------ MODULE MCRender ------------------------------
(* Instances of Render for TLC. *)
EXTENDS Render, TLC
=============================================================================
