--------------------------- MODULE MCStateLayers ----------------------------
(* The module TLC runs StateLayers from, with the view of the client on top; *)
(* the .cfg file bounds it. *)
EXTENDS PerformerView, TLC

=============================================================================
