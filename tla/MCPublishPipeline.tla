------------------------- MODULE MCPublishPipeline -------------------------
(* Small instances of the publish pipeline. *)
EXTENDS PublishPipeline
=============================================================================
