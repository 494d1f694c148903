----------------------------- MODULE MCQuietService -----------------------------
(* The instances of MCSchemaService, watched. *)
EXTENDS QuietService, MCSchemaService
================================================================================
