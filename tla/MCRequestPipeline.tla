-------------------------- MODULE MCRequestPipeline --------------------------
(***************************************************************************)
(* The errors of an application for the model checker: one code in both of *)
(* the ways an error may have a status, registered with another than       *)
(* NewConflict's, and a code of the application's own that is not          *)
(* registered.                                                             *)
(***************************************************************************)
EXTENDS RequestPipelineProperties

MCMade == {[code |-> "CONFLICT", status |-> 0], [code |-> "CONFLICT", status |-> 409],
           [code |-> "TAKEN", status |-> 0]}
MCRegistry == [c \in {"CONFLICT"} |-> 422]

=============================================================================
