---------------------------- MODULE LibraryParts ----------------------------
(***************************************************************************)
(* The parts of the library that share no state, side by side for the      *)
(* model checker: a behaviour is one of one part, and the others stay as   *)
(* they begin. Each part is specified, and proved about, on its own.       *)
(***************************************************************************)
EXTENDS Tracer, ErrorTexts, ServiceSetup, Paging, StackEnv, Upload

VARIABLE part

vars == <<part, tracerVars, textVars, setupVars, pageVars, envVars, uploadVars>>

MCNames == {<<"x">>, <<"x", "-", "http">>, <<"x", "_", "http">>}

Parts == {"tracer", "texts", "setup", "paging", "env", "upload"}

(* Of the part that moves.                                                 *)
TypeOK ==
    CASE part = "tracer" -> TracerTypeOK
      [] part = "texts" -> TextTypeOK
      [] part = "setup" -> SetupTypeOK
      [] part = "paging" -> PageTypeOK
      [] part = "env" -> EnvTypeOK
      [] part = "upload" -> UploadTypeOK

(* Nothing tells two Providers or two callers of Shutdown apart.           *)
TracerSymmetry == Permutations(Providers) \cup Permutations(Callers)

Init ==
    /\ part \in Parts
    /\ TracerInit /\ TextInit /\ SetupInit /\ PageInit /\ EnvInit /\ UploadInit

Next ==
    /\ UNCHANGED part
    /\ \/ /\ part = "tracer" /\ TracerNext
          /\ UNCHANGED <<textVars, setupVars, pageVars, envVars, uploadVars>>
       \/ /\ part = "texts" /\ TextNext
          /\ UNCHANGED <<tracerVars, setupVars, pageVars, envVars, uploadVars>>
       \/ /\ part = "setup" /\ SetupNext
          /\ UNCHANGED <<tracerVars, textVars, pageVars, envVars, uploadVars>>
       \/ /\ part = "paging" /\ PageNext
          /\ UNCHANGED <<tracerVars, textVars, setupVars, envVars, uploadVars>>
       \/ /\ part = "env" /\ EnvNext
          /\ UNCHANGED <<tracerVars, textVars, setupVars, pageVars, uploadVars>>
       \/ /\ part = "upload" /\ UploadNext
          /\ UNCHANGED <<tracerVars, textVars, setupVars, pageVars, envVars>>

Spec == Init /\ [][Next]_vars

=============================================================================
