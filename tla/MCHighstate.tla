---------------------------- MODULE MCHighstate ----------------------------
(***************************************************************************)
(* A controller and a compute node with and without the optional parts of  *)
(* their SLS files.                                                        *)
(***************************************************************************)
EXTENDS ControllerState, ComputeState

\* Salt compiles the files with any of their optional parts.
ASSUME EverySelectionCompiles ==
  /\ \A f \in SUBSET ControllerFeature : Compiled(Controller(f))
  /\ \A f \in SUBSET ComputeFeature : Compiled(Compute(f))

MCSLS ==
  {Controller({}), Controller(ControllerFeature), Compute({"log_appender"}), Compute(ComputeFeature)}

=============================================================================
