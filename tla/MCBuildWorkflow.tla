-------------------------- MODULE MCBuildWorkflow --------------------------
(* Two sessions of one checkout that run the same port.  The package's     *)
(* second edit renames its entry point (the case build-workflow.sh:76-88   *)
(* measured); its third has two entry points.                              *)
EXTENDS BuildWorkflow, TLC

Stage1 == [p \in Packages |-> "handlereuse"]
HandleReuse ==
    [p \in Packages |->
        <<{"handle_i_d_reuse"}, {"handle_reuse"}, {"handle_i_d_reuse", "handle_reuse"}>>]

\* The Go harnesses: .port-results/wasm/<port>/<pkg>, whoever runs.
Flat == [s \in Sessions |-> [p \in Packages |-> "flat"]]

\* The Python harness: $CLEAT_PORTS_RESULTS_DIR/wasm/<pkg>.
Keyed == [s \in Sessions |-> [p \in Packages |-> s]]
=============================================================================
