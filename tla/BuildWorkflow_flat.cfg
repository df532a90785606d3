SPECIFICATION Spec
CONSTANTS
    Sessions = {"A", "B"}
    Packages = {"handlereuse"}
    Stages = {"handlereuse"}
    StageOf <- Stage1
    Dirs = {"flat", "A", "B"}
    OutOf <- Flat
    Names = {"handle_i_d_reuse", "handle_reuse"}
    Emits <- HandleReuse
INVARIANTS
    WasmIsKeptPerRun
