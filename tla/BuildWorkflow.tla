--------------------------- MODULE BuildWorkflow ---------------------------
(***************************************************************************)
(* scripts/build-workflow.sh and the harnesses' deploy around it: several  *)
(* sessions of one checkout build workflow packages and deploy the .wasm   *)
(* whose path the script printed.  The script works on two directories it  *)
(* does not own alone: the stage inside the cleat checkout, named after    *)
(* the package, and the output directory the harness passes.  One step is  *)
(* one command of the script; `set -e` ends it at the first that fails,    *)
(* and what it had made by then stays on the disk.                         *)
(***************************************************************************)
EXTENDS Naturals, FiniteSets

CONSTANTS
    Sessions,   \* each runs one build at a time, as pytest and `go test` do
    Packages,
    Stages, StageOf,  \* [Packages -> Stages]: .ports-build/<basename>
    Dirs, OutOf,      \* [Sessions -> [Packages -> Dirs]]: the harness's choice
    Names,            \* names of .wasm files, derived from entry points
    Emits             \* [Packages -> sequence of SUBSET Names]: the files the
                      \* compiler writes for each edit of a package

Source == UNION {{p} \X DOMAIN Emits[p] : p \in Packages}
Wasm == [name : Names, source : Source, by : Sessions]

VARIABLES
    edits,      \* [Packages -> Nat]: the edit of a package now in the checkout
    pc,         \* where a session's build is
    pkg,        \* the package it builds
    began,      \* the edit that package was at when the build began
    read,       \* what `cleat build` read from the stage, as a set
    picked,     \* the file the script returned the path of, as a set
    made,       \* the stages that exist
    staged,     \* [Stages -> SUBSET Source]: the sources in each
    out,        \* [Dirs -> SUBSET Wasm]
    shipped     \* [Sessions -> SUBSET Wasm]: what its last deploy sent

disk == <<made, staged, out>>
vars == <<edits, pc, pkg, began, read, picked, disk, shipped>>

Stage(s) == StageOf[pkg[s]]
Out(s) == OutOf[s][pkg[s]]
Goto(s, label) == pc' = [pc EXCEPT ![s] = label]

Init ==
    /\ edits = [p \in Packages |-> 1]
    /\ pc = [s \in Sessions |-> "idle"]
    /\ pkg \in [Sessions -> Packages]
    /\ began = [s \in Sessions |-> 1]
    /\ read = [s \in Sessions |-> {}]
    /\ picked = [s \in Sessions |-> {}]
    /\ made = {}
    /\ staged = [d \in Stages |-> {}]
    /\ out = [d \in Dirs |-> {}]
    /\ shipped = [s \in Sessions |-> {}]

\* Somebody edits a package in the checkout all sessions share.
Edit(p) ==
    /\ edits[p] + 1 \in DOMAIN Emits[p]
    /\ edits' = [edits EXCEPT ![p] = @ + 1]
    /\ UNCHANGED <<pc, pkg, began, read, picked, disk, shipped>>

\* A test deploys a package: the harness runs the script on it.
Start(s, p) ==
    /\ pc[s] = "idle"
    /\ Goto(s, "rm")
    /\ pkg' = [pkg EXCEPT ![s] = p]
    /\ began' = [began EXCEPT ![s] = edits[p]]
    /\ read' = [read EXCEPT ![s] = {}]
    /\ picked' = [picked EXCEPT ![s] = {}]
    /\ shipped' = [shipped EXCEPT ![s] = {}]
    /\ UNCHANGED <<edits, disk>>

RemoveStage(s, here, next) ==
    /\ pc[s] = here
    /\ Goto(s, next)
    /\ made' = made \ {Stage(s)}
    /\ staged' = [staged EXCEPT ![Stage(s)] = {}]
    /\ UNCHANGED <<edits, pkg, began, read, picked, out, shipped>>

MakeStage(s) ==
    /\ pc[s] = "mkdir"
    /\ Goto(s, "cp")
    /\ made' = made \cup {Stage(s)}
    /\ UNCHANGED <<edits, pkg, began, read, picked, staged, out, shipped>>

\* Every package is one file, main.go: the copy replaces what is there.
CopySources(s) ==
    /\ pc[s] = "cp" /\ Stage(s) \in made
    /\ Goto(s, "mod")
    /\ staged' = [staged EXCEPT ![Stage(s)] = {<<pkg[s], edits[pkg[s]]>>}]
    /\ UNCHANGED <<edits, pkg, began, read, picked, made, out, shipped>>

\* The heredoc that writes go.mod, then the cd and `go mod tidy`: each needs
\* the directory and touches nothing the build's outcome is told apart by.
WriteModule(s) ==
    /\ pc[s] = "mod" /\ Stage(s) \in made
    /\ Goto(s, "tidy")
    /\ UNCHANGED <<edits, pkg, began, read, picked, disk, shipped>>

Tidy(s) ==
    /\ pc[s] = "tidy" /\ Stage(s) \in made
    /\ Goto(s, "clear")
    /\ UNCHANGED <<edits, pkg, began, read, picked, disk, shipped>>

ClearOut(s) ==
    /\ pc[s] = "clear"
    /\ Goto(s, "read")
    /\ out' = [out EXCEPT ![Out(s)] = {}]
    /\ UNCHANGED <<edits, pkg, began, read, picked, made, staged, shipped>>

\* `cleat build` reads the stage, compiles for seconds, then writes its files.
ReadStage(s) ==
    /\ pc[s] = "read" /\ staged[Stage(s)] # {}
    /\ Goto(s, "emit")
    /\ read' = [read EXCEPT ![s] = staged[Stage(s)]]
    /\ UNCHANGED <<edits, pkg, began, picked, disk, shipped>>

Files(s) ==
    {w \in Wasm : /\ w.by = s /\ w.source \in read[s]
                  /\ w.name \in Emits[w.source[1]][w.source[2]]}

Emit(s) ==
    /\ pc[s] = "emit" /\ Files(s) # {}
    /\ Goto(s, "unstage")
    /\ out' = [out EXCEPT ![Out(s)] =
                  {w \in @ : \A f \in Files(s) : w.name # f.name} \cup Files(s)]
    /\ UNCHANGED <<edits, pkg, began, read, picked, made, staged, shipped>>

\* Exactly one .wasm, asserted: its path is what the script prints.
Pick(s) ==
    /\ pc[s] = "pick" /\ Cardinality(out[Out(s)]) = 1
    /\ Goto(s, "deploy")
    /\ picked' = [picked EXCEPT ![s] = {w.name : w \in out[Out(s)]}]
    /\ UNCHANGED <<edits, pkg, began, read, disk, shipped>>

\* deploy-workflow opens the path the script printed.
AtPath(s) == {w \in out[Out(s)] : w.name \in picked[s]}

Deploy(s) ==
    /\ pc[s] = "deploy" /\ AtPath(s) # {}
    /\ Goto(s, "idle")
    /\ shipped' = [shipped EXCEPT ![s] = AtPath(s)]
    /\ UNCHANGED <<edits, pkg, began, read, picked, disk>>

\* What the script or the deploy needs is not there, or there are two of it.
Missing(s) ==
    \/ pc[s] \in {"cp", "mod", "tidy"} /\ Stage(s) \notin made
    \/ pc[s] = "read" /\ staged[Stage(s)] = {}
    \/ pc[s] = "pick" /\ Cardinality(out[Out(s)]) # 1
    \/ pc[s] = "deploy" /\ AtPath(s) = {}

GiveUp(s) ==
    /\ Goto(s, "idle")
    /\ UNCHANGED <<edits, pkg, began, read, picked, disk, shipped>>

\* The command fails, and `set -e`, or the harness, ends the build there.
Fail(s) == Missing(s) /\ GiveUp(s)

\* `go mod tidy` finds no network, or the compiler refuses the package.
Refuse(s) == pc[s] \in {"tidy", "read", "emit"} /\ GiveUp(s)

\* Ctrl-C, or the harness's own end.
Interrupt(s) == pc[s] # "idle" /\ GiveUp(s)

Build(s) ==
    \/ \E p \in Packages : Start(s, p)
    \/ RemoveStage(s, "rm", "mkdir") \/ MakeStage(s) \/ CopySources(s)
    \/ WriteModule(s) \/ Tidy(s) \/ ClearOut(s) \/ ReadStage(s) \/ Emit(s)
    \/ RemoveStage(s, "unstage", "pick") \/ Pick(s) \/ Deploy(s)
    \/ Fail(s) \/ Refuse(s) \/ Interrupt(s)

Next == (\E p \in Packages : Edit(p)) \/ \E s \in Sessions : Build(s)

Spec == Init /\ [][Next]_vars

-----------------------------------------------------------------------------
(* Properties.                                                             *)

BuildTypeOK ==
    /\ edits \in [Packages -> Nat]
    /\ \A p \in Packages : edits[p] \in DOMAIN Emits[p]
    /\ pc \in [Sessions -> {"idle", "rm", "mkdir", "cp", "mod", "tidy", "clear",
                            "read", "emit", "unstage", "pick", "deploy"}]
    /\ pkg \in [Sessions -> Packages] /\ began \in [Sessions -> Nat]
    /\ read \in [Sessions -> SUBSET Source]
    /\ picked \in [Sessions -> SUBSET Names]
    /\ made \in SUBSET Stages /\ staged \in [Stages -> SUBSET Source]
    /\ out \in [Dirs -> SUBSET Wasm] /\ shipped \in [Sessions -> SUBSET Wasm]

\* What a deploy sends was compiled by this session's own build, from this
\* package, and from an edit no older than the one the build began at: never
\* the source the header's stale .wasm shipped (build-workflow.sh:76-104).
DeploysWhatItBuilt ==
    \A s \in Sessions : \A w \in shipped[s] :
        w.by = s /\ w.source[1] = pkg[s] /\ w.source[2] >= began[s]

\* No command of a build finds missing what an earlier one made: a script that
\* fails does so because its package does not compile to exactly one .wasm.
NothingGoesMissing ==
    \A s \in Sessions : Missing(s) => pc[s] = "pick" /\ Cardinality(Files(s)) # 1

\* A run's built .wasm is its own: what lies at the path a build returned is,
\* until the harness has deployed it, the file this build wrote (env.sh:109,
\* conftest.py:534).
WasmIsKeptPerRun ==
    \A s \in Sessions : pc[s] = "deploy" => AtPath(s) = Files(s)
=============================================================================
