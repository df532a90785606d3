------------------------ MODULE BuildWorkflowProofs ------------------------
(***************************************************************************)
(* What scripts/build-workflow.sh ships, for any sessions and packages.    *)
(*                                                                         *)
(* The stage is shared by every session that builds the package, and the   *)
(* sources in it may be another's copy: that is harmless to what is        *)
(* deployed, for a copy made after a build began is of an edit no older.   *)
(* The output directory is what must not be shared.  With directories that *)
(* are one session's own, whatever the interleaving, interrupts and        *)
(* failures, a deploy sends what its own build compiled; with one build at *)
(* a time on a stage and a directory, no build finds a file missing.       *)
(***************************************************************************)
EXTENDS BuildWorkflow, TLAPS

\* Directories and stages are where the harnesses put them, and the edits of a
\* package are numbered from 1.
Layout ==
    /\ StageOf \in [Packages -> Stages]
    /\ OutOf \in [Sessions -> [Packages -> Dirs]]
    /\ \A p \in Packages : DOMAIN Emits[p] \subseteq Nat /\ 1 \in DOMAIN Emits[p]

\* What conftest.py's key buys, and the Go harnesses' flat path does not.
DirsAreOwn ==
    \A s, t \in Sessions : \A p, q \in Packages : OutOf[s][p] = OutOf[t][q] => s = t

\* The stage is named after the package's basename alone.
BasenamesAreUnique ==
    \A p, q \in Packages : StageOf[p] = StageOf[q] => p = q

OneBuildPerStage ==
    \A s, t \in Sessions :
        s # t /\ pc[s] # "idle" /\ pc[t] # "idle" => Stage(s) # Stage(t) /\ Out(s) # Out(t)

Fresh(s) == {c \in Source : c[1] = pkg[s] /\ c[2] >= began[s]}

\* What a build has in hand, by the point it has reached.
Begun(s) == pc[s] # "idle" => began[s] <= edits[pkg[s]]
StageIsFresh(s) ==
    pc[s] \in {"mkdir", "cp", "mod", "tidy", "clear", "read"} =>
        staged[Stage(s)] \subseteq Fresh(s)
ReadIsFresh(s) ==
    pc[s] \in {"emit", "unstage", "pick", "deploy"} => read[s] \subseteq Fresh(s)
OutIsOwn(s) ==
    /\ pc[s] \in {"read", "emit"} => out[Out(s)] = {}
    /\ pc[s] \in {"unstage", "pick", "deploy"} => out[Out(s)] = Files(s) /\ Files(s) # {}
    /\ pc[s] = "deploy" => picked[s] = {w.name : w \in Files(s)}
ShippedIsOwn(s) ==
    \A w \in shipped[s] : w.by = s /\ w.source \in Fresh(s)

Held(s) == Begun(s) /\ StageIsFresh(s) /\ ReadIsFresh(s) /\ OutIsOwn(s) /\ ShippedIsOwn(s)

\* The stage is there with its sources until the build removes it itself.
Whole(s) ==
    /\ pc[s] \in {"cp", "mod", "tidy", "clear", "read"} => Stage(s) \in made
    /\ pc[s] \in {"mod", "tidy", "clear", "read"} => staged[Stage(s)] # {}

HInv == BuildTypeOK /\ \A s \in Sessions : Held(s)
OInv == HInv /\ \A s \in Sessions : Whole(s)

\* A build of t can touch what a build of s has in hand in no harmful way.
Harmless(s, t) ==
    pc[s] # "idle" /\ pc[t] # "idle" =>
        Out(s) # Out(t) /\ (Stage(s) = Stage(t) => pkg[s] = pkg[t])

-----------------------------------------------------------------------------
LEMMA TypesHold ==
    ASSUME Layout, BuildTypeOK, [Next]_vars
    PROVE  BuildTypeOK'
<1> USE DEF BuildTypeOK, vars, disk
<1>1. CASE UNCHANGED vars
    BY <1>1
<1>2. ASSUME NEW p \in Packages, Edit(p) PROVE BuildTypeOK'
    BY <1>2 DEF Edit, Layout
<1>3. ASSUME NEW s \in Sessions, Build(s) PROVE BuildTypeOK'
  <2> Stage(s) \in Stages /\ Out(s) \in Dirs
      BY DEF Layout, Stage, Out
  <2>1. ASSUME NEW p \in Packages, Start(s, p) PROVE BuildTypeOK'
      BY <2>1 DEF Start, Goto, Layout
  <2>2. CASE RemoveStage(s, "rm", "mkdir") \/ RemoveStage(s, "unstage", "pick")
      BY <2>2 DEF RemoveStage, Goto
  <2>3. CASE MakeStage(s)
      BY <2>3 DEF MakeStage, Goto
  <2>4. CASE CopySources(s)
    <3>1. <<pkg[s], edits[pkg[s]]>> \in Source
        BY DEF Source
    <3> QED BY <2>4, <3>1 DEF CopySources, Goto
  <2>5. CASE WriteModule(s) \/ Tidy(s)
      BY <2>5 DEF WriteModule, Tidy, Goto
  <2>6. CASE ClearOut(s)
      BY <2>6 DEF ClearOut, Goto
  <2>7. CASE ReadStage(s)
      BY <2>7 DEF ReadStage, Goto
  <2>8. CASE Emit(s)
    <3>1. Files(s) \subseteq Wasm
        BY DEF Files
    <3> QED BY <2>8, <3>1 DEF Emit, Goto
  <2>9. CASE Pick(s)
    <3>1. {w.name : w \in out[Out(s)]} \subseteq Names
        BY DEF Wasm
    <3> QED BY <2>9, <3>1 DEF Pick, Goto
  <2>10. CASE Deploy(s)
    <3>1. AtPath(s) \subseteq Wasm
        BY DEF AtPath
    <3> QED BY <2>10, <3>1 DEF Deploy, Goto
  <2>11. CASE Fail(s) \/ Refuse(s) \/ Interrupt(s)
      BY <2>11 DEF Fail, Refuse, Interrupt, GiveUp, Goto
  <2> QED BY <1>3, <2>1, <2>2, <2>3, <2>4, <2>5, <2>6, <2>7, <2>8, <2>9, <2>10, <2>11
          DEF Build
<1> QED BY <1>1, <1>2, <1>3 DEF Next

\* A session's own step keeps what its build has in hand.
LEMMA OwnStepHolds ==
    ASSUME Layout, BuildTypeOK, NEW s \in Sessions, Held(s), Build(s)
    PROVE  Held(s)'
<1> Stage(s) \in Stages /\ Out(s) \in Dirs
    BY DEF Layout, Stage, Out, BuildTypeOK
<1> USE DEF BuildTypeOK, Held, Begun, StageIsFresh, ReadIsFresh, OutIsOwn, ShippedIsOwn,
            Fresh, Stage, Out, Files, Goto, disk
<1>1. ASSUME NEW p \in Packages, Start(s, p) PROVE Held(s)'
    BY <1>1 DEF Start, Layout
<1>2. CASE RemoveStage(s, "rm", "mkdir")
    BY <1>2 DEF RemoveStage
<1>3. CASE RemoveStage(s, "unstage", "pick")
    BY <1>3 DEF RemoveStage
<1>4. CASE MakeStage(s)
    BY <1>4 DEF MakeStage
<1>5. CASE CopySources(s)
  <2>1. <<pkg[s], edits[pkg[s]]>> \in Fresh(s)
      BY <1>5 DEF CopySources, Source
  <2> QED BY <1>5, <2>1 DEF CopySources
<1>6. CASE WriteModule(s) \/ Tidy(s)
    BY <1>6 DEF WriteModule, Tidy
<1>7. CASE ClearOut(s)
    BY <1>7 DEF ClearOut
<1>8. CASE ReadStage(s)
    BY <1>8 DEF ReadStage
<1>9. CASE Emit(s)
  <2>1. out'[Out(s)] = Files(s)
      BY <1>9 DEF Emit
  <2> QED BY <1>9, <2>1 DEF Emit
<1>10. CASE Pick(s)
    BY <1>10 DEF Pick
<1>11. CASE Deploy(s)
  <2>1. AtPath(s) \subseteq Files(s)
      BY <1>11 DEF AtPath, Deploy
  <2>2. \A w \in AtPath(s) : w.by = s /\ w.source \in Fresh(s)
      BY <1>11, <2>1 DEF Deploy
  <2> QED BY <1>11, <2>2 DEF Deploy
<1>12. CASE Fail(s) \/ Refuse(s) \/ Interrupt(s)
    BY <1>12 DEF Fail, Refuse, Interrupt, GiveUp
<1> QED BY <1>1, <1>2, <1>3, <1>4, <1>5, <1>6, <1>7, <1>8, <1>9, <1>10, <1>11, <1>12
        DEF Build

\* A step of another session's build disturbs neither its stage beyond
\* replacing it by sources as fresh, nor its output directory.
LEMMA OthersStepHolds ==
    ASSUME Layout, BuildTypeOK, NEW s \in Sessions, NEW t \in Sessions, s # t,
           Held(s), Held(t), Harmless(s, t), Build(t)
    PROVE  Held(s)'
<1> /\ Stage(s) \in Stages /\ Stage(t) \in Stages
    /\ Out(s) \in Dirs /\ Out(t) \in Dirs
    BY DEF Layout, Stage, Out, BuildTypeOK
<1> USE DEF BuildTypeOK, Held, Begun, StageIsFresh, ReadIsFresh, OutIsOwn, ShippedIsOwn,
            Fresh, Stage, Out, Files, Goto, disk
<1>1. ASSUME NEW p \in Packages, Start(t, p) PROVE Held(s)'
    BY <1>1 DEF Start
<1>2. CASE RemoveStage(t, "rm", "mkdir") \/ RemoveStage(t, "unstage", "pick")
    BY <1>2 DEF RemoveStage
<1>3. CASE MakeStage(t) \/ WriteModule(t) \/ Tidy(t) \/ ReadStage(t) \/ Pick(t) \/ Deploy(t)
    BY <1>3 DEF MakeStage, WriteModule, Tidy, ReadStage, Pick, Deploy
<1>4. CASE CopySources(t)
  <2>1. pc[s] # "idle" /\ Stage(s) = Stage(t) => <<pkg[t], edits[pkg[t]]>> \in Fresh(s)
      BY <1>4 DEF CopySources, Source, Harmless
  <2> QED BY <1>4, <2>1 DEF CopySources
<1>5. CASE ClearOut(t)
    BY <1>5 DEF ClearOut, Harmless
<1>6. CASE Emit(t)
    BY <1>6 DEF Emit, Harmless
<1>7. CASE Fail(t) \/ Refuse(t) \/ Interrupt(t)
    BY <1>7 DEF Fail, Refuse, Interrupt, GiveUp
<1> QED BY <1>1, <1>2, <1>3, <1>4, <1>5, <1>6, <1>7 DEF Build

LEMMA EditHolds ==
    ASSUME BuildTypeOK, NEW s \in Sessions, Held(s), NEW p \in Packages, Edit(p)
    PROVE  Held(s)'
BY DEF Edit, BuildTypeOK, Held, Begun, StageIsFresh, ReadIsFresh, OutIsOwn, ShippedIsOwn,
       Fresh, Stage, Out, Files, disk

LEMMA HeldAtFirst ==
    ASSUME Layout, Init
    PROVE  HInv /\ \A s \in Sessions : Whole(s)
<1>1. BuildTypeOK
    BY DEF Init, Layout, BuildTypeOK
<1>2. \A s \in Sessions : Held(s) /\ Whole(s)
    BY DEF Init, Held, Begun, StageIsFresh, ReadIsFresh, OutIsOwn, ShippedIsOwn, Whole
<1> QED BY <1>1, <1>2 DEF HInv

\* While no two builds are in each other's way, what each has in hand stays.
LEMMA HeldStays ==
    ASSUME Layout, HInv, [Next]_vars,
           \A s, t \in Sessions : s # t => Harmless(s, t)
    PROVE  HInv'
<1>1. BuildTypeOK'
    BY TypesHold DEF HInv
<1>2. ASSUME NEW s \in Sessions PROVE Held(s)'
  <2>1. CASE UNCHANGED vars
    <3>1. Files(s)' = Files(s) /\ Fresh(s)' = Fresh(s)
        BY <2>1 DEF vars, Files, Fresh
    <3>2. Stage(s)' = Stage(s) /\ Out(s)' = Out(s)
        BY <2>1 DEF vars, Stage, Out
    <3> QED BY <2>1, <3>1, <3>2
            DEF HInv, vars, disk, Held, Begun, StageIsFresh, ReadIsFresh, OutIsOwn, ShippedIsOwn
  <2>2. ASSUME NEW p \in Packages, Edit(p) PROVE Held(s)'
      BY <2>2, EditHolds DEF HInv
  <2>3. CASE Build(s)
      BY <2>3, OwnStepHolds DEF HInv
  <2>4. ASSUME NEW t \in Sessions, t # s, Build(t) PROVE Held(s)'
      BY <2>4, OthersStepHolds DEF HInv
  <2> QED BY <2>1, <2>2, <2>3, <2>4 DEF Next
<1> QED BY <1>1, <1>2 DEF HInv

LEMMA HeldSuffices ==
    ASSUME HInv
    PROVE  DeploysWhatItBuilt /\ WasmIsKeptPerRun
<1>1. DeploysWhatItBuilt
    BY DEF HInv, Held, ShippedIsOwn, Fresh, DeploysWhatItBuilt
<1>2. ASSUME NEW s \in Sessions, pc[s] = "deploy" PROVE AtPath(s) = Files(s)
    BY <1>2 DEF HInv, Held, OutIsOwn, AtPath
<1> QED BY <1>1, <1>2 DEF WasmIsKeptPerRun

\* With output directories of a session's own, whatever the sessions of the
\* checkout do to the stages they share, a deploy sends what its own build
\* compiled, from its package and from no edit older than the build.
THEOREM OwnDirsShipOwnSource ==
    ASSUME Layout, DirsAreOwn, BasenamesAreUnique
    PROVE  Spec => [](DeploysWhatItBuilt /\ WasmIsKeptPerRun)
<1>1. Init => HInv
    BY HeldAtFirst
<1>2. HInv /\ [Next]_vars => HInv'
  <2> SUFFICES ASSUME HInv, [Next]_vars PROVE HInv'
      OBVIOUS
  <2>1. ASSUME NEW s \in Sessions, NEW t \in Sessions, s # t PROVE Harmless(s, t)
      BY <2>1 DEF HInv, BuildTypeOK, Harmless, Stage, Out, DirsAreOwn, BasenamesAreUnique
  <2> QED BY <2>1, HeldStays
<1> QED BY <1>1, <1>2, HeldSuffices, PTL DEF Spec

-----------------------------------------------------------------------------
\* A build alone on its stage finds there what it put there.
LEMMA WholeStays ==
    ASSUME Layout, OInv, OneBuildPerStage, [Next]_vars
    PROVE  \A s \in Sessions : Whole(s)'
<1> USE DEF Whole, Stage, Goto, disk
<1> SUFFICES ASSUME NEW s \in Sessions PROVE Whole(s)'
    OBVIOUS
<1>0. BuildTypeOK /\ Whole(s) /\ \A t \in Sessions : StageOf[pkg[t]] \in Stages
    BY DEF OInv, HInv, BuildTypeOK, Layout
<1> USE <1>0 DEF BuildTypeOK
<1>1. CASE UNCHANGED vars
    BY <1>1 DEF vars
<1>2. ASSUME NEW p \in Packages, Edit(p) PROVE Whole(s)'
    BY <1>2 DEF Edit
<1>3. CASE Build(s)
  <2>1. ASSUME NEW p \in Packages, Start(s, p) PROVE Whole(s)'
      BY <2>1 DEF Start
  <2>2. CASE RemoveStage(s, "rm", "mkdir") \/ RemoveStage(s, "unstage", "pick")
      BY <2>2 DEF RemoveStage
  <2>3. CASE MakeStage(s) \/ CopySources(s) \/ WriteModule(s) \/ Tidy(s)
      BY <2>3 DEF MakeStage, CopySources, WriteModule, Tidy
  <2>4. CASE ClearOut(s) \/ ReadStage(s) \/ Emit(s) \/ Pick(s) \/ Deploy(s)
      BY <2>4 DEF ClearOut, ReadStage, Emit, Pick, Deploy
  <2>5. CASE Fail(s) \/ Refuse(s) \/ Interrupt(s)
      BY <2>5 DEF Fail, Refuse, Interrupt, GiveUp
  <2> QED BY <1>3, <2>1, <2>2, <2>3, <2>4, <2>5 DEF Build
<1>4. ASSUME NEW t \in Sessions, t # s, Build(t) PROVE Whole(s)'
  <2>0. pc[s] # "idle" /\ pc[t] # "idle" => StageOf[pkg[s]] # StageOf[pkg[t]]
      BY <1>4 DEF OneBuildPerStage
  <2>1. ASSUME NEW p \in Packages, Start(t, p) PROVE Whole(s)'
      BY <1>4, <2>1 DEF Start
  <2>2. CASE RemoveStage(t, "rm", "mkdir") \/ RemoveStage(t, "unstage", "pick")
      BY <1>4, <2>0, <2>2 DEF RemoveStage
  <2>3. CASE MakeStage(t) \/ CopySources(t) \/ WriteModule(t) \/ Tidy(t)
      BY <1>4, <2>0, <2>3 DEF MakeStage, CopySources, WriteModule, Tidy
  <2>4. CASE ClearOut(t) \/ ReadStage(t) \/ Emit(t) \/ Pick(t) \/ Deploy(t)
      BY <1>4, <2>4 DEF ClearOut, ReadStage, Emit, Pick, Deploy
  <2>5. CASE Fail(t) \/ Refuse(t) \/ Interrupt(t)
      BY <1>4, <2>5 DEF Fail, Refuse, Interrupt, GiveUp
  <2> QED BY <1>4, <2>1, <2>2, <2>3, <2>4, <2>5 DEF Build
<1> QED BY <1>1, <1>2, <1>3, <1>4 DEF Next

LEMMA WholeSuffices ==
    ASSUME OInv
    PROVE  NothingGoesMissing
<1> SUFFICES ASSUME NEW s \in Sessions, Missing(s)
             PROVE  pc[s] = "pick" /\ Cardinality(Files(s)) # 1
    BY DEF NothingGoesMissing
<1>1. Whole(s) /\ OutIsOwn(s)
    BY DEF OInv, HInv, Held
<1>2. CASE pc[s] = "pick"
    BY <1>1, <1>2 DEF Missing, OutIsOwn
<1>3. CASE pc[s] = "deploy"
  <2>1. Files(s) # {} /\ AtPath(s) = Files(s)
      BY <1>1, <1>3 DEF OutIsOwn, AtPath
  <2> QED BY <1>1, <1>3, <2>1 DEF Missing
<1>4. CASE pc[s] \notin {"pick", "deploy"}
    BY <1>1, <1>4 DEF Missing, Whole
<1> QED BY <1>2, <1>3, <1>4

\* While no two sessions build on one stage or into one directory, no build
\* finds missing what an earlier command of it made, and it ships its own: a
\* package that compiles to one .wasm is built unless a tool refuses it.
THEOREM LoneBuildsLoseNothing ==
    ASSUME Layout
    PROVE  Spec /\ []OneBuildPerStage =>
               [](NothingGoesMissing /\ DeploysWhatItBuilt /\ WasmIsKeptPerRun)
<1>1. Init => OInv
    BY HeldAtFirst DEF OInv
<1>2. OInv /\ OneBuildPerStage /\ [Next]_vars => OInv'
  <2> SUFFICES ASSUME OInv, OneBuildPerStage, [Next]_vars PROVE OInv'
      OBVIOUS
  <2>1. \A s, t \in Sessions : s # t => Harmless(s, t)
      BY DEF OneBuildPerStage, Harmless
  <2>2. HInv'
      BY <2>1, HeldStays DEF OInv
  <2> QED BY <2>2, WholeStays DEF OInv
<1>3. OInv => NothingGoesMissing /\ DeploysWhatItBuilt /\ WasmIsKeptPerRun
    BY WholeSuffices, HeldSuffices DEF OInv
<1> QED BY <1>1, <1>2, <1>3, PTL DEF Spec
=============================================================================
