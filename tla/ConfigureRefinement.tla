------------------------- MODULE ConfigureRefinement -------------------------
(* configure.py implements the workspace lifecycle of Workspaces: under   *)
(* the mapping WS of Configure (tree = the build/ tree, run = the number   *)
(* of invocations, phase = RunPhase, target = build/<cfg.buildType>,       *)
(* consent = --clean or interactive), every step of main() is a step of   *)
(* the abstract specification or leaves its variables alone.  The proof   *)
(* rests on Inv of ConfigureProofs, which says which BuildConfig fields   *)
(* are set at each stage and that every workspace entry is well formed.   *)
EXTENDS ConfigureProofs

-----------------------------------------------------------------------------
(* One lemma per kind of step of main().                                   *)

\* A step in the middle of main() that writes nothing and keeps the build
\* type and the consent: a stutter, or the Abort of a failed or cancelled
\* run.
LEMMA QuietStep ==
    ASSUME pc \notin {"idle", "done", "failed"},
           pc' \notin {"idle", "done"},
           ws' = ws, runs' = runs, cfg'.buildType = cfg.buildType,
           cfg'.clean = cfg.clean, cfg'.interactive = cfg.interactive
    PROVE  [WS!Next]_WS!wvars
<1>1. RunPhase = "running"
  BY DEF RunPhase
<1>2. CASE pc' = "failed"
  <2>1. WS!Abort
    BY <1>1, <1>2 DEF WS!Abort, RunPhase, Dir
  <2>. QED
    BY <2>1 DEF WS!Next
<1>3. CASE pc' # "failed"
  <2>1. RunPhase' = "running"
    BY <1>3 DEF RunPhase
  <2>. QED
    BY <1>1, <2>1 DEF WS!wvars, Dir
<1>. QED
  BY <1>2, <1>3

\* main() starts: the invocation count goes up, the build type is given or
\* left to the prompt, and a missing cmake fails the run at once.
LEMMA InvokeStep ==
    ASSUME Inv', NEW a \in ArgRec, Invoke(a)
    PROVE  WS!Begin
<1>1. RunPhase # "running" /\ runs < MaxRuns /\ runs' = runs + 1 /\ ws' = ws
  BY DEF Invoke, RunPhase
<1>2. RunPhase' \in {"running", "failed"}
  BY DEF Invoke, RunPhase
<1>3. cfg' \in CfgRec
  BY DEF Inv, IInv, TypeOK
<1>4. Dir' \in BuildTypes \cup {None}
  BY <1>3 DEF CfgRec, Dir
<1>5. cfg'.clean \in BOOLEAN /\ cfg'.interactive \in BOOLEAN
  BY <1>3, Zenon DEF CfgRec
<1>6. (cfg.clean \/ cfg.interactive)' \in BOOLEAN
  BY <1>5, Zenon
<1>. QED
  BY <1>1, <1>2, <1>4, <1>6 DEF WS!Begin

\* The prompts and the compiler and build-system setup between the start
\* and the build type, and after it up to setup_conan.
LEMMA MiddleStep ==
    ASSUME Inv,
           \/ Modules \/ TestsExamples
           \/ SelectCompiler \/ SetupCompilerStep
           \/ SelectBuildSystem \/ SetupBuildSystemStep
    PROVE  [WS!Next]_WS!wvars
<1>1. cfg \in CfgRec
  BY DEF Inv, IInv, TypeOK
<1>. DEFINE Quiet ==
       /\ ws' = ws /\ runs' = runs /\ cfg'.buildType = cfg.buildType
       /\ cfg'.clean = cfg.clean /\ cfg'.interactive = cfg.interactive
<1>2. CASE Modules
  <2>1. pc = "modules" /\ pc' \in {"testsEx", "failed"} /\ Quiet
    BY <1>1, <1>2 DEF Modules, Interrupted, CfgRec
  <2>. QED
    BY <2>1, QuietStep
<1>3. CASE TestsExamples
  <2>1. pc = "testsEx" /\ pc' = "buildType" /\ Quiet
    BY <1>1, <1>3 DEF TestsExamples, CfgRec
  <2>. QED
    BY <2>1, QuietStep
<1>4. CASE SelectCompiler
  <2>1. pc = "selectCompiler" /\ pc' \in {"setupCompiler", "failed"} /\ Quiet
    BY <1>1, <1>4 DEF SelectCompiler, Interrupted, CfgRec
  <2>. QED
    BY <2>1, QuietStep
<1>5. CASE SetupCompilerStep
  <2>1. pc = "setupCompiler" /\ Quiet
        /\ pc' \in {"selectBuildSystem", "setupBuildSystem", "failed"}
    BY <1>1, <1>5 DEF SetupCompilerStep, Interrupted, CfgRec
  <2>. QED
    BY <2>1, QuietStep
<1>6. CASE SelectBuildSystem
  <2>1. pc = "selectBuildSystem" /\ pc' \in {"setupBuildSystem", "failed"} /\ Quiet
    BY <1>1, <1>6 DEF SelectBuildSystem, Interrupted, CfgRec
  <2>. QED
    BY <2>1, QuietStep
<1>7. CASE SetupBuildSystemStep
  <2>1. pc = "setupBuildSystem" /\ pc' \in {"conan", "failed"} /\ Quiet
    BY <1>1, <1>7 DEF SetupBuildSystemStep, Interrupted, CfgRec
  <2>. QED
    BY <2>1, QuietStep
<1>. QED
  BY <1>2, <1>3, <1>4, <1>5, <1>6, <1>7

\* select_build_type_interactive resolves the build type, once; given
\* --type it passes; Ctrl-C aborts the run.
LEMMA BuildTypeStep ==
    ASSUME Inv, BuildType
    PROVE  [WS!Next]_WS!wvars
<1>1. cfg \in CfgRec /\ pc = "buildType" /\ RunPhase = "running"
  BY DEF Inv, IInv, TypeOK, BuildType, RunPhase
<1>2. CASE cfg.buildType # None
  <2>1. pc' = "selectCompiler" /\ UNCHANGED <<ws, runs, cfg>>
    BY <1>2 DEF BuildType
  <2>. QED
    BY <1>1, <2>1, QuietStep
<1>3. CASE cfg.buildType = None
  <2>1. PICK ans \in Menu :
          IF ans = "cancel" THEN Interrupted
          ELSE /\ cfg' = [cfg EXCEPT !.buildType = BuildTypeOf(ans)]
               /\ pc' = "selectCompiler"
               /\ UNCHANGED <<host, ws, args, path, runs, ws0, cancelled, pick, why>>
    BY <1>3 DEF BuildType
  <2>2. CASE ans = "cancel"
    BY <1>1, <2>1, <2>2, QuietStep DEF Interrupted
  <2>3. CASE ans # "cancel"
    <3>1. WS!Resolve(BuildTypeOf(ans))
      <4>1. RunPhase' = "running" /\ Dir' = BuildTypeOf(ans) /\ UNCHANGED <<ws, runs>>
        BY <1>1, <2>1, <2>3 DEF RunPhase, Dir, CfgRec
      <4>2. (cfg.clean \/ cfg.interactive)' = (cfg.clean \/ cfg.interactive)
        BY <1>1, <2>1, <2>3 DEF CfgRec
      <4>. QED
        BY <1>1, <1>3, <4>1, <4>2 DEF WS!Resolve, Dir
    <3>2. BuildTypeOf(ans) \in BuildTypes
      BY DEF BuildTypeOf, BuildTypes
    <3>. QED
      BY <3>1, <3>2 DEF WS!Next
  <2>. QED
    BY <2>2, <2>3
<1>. QED
  BY <1>2, <1>3

\* setup_conan (and the install_deps.py run it starts) adds or removes the
\* workspace's conan_toolchain.cmake and nothing else of the build tree.
LEMMA ConanStep ==
    ASSUME Inv, Conan
    PROVE  WS!Provision
<1>1. /\ cfg \in CfgRec /\ ws \in [BuildTypes -> Entry]
      /\ EarlyFieldsSet(cfg) /\ cfg.buildSystem \in GenNames
      /\ pc = "conan" /\ RunPhase = "running"
  BY DEF Inv, IInv, TypeOK, Stages, Conan, AfterBuildType, AfterCompiler,
         AfterBuildSystem, EarlyFieldsSet, RunPhase
<1>2. PICK a1, a2, a3 \in YesNo, out \in InstallOutcomes :
        LET tc == ws[Dir].toolchain
            r == SetupConan(cfg, tc, a1, a2, a3, out)
            q == ConanAsked(cfg, tc, a1, a2)
        IN /\ cfg' = [cfg EXCEPT !.useConan = r.use, !.toolchain = r.toolchain]
           /\ ws' = [ws EXCEPT ![Dir].toolchain = r.tc]
           /\ cancelled' = (cancelled \/ (q[1] /\ a1 = "cancel")
                                      \/ (q[2] /\ a2 = "cancel")
                                      \/ (q[3] /\ a3 = "cancel"))
  BY DEF Conan
<1>. DEFINE tc == ws[Dir].toolchain
            r == SetupConan(cfg, tc, a1, a2, a3, out)
<1>3. Dir \in BuildTypes /\ tc \in BOOLEAN
  BY <1>1 DEF Dir, EarlyFieldsSet, Entry
<1>4. r.tc \in BOOLEAN
  BY <1>1, <1>3, SetupConanSound
<1>5. pc' = "cmake" /\ runs' = runs
  BY DEF Conan
<1>6. RunPhase' = "running" /\ Dir' = Dir
      /\ (cfg.clean \/ cfg.interactive)' = (cfg.clean \/ cfg.interactive)
  BY <1>1, <1>2, <1>5 DEF RunPhase, Dir, CfgRec
<1>. QED
  BY <1>1, <1>2, <1>3, <1>4, <1>5, <1>6 DEF WS!Provision

\* CMakeBuilder.configure and cmake: a write of the workspace's cache
\* (stamped with this run unless unchanged), the rmtree of a clean that --clean or the user
\* asked for, or a failure that writes nothing.
LEMMA CMakeStep ==
    ASSUME Inv, CMake
    PROVE  [WS!Next]_WS!wvars
<1>1. /\ cfg \in CfgRec /\ path \in SUBSET Tools /\ host \in HostRec
      /\ ws \in [BuildTypes -> Entry] /\ runs \in 0..MaxRuns
      /\ EarlyFieldsSet(cfg) /\ cfg.compiler \in RealCompilers
      /\ cfg.buildSystem \in GenNames
      /\ pc = "cmake" /\ RunPhase = "running"
  BY DEF Inv, IInv, TypeOK, Stages, CMake, AfterBuildType, AfterCompiler,
         AfterBuildSystem, EarlyFieldsSet, RunPhase
<1>2. PICK ans \in YesNo, fails \in BOOLEAN :
        LET e == ws[Dir]
            conanBranch == cfg.useConan = TRUE /\ cfg.toolchain
            askClean == ~conanBranch /\ cfg.interactive
                        /\ e.configured /\ e.gen # cfg.buildSystem
            clean == ~conanBranch /\ (cfg.clean \/ (askClean /\ Answer(ans, TRUE)))
            base == IF clean THEN EmptyDir ELSE e
            r == RunCMake(host, path, cfg, base, conanBranch, fails)
        IN /\ ws' = [ws EXCEPT ![Dir] = r.entry]
           /\ pc' = IF r.why = None THEN "done" ELSE "failed"
  BY DEF CMake
<1>3. UNCHANGED <<cfg, runs>>
  BY DEF CMake
<1>. DEFINE e == ws[Dir]
            conanBranch == cfg.useConan = TRUE /\ cfg.toolchain
            askClean == ~conanBranch /\ cfg.interactive
                        /\ e.configured /\ e.gen # cfg.buildSystem
            clean == ~conanBranch /\ (cfg.clean \/ (askClean /\ Answer(ans, TRUE)))
            base == IF clean THEN EmptyDir ELSE e
            r == RunCMake(host, path, cfg, base, conanBranch, fails)
<1>4. Dir \in BuildTypes /\ e \in Entry /\ EmptyDir \in Entry
  <2>1. Dir \in BuildTypes
    BY <1>1 DEF Dir, EarlyFieldsSet
  <2>2. EmptyDir \in Entry
    BY ConstantsAssumption DEF EmptyDir, Entry, CxxPaths
  <2>. QED
    BY <1>1, <2>1, <2>2
<1>5. conanBranch \in BOOLEAN
  BY <1>1, Zenon DEF CfgRec
<1>6. base \in Entry
  BY <1>4, Zenon
<1>7. r.entry \in Entry
  <2>1. /\ cfg.coreOnly \in BOOLEAN /\ cfg.tests \in BOOLEAN /\ cfg.examples \in BOOLEAN
    BY <1>1 DEF EarlyFieldsSet
  <2>2. RunOK(r, base, conanBranch)
    BY <1>1, <1>5, <1>6, <2>1, RunCMakeType
  <2>. QED
    BY <2>2 DEF RunOK
<1>8. \/ r.entry = base /\ r.why # None
      \/ /\ r.entry.configured /\ (r.entry.stamp = runs \/ r.entry = base)
         /\ r.entry.toolchain = base.toolchain
         /\ base.configured => r.entry.gen = base.gen
  \* cmake fails before it writes, or writes beside the toolchain file that
  \* was there and with the generator already cached (it refuses another);
  \* an unchanged cache keeps its file and its stamp.
  <2>1. CMakeWrote(r, cfg, base, conanBranch)
    BY RunCMakeWrites
  <2>. QED
    BY <2>1 DEF CMakeWrote
<1>9. /\ Dir' = Dir /\ runs' = runs
      /\ (cfg.clean \/ cfg.interactive)' = (cfg.clean \/ cfg.interactive)
  BY <1>3 DEF Dir
<1>10. RunPhase' = pc' /\ pc' \in {"done", "failed"}
  BY <1>2 DEF RunPhase
<1>11. CASE /\ r.entry.configured /\ (r.entry.stamp = runs \/ r.entry = base)
            /\ r.entry.toolchain = base.toolchain
            /\ base.configured => r.entry.gen = base.gen
  \* Without a clean, cmake starts from the workspace as it is.
  <2>1. ~clean => base = e
    OBVIOUS
  \* A clean starts from an empty directory, which an unchanged write
  \* cannot leave configured.
  <2>0. r.entry.stamp = runs \/ r.entry = e
    <3>1. clean => ~base.configured
      BY DEF EmptyDir
    <3>. QED
      BY <1>11, <2>1, <3>1
  <2>2. clean => cfg.clean \/ cfg.interactive
    BY Zenon
  <2>3. e.configured /\ r.entry.gen # e.gen => cfg.clean \/ cfg.interactive
    BY <1>11, <2>1, <2>2
  <2>4. r.entry.toolchain # e.toolchain => cfg.clean \/ cfg.interactive
    BY <1>11, <2>1, <2>2
  <2>5. WS!Write
    BY <1>1, <1>2, <1>4, <1>7, <1>9, <1>10, <1>11, <2>0, <2>3, <2>4 DEF WS!Write
  <2>. QED
    BY <2>5 DEF WS!Next
<1>12. CASE r.entry = base /\ r.why # None
  <2>1. pc' = "failed" /\ RunPhase' = "failed"
    BY <1>2, <1>10, <1>12
  <2>2. CASE clean
    <3>1. ws' = [ws EXCEPT ![Dir] = EmptyDir]
      BY <1>2, <1>12, <2>2
    <3>2. cfg.clean \/ cfg.interactive
      BY <2>2, Zenon
    <3>3. WS!Clean
      BY <1>1, <1>4, <1>9, <2>1, <3>1, <3>2 DEF WS!Clean
    <3>. QED
      BY <3>3 DEF WS!Next
  <2>3. CASE ~clean
    <3>1. ws' = ws
      BY <1>1, <1>2, <1>4, <1>12, <2>3
    <3>2. WS!Abort
      BY <1>1, <1>9, <2>1, <3>1 DEF WS!Abort
    <3>. QED
      BY <3>2 DEF WS!Next
  <2>. QED
    BY <2>2, <2>3
<1>. QED
  BY <1>8, <1>11, <1>12

\* Every step of main(), and stuttering, is a step of Workspaces or leaves
\* its variables alone.
LEMMA NextRefines ==
    ASSUME Inv, Inv', [Next]_vars
    PROVE  [WS!Next]_WS!wvars
<1>1. CASE \E a \in Args : Invoke(a)
  <2>1. PICK a \in Args : Invoke(a)
    BY <1>1
  <2>2. a \in ArgRec
    BY ConstantsAssumption
  <2>. QED
    BY <2>1, <2>2, InvokeStep DEF WS!Next
<1>2. CASE \/ Modules \/ TestsExamples
           \/ SelectCompiler \/ SetupCompilerStep
           \/ SelectBuildSystem \/ SetupBuildSystemStep
  BY <1>2, MiddleStep
<1>3. CASE BuildType
  BY <1>3, BuildTypeStep
<1>4. CASE Conan
  BY <1>4, ConanStep DEF WS!Next
<1>5. CASE CMake
  BY <1>5, CMakeStep
<1>6. CASE Finished \/ UNCHANGED vars
  BY <1>6 DEF Finished, vars, WS!wvars, RunPhase, Dir
<1>. QED
  BY <1>1, <1>2, <1>3, <1>4, <1>5, <1>6 DEF Next

-----------------------------------------------------------------------------
(* The theorem.                                                            *)

\* WorkspaceLifecycle: for any hosts, command lines and number of
\* invocations, configure.py touches only the workspace of the build type
\* it resolved, writes its cache only stamped with the current run, empties
\* it, switches its generator or drops its toolchain file only under
\* --clean or in an interactive run, and changes nothing
\* when a prompt is cancelled or a detection fails before cmake.
THEOREM WorkspaceRefinement == Spec => WorkspaceLifecycle
<1>1. Init => WS!Init
  <2> SUFFICES ASSUME Init PROVE WS!Init
    OBVIOUS
  <2>1. cfg.clean \/ cfg.interactive
    BY DEF Init
  <2>2. (cfg.clean \/ cfg.interactive) \in BOOLEAN
    BY <2>1, Zenon
  <2>. QED
    BY <2>2 DEF Init, WS!Init, RunPhase, Dir
<1>2. Init => Inv
  BY InitInv
<1>3. Inv /\ [Next]_vars => Inv'
  BY NextInv
<1>4. Inv /\ Inv' /\ [Next]_vars => [WS!Next]_WS!wvars
  BY NextRefines
<1>. QED
  BY <1>1, <1>2, <1>3, <1>4, PTL DEF Spec, WorkspaceLifecycle, WS!Spec
====
