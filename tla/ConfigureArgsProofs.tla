------------------------- MODULE ConfigureArgsProofs -------------------------
(***************************************************************************)
(* Proof that explicit command-line arguments persist: ExplicitArgsPersist *)
(* for every host set, command-line set and number of invocations.        *)
(***************************************************************************)
EXTENDS ConfigureProofs

\* After main() has applied the arguments, every field given on the command
\* line is in the BuildConfig: no prompt and no default overrides it.
ArgsInCfg ==
    pc # "idle" =>
        /\ args.type # None => cfg.buildType = args.type
        /\ args.tests # None => cfg.tests = args.tests
        /\ args.examples # None => cfg.examples = args.examples
        /\ args.coreOnly => cfg.coreOnly = TRUE

\* A completed run's workspace holds the module flags of its BuildConfig.
DoneRecorded ==
    pc = "done" =>
        /\ ws[Dir].tests = cfg.tests
        /\ ws[Dir].examples = cfg.examples
        /\ ws[Dir].coreOnly = cfg.coreOnly

\* The inductive invariant for ExplicitArgsPersist.
ArgsInv == Inv /\ ArgsInCfg /\ DoneRecorded

-----------------------------------------------------------------------------
(* Steps that leave the argument fields alone.                             *)

\* A step that keeps the arguments and the four BuildConfig fields they
\* set, and does not return to idle, keeps them in the BuildConfig.
LEMMA FieldsKept ==
    ASSUME ArgsInCfg, pc # "idle", pc' # "idle", args' = args,
           cfg'.buildType = cfg.buildType, cfg'.tests = cfg.tests,
           cfg'.examples = cfg.examples, cfg'.coreOnly = cfg.coreOnly
    PROVE  ArgsInCfg'
BY DEF ArgsInCfg

\* Only cmake's success reaches "done", so every other step that leaves
\* the workspaces alone either stays out of "done" or keeps it.
LEMMA NotDone ==
    ASSUME pc' # "done"
    PROVE  DoneRecorded'
BY DEF DoneRecorded

\* main() applies the arguments; the non-interactive defaults fill only
\* the fields still None.
LEMMA InvokeArgs ==
    ASSUME Inv, NEW a \in ArgRec, Invoke(a)
    PROVE  ArgsInCfg' /\ DoneRecorded'
<1>1. a \in ArgRec
  OBVIOUS
<1>. DEFINE c == ArgsConfig(a)
<1>2. /\ c.buildType = a.type /\ c.tests = a.tests /\ c.examples = a.examples
      /\ c.coreOnly = IF a.coreOnly THEN TRUE ELSE None
  BY DEF ArgsConfig
<1>. DEFINE d == NonInteractiveDefaults(c)
<1>3. /\ d.buildType = IF c.buildType = None THEN "Release" ELSE c.buildType
      /\ d.tests = IF c.tests = None THEN FALSE ELSE c.tests
      /\ d.examples = IF c.examples = None THEN FALSE ELSE c.examples
      /\ d.coreOnly = IF c.coreOnly = None THEN FALSE ELSE c.coreOnly
  BY DEF NonInteractiveDefaults, ArgsConfig
<1>4. /\ cfg' = (IF c.interactive THEN c ELSE d)
      /\ args' = a /\ pc' # "idle" /\ pc' # "done"
  BY DEF Invoke
<1>5. a.coreOnly => c.coreOnly = TRUE /\ d.coreOnly = TRUE
  BY <1>1, <1>2, <1>3, ConstantsAssumption DEF ArgRec
<1>6. ArgsInCfg'
  BY <1>2, <1>3, <1>4, <1>5 DEF ArgsInCfg
<1>. QED
  BY <1>4, <1>6, NotDone

\* select_modules_interactive asks only when --core-only was not given.
LEMMA ModulesArgs ==
    ASSUME Inv, ArgsInCfg, Modules
    PROVE  ArgsInCfg' /\ DoneRecorded'
<1>1. cfg \in CfgRec /\ None \notin BOOLEAN
  BY ConstantsAssumption DEF Inv, IInv, TypeOK
<1>2. CASE cfg.coreOnly # None
  BY <1>2 DEF Modules, ArgsInCfg, DoneRecorded
<1>3. CASE cfg.coreOnly = None
  <2>1. ~args.coreOnly
    BY <1>1, <1>3 DEF ArgsInCfg, Modules
  <2>2. PICK ans \in Menu :
          IF ans = "cancel" THEN Interrupted
          ELSE /\ cfg' = [cfg EXCEPT !.coreOnly = (ans = "1")]
               /\ pc' = "testsEx"
               /\ UNCHANGED <<host, ws, args, path, runs, ws0, cancelled, pick, why>>
    BY <1>3 DEF Modules
  <2>3. CASE ans = "cancel"
    BY <2>2, <2>3 DEF Interrupted, Modules, ArgsInCfg, DoneRecorded
  <2>4. CASE ans # "cancel"
    <3>1. cfg' = [cfg EXCEPT !.coreOnly = (ans = "1")] /\ pc' = "testsEx" /\ args' = args
      BY <2>2, <2>4
    <3>2. /\ cfg'.buildType = cfg.buildType /\ cfg'.tests = cfg.tests
          /\ cfg'.examples = cfg.examples
      BY <1>1, <3>1 DEF CfgRec
    <3>. QED
      BY <2>1, <3>1, <3>2 DEF Modules, ArgsInCfg, DoneRecorded
  <2>. QED
    BY <2>3, <2>4
<1>. QED
  BY <1>2, <1>3

\* select_tests_and_examples_interactive asks only for a flag not given.
LEMMA TestsExamplesArgs ==
    ASSUME Inv, ArgsInCfg, TestsExamples
    PROVE  ArgsInCfg' /\ DoneRecorded'
<1>1. cfg \in CfgRec
  BY DEF Inv, IInv, TypeOK
<1>2. PICK a1, a2 \in YesNo :
        cfg' = [cfg EXCEPT !.tests = AskFlag(cfg.tests, a1, FALSE),
                           !.examples = AskFlag(cfg.examples, a2, FALSE)]
  BY DEF TestsExamples
<1>3. /\ cfg'.buildType = cfg.buildType /\ cfg'.coreOnly = cfg.coreOnly
      /\ (cfg.tests # None => cfg'.tests = cfg.tests)
      /\ (cfg.examples # None => cfg'.examples = cfg.examples)
  BY <1>1, <1>2 DEF CfgRec, AskFlag
<1>. QED
  BY <1>3 DEF TestsExamples, ArgsInCfg, DoneRecorded

\* select_build_type_interactive asks only when --type was not given.
LEMMA BuildTypeArgs ==
    ASSUME Inv, ArgsInCfg, BuildType
    PROVE  ArgsInCfg' /\ DoneRecorded'
<1>1. cfg \in CfgRec
  BY DEF Inv, IInv, TypeOK
<1>2. CASE cfg.buildType # None
  BY <1>2 DEF BuildType, ArgsInCfg, DoneRecorded
<1>3. CASE cfg.buildType = None
  <2>1. args.type = None
    BY <1>3 DEF ArgsInCfg, BuildType
  <2>2. PICK ans \in Menu :
          IF ans = "cancel" THEN Interrupted
          ELSE /\ cfg' = [cfg EXCEPT !.buildType = BuildTypeOf(ans)]
               /\ pc' = "selectCompiler"
               /\ UNCHANGED <<host, ws, args, path, runs, ws0, cancelled, pick, why>>
    BY <1>3 DEF BuildType
  <2>3. CASE ans = "cancel"
    BY <2>2, <2>3 DEF Interrupted, BuildType, ArgsInCfg, DoneRecorded
  <2>4. CASE ans # "cancel"
    <3>1. cfg' = [cfg EXCEPT !.buildType = BuildTypeOf(ans)] /\ pc' = "selectCompiler"
          /\ args' = args
      BY <2>2, <2>4
    <3>2. /\ cfg'.tests = cfg.tests /\ cfg'.examples = cfg.examples
          /\ cfg'.coreOnly = cfg.coreOnly
      BY <1>1, <3>1 DEF CfgRec
    <3>. QED
      BY <2>1, <3>1, <3>2 DEF BuildType, ArgsInCfg, DoneRecorded
  <2>. QED
    BY <2>3, <2>4
<1>. QED
  BY <1>2, <1>3

\* Compiler and build-system resolution, the MSVC bootstrap and
\* setup_conan change other BuildConfig fields only.
LEMMA SelectCompilerArgs ==
    ASSUME Inv, ArgsInCfg, SelectCompiler
    PROVE  ArgsInCfg' /\ DoneRecorded'
<1>1. cfg \in CfgRec
  BY DEF Inv, IInv, TypeOK
<1>2. /\ cfg'.buildType = cfg.buildType /\ cfg'.tests = cfg.tests
      /\ cfg'.examples = cfg.examples /\ cfg'.coreOnly = cfg.coreOnly
      /\ args' = args /\ pc' \in {"setupCompiler", "failed"}
  BY <1>1 DEF SelectCompiler, Interrupted, CfgRec
<1>. QED
  BY <1>2, FieldsKept, NotDone DEF SelectCompiler

LEMMA SetupCompilerStepArgs ==
    ASSUME Inv, ArgsInCfg, SetupCompilerStep
    PROVE  ArgsInCfg' /\ DoneRecorded'
<1>1. cfg \in CfgRec
  BY DEF Inv, IInv, TypeOK
<1>2. /\ cfg'.buildType = cfg.buildType /\ cfg'.tests = cfg.tests
      /\ cfg'.examples = cfg.examples /\ cfg'.coreOnly = cfg.coreOnly
      /\ args' = args /\ pc' \in {"selectBuildSystem", "setupBuildSystem", "failed"}
  BY <1>1 DEF SetupCompilerStep, Interrupted, CfgRec
<1>. QED
  BY <1>2, FieldsKept, NotDone DEF SetupCompilerStep

LEMMA SelectBuildSystemArgs ==
    ASSUME Inv, ArgsInCfg, SelectBuildSystem
    PROVE  ArgsInCfg' /\ DoneRecorded'
<1>1. cfg \in CfgRec
  BY DEF Inv, IInv, TypeOK
<1>2. /\ cfg'.buildType = cfg.buildType /\ cfg'.tests = cfg.tests
      /\ cfg'.examples = cfg.examples /\ cfg'.coreOnly = cfg.coreOnly
      /\ args' = args /\ pc' \in {"setupBuildSystem", "failed"}
  BY <1>1 DEF SelectBuildSystem, Interrupted, CfgRec
<1>. QED
  BY <1>2, FieldsKept, NotDone DEF SelectBuildSystem

LEMMA SetupBuildSystemStepArgs ==
    ASSUME Inv, ArgsInCfg, SetupBuildSystemStep
    PROVE  ArgsInCfg' /\ DoneRecorded'
<1>1. cfg \in CfgRec
  BY DEF Inv, IInv, TypeOK
<1>2. /\ cfg'.buildType = cfg.buildType /\ cfg'.tests = cfg.tests
      /\ cfg'.examples = cfg.examples /\ cfg'.coreOnly = cfg.coreOnly
      /\ args' = args /\ pc' \in {"conan", "failed"}
  BY <1>1 DEF SetupBuildSystemStep, Interrupted, CfgRec
<1>. QED
  BY <1>2, FieldsKept, NotDone DEF SetupBuildSystemStep

LEMMA ConanArgs ==
    ASSUME Inv, ArgsInCfg, Conan
    PROVE  ArgsInCfg' /\ DoneRecorded'
<1>1. cfg \in CfgRec
  BY DEF Inv, IInv, TypeOK
<1>2. /\ cfg'.buildType = cfg.buildType /\ cfg'.tests = cfg.tests
      /\ cfg'.examples = cfg.examples /\ cfg'.coreOnly = cfg.coreOnly
      /\ args' = args /\ pc' = "cmake"
  BY <1>1 DEF Conan, CfgRec
<1>. QED
  BY <1>2, FieldsKept, NotDone DEF Conan

\* cmake succeeds only after writing the BuildConfig's module flags into
\* the workspace's CMakeCache.txt.
LEMMA CMakeArgs ==
    ASSUME Inv, ArgsInCfg, CMake
    PROVE  ArgsInCfg' /\ DoneRecorded'
<1>1. /\ ws \in [BuildTypes -> Entry] /\ Dir \in BuildTypes
  BY DEF Inv, IInv, TypeOK, Stages, CMake, AfterBuildType, Dir
<1>2. ArgsInCfg'
  BY DEF CMake, ArgsInCfg
<1>3. PICK ans \in YesNo, fails \in BOOLEAN :
        LET e == ws[Dir]
            conanBranch == cfg.useConan = TRUE /\ cfg.toolchain
            askClean == ~conanBranch /\ cfg.interactive
                        /\ e.configured /\ e.gen # cfg.buildSystem
            clean == ~conanBranch /\ (cfg.clean \/ (askClean /\ Answer(ans, TRUE)))
            base == IF clean THEN EmptyDir ELSE e
            r == RunCMake(host, path, cfg, base, conanBranch, fails)
        IN /\ ws' = [ws EXCEPT ![Dir] = r.entry]
           /\ pc' = IF r.why = None THEN "done" ELSE "failed"
  BY DEF CMake
<1>. DEFINE e == ws[Dir]
            conanBranch == cfg.useConan = TRUE /\ cfg.toolchain
            askClean == ~conanBranch /\ cfg.interactive
                        /\ e.configured /\ e.gen # cfg.buildSystem
            clean == ~conanBranch /\ (cfg.clean \/ (askClean /\ Answer(ans, TRUE)))
            base == IF clean THEN EmptyDir ELSE e
            r == RunCMake(host, path, cfg, base, conanBranch, fails)
<1>4. r.why = None => /\ r.entry.tests = cfg.tests /\ r.entry.examples = cfg.examples
                      /\ r.entry.coreOnly = cfg.coreOnly
  <2>1. CMakeWrote(r, cfg, base, conanBranch)
    BY RunCMakeWrites
  <2>. QED
    BY <2>1 DEF CMakeWrote
<1>5. cfg' = cfg /\ Dir' = Dir
  BY DEF CMake, Dir
<1>6. DoneRecorded'
  BY <1>1, <1>3, <1>4, <1>5 DEF DoneRecorded
<1>. QED
  BY <1>2, <1>6

\* Every step keeps the arguments in the BuildConfig and a completed
\* run's flags in its workspace.
LEMMA NextArgs ==
    ArgsInv /\ [Next]_vars => ArgsInCfg' /\ DoneRecorded'
<1> SUFFICES ASSUME ArgsInv, [Next]_vars PROVE ArgsInCfg' /\ DoneRecorded'
  OBVIOUS
<1>. USE DEF ArgsInv
<1>1. CASE \E a \in Args : Invoke(a)
  BY <1>1, InvokeArgs, ConstantsAssumption
<1>2. CASE Modules
  BY <1>2, ModulesArgs
<1>3. CASE TestsExamples
  BY <1>3, TestsExamplesArgs
<1>4. CASE BuildType
  BY <1>4, BuildTypeArgs
<1>5. CASE SelectCompiler
  BY <1>5, SelectCompilerArgs
<1>6. CASE SetupCompilerStep
  BY <1>6, SetupCompilerStepArgs
<1>7. CASE SelectBuildSystem
  BY <1>7, SelectBuildSystemArgs
<1>8. CASE SetupBuildSystemStep
  BY <1>8, SetupBuildSystemStepArgs
<1>9. CASE Conan
  BY <1>9, ConanArgs
<1>10. CASE CMake
  BY <1>10, CMakeArgs
<1>11. CASE Finished \/ UNCHANGED vars
  BY <1>11 DEF Finished, vars, ArgsInCfg, DoneRecorded, Dir
<1>. QED
  BY <1>1, <1>2, <1>3, <1>4, <1>5, <1>6, <1>7, <1>8, <1>9, <1>10, <1>11 DEF Next

-----------------------------------------------------------------------------
(* Generators.                                                             *)

\* The generators CMake instantiates on some platform: what a configured
\* CMakeCache.txt can name.
KnownGens == {"Ninja", "Unix Makefiles", "Visual Studio 17 2022", "Visual Studio 16 2019"}

\* Every configured workspace names a generator CMake accepts; a
\* --build-system naming one stays in the BuildConfig (setup_build_system
\* normalises it to itself); a completed run's workspace records the
\* BuildConfig's generator.
GenRecorded ==
    /\ \A b \in BuildTypes : ws[b].configured => ws[b].gen \in KnownGens
    /\ pc # "idle" /\ args.buildSystem \in KnownGens => cfg.buildSystem = args.buildSystem
    /\ pc = "done" => ws[Dir].gen = cfg.buildSystem

LEMMA KnownGensFacts ==
    /\ ValidGenerators \subseteq KnownGens
    /\ KnownGens \subseteq GenNames
    /\ None \notin KnownGens
BY ConstantsAssumption DEF ValidGenerators, KnownGens, GenNames

\* setup_build_system leaves a generator CMake accepts as it is, whether or
\* not its tool is found.
LEMMA ValidateKeepsKnown ==
    ASSUME NEW h, NEW p, NEW g \in KnownGens
    PROVE  ValidateBuildSystem(h, p, g).bs = g
BY DEF ValidateBuildSystem, Lower, KnownGens, GenNames

\* A step inside main() that leaves the workspaces, the arguments and the
\* generator alone, and does not complete the run.
LEMMA GenKept ==
    ASSUME GenRecorded, pc # "idle", pc' \notin {"idle", "done"},
           ws' = ws, args' = args, cfg'.buildSystem = cfg.buildSystem
    PROVE  GenRecorded'
BY DEF GenRecorded

\* main() puts --build-system into the BuildConfig as given.
LEMMA InvokeGen ==
    ASSUME GenRecorded, NEW a \in ArgRec, Invoke(a)
    PROVE  GenRecorded'
<1>1. /\ cfg'.buildSystem = a.buildSystem /\ args' = a /\ ws' = ws
      /\ pc' \notin {"idle", "done"}
  BY DEF Invoke, ArgsConfig, NonInteractiveDefaults
<1>. QED
  BY <1>1 DEF GenRecorded

\* The steps before the build-system menu.
LEMMA EarlyGen ==
    ASSUME Inv, GenRecorded,
           \/ Modules \/ TestsExamples \/ BuildType
           \/ SelectCompiler \/ SetupCompilerStep
    PROVE  GenRecorded'
<1>1. cfg \in CfgRec
  BY DEF Inv, IInv, TypeOK
<1>2. /\ pc # "idle" /\ pc' \notin {"idle", "done"}
      /\ ws' = ws /\ args' = args /\ cfg'.buildSystem = cfg.buildSystem
  BY <1>1 DEF Modules, TestsExamples, BuildType, SelectCompiler, SetupCompilerStep,
              Interrupted, CfgRec
<1>. QED
  BY <1>2, GenKept

\* The build-system menu is shown only when --build-system was not given.
LEMMA SelectBuildSystemGen ==
    ASSUME Inv, GenRecorded, SelectBuildSystem
    PROVE  GenRecorded'
<1>1. cfg \in CfgRec /\ pc = "selectBuildSystem"
  BY DEF Inv, IInv, TypeOK, SelectBuildSystem
<1>2. /\ pc' \notin {"idle", "done"} /\ ws' = ws /\ args' = args
  BY <1>1 DEF SelectBuildSystem, Interrupted
<1>3. CASE cfg.buildSystem # None
  <2>1. cfg' = cfg
    BY <1>3 DEF SelectBuildSystem
  <2>. QED
    BY <1>1, <1>2, <2>1, GenKept
<1>4. CASE cfg.buildSystem = None
  <2>1. args.buildSystem \notin KnownGens
    BY <1>1, <1>4, KnownGensFacts DEF GenRecorded
  <2>. QED
    BY <1>2, <2>1 DEF GenRecorded
<1>. QED
  BY <1>3, <1>4

\* setup_build_system normalises a given generator to itself.
LEMMA SetupBuildSystemStepGen ==
    ASSUME Inv, GenRecorded, SetupBuildSystemStep
    PROVE  GenRecorded'
<1>1. cfg \in CfgRec /\ pc = "setupBuildSystem"
  BY DEF Inv, IInv, TypeOK, SetupBuildSystemStep
<1>2. /\ pc' \notin {"idle", "done"} /\ ws' = ws /\ args' = args
  BY <1>1 DEF SetupBuildSystemStep, Interrupted
<1>3. CASE args.buildSystem \in KnownGens
  <2>1. cfg.buildSystem = args.buildSystem /\ cfg.buildSystem # None
    BY <1>1, <1>3, KnownGensFacts DEF GenRecorded
  <2>2. \A ans \in Menu :
          SetupBuildSystem(host, path, cfg.buildSystem, cfg.interactive, ans).bs
            = cfg.buildSystem
    BY <1>3, <2>1, ValidateKeepsKnown DEF SetupBuildSystem
  <2>3. cfg'.buildSystem = cfg.buildSystem
    BY <1>1, <2>2 DEF SetupBuildSystemStep, Interrupted, CfgRec
  <2>. QED
    BY <1>1, <1>2, <2>3, GenKept
<1>4. CASE args.buildSystem \notin KnownGens
  BY <1>2, <1>4 DEF GenRecorded
<1>. QED
  BY <1>3, <1>4

\* setup_conan touches only the toolchain file.
LEMMA ConanGen ==
    ASSUME Inv, GenRecorded, Conan
    PROVE  GenRecorded'
<1>1. /\ cfg \in CfgRec /\ ws \in [BuildTypes -> Entry] /\ Dir \in BuildTypes
  BY DEF Inv, IInv, TypeOK, Stages, Conan, AfterBuildType, Dir
<1>2. PICK a1, a2, a3 \in YesNo, out \in InstallOutcomes :
        LET tc == ws[Dir].toolchain
            r == SetupConan(cfg, tc, a1, a2, a3, out)
            q == ConanAsked(cfg, tc, a1, a2)
        IN /\ cfg' = [cfg EXCEPT !.useConan = r.use, !.toolchain = r.toolchain]
           /\ ws' = [ws EXCEPT ![Dir].toolchain = r.tc]
           /\ cancelled' = (cancelled \/ (q[1] /\ a1 = "cancel")
                                      \/ (q[2] /\ a2 = "cancel")
                                      \/ (q[3] /\ a3 = "cancel"))
  BY DEF Conan
<1>3. \A b \in BuildTypes : ws'[b].configured = ws[b].configured /\ ws'[b].gen = ws[b].gen
  BY <1>1, <1>2 DEF Entry
<1>4. cfg'.buildSystem = cfg.buildSystem
  BY <1>1 DEF Conan, CfgRec
<1>5. pc # "idle" /\ pc' = "cmake" /\ args' = args
  BY DEF Conan
<1>. QED
  BY <1>3, <1>4, <1>5 DEF GenRecorded

\* cmake writes a CMakeCache.txt only for a generator it accepts, and a
\* successful run writes the BuildConfig's.
LEMMA CMakeGen ==
    ASSUME Inv, GenRecorded, CMake
    PROVE  GenRecorded'
<1>1. /\ ws \in [BuildTypes -> Entry] /\ Dir \in BuildTypes
  BY DEF Inv, IInv, TypeOK, Stages, CMake, AfterBuildType, Dir
<1>2. PICK ans \in YesNo, fails \in BOOLEAN :
        LET e == ws[Dir]
            conanBranch == cfg.useConan = TRUE /\ cfg.toolchain
            askClean == ~conanBranch /\ cfg.interactive
                        /\ e.configured /\ e.gen # cfg.buildSystem
            clean == ~conanBranch /\ (cfg.clean \/ (askClean /\ Answer(ans, TRUE)))
            base == IF clean THEN EmptyDir ELSE e
            r == RunCMake(host, path, cfg, base, conanBranch, fails)
        IN /\ ws' = [ws EXCEPT ![Dir] = r.entry]
           /\ pc' = IF r.why = None THEN "done" ELSE "failed"
  BY DEF CMake
<1>. DEFINE e == ws[Dir]
            conanBranch == cfg.useConan = TRUE /\ cfg.toolchain
            askClean == ~conanBranch /\ cfg.interactive
                        /\ e.configured /\ e.gen # cfg.buildSystem
            clean == ~conanBranch /\ (cfg.clean \/ (askClean /\ Answer(ans, TRUE)))
            base == IF clean THEN EmptyDir ELSE e
            r == RunCMake(host, path, cfg, base, conanBranch, fails)
<1>3. base.configured => base.gen \in KnownGens
  BY <1>1 DEF GenRecorded, EmptyDir
<1>4. r.entry.configured => r.entry.gen \in KnownGens
  BY <1>3, KnownGensFacts DEF RunCMake
<1>5. r.why = None => r.entry.gen = cfg.buildSystem
  <2>1. CMakeWrote(r, cfg, base, conanBranch)
    BY RunCMakeWrites
  <2>. QED
    BY <2>1 DEF CMakeWrote
<1>6. cfg' = cfg /\ Dir' = Dir /\ args' = args
  BY DEF CMake, Dir
<1>7. \A b \in BuildTypes : ws'[b].configured => ws'[b].gen \in KnownGens
  BY <1>1, <1>2, <1>4 DEF GenRecorded
<1>8. pc' = "done" => ws'[Dir'].gen = cfg'.buildSystem
  BY <1>1, <1>2, <1>5, <1>6
<1>9. pc' # "idle" /\ args'.buildSystem \in KnownGens => cfg'.buildSystem = args'.buildSystem
  <2>1. pc = "cmake"
    BY DEF CMake
  <2>. QED
    BY <1>6, <2>1 DEF GenRecorded
<1>. QED
  BY <1>7, <1>8, <1>9 DEF GenRecorded

\* No workspace is configured before the first run.
LEMMA GenInit ==
    Init => GenRecorded
BY DEF Init, GenRecorded, EmptyDir

\* Every step keeps GenRecorded.
LEMMA NextGen ==
    Inv /\ GenRecorded /\ [Next]_vars => GenRecorded'
<1> SUFFICES ASSUME Inv, GenRecorded, [Next]_vars PROVE GenRecorded'
  OBVIOUS
<1>1. CASE \E a \in Args : Invoke(a)
  BY <1>1, InvokeGen, ConstantsAssumption
<1>2. CASE Modules \/ TestsExamples \/ BuildType \/ SelectCompiler \/ SetupCompilerStep
  BY <1>2, EarlyGen
<1>3. CASE SelectBuildSystem
  BY <1>3, SelectBuildSystemGen
<1>4. CASE SetupBuildSystemStep
  BY <1>4, SetupBuildSystemStepGen
<1>5. CASE Conan
  BY <1>5, ConanGen
<1>6. CASE CMake
  BY <1>6, CMakeGen
<1>7. CASE Finished \/ UNCHANGED vars
  BY <1>7 DEF Finished, vars, GenRecorded, Dir
<1>. QED
  BY <1>1, <1>2, <1>3, <1>4, <1>5, <1>6, <1>7 DEF Next

-----------------------------------------------------------------------------
\* ExplicitArgsPersist: a configure.py run that completes has configured
\* the workspace of the --type it was given, with the --build-tests,
\* --build-examples and --core-only values it was given, whatever the
\* prompts were answered and whatever an earlier run left in the cache.
THEOREM ExplicitArgsPersistence == Spec => []ExplicitArgsPersist
<1>1. Init => ArgsInv
  BY InitInv DEF Init, ArgsInv, ArgsInCfg, DoneRecorded
<1>2. ArgsInv /\ [Next]_vars => ArgsInv'
  BY NextInv, NextArgs DEF ArgsInv
<1>3. ArgsInv => ExplicitArgsPersist
  BY Zenon DEF ArgsInv, ArgsInCfg, DoneRecorded, ExplicitArgsPersist, Dir
<1>. QED
  BY <1>1, <1>2, <1>3, PTL DEF Spec
=============================================================================
