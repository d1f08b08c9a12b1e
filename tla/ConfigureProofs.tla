--------------------------- MODULE ConfigureProofs ---------------------------
(* Proofs about Configure for every host, command line and MaxRuns: the    *)
(* type invariant, through an invariant that says which BuildConfig fields *)
(* main() has resolved at each stage, and ConanConsistent.                 *)
EXTENDS Configure, TLAPS

\* Compiler names setup_compiler leaves in BuildConfig.compiler on success.
RealCompilers == {"gcc", "clang", "clang-cl", "msvc"}

\* The stages of main() after the build type, the compiler and the build
\* system have been resolved.
AfterBuildType == {"selectCompiler", "setupCompiler", "selectBuildSystem",
                   "setupBuildSystem", "conan", "cmake"}
AfterCompiler == {"selectBuildSystem", "setupBuildSystem", "conan", "cmake"}
AfterBuildSystem == {"conan", "cmake"}

\* Which BuildConfig fields are set at each stage of main().
Stages ==
    /\ pc \in {"testsEx", "buildType"} \cup AfterBuildType => cfg.coreOnly \in BOOLEAN
    /\ pc \in {"buildType"} \cup AfterBuildType =>
           cfg.tests \in BOOLEAN /\ cfg.examples \in BOOLEAN
    /\ pc \in AfterBuildType => cfg.buildType \in BuildTypes
    /\ pc \in AfterCompiler => cfg.compiler \in RealCompilers
    /\ pc \in AfterBuildSystem => cfg.buildSystem \in GenNames

\* The inductive invariant.
IInv == TypeOK /\ Stages

USE ConstantsAssumption

-----------------------------------------------------------------------------
(* What the probing and resolution helpers return.                        *)

\* detect_clang only ever adds clang-cl to PATH, and names a variant when
\* it finds a compiler.
LEMMA DetectClangType ==
    ASSUME NEW h \in HostRec, NEW p \in SUBSET Tools
    PROVE  /\ DetectClang(h, p).path \in SUBSET Tools
           /\ DetectClang(h, p).ok \in BOOLEAN
           /\ DetectClang(h, p).ok => DetectClang(h, p).variant \in {"clang", "clang-cl"}
BY DEF DetectClang, SetupClangClPath, Tools, HostRec

\* A compiler read back from a CMakeCache.txt is a real compiler or None.
LEMMA CachedCompilerType ==
    ASSUME NEW cxx \in CxxPaths
    PROVE  CachedCompiler(cxx) \in RealCompilers \cup {None}
BY DEF CachedCompiler, RealCompilers

\* detect_msvc answers yes or no.
LEMMA DetectMsvcType ==
    ASSUME NEW h \in HostRec, NEW p \in SUBSET Tools
    PROVE  DetectMsvc(h, p).ok \in BOOLEAN
<1>1. CASE OS # "windows"
  BY <1>1 DEF DetectMsvc
<1>2. CASE OS = "windows" /\ h.vs = "vswhere" /\ h.devScript # "missing"
  BY <1>2 DEF DetectMsvc
<1>3. CASE OS = "windows" /\ ~(h.vs = "vswhere" /\ h.devScript # "missing")
  <2>1. DetectMsvc(h, p).ok = ("cl" \in p)
    BY <1>3 DEF DetectMsvc
  <2>. QED
    BY <2>1
<1>. QED
  BY <1>1, <1>2, <1>3

\* The result of a compiler-resolution step is well formed when the step
\* succeeds with a real compiler and keeps PATH a set of tools.
ResOK(r) ==
    /\ r.path \in SUBSET Tools
    /\ r.st \in {"ok", "fail", "interrupted"}
    /\ r.st = "ok" => r.compiler \in RealCompilers
    /\ r.compiler \in CompilerNames \cup {None}

\* select_compiler_interactive.
LEMMA SelectCompilerType ==
    ASSUME NEW h \in HostRec, NEW p \in SUBSET Tools, NEW ans
    PROVE  ResOK(SelectCompilerInteractive(h, p, ans))
BY DetectClangType, DetectMsvcType
   DEF SelectCompilerInteractive, Res, ResOK, RealCompilers, CompilerNames

\* setup_compiler: on success a real compiler; PATH stays a set of tools.
LEMMA SetupCompilerType ==
    ASSUME NEW h \in HostRec, NEW p \in SUBSET Tools,
           NEW c \in CompilerNames \cup {None}, NEW e \in Entry,
           NEW i \in BOOLEAN, NEW ans
    PROVE  ResOK(SetupCompiler(h, p, c, e, i, ans))
<1>1. SetupClangClPath(h, p) \in SUBSET Tools
  BY DEF SetupClangClPath, Tools
<1>2. /\ DetectClang(h, p).path \in SUBSET Tools
      /\ DetectClang(h, p).ok \in BOOLEAN
      /\ DetectClang(h, p).ok => DetectClang(h, p).variant \in {"clang", "clang-cl"}
  BY DetectClangType
<1>3. /\ DetectClang(h, SetupClangClPath(h, p)).path \in SUBSET Tools
      /\ DetectClang(h, SetupClangClPath(h, p)).ok \in BOOLEAN
      /\ DetectClang(h, SetupClangClPath(h, p)).ok =>
            DetectClang(h, SetupClangClPath(h, p)).variant \in {"clang", "clang-cl"}
  BY <1>1, DetectClangType
<1>4. CachedCompiler(e.cxx) \in RealCompilers \cup {None}
  BY CachedCompilerType DEF Entry
<1>5. DetectMsvc(h, p).ok \in BOOLEAN
  BY DetectMsvcType
<1>6. ResOK(ValidateCompiler(h, p, c))
  BY <1>2, <1>3, <1>5 DEF ValidateCompiler, Res, ResOK, RealCompilers, CompilerNames
<1>7. ResOK(SelectCompilerInteractive(h, p, ans))
  BY SelectCompilerType
<1>8. ResOK(AutoDetectCompiler(h, p))
  BY <1>2, <1>5 DEF AutoDetectCompiler, Res, ResOK, RealCompilers, CompilerNames
<1>. QED
  BY <1>4, <1>6, <1>7, <1>8 DEF SetupCompiler, Res, ResOK, RealCompilers, CompilerNames

\* detect_msbuild names a generator exactly when it finds MSBuild.
LEMMA DetectMsbuildType ==
    ASSUME NEW h \in HostRec, NEW p \in SUBSET Tools
    PROVE  /\ DetectMsbuild(h, p).gen \in GenNames \cup {None}
           /\ DetectMsbuild(h, p).ok => DetectMsbuild(h, p).gen \in GenNames
BY DEF DetectMsbuild, DetectMsvc, GenNames, HostRec

\* select_build_system_interactive: a generator name on success, and the
\* menu's offer is a generator name.
LEMMA SelectBuildSystemType ==
    ASSUME NEW h \in HostRec, NEW p \in SUBSET Tools, NEW ans
    PROVE  LET r == SelectBuildSystemInteractive(h, p, ans) IN
           /\ r.st \in {"ok", "fail", "interrupted"}
           /\ r.st = "ok" => r.bs \in GenNames
           /\ r.bs \in GenNames \cup {None}
           /\ r.pick \in GenNames \cup {None}
BY DetectMsbuildType DEF SelectBuildSystemInteractive, GenNames

\* setup_build_system: on success a generator name.
LEMMA SetupBuildSystemType ==
    ASSUME NEW h \in HostRec, NEW p \in SUBSET Tools,
           NEW bs \in GenNames \cup {None}, NEW i \in BOOLEAN, NEW ans
    PROVE  LET r == SetupBuildSystem(h, p, bs, i, ans) IN
           /\ r.st \in {"ok", "fail", "interrupted"}
           /\ r.st = "ok" => r.bs \in GenNames
           /\ r.bs \in GenNames \cup {None}
<1>1. /\ DetectMsbuild(h, p).gen \in GenNames \cup {None}
      /\ DetectMsbuild(h, p).ok => DetectMsbuild(h, p).gen \in GenNames
  BY DetectMsbuildType
<1>2. ASSUME NEW b \in GenNames
      PROVE  /\ ValidateBuildSystem(h, p, b).st \in {"ok", "fail"}
             /\ ValidateBuildSystem(h, p, b).bs \in GenNames
  BY <1>1 DEF ValidateBuildSystem, GenNames
<1>3. LET r == SelectBuildSystemInteractive(h, p, ans) IN
      /\ r.st \in {"ok", "fail", "interrupted"}
      /\ r.st = "ok" => r.bs \in GenNames
      /\ r.bs \in GenNames \cup {None}
      /\ r.pick \in GenNames \cup {None}
  BY SelectBuildSystemType
<1>4. CASE bs # None
  BY <1>2, <1>4 DEF SetupBuildSystem
<1>5. CASE bs = None /\ i
  <2>. DEFINE s == SelectBuildSystemInteractive(h, p, ans)
  <2>1. CASE s.st = "ok"
    BY <1>2, <1>3, <1>5, <2>1 DEF SetupBuildSystem
  <2>2. CASE s.st # "ok"
    BY <1>3, <1>5, <2>2 DEF SetupBuildSystem
  <2>. QED
    BY <2>1, <2>2
<1>6. CASE bs = None /\ ~i
  BY <1>1, <1>6 DEF SetupBuildSystem, GenNames
<1>. QED
  BY <1>4, <1>5, <1>6

\* setup_msvc_environment only ever adds the developer tools to PATH.
LEMMA SetupMsvcEnvironmentType ==
    ASSUME NEW h \in HostRec, NEW p \in SUBSET Tools, NEW c
    PROVE  SetupMsvcEnvironment(h, p, c).path \in SUBSET Tools
BY DEF SetupMsvcEnvironment, HostRec, Tools

\* setup_conan: use_conan holds exactly when a toolchain is set, a
\* toolchain set exists in the workspace, and an existing one is kept.
LEMMA SetupConanSound ==
    ASSUME NEW c \in CfgRec, NEW tc \in BOOLEAN,
           NEW a1, NEW a2, NEW a3, NEW out
    PROVE  LET r == SetupConan(c, tc, a1, a2, a3, out) IN
           /\ r.use \in BOOLEAN /\ r.toolchain \in BOOLEAN /\ r.tc \in BOOLEAN
           /\ r.use = r.toolchain
           /\ r.toolchain => r.tc
           /\ tc => r.tc
BY Zenon DEF SetupConan, FailedInstall

\* What cmake leaves in the workspace entry base (result r, branch cb).
RunOK(r, base, cb) ==
    /\ r.entry \in Entry
    /\ r.why \in Failures
    /\ \/ r.entry = base
       \/ r.entry.useConan = cb /\ r.entry.toolchain = base.toolchain

\* cmake either leaves the entry as it was, or writes one whose
\* HELIOS_USE_CONAN is the branch taken and whose toolchain file is the
\* one that was there.
LEMMA RunCMakeType ==
    ASSUME NEW h \in HostRec, NEW p \in SUBSET Tools, NEW c \in CfgRec,
           c.compiler \in RealCompilers, c.buildSystem \in GenNames,
           c.coreOnly \in BOOLEAN, c.tests \in BOOLEAN, c.examples \in BOOLEAN,
           NEW base \in Entry, NEW cb \in BOOLEAN, NEW fails \in BOOLEAN,
           runs \in 0..MaxRuns
    PROVE  RunOK(RunCMake(h, p, c, base, cb, fails), base, cb)
<1>1. PathOfCxx[CxxName(c.compiler)] \in CxxPaths \/ c.compiler = "msvc"
  BY DEF PathOfCxx, CxxName, CxxPaths, RealCompilers
<1>2. DefaultCxx(h, p, c.buildSystem) \in CxxPaths
  BY DEF DefaultCxx, CxxPaths, NotFound
<1>. DEFINE pass == PassesCompiler(c, cb)
             cxx == IF pass THEN PathOfCxx[CxxName(c.compiler)]
                    ELSE IF base.configured /\ base.cxx # NotFound THEN base.cxx
                    ELSE DefaultCxx(h, p, c.buildSystem)
             written == [configured |-> TRUE, cxx |-> cxx, gen |-> c.buildSystem,
                         coreOnly |-> c.coreOnly, tests |-> c.tests,
                         examples |-> c.examples, useConan |-> cb,
                         toolchain |-> base.toolchain, stamp |-> runs]
<1>3. cxx \in CxxPaths
  BY <1>1, <1>2 DEF PassesCompiler, Entry
<1>4. written \in Entry
  BY <1>3 DEF Entry, GenNames
<1>5. /\ RunCMake(h, p, c, base, cb, fails).entry \in {base, written}
      /\ RunCMake(h, p, c, base, cb, fails).why \in Failures
  BY DEF RunCMake, Failures
<1>6. written.useConan = cb /\ written.toolchain = base.toolchain
  OBVIOUS
<1>. QED
  BY <1>4, <1>5, <1>6 DEF RunOK

\* What cmake leaves in the cache.  Before it writes it stops on an unknown
\* generator or on a generator mismatch, leaving the entry; otherwise it
\* writes the BuildConfig's generator and flags, stamped with the run
\* unless the content is unchanged (copy-if-different keeps the old file).
CMakeWrote(r, c, base, cb) ==
    /\ r.why \notin {None, "late"} => r.entry = base
    /\ r.why \in {None, "late"} =>
         /\ r.entry.configured /\ r.entry.gen = c.buildSystem
         /\ r.entry.coreOnly = c.coreOnly /\ r.entry.tests = c.tests
         /\ r.entry.examples = c.examples /\ r.entry.useConan = cb
         /\ r.entry.toolchain = base.toolchain
         /\ r.entry.stamp = runs \/ r.entry = base
         /\ base.configured => base.gen = c.buildSystem

LEMMA RunCMakeWrites ==
    ASSUME NEW h, NEW p, NEW c, NEW base, NEW cb, NEW fails
    PROVE  CMakeWrote(RunCMake(h, p, c, base, cb, fails), c, base, cb)
<1>. DEFINE pass == PassesCompiler(c, cb)
             cxx == IF pass THEN PathOfCxx[CxxName(c.compiler)]
                    ELSE IF base.configured /\ base.cxx # NotFound THEN base.cxx
                    ELSE DefaultCxx(h, p, c.buildSystem)
             content == [configured |-> TRUE, cxx |-> cxx, gen |-> c.buildSystem,
                         coreOnly |-> c.coreOnly, tests |-> c.tests,
                         examples |-> c.examples, useConan |-> cb,
                         toolchain |-> base.toolchain, stamp |-> base.stamp]
             written == IF content = base THEN base ELSE [content EXCEPT !.stamp = runs]
             r == RunCMake(h, p, c, base, cb, fails)
<1>1. /\ written.configured /\ written.gen = c.buildSystem
      /\ written.coreOnly = c.coreOnly /\ written.tests = c.tests
      /\ written.examples = c.examples /\ written.useConan = cb
      /\ written.toolchain = base.toolchain
      /\ written.stamp = runs \/ written = base
  <2>1. CASE content = base
    BY <2>1
  <2>2. CASE content # base
    BY <2>2
  <2>. QED
    BY <2>1, <2>2
<1>2. /\ r.why \notin {None, "late"} => r.entry = base
      /\ r.why \in {None, "late"} =>
            /\ r.entry = written
            /\ base.configured => base.gen = c.buildSystem
  BY ConstantsAssumption DEF RunCMake
<1>. QED
  BY <1>1, <1>2 DEF CMakeWrote

-----------------------------------------------------------------------------
(* The inductive invariant.                                                *)

Inv == IInv /\ ConanConsistent

\* No workspace exists before the first invocation.
LEMMA InitInv == Init => Inv
<1> SUFFICES ASSUME Init PROVE Inv
  OBVIOUS
<1>1. EmptyDir \in Entry
  BY DEF EmptyDir, Entry, CxxPaths
<1>2. (CHOOSE a \in Args : TRUE) \in ArgRec
  OBVIOUS
<1>3. host \in HostRec /\ path \in SUBSET Tools
  BY DEF Init, HostRec
<1>4. cfg \in CfgRec
  BY DEF Init, CfgRec
<1>5. ws \in [BuildTypes -> Entry] /\ ws0 \in [BuildTypes -> Entry]
  BY <1>1 DEF Init
<1>6. /\ pc \in Pcs /\ runs \in 0..MaxRuns
      /\ pick \in GenNames \cup {None} /\ why \in Failures
  BY DEF Init, Pcs, Failures
<1>9. args \in ArgRec
  BY <1>2 DEF Init
<1>10. cancelled \in BOOLEAN
  BY Zenon DEF Init
<1>8. TypeOK
  BY <1>3, <1>4, <1>5, <1>6, <1>9, <1>10 DEF TypeOK
<1>7. Stages /\ ConanConsistent
  BY DEF Init, Stages, ConanConsistent, EmptyDir, AfterBuildType,
         AfterCompiler, AfterBuildSystem
<1>. QED
  BY <1>8, <1>7 DEF Inv, IInv

\* The BuildConfig built from a command line is well typed, and in
\* non-interactive mode the defaults fill in every field the stages need.
LEMMA ArgsConfigType ==
    ASSUME NEW a \in ArgRec
    PROVE  /\ ArgsConfig(a) \in CfgRec
           /\ NonInteractiveDefaults(ArgsConfig(a)) \in CfgRec
           /\ ArgsConfig(a).interactive \in BOOLEAN
           /\ LET d == NonInteractiveDefaults(ArgsConfig(a)) IN
              /\ d.buildType \in BuildTypes
              /\ d.coreOnly \in BOOLEAN /\ d.tests \in BOOLEAN /\ d.examples \in BOOLEAN
<1>1. ArgsConfig(a) \in CfgRec
  BY DEF ArgsConfig, CfgRec, ArgRec
<1>2. ArgsConfig(a).interactive \in BOOLEAN
  BY Zenon DEF ArgsConfig, ArgRec
<1>. DEFINE c == ArgsConfig(a)
             d == NonInteractiveDefaults(c)
<1>5. d = [c EXCEPT !.buildType = IF c.buildType = None THEN "Release" ELSE c.buildType,
                    !.coreOnly = IF c.coreOnly = None THEN FALSE ELSE c.coreOnly,
                    !.tests = IF c.tests = None THEN FALSE ELSE c.tests,
                    !.examples = IF c.examples = None THEN FALSE ELSE c.examples]
  BY DEF NonInteractiveDefaults
<1>6. /\ c.buildType \in BuildTypes \cup {None}
      /\ c.coreOnly \in BOOLEAN \cup {None}
      /\ c.tests \in BOOLEAN \cup {None}
      /\ c.examples \in BOOLEAN \cup {None}
  BY <1>1 DEF CfgRec
<1>9. d.buildType = IF c.buildType = None THEN "Release" ELSE c.buildType
  BY <1>1, <1>5 DEF CfgRec
<1>7. d.buildType \in BuildTypes
  BY <1>6, <1>9 DEF BuildTypes
<1>8. d.coreOnly \in BOOLEAN /\ d.tests \in BOOLEAN /\ d.examples \in BOOLEAN
  BY <1>1, <1>5, <1>6 DEF CfgRec
<1>3. d \in CfgRec
  BY <1>1, <1>5, <1>7, <1>8 DEF CfgRec
<1>4. /\ d.buildType \in BuildTypes
      /\ d.coreOnly \in BOOLEAN /\ d.tests \in BOOLEAN /\ d.examples \in BOOLEAN
  BY <1>7, <1>8
<1>. QED
  BY <1>1, <1>2, <1>3, <1>4

\* Invoke: a fresh BuildConfig from the command line; the workspaces are
\* untouched and main() is not yet at cmake.
LEMMA InvokeInv ==
    ASSUME Inv, NEW a \in ArgRec, Invoke(a)
    PROVE  Inv'
<1>1. a \in ArgRec
  OBVIOUS
<1>2. host \in HostRec /\ ws \in [BuildTypes -> Entry] /\ runs \in 0..MaxRuns
  BY DEF Inv, IInv, TypeOK
<1>. DEFINE c == ArgsConfig(a)
<1>3. cfg' \in CfgRec
  BY <1>1, ArgsConfigType DEF Invoke
<1>4. path' \in SUBSET Tools
  BY <1>2 DEF Invoke, HostRec
<1>5. /\ pc' \in Pcs /\ args' \in ArgRec /\ runs' \in 0..MaxRuns
      /\ pick' \in GenNames \cup {None} /\ why' \in Failures
      /\ ws' \in [BuildTypes -> Entry] /\ ws0' \in [BuildTypes -> Entry]
      /\ host' \in HostRec
  BY <1>1, <1>2 DEF Invoke, Pcs, Failures
<1>6. cancelled' \in BOOLEAN
  BY Zenon DEF Invoke
<1>7. pc' \in {"failed", "modules", "setupCompiler"}
  BY <1>1, ArgsConfigType DEF Invoke
<1>8. pc' = "setupCompiler" => cfg' = NonInteractiveDefaults(c)
  BY <1>1, ArgsConfigType DEF Invoke
<1>9. Stages'
  BY <1>1, <1>7, <1>8, ArgsConfigType
     DEF Stages, AfterBuildType, AfterCompiler, AfterBuildSystem
<1>10. ConanConsistent'
  BY <1>7 DEF Invoke, ConanConsistent, Inv
<1>. QED
  BY <1>3, <1>4, <1>5, <1>6, <1>9, <1>10 DEF Inv, IInv, TypeOK

\* A step that leaves the workspaces, the command line and the counters
\* alone and does not reach cmake keeps their types and ConanConsistent.
LEMMA FrameInv ==
    ASSUME Inv, UNCHANGED <<host, ws, args, runs, ws0, why>>, pc' # "cmake"
    PROVE  /\ ConanConsistent'
           /\ host' \in HostRec /\ ws' \in [BuildTypes -> Entry]
           /\ args' \in ArgRec /\ runs' \in 0..MaxRuns
           /\ ws0' \in [BuildTypes -> Entry] /\ why' \in Failures
BY DEF Inv, IInv, TypeOK, ConanConsistent

\* Ctrl-C at an input() prompt: main() dies, nothing else changes.
LEMMA InterruptedInv ==
    ASSUME Inv, Interrupted
    PROVE  Inv'
<1>1. pc' = "failed" /\ UNCHANGED <<host, ws, args, cfg, path, runs, ws0, pick, why>>
  BY DEF Interrupted
<1>2. cancelled' \in BOOLEAN
  BY Zenon DEF Interrupted
<1>3. Stages'
  BY <1>1 DEF Stages, AfterBuildType, AfterCompiler, AfterBuildSystem
<1>. QED
  BY <1>1, <1>2, <1>3, FrameInv DEF Inv, IInv, TypeOK, Pcs

\* select_modules_interactive.
LEMMA ModulesInv ==
    ASSUME Inv, Modules
    PROVE  Inv'
<1>1. cfg \in CfgRec /\ path \in SUBSET Tools /\ cancelled \in BOOLEAN
      /\ pick \in GenNames \cup {None}
  BY DEF Inv, IInv, TypeOK
<1>2. CASE cfg.coreOnly # None
  <2>1. pc' = "testsEx" /\ UNCHANGED <<host, ws, args, cfg, path, runs, ws0, cancelled, pick, why>>
    BY <1>2 DEF Modules
  <2>2. cfg'.coreOnly \in BOOLEAN
    BY <1>1, <1>2, <2>1 DEF CfgRec
  <2>3. Stages'
    BY <2>1, <2>2 DEF Stages, AfterBuildType, AfterCompiler, AfterBuildSystem
  <2>. QED
    BY <1>1, <2>1, <2>3, FrameInv DEF Inv, IInv, TypeOK, Pcs
<1>3. CASE cfg.coreOnly = None
  <2>1. PICK ans \in Menu :
          IF ans = "cancel" THEN Interrupted
          ELSE /\ cfg' = [cfg EXCEPT !.coreOnly = (ans = "1")]
               /\ pc' = "testsEx"
               /\ UNCHANGED <<host, ws, args, path, runs, ws0, cancelled, pick, why>>
    BY <1>3 DEF Modules
  <2>2. CASE ans = "cancel"
    BY <2>1, <2>2, InterruptedInv
  <2>3. CASE ans # "cancel"
    <3>1. cfg' = [cfg EXCEPT !.coreOnly = (ans = "1")] /\ pc' = "testsEx"
          /\ UNCHANGED <<host, ws, args, path, runs, ws0, cancelled, pick, why>>
      BY <2>1, <2>3
    <3>2. cfg'.coreOnly = (ans = "1")
      BY <1>1, <3>1 DEF CfgRec
    <3>3. cfg'.coreOnly \in BOOLEAN
      BY <3>2, Zenon
    <3>4. cfg' \in CfgRec
      BY <1>1, <3>1, <3>3 DEF CfgRec
    <3>5. Stages'
      BY <3>1, <3>3 DEF Stages, AfterBuildType, AfterCompiler, AfterBuildSystem
    <3>. QED
      BY <1>1, <3>1, <3>4, <3>5, FrameInv DEF Inv, IInv, TypeOK, Pcs
  <2>. QED
    BY <2>2, <2>3
<1>. QED
  BY <1>2, <1>3

\* ask_yes_no for a flag: the given value or the answer, a Boolean.
LEMMA AskFlagType ==
    ASSUME NEW v \in BOOLEAN \cup {None}, NEW a, NEW d \in BOOLEAN
    PROVE  AskFlag(v, a, d) \in BOOLEAN
BY Zenon DEF AskFlag, Answer

\* select_tests_and_examples_interactive.
LEMMA TestsExamplesInv ==
    ASSUME Inv, TestsExamples
    PROVE  Inv'
<1>1. cfg \in CfgRec /\ path \in SUBSET Tools /\ pick \in GenNames \cup {None}
      /\ (pc = "testsEx" => cfg.coreOnly \in BOOLEAN)
  BY DEF Inv, IInv, TypeOK, Stages
<1>2. PICK a1, a2 \in YesNo :
        /\ cfg' = [cfg EXCEPT !.tests = AskFlag(cfg.tests, a1, FALSE),
                              !.examples = AskFlag(cfg.examples, a2, FALSE)]
        /\ cancelled' = (cancelled \/ (cfg.tests = None /\ a1 = "cancel")
                                   \/ (cfg.examples = None /\ a2 = "cancel"))
  BY DEF TestsExamples
<1>3. pc = "testsEx" /\ pc' = "buildType"
      /\ UNCHANGED <<host, ws, args, path, runs, ws0, pick, why>>
  BY DEF TestsExamples
<1>4. AskFlag(cfg.tests, a1, FALSE) \in BOOLEAN /\ AskFlag(cfg.examples, a2, FALSE) \in BOOLEAN
  BY <1>1, AskFlagType DEF CfgRec
<1>5. cfg'.tests \in BOOLEAN /\ cfg'.examples \in BOOLEAN /\ cfg'.coreOnly = cfg.coreOnly
  BY <1>1, <1>2, <1>4 DEF CfgRec
<1>6. cfg' \in CfgRec
  BY <1>1, <1>2, <1>5 DEF CfgRec
<1>7. cancelled' \in BOOLEAN
  BY <1>2, Zenon
<1>8. Stages'
  BY <1>1, <1>3, <1>5 DEF Stages, AfterBuildType, AfterCompiler, AfterBuildSystem
<1>. QED
  BY <1>1, <1>3, <1>6, <1>7, <1>8, FrameInv DEF Inv, IInv, TypeOK, Pcs

\* select_build_type_interactive.
LEMMA BuildTypeInv ==
    ASSUME Inv, BuildType
    PROVE  Inv'
<1>1. cfg \in CfgRec /\ path \in SUBSET Tools /\ cancelled \in BOOLEAN
      /\ pick \in GenNames \cup {None}
      /\ cfg.coreOnly \in BOOLEAN /\ cfg.tests \in BOOLEAN /\ cfg.examples \in BOOLEAN
  BY DEF Inv, IInv, TypeOK, Stages, BuildType
<1>2. CASE cfg.buildType # None
  <2>1. pc' = "selectCompiler"
        /\ UNCHANGED <<host, ws, args, cfg, path, runs, ws0, cancelled, pick, why>>
    BY <1>2 DEF BuildType
  <2>2. Stages'
    BY <1>1, <1>2, <2>1 DEF Stages, CfgRec, AfterBuildType, AfterCompiler, AfterBuildSystem
  <2>. QED
    BY <1>1, <2>1, <2>2, FrameInv DEF Inv, IInv, TypeOK, Pcs
<1>3. CASE cfg.buildType = None
  <2>1. PICK ans \in Menu :
          IF ans = "cancel" THEN Interrupted
          ELSE /\ cfg' = [cfg EXCEPT !.buildType = BuildTypeOf(ans)]
               /\ pc' = "selectCompiler"
               /\ UNCHANGED <<host, ws, args, path, runs, ws0, cancelled, pick, why>>
    BY <1>3 DEF BuildType
  <2>2. CASE ans = "cancel"
    BY <2>1, <2>2, InterruptedInv
  <2>3. CASE ans # "cancel"
    <3>1. cfg' = [cfg EXCEPT !.buildType = BuildTypeOf(ans)] /\ pc' = "selectCompiler"
          /\ UNCHANGED <<host, ws, args, path, runs, ws0, cancelled, pick, why>>
      BY <2>1, <2>3
    <3>2. BuildTypeOf(ans) \in BuildTypes
      BY DEF BuildTypeOf, BuildTypes
    <3>3. cfg' \in CfgRec /\ cfg'.buildType \in BuildTypes
          /\ cfg'.coreOnly \in BOOLEAN /\ cfg'.tests \in BOOLEAN /\ cfg'.examples \in BOOLEAN
      BY <1>1, <3>1, <3>2 DEF CfgRec
    <3>4. Stages'
      BY <3>1, <3>3 DEF Stages, AfterBuildType, AfterCompiler, AfterBuildSystem
    <3>. QED
      BY <1>1, <3>1, <3>3, <3>4, FrameInv DEF Inv, IInv, TypeOK, Pcs
  <2>. QED
    BY <2>2, <2>3
<1>. QED
  BY <1>2, <1>3

\* The fields resolved before the compiler.
EarlyFieldsSet(c) ==
    /\ c.coreOnly \in BOOLEAN /\ c.tests \in BOOLEAN /\ c.examples \in BOOLEAN
    /\ c.buildType \in BuildTypes

\* select_compiler_interactive, as main() calls it.
LEMMA SelectCompilerInv ==
    ASSUME Inv, SelectCompiler
    PROVE  Inv'
<1>1. /\ cfg \in CfgRec /\ path \in SUBSET Tools /\ cancelled \in BOOLEAN
      /\ host \in HostRec /\ pick \in GenNames \cup {None}
      /\ EarlyFieldsSet(cfg)
  BY DEF Inv, IInv, TypeOK, Stages, SelectCompiler, AfterBuildType, EarlyFieldsSet
<1>2. CASE cfg.compiler # None
  <2>1. pc' = "setupCompiler"
        /\ UNCHANGED <<host, ws, args, cfg, path, runs, ws0, cancelled, pick, why>>
    BY <1>2 DEF SelectCompiler
  <2>2. Stages'
    BY <1>1, <2>1 DEF Stages, EarlyFieldsSet, AfterBuildType, AfterCompiler, AfterBuildSystem
  <2>. QED
    BY <1>1, <2>1, <2>2, FrameInv DEF Inv, IInv, TypeOK, Pcs
<1>3. CASE cfg.compiler = None
  <2>1. PICK ans \in Menu :
          LET r == SelectCompilerInteractive(host, path, ans) IN
          IF r.st = "interrupted" THEN Interrupted
          ELSE /\ cfg' = [cfg EXCEPT !.compiler = r.compiler]
               /\ path' = r.path
               /\ pc' = "setupCompiler"
               /\ UNCHANGED <<host, ws, args, runs, ws0, cancelled, pick, why>>
    BY <1>3 DEF SelectCompiler
  <2>. DEFINE r == SelectCompilerInteractive(host, path, ans)
  <2>2. ResOK(r)
    BY <1>1, SelectCompilerType
  <2>3. CASE r.st = "interrupted"
    BY <2>1, <2>3, InterruptedInv
  <2>4. CASE r.st # "interrupted"
    <3>1. /\ cfg' = [cfg EXCEPT !.compiler = r.compiler]
          /\ path' = r.path /\ pc' = "setupCompiler"
          /\ UNCHANGED <<host, ws, args, runs, ws0, cancelled, pick, why>>
      BY <2>1, <2>4
    <3>2. cfg' \in CfgRec /\ EarlyFieldsSet(cfg')
      BY <1>1, <2>2, <3>1 DEF CfgRec, ResOK, EarlyFieldsSet
    <3>3. path' \in SUBSET Tools
      BY <2>2, <3>1 DEF ResOK
    <3>4. Stages'
      BY <3>1, <3>2 DEF Stages, EarlyFieldsSet, AfterBuildType, AfterCompiler, AfterBuildSystem
    <3>. QED
      BY <1>1, <3>1, <3>2, <3>3, <3>4, FrameInv DEF Inv, IInv, TypeOK, Pcs
  <2>. QED
    BY <2>3, <2>4
<1>. QED
  BY <1>2, <1>3

\* setup_compiler, reading the workspace's cache.
LEMMA SetupCompilerStepInv ==
    ASSUME Inv, SetupCompilerStep
    PROVE  Inv'
<1>1. /\ cfg \in CfgRec /\ path \in SUBSET Tools /\ cancelled \in BOOLEAN
      /\ host \in HostRec /\ pick \in GenNames \cup {None}
      /\ ws \in [BuildTypes -> Entry] /\ EarlyFieldsSet(cfg)
  BY DEF Inv, IInv, TypeOK, Stages, SetupCompilerStep, AfterBuildType, EarlyFieldsSet
<1>2. PICK ans \in Menu :
        LET r == SetupCompiler(host, path, cfg.compiler, ws[Dir], cfg.interactive, ans) IN
        IF r.st = "interrupted" THEN Interrupted
        ELSE /\ cfg' = [cfg EXCEPT !.compiler = IF r.st = "ok" THEN r.compiler ELSE @]
             /\ path' = r.path
             /\ pc' = IF r.st # "ok" THEN "failed"
                      ELSE IF cfg.interactive THEN "selectBuildSystem"
                      ELSE "setupBuildSystem"
             /\ UNCHANGED <<host, ws, args, runs, ws0, cancelled, pick, why>>
  BY DEF SetupCompilerStep
<1>. DEFINE r == SetupCompiler(host, path, cfg.compiler, ws[Dir], cfg.interactive, ans)
<1>3. ResOK(r)
  <2>1. ws[Dir] \in Entry /\ cfg.compiler \in CompilerNames \cup {None}
        /\ cfg.interactive \in BOOLEAN
    BY <1>1 DEF EarlyFieldsSet, Dir, CfgRec
  <2>. QED
    BY <1>1, <2>1, SetupCompilerType
<1>4. CASE r.st = "interrupted"
  BY <1>2, <1>4, InterruptedInv
<1>5. CASE r.st # "interrupted"
  <2>1. /\ cfg' = [cfg EXCEPT !.compiler = IF r.st = "ok" THEN r.compiler ELSE @]
        /\ path' = r.path
        /\ pc' = IF r.st # "ok" THEN "failed"
                 ELSE IF cfg.interactive THEN "selectBuildSystem"
                 ELSE "setupBuildSystem"
        /\ UNCHANGED <<host, ws, args, runs, ws0, cancelled, pick, why>>
    BY <1>2, <1>5
  <2>2. cfg'.compiler = IF r.st = "ok" THEN r.compiler ELSE cfg.compiler
    BY <1>1, <2>1 DEF CfgRec
  <2>3. cfg' \in CfgRec /\ EarlyFieldsSet(cfg')
    BY <1>1, <1>3, <2>1, <2>2 DEF CfgRec, ResOK, EarlyFieldsSet
  <2>4. path' \in SUBSET Tools /\ pc' \in Pcs /\ pc' # "cmake"
    BY <1>3, <2>1 DEF ResOK, Pcs
  <2>5. pc' \in AfterCompiler => cfg'.compiler \in RealCompilers
    BY <1>3, <2>1, <2>2 DEF ResOK, AfterCompiler
  <2>6. Stages'
    BY <2>1, <2>3, <2>5 DEF Stages, EarlyFieldsSet, AfterBuildType, AfterCompiler, AfterBuildSystem
  <2>. QED
    BY <1>1, <2>1, <2>3, <2>4, <2>6, FrameInv DEF Inv, IInv, TypeOK
<1>. QED
  BY <1>4, <1>5

\* select_build_system_interactive, as main() calls it.
LEMMA SelectBuildSystemInv ==
    ASSUME Inv, SelectBuildSystem
    PROVE  Inv'
<1>1. /\ cfg \in CfgRec /\ path \in SUBSET Tools /\ cancelled \in BOOLEAN
      /\ host \in HostRec /\ pick \in GenNames \cup {None}
      /\ EarlyFieldsSet(cfg) /\ cfg.compiler \in RealCompilers
  BY DEF Inv, IInv, TypeOK, Stages, SelectBuildSystem, AfterBuildType,
         AfterCompiler, EarlyFieldsSet
<1>2. CASE cfg.buildSystem # None
  <2>1. pc' = "setupBuildSystem"
        /\ UNCHANGED <<host, ws, args, cfg, path, runs, ws0, cancelled, pick, why>>
    BY <1>2 DEF SelectBuildSystem
  <2>2. Stages'
    BY <1>1, <2>1 DEF Stages, EarlyFieldsSet, AfterBuildType, AfterCompiler, AfterBuildSystem
  <2>. QED
    BY <1>1, <2>1, <2>2, FrameInv DEF Inv, IInv, TypeOK, Pcs
<1>3. CASE cfg.buildSystem = None
  <2>1. PICK ans \in Menu :
          LET r == SelectBuildSystemInteractive(host, path, ans) IN
          IF r.st = "interrupted" THEN Interrupted
          ELSE /\ cfg' = [cfg EXCEPT !.buildSystem = r.bs]
               /\ pick' = r.pick
               /\ pc' = "setupBuildSystem"
               /\ UNCHANGED <<host, ws, args, path, runs, ws0, cancelled, why>>
    BY <1>3 DEF SelectBuildSystem
  <2>. DEFINE r == SelectBuildSystemInteractive(host, path, ans)
  <2>2. r.bs \in GenNames \cup {None} /\ r.pick \in GenNames \cup {None}
    BY <1>1, SelectBuildSystemType
  <2>3. CASE r.st = "interrupted"
    BY <2>1, <2>3, InterruptedInv
  <2>4. CASE r.st # "interrupted"
    <3>1. /\ cfg' = [cfg EXCEPT !.buildSystem = r.bs]
          /\ pick' = r.pick /\ pc' = "setupBuildSystem"
          /\ UNCHANGED <<host, ws, args, path, runs, ws0, cancelled, why>>
      BY <2>1, <2>4
    <3>2. cfg' \in CfgRec /\ EarlyFieldsSet(cfg') /\ cfg'.compiler \in RealCompilers
      BY <1>1, <2>2, <3>1 DEF CfgRec, EarlyFieldsSet
    <3>3. Stages'
      BY <3>1, <3>2 DEF Stages, EarlyFieldsSet, AfterBuildType, AfterCompiler, AfterBuildSystem
    <3>. QED
      BY <1>1, <2>2, <3>1, <3>2, <3>3, FrameInv DEF Inv, IInv, TypeOK, Pcs
  <2>. QED
    BY <2>3, <2>4
<1>. QED
  BY <1>2, <1>3

\* setup_build_system and setup_msvc_environment.
LEMMA SetupBuildSystemStepInv ==
    ASSUME Inv, SetupBuildSystemStep
    PROVE  Inv'
<1>1. /\ cfg \in CfgRec /\ path \in SUBSET Tools /\ cancelled \in BOOLEAN
      /\ host \in HostRec /\ pick \in GenNames \cup {None}
      /\ EarlyFieldsSet(cfg) /\ cfg.compiler \in RealCompilers
  BY DEF Inv, IInv, TypeOK, Stages, SetupBuildSystemStep, AfterBuildType,
         AfterCompiler, EarlyFieldsSet
<1>2. PICK ans \in Menu :
        LET r == SetupBuildSystem(host, path, cfg.buildSystem, cfg.interactive, ans)
            c2 == [cfg EXCEPT !.buildSystem = r.bs]
            m == SetupMsvcEnvironment(host, path, c2)
        IN
        IF r.st = "interrupted" THEN Interrupted
        ELSE /\ cfg' = c2
             /\ path' = IF r.st = "ok" THEN m.path ELSE path
             /\ pc' = IF r.st # "ok" THEN "failed"
                      ELSE IF ~m.ok /\ c2.compiler \in {"msvc", "clang-cl"} THEN "failed"
                      ELSE "conan"
             /\ UNCHANGED <<host, ws, args, runs, ws0, cancelled, pick, why>>
  BY DEF SetupBuildSystemStep
<1>. DEFINE r == SetupBuildSystem(host, path, cfg.buildSystem, cfg.interactive, ans)
            c2 == [cfg EXCEPT !.buildSystem = r.bs]
            m == SetupMsvcEnvironment(host, path, c2)
<1>3. /\ r.st \in {"ok", "fail", "interrupted"}
      /\ r.st = "ok" => r.bs \in GenNames
      /\ r.bs \in GenNames \cup {None}
  <2>1. cfg.buildSystem \in GenNames \cup {None} /\ cfg.interactive \in BOOLEAN
    BY <1>1 DEF CfgRec
  <2>. QED
    BY <1>1, <2>1, SetupBuildSystemType
<1>4. m.path \in SUBSET Tools
  BY <1>1, SetupMsvcEnvironmentType
<1>5. CASE r.st = "interrupted"
  BY <1>2, <1>5, InterruptedInv
<1>6. CASE r.st # "interrupted"
  <2>1. /\ cfg' = c2
        /\ path' = IF r.st = "ok" THEN m.path ELSE path
        /\ pc' = IF r.st # "ok" THEN "failed"
                 ELSE IF ~m.ok /\ c2.compiler \in {"msvc", "clang-cl"} THEN "failed"
                 ELSE "conan"
        /\ UNCHANGED <<host, ws, args, runs, ws0, cancelled, pick, why>>
    BY <1>2, <1>6
  <2>2. c2 \in CfgRec /\ EarlyFieldsSet(c2) /\ c2.compiler \in RealCompilers
        /\ c2.buildSystem = r.bs
    BY <1>1, <1>3 DEF CfgRec, EarlyFieldsSet
  <2>3. path' \in SUBSET Tools /\ pc' \in {"failed", "conan"}
    BY <1>1, <1>4, <2>1
  <2>4. pc' = "conan" => cfg'.buildSystem \in GenNames
    BY <1>3, <2>1, <2>2
  <2>5. Stages'
    BY <2>1, <2>2, <2>3, <2>4 DEF Stages, EarlyFieldsSet, AfterBuildType,
                                  AfterCompiler, AfterBuildSystem
  <2>. QED
    BY <1>1, <2>1, <2>2, <2>3, <2>5, FrameInv DEF Inv, IInv, TypeOK, Pcs
<1>. QED
  BY <1>5, <1>6

\* setup_conan, with install_deps.py writing the toolchain file.
LEMMA ConanInv ==
    ASSUME Inv, Conan
    PROVE  Inv'
<1>1. /\ cfg \in CfgRec /\ path \in SUBSET Tools /\ cancelled \in BOOLEAN
      /\ host \in HostRec /\ pick \in GenNames \cup {None}
      /\ ws \in [BuildTypes -> Entry]
      /\ EarlyFieldsSet(cfg) /\ cfg.compiler \in RealCompilers
      /\ cfg.buildSystem \in GenNames
      /\ \A b \in BuildTypes : ws[b].configured /\ ws[b].useConan => ws[b].toolchain
  BY DEF Inv, IInv, TypeOK, Stages, Conan, AfterBuildType, AfterCompiler,
         AfterBuildSystem, EarlyFieldsSet, ConanConsistent
<1>2. PICK a1, a2, a3 \in YesNo, out \in InstallOutcomes :
        LET tc == ws[Dir].toolchain
            r == SetupConan(cfg, tc, a1, a2, a3, out)
            q == ConanAsked(cfg, tc, a1, a2)
        IN /\ cfg' = [cfg EXCEPT !.useConan = r.use, !.toolchain = r.toolchain]
           /\ ws' = [ws EXCEPT ![Dir].toolchain = r.tc]
           /\ cancelled' = (cancelled \/ (q[1] /\ a1 = "cancel")
                                      \/ (q[2] /\ a2 = "cancel")
                                      \/ (q[3] /\ a3 = "cancel"))
  BY DEF Conan
<1>3. pc' = "cmake" /\ UNCHANGED <<host, args, path, runs, ws0, pick, why>>
  BY DEF Conan
<1>. DEFINE tc == ws[Dir].toolchain
            r == SetupConan(cfg, tc, a1, a2, a3, out)
            q == ConanAsked(cfg, tc, a1, a2)
<1>4. Dir \in BuildTypes /\ tc \in BOOLEAN
  BY <1>1 DEF Dir, EarlyFieldsSet, Entry
<1>5. /\ r.use \in BOOLEAN /\ r.toolchain \in BOOLEAN /\ r.tc \in BOOLEAN
      /\ r.use = r.toolchain /\ (r.toolchain => r.tc) /\ (tc => r.tc)
  BY <1>1, <1>4, SetupConanSound
<1>6. cfg' \in CfgRec /\ EarlyFieldsSet(cfg') /\ cfg'.compiler \in RealCompilers
      /\ cfg'.buildSystem \in GenNames
      /\ cfg'.useConan = r.use /\ cfg'.toolchain = r.toolchain
      /\ cfg'.buildType = cfg.buildType
  BY <1>1, <1>2, <1>5 DEF CfgRec, EarlyFieldsSet
<1>7. /\ ws' \in [BuildTypes -> Entry]
      /\ ws'[Dir].toolchain = r.tc
      /\ ws'[Dir].configured = ws[Dir].configured
      /\ ws'[Dir].useConan = ws[Dir].useConan
      /\ \A b \in BuildTypes \ {Dir} : ws'[b] = ws[b]
  BY <1>1, <1>2, <1>4, <1>5 DEF Entry
<1>8. cancelled' \in BOOLEAN
  BY <1>2, Zenon
<1>9. Stages'
  BY <1>3, <1>6 DEF Stages, EarlyFieldsSet, AfterBuildType, AfterCompiler, AfterBuildSystem
<1>10. (cfg'.useConan = TRUE) = cfg'.toolchain /\ (cfg'.toolchain => ws'[Dir'].toolchain)
  <2>1. Dir' = Dir
    BY <1>6 DEF Dir
  <2>. QED
    BY <1>5, <1>6, <1>7, <2>1
<1>11. \A b \in BuildTypes : ws'[b].configured /\ ws'[b].useConan => ws'[b].toolchain
  BY <1>1, <1>4, <1>5, <1>7
<1>12. ConanConsistent'
  BY <1>10, <1>11 DEF ConanConsistent
<1>. QED
  BY <1>1, <1>3, <1>6, <1>7, <1>8, <1>9, <1>12 DEF Inv, IInv, TypeOK, Pcs

\* CMakeBuilder.configure and cmake.
LEMMA CMakeInv ==
    ASSUME Inv, CMake
    PROVE  Inv'
<1>1. /\ cfg \in CfgRec /\ path \in SUBSET Tools /\ cancelled \in BOOLEAN
      /\ host \in HostRec /\ pick \in GenNames \cup {None}
      /\ ws \in [BuildTypes -> Entry] /\ runs \in 0..MaxRuns
      /\ args \in ArgRec /\ ws0 \in [BuildTypes -> Entry]
      /\ EarlyFieldsSet(cfg) /\ cfg.compiler \in RealCompilers
      /\ cfg.buildSystem \in GenNames
      /\ \A b \in BuildTypes : ws[b].configured /\ ws[b].useConan => ws[b].toolchain
      /\ cfg.toolchain => ws[Dir].toolchain
  BY DEF Inv, IInv, TypeOK, Stages, CMake, AfterBuildType, AfterCompiler,
         AfterBuildSystem, EarlyFieldsSet, ConanConsistent
<1>2. PICK ans \in YesNo, fails \in BOOLEAN :
        LET e == ws[Dir]
            conanBranch == cfg.useConan = TRUE /\ cfg.toolchain
            askClean == ~conanBranch /\ cfg.interactive
                        /\ e.configured /\ e.gen # cfg.buildSystem
            clean == ~conanBranch /\ (cfg.clean \/ (askClean /\ Answer(ans, TRUE)))
            base == IF clean THEN EmptyDir ELSE e
            r == RunCMake(host, path, cfg, base, conanBranch, fails)
        IN /\ ws' = [ws EXCEPT ![Dir] = r.entry]
           /\ why' = r.why
           /\ pc' = IF r.why = None THEN "done" ELSE "failed"
           /\ cancelled' = (cancelled \/ (askClean /\ ans = "cancel"))
  BY DEF CMake
<1>3. UNCHANGED <<host, args, cfg, path, runs, ws0, pick>>
  BY DEF CMake
<1>. DEFINE e == ws[Dir]
            conanBranch == cfg.useConan = TRUE /\ cfg.toolchain
            askClean == ~conanBranch /\ cfg.interactive
                        /\ e.configured /\ e.gen # cfg.buildSystem
            clean == ~conanBranch /\ (cfg.clean \/ (askClean /\ Answer(ans, TRUE)))
            base == IF clean THEN EmptyDir ELSE e
            r == RunCMake(host, path, cfg, base, conanBranch, fails)
<1>4. Dir \in BuildTypes /\ e \in Entry /\ EmptyDir \in Entry
  BY <1>1 DEF Dir, EarlyFieldsSet, EmptyDir, Entry, CxxPaths
<1>5. conanBranch \in BOOLEAN
  BY <1>1, Zenon DEF CfgRec
<1>6. base \in Entry /\ (conanBranch => base = e)
  BY <1>4, Zenon
<1>7. /\ r.entry \in Entry
      /\ r.why \in Failures
      /\ \/ r.entry = base
         \/ r.entry.useConan = conanBranch /\ r.entry.toolchain = base.toolchain
  <2>1. /\ cfg.coreOnly \in BOOLEAN /\ cfg.tests \in BOOLEAN /\ cfg.examples \in BOOLEAN
    BY <1>1 DEF EarlyFieldsSet
  <2>2. RunOK(r, base, conanBranch)
    BY <1>1, <1>5, <1>6, <2>1, RunCMakeType
  <2>. QED
    BY <2>2 DEF RunOK
<1>8. ws' \in [BuildTypes -> Entry] /\ ws'[Dir] = r.entry
      /\ \A b \in BuildTypes \ {Dir} : ws'[b] = ws[b]
  BY <1>1, <1>2, <1>4, <1>7
<1>9. pc' \in {"done", "failed"} /\ why' \in Failures
  BY <1>2, <1>7
<1>10. cancelled' \in BOOLEAN
  BY <1>2, Zenon
<1>11. r.entry.configured /\ r.entry.useConan => r.entry.toolchain
  <2>1. CASE r.entry = base
    <3>1. CASE clean
      <4>1. base = EmptyDir
        BY <3>1
      <4>3. EmptyDir.configured = FALSE
        BY DEF EmptyDir
      <4>2. r.entry.configured = FALSE
        BY <2>1, <4>1, <4>3, Zenon
      <4>. QED
        BY <4>2, Zenon
    <3>2. CASE ~clean
      <4>1. r.entry = e
        BY <2>1, <3>2
      <4>2. e.configured /\ e.useConan => e.toolchain
        BY <1>1, <1>4
      <4>. QED
        BY <4>1, <4>2
    <3>. QED
      BY <3>1, <3>2
  <2>2. CASE r.entry.useConan = conanBranch /\ r.entry.toolchain = base.toolchain
    BY <1>1, <1>6, <2>2
  <2>. QED
    BY <1>7, <2>1, <2>2
<1>12. ConanConsistent'
  BY <1>1, <1>8, <1>9, <1>11 DEF ConanConsistent
<1>13. Stages'
  BY <1>9 DEF Stages, AfterBuildType, AfterCompiler, AfterBuildSystem
<1>. QED
  BY <1>1, <1>3, <1>8, <1>9, <1>10, <1>12, <1>13 DEF Inv, IInv, TypeOK, Pcs

\* A stuttering step (and Finished) changes nothing.
LEMMA StutterInv ==
    ASSUME Inv, UNCHANGED vars
    PROVE  Inv'
BY DEF vars, Inv, IInv, TypeOK, Stages, ConanConsistent, Dir

\* Every step of main(), and stuttering, preserves Inv.
LEMMA NextInv == Inv /\ [Next]_vars => Inv'
<1> SUFFICES ASSUME Inv, [Next]_vars PROVE Inv'
  OBVIOUS
<1>1. CASE \E a \in Args : Invoke(a)
  BY <1>1, InvokeInv, ConstantsAssumption
<1>2. CASE Modules
  BY <1>2, ModulesInv
<1>3. CASE TestsExamples
  BY <1>3, TestsExamplesInv
<1>4. CASE BuildType
  BY <1>4, BuildTypeInv
<1>5. CASE SelectCompiler
  BY <1>5, SelectCompilerInv
<1>6. CASE SetupCompilerStep
  BY <1>6, SetupCompilerStepInv
<1>7. CASE SelectBuildSystem
  BY <1>7, SelectBuildSystemInv
<1>8. CASE SetupBuildSystemStep
  BY <1>8, SetupBuildSystemStepInv
<1>9. CASE Conan
  BY <1>9, ConanInv
<1>10. CASE CMake
  BY <1>10, CMakeInv
<1>11. CASE Finished \/ UNCHANGED vars
  BY <1>11, StutterInv DEF Finished
<1>. QED
  BY <1>1, <1>2, <1>3, <1>4, <1>5, <1>6, <1>7, <1>8, <1>9, <1>10, <1>11 DEF Next

-----------------------------------------------------------------------------
(* The MSVC environment bootstrap.                                         *)

\* The tool a bootstrapped toolchain needs is on PATH.
ToolOnPath(c, p) == NeedsBootstrap(c) => RequiredTool(c) \in p

\* When setup_msvc_environment reports success, the PATH it returns holds
\* the tool the toolchain needs: either it was there already, or the
\* developer script added it and the final check found it.
LEMMA SetupMsvcEnvironmentReady ==
    ASSUME NEW h, NEW p, NEW c,
           SetupMsvcEnvironment(h, p, c).ok
    PROVE  ToolOnPath(c, SetupMsvcEnvironment(h, p, c).path)
BY DEF SetupMsvcEnvironment, MsvcToolVerified, ToolOnPath

\* setup_build_system either fails or lets main() go on to setup_conan
\* only with the MSVC tool on PATH.
LEMMA SetupBuildSystemStepReady ==
    ASSUME Inv, SetupBuildSystemStep
    PROVE  ToolchainReadyForCMake'
<1>1. cfg \in CfgRec /\ cfg.compiler \in RealCompilers
  BY DEF Inv, IInv, TypeOK, Stages, SetupBuildSystemStep, AfterCompiler
<1>2. PICK ans \in Menu :
        LET r == SetupBuildSystem(host, path, cfg.buildSystem, cfg.interactive, ans)
            c2 == [cfg EXCEPT !.buildSystem = r.bs]
            m == SetupMsvcEnvironment(host, path, c2)
        IN
        IF r.st = "interrupted" THEN Interrupted
        ELSE /\ cfg' = c2
             /\ path' = IF r.st = "ok" THEN m.path ELSE path
             /\ pc' = IF r.st # "ok" THEN "failed"
                      ELSE IF ~m.ok /\ c2.compiler \in {"msvc", "clang-cl"} THEN "failed"
                      ELSE "conan"
             /\ UNCHANGED <<host, ws, args, runs, ws0, cancelled, pick, why>>
  BY DEF SetupBuildSystemStep
<1>. DEFINE r == SetupBuildSystem(host, path, cfg.buildSystem, cfg.interactive, ans)
            c2 == [cfg EXCEPT !.buildSystem = r.bs]
            m == SetupMsvcEnvironment(host, path, c2)
<1>3. CASE r.st = "interrupted"
  BY <1>2, <1>3 DEF Interrupted, ToolchainReadyForCMake
<1>4. CASE r.st # "interrupted" /\ pc' # "conan"
  BY <1>2, <1>4 DEF ToolchainReadyForCMake
<1>5. CASE r.st # "interrupted" /\ pc' = "conan"
  <2>1. cfg' = c2 /\ path' = m.path /\ r.st = "ok"
        /\ (m.ok \/ c2.compiler \notin {"msvc", "clang-cl"})
    BY <1>2, <1>5
  <2>2. c2.compiler = cfg.compiler
    BY <1>1 DEF CfgRec
  <2>3. CASE m.ok
    BY <2>1, <2>3, SetupMsvcEnvironmentReady DEF ToolOnPath, ToolchainReadyForCMake
  <2>4. CASE c2.compiler \notin {"msvc", "clang-cl"}
    <3>1. ~NeedsBootstrap(c2)
      BY <1>1, <2>2, <2>4 DEF NeedsBootstrap, RealCompilers
    <3>. QED
      BY <2>1, <3>1 DEF ToolchainReadyForCMake
  <2>. QED
    BY <2>1, <2>3, <2>4
<1>. QED
  BY <1>3, <1>4, <1>5

\* setup_conan changes only use_conan and the toolchain flag, and cmake
\* changes neither the configuration nor PATH: the bootstrapped tool stays.
LEMMA ConanReady ==
    ASSUME Inv, ToolchainReadyForCMake, Conan
    PROVE  ToolchainReadyForCMake'
<1>1. cfg \in CfgRec
  BY DEF Inv, IInv, TypeOK
<1>2. PICK a1, a2, a3 \in YesNo, out \in InstallOutcomes :
        LET tc == ws[Dir].toolchain
            r == SetupConan(cfg, tc, a1, a2, a3, out)
        IN cfg' = [cfg EXCEPT !.useConan = r.use, !.toolchain = r.toolchain]
  BY DEF Conan
<1>3. cfg'.compiler = cfg.compiler /\ cfg'.buildSystem = cfg.buildSystem
  BY <1>1, <1>2 DEF CfgRec
<1>4. NeedsBootstrap(cfg') = NeedsBootstrap(cfg) /\ RequiredTool(cfg') = RequiredTool(cfg)
  BY <1>3 DEF NeedsBootstrap, RequiredTool
<1>. QED
  BY <1>4 DEF Conan, ToolchainReadyForCMake

\* Every step of main() keeps the bootstrapped tool on PATH once it has
\* been found.
LEMMA NextReady ==
    Inv /\ ToolchainReadyForCMake /\ [Next]_vars => ToolchainReadyForCMake'
<1> SUFFICES ASSUME Inv, ToolchainReadyForCMake, [Next]_vars
             PROVE  ToolchainReadyForCMake'
  OBVIOUS
<1>1. CASE \E a \in Args : Invoke(a)
  BY <1>1 DEF Invoke, ToolchainReadyForCMake
<1>2. CASE Modules \/ TestsExamples \/ BuildType
  BY <1>2 DEF Modules, TestsExamples, BuildType, Interrupted, ToolchainReadyForCMake
<1>3. CASE SelectCompiler \/ SetupCompilerStep \/ SelectBuildSystem
  BY <1>3 DEF SelectCompiler, SetupCompilerStep, SelectBuildSystem, Interrupted,
              ToolchainReadyForCMake
<1>4. CASE SetupBuildSystemStep
  BY <1>4, SetupBuildSystemStepReady
<1>5. CASE Conan
  BY <1>5, ConanReady
<1>6. CASE CMake
  BY <1>6 DEF CMake, ToolchainReadyForCMake
<1>7. CASE Finished \/ UNCHANGED vars
  BY <1>7 DEF Finished, vars, ToolchainReadyForCMake
<1>. QED
  BY <1>1, <1>2, <1>3, <1>4, <1>5, <1>6, <1>7 DEF Next

-----------------------------------------------------------------------------
(* Generator switches.                                                     *)

\* CMakeBuilder.configure: the workspace's generator changes only after
\* the rmtree, which --clean or an interactive "yes" asks for.
LEMMA CMakeConsented ==
    ASSUME Inv, CMake
    PROVE  ConsentedSwitches
<1>1. /\ ws \in [BuildTypes -> Entry] /\ Dir \in BuildTypes /\ cfg \in CfgRec
  BY DEF Inv, IInv, TypeOK, Stages, CMake, AfterBuildType, Dir
<1>2. PICK ans \in YesNo, fails \in BOOLEAN :
        LET e == ws[Dir]
            conanBranch == cfg.useConan = TRUE /\ cfg.toolchain
            askClean == ~conanBranch /\ cfg.interactive
                        /\ e.configured /\ e.gen # cfg.buildSystem
            clean == ~conanBranch /\ (cfg.clean \/ (askClean /\ Answer(ans, TRUE)))
            base == IF clean THEN EmptyDir ELSE e
            r == RunCMake(host, path, cfg, base, conanBranch, fails)
        IN ws' = [ws EXCEPT ![Dir] = r.entry]
  BY DEF CMake
<1>. DEFINE e == ws[Dir]
            conanBranch == cfg.useConan = TRUE /\ cfg.toolchain
            askClean == ~conanBranch /\ cfg.interactive
                        /\ e.configured /\ e.gen # cfg.buildSystem
            clean == ~conanBranch /\ (cfg.clean \/ (askClean /\ Answer(ans, TRUE)))
            base == IF clean THEN EmptyDir ELSE e
            r == RunCMake(host, path, cfg, base, conanBranch, fails)
<1>3. ws' = [ws EXCEPT ![Dir] = r.entry]
  BY <1>2
<1>4. clean => cfg.clean \/ cfg.interactive
  BY Zenon
\* cmake refuses a generator different from the recorded one before it
\* writes anything.
<1>5. ASSUME ~clean, e.configured PROVE r.entry.gen = e.gen
  <2>1. base = e /\ base.configured
    BY <1>5
  <2>2. RunCMake(host, path, cfg, base, conanBranch, fails).entry.gen = base.gen
    BY <2>1 DEF RunCMake
  <2>. QED
    BY <2>1, <2>2
<1>6. SUFFICES ASSUME NEW b \in BuildTypes,
                      ws[b].configured, ws'[b].configured, ws'[b].gen # ws[b].gen
               PROVE  cfg.clean \/ cfg.interactive
  BY DEF ConsentedSwitches
<1>7. b = Dir
  BY <1>1, <1>3, <1>6
<1>8. ws'[b] = r.entry
  BY <1>1, <1>3, <1>7
<1>. QED
  BY <1>4, <1>5, <1>6, <1>7, <1>8

\* setup_conan touches only the workspace's conan_toolchain.cmake.
LEMMA ConanConsented ==
    ASSUME Inv, Conan
    PROVE  ConsentedSwitches
<1>1. /\ ws \in [BuildTypes -> Entry] /\ Dir \in BuildTypes
  BY DEF Inv, IInv, TypeOK, Stages, Conan, AfterBuildType, Dir
<1>2. PICK a1, a2, a3 \in YesNo, out \in InstallOutcomes :
        LET tc == ws[Dir].toolchain
            r == SetupConan(cfg, tc, a1, a2, a3, out)
        IN ws' = [ws EXCEPT ![Dir].toolchain = r.tc]
  BY DEF Conan
<1>3. \A b \in BuildTypes : ws'[b].gen = ws[b].gen
  BY <1>1, <1>2 DEF Entry
<1>. QED
  BY <1>3 DEF ConsentedSwitches

\* Every step of main() is one of these, or leaves the workspaces alone.
LEMMA NextConsented ==
    Inv /\ [Next]_vars => [ConsentedSwitches]_vars
<1> SUFFICES ASSUME Inv, [Next]_vars PROVE [ConsentedSwitches]_vars
  OBVIOUS
<1>1. CASE Conan
  BY <1>1, ConanConsented
<1>2. CASE CMake
  BY <1>2, CMakeConsented
<1>3. CASE ~Conan /\ ~CMake
  <2>1. ws' = ws
    <3>1. CASE \E a \in Args : Invoke(a)
      BY <3>1 DEF Invoke
    <3>2. CASE Modules \/ TestsExamples \/ BuildType
      BY <3>2 DEF Modules, TestsExamples, BuildType, Interrupted
    <3>3. CASE SelectCompiler \/ SetupCompilerStep
      BY <3>3 DEF SelectCompiler, SetupCompilerStep, Interrupted
    <3>4. CASE SelectBuildSystem \/ SetupBuildSystemStep
      BY <3>4 DEF SelectBuildSystem, SetupBuildSystemStep, Interrupted
    <3>5. CASE Finished \/ UNCHANGED vars
      BY <3>5 DEF Finished, vars
    <3>. QED
      BY <1>3, <3>1, <3>2, <3>3, <3>4, <3>5 DEF Next
  <2>. QED
    BY <2>1 DEF ConsentedSwitches
<1>. QED
  BY <1>1, <1>2, <1>3

-----------------------------------------------------------------------------
(* The theorems.                                                           *)

\* Type correctness of configure.py's state: every BuildConfig field,
\* PATH and every CMakeCache.txt / conan_toolchain.cmake pair the scripts
\* can produce stays within its declared range, for any hosts, command
\* lines and number of invocations.
THEOREM TypeCorrect == Spec => []TypeOK
<1>1. Init => Inv
  BY InitInv
<1>2. Inv /\ [Next]_vars => Inv'
  BY NextInv
<1>3. Inv => TypeOK
  BY DEF Inv, IInv
<1>. QED
  BY <1>1, <1>2, <1>3, PTL DEF Spec

\* ConanConsistent: setup_conan hands CMakeBuilder.configure a use_conan
\* flag that agrees with the toolchain it found, and no workspace ever has
\* HELIOS_USE_CONAN=ON cached without its conan_toolchain.cmake.
THEOREM ConanConsistency == Spec => []ConanConsistent
<1>1. Init => Inv
  BY InitInv
<1>2. Inv /\ [Next]_vars => Inv'
  BY NextInv
<1>3. Inv => ConanConsistent
  BY DEF Inv
<1>. QED
  BY <1>1, <1>2, <1>3, PTL DEF Spec
\* ToolchainReadyForCMake: once setup_msvc_environment has let main() go on
\* with Ninja and msvc or clang-cl on Windows, cl (or mt for clang-cl) is
\* on the PATH that setup_conan and cmake inherit, for any hosts, any
\* developer script and any number of invocations.
THEOREM ToolchainReady == Spec => []ToolchainReadyForCMake
<1>1. Init => Inv /\ ToolchainReadyForCMake
  BY InitInv DEF Init, ToolchainReadyForCMake
<1>2. Inv /\ ToolchainReadyForCMake /\ [Next]_vars
        => Inv' /\ ToolchainReadyForCMake'
  BY NextInv, NextReady
<1>. QED
  BY <1>1, <1>2, PTL DEF Spec
\* GeneratorSwitchNeedsConsent: no step of any invocation replaces the
\* generator of a configured workspace unless that invocation was given
\* --clean or is interactive; cmake's own check and the guard on the
\* clean question in CMakeBuilder.configure make a -n run fail instead.
THEOREM GeneratorSwitchConsent == Spec => GeneratorSwitchNeedsConsent
<1>1. Init => Inv
  BY InitInv
<1>2. Inv /\ [Next]_vars => Inv'
  BY NextInv
<1>3. Inv /\ [Next]_vars => [ConsentedSwitches]_vars
  BY NextConsented
<1>. QED
  BY <1>1, <1>2, <1>3, PTL DEF Spec, GeneratorSwitchNeedsConsent
=============================================================================
