------------------------------ MODULE Configure ------------------------------
(***************************************************************************)
(* scripts/configure.py: one invocation resolves a build configuration     *)
(* field by field (modules, tests/examples, build type, compiler, build    *)
(* system, Conan), bootstraps the MSVC environment when the toolchain      *)
(* needs it, and runs "cmake -S . -B build/<type>/<platform>", which       *)
(* writes the workspace's CMakeCache.txt.  Workspaces persist between      *)
(* invocations, so a later run reads what an earlier one wrote.            *)
(*                                                                         *)
(* Data is abstracted to what the checks of the script tell apart: a tool *)
(* is a name on PATH, a compiler path recorded by CMake is a name whose    *)
(* substrings (MarksOf) are what the script's "in" tests look at, and a    *)
(* prompt answer is one of the strings the script distinguishes.           *)
(***************************************************************************)
EXTENDS Naturals, FiniteSets

CONSTANTS
    OS,        \* platform.system(): "linux" (macOS takes the same branches) or "windows"
    Hosts,     \* the machines considered: tools on PATH, off-PATH installs
    Args,      \* the configure.py command lines considered
    MaxRuns,   \* bound on the number of configure.py invocations
    None       \* Python's None (a model value)

BuildTypes == {"Debug", "Release", "RelWithDebInfo"}

Tools == {"cmake", "gcc", "g++", "clang", "clang++", "clang-cl", "cl", "mt",
          "ninja", "make", "msbuild"}

\* What --compiler may say, and what BuildConfig.compiler holds after setup.
CompilerNames == {"gcc", "clang", "clang-cl", "msvc", "cl"}

\* Generator names that reach BuildConfig.build_system: from --build-system
\* (free text), from the interactive menu ("Make") and after normalisation.
GenNames == {"Ninja", "ninja", "Make", "make", "Unix Makefiles", "msbuild",
             "Visual Studio 17 2022", "Visual Studio 16 2019"}

\* str.lower() on the generator names above.
Lower == [n \in GenNames |->
            CASE n = "Ninja" -> "ninja"
              [] n = "Make" -> "make"
              [] n = "Unix Makefiles" -> "unix makefiles"
              [] n = "Visual Studio 17 2022" -> "visual studio 17 2022"
              [] n = "Visual Studio 16 2019" -> "visual studio 16 2019"
              [] OTHER -> n]

\* CMAKE_CXX_COMPILER as CMake records it in CMakeCache.txt.
CxxPaths == {"/usr/bin/g++", "/usr/bin/clang++", "LLVM/bin/clang-cl.exe",
             "MSVC/bin/Hostx64/x64/cl.exe", "/usr/bin/c++",
             "CMAKE_CXX_COMPILER-NOTFOUND"}

\* The substrings of each recorded path that the scripts test with "in"
\* ("msvc" is tested on the lower-cased path).
MarksOf == [p \in CxxPaths |->
              CASE p = "/usr/bin/g++" -> {"g++"}
                [] p = "/usr/bin/clang++" -> {"g++", "clang++", "clang"}
                [] p = "LLVM/bin/clang-cl.exe" -> {"clang-cl", "clang", "cl.exe"}
                [] p = "MSVC/bin/Hostx64/x64/cl.exe" -> {"cl.exe", "msvc"}
                [] OTHER -> {}]

\* The compiler a recorded path really is (None for the generic c++ driver
\* and for NOTFOUND); what the properties about "the same compiler" mean.
CompilerOfPath == [p \in CxxPaths |->
                     CASE p = "/usr/bin/g++" -> "gcc"
                       [] p = "/usr/bin/clang++" -> "clang"
                       [] p = "LLVM/bin/clang-cl.exe" -> "clang-cl"
                       [] p = "MSVC/bin/Hostx64/x64/cl.exe" -> "msvc"
                       [] OTHER -> None]

\* What -DCMAKE_CXX_COMPILER=<cxx_compiler> resolves to.
PathOfCxx == [n \in {"g++", "clang++", "clang-cl"} |->
                CASE n = "g++" -> "/usr/bin/g++"
                  [] n = "clang++" -> "/usr/bin/clang++"
                  [] OTHER -> "LLVM/bin/clang-cl.exe"]

\* BuildConfig.cxx_compiler, set together with BuildConfig.compiler.
CxxName(c) == CASE c = "gcc" -> "g++"
                [] c = "clang" -> "clang++"
                [] c = "clang-cl" -> "clang-cl"
                [] OTHER -> "cl"

HostRec == [path: SUBSET Tools,            \* the user's PATH
            clangClDir: BOOLEAN,           \* clang-cl.exe under a VS or LLVM install dir
            vs: {"none", "vswhere", "common"}, \* how a VS install with VC tools is found
            vsVersion: {"2022", "2019"},
            devScript: {"missing", "fails", "ok"}, \* vcvarsall.bat / VsDevCmd.bat
            devTools: SUBSET {"cl", "mt"}]  \* what the developer script puts on PATH

ArgRec == [type: BuildTypes \cup {None}, compiler: CompilerNames \cup {None},
           buildSystem: GenNames \cup {None}, coreOnly: BOOLEAN,
           tests: BOOLEAN \cup {None}, examples: BOOLEAN \cup {None},
           clean: BOOLEAN, noInteractive: BOOLEAN,
           useConan: BOOLEAN, noConan: BOOLEAN]

ASSUME ConstantsAssumption ==
    /\ OS \in {"linux", "windows"}
    /\ Hosts \subseteq HostRec /\ Hosts # {}
    /\ Args \subseteq ArgRec /\ Args # {}
    /\ MaxRuns \in Nat \ {0}
    /\ None \notin BOOLEAN
    /\ None \notin BuildTypes \cup CompilerNames \cup GenNames
    /\ None \notin {"mismatch", "badgen", "late"}   \* Python's None is no string

\* A workspace build/<type>/<platform>: CMakeCache.txt present (configured)
\* and the entries the scripts read back, plus conan_toolchain.cmake.
Entry == [configured: BOOLEAN, cxx: CxxPaths, gen: GenNames \cup {None},
          coreOnly: BOOLEAN, tests: BOOLEAN, examples: BOOLEAN,
          useConan: BOOLEAN, toolchain: BOOLEAN, stamp: 0..MaxRuns]

EmptyDir == [configured |-> FALSE, cxx |-> "CMAKE_CXX_COMPILER-NOTFOUND",
             gen |-> None, coreOnly |-> FALSE, tests |-> FALSE,
             examples |-> FALSE, useConan |-> FALSE, toolchain |-> FALSE,
             stamp |-> 0]

\* BuildConfig after argument parsing.
CfgRec == [buildType: BuildTypes \cup {None}, compiler: CompilerNames \cup {None},
           buildSystem: GenNames \cup {None}, coreOnly: BOOLEAN \cup {None},
           tests: BOOLEAN \cup {None}, examples: BOOLEAN \cup {None},
           clean: BOOLEAN, interactive: BOOLEAN,
           useConan: BOOLEAN \cup {None}, toolchain: BOOLEAN]

\* input() answers; "cancel" = Ctrl-C / EOF.  Every menu treats "3" and any
\* other reply like Enter (the default), so "" stands for all of them.
Menu == {"1", "2", "", "cancel"}
YesNo == {"y", "n", "", "cancel"}       \* ask_yes_no answers

\* ask_yes_no: Enter gives the default, Ctrl-C / EOF is caught and gives False.
Answer(a, default) == IF a = "y" THEN TRUE
                      ELSE IF a = "" THEN default
                      ELSE FALSE

Pcs == {"idle", "modules", "testsEx", "buildType", "selectCompiler",
        "setupCompiler", "selectBuildSystem", "setupBuildSystem",
        "conan", "cmake", "done", "failed"}

VARIABLES
    host,       \* the machine (fixed in a behaviour)
    ws,         \* [BuildTypes -> Entry]: the build/ tree
    pc,         \* where configure.py main() is
    args,       \* the current command line
    cfg,        \* BuildConfig
    path,       \* os.environ["PATH"] of the configure.py process
    runs,       \* invocations so far
    ws0,        \* ghost: the build/ tree when this invocation started
    cancelled,  \* ghost: the user interrupted a prompt in this invocation
    pick,       \* ghost: the generator the user chose in the build-system menu
    why         \* ghost: why the last cmake configure failed

vars == <<host, ws, pc, args, cfg, path, runs, ws0, cancelled, pick, why>>

Failures == {None, "mismatch", "badgen", "late"}

-----------------------------------------------------------------------------
(* Host probing: CompilerDetector and BuildSystemSelector detection.       *)

DetectGcc(p) == "gcc" \in p /\ "g++" \in p

\* CompilerDetector._setup_clang_cl_path: prepend the first install dir that
\* holds clang-cl.exe to PATH.
SetupClangClPath(h, p) ==
    IF OS # "windows" \/ "clang-cl" \in p THEN p
    ELSE IF h.clangClDir THEN p \cup {"clang-cl"} ELSE p

\* CompilerDetector.detect_clang: [ok, variant, path]; on Windows it may
\* extend PATH with clang-cl.
DetectClang(h, p) ==
    IF OS = "windows"
    THEN LET p2 == SetupClangClPath(h, p)
             hasCl == "clang-cl" \in p2
             hasClang == "clang" \in p2 /\ "clang++" \in p2
         IN [ok |-> hasCl \/ hasClang,
             variant |-> IF hasCl THEN "clang-cl" ELSE IF hasClang THEN "clang" ELSE None,
             path |-> p2]
    ELSE LET ok == "clang" \in p /\ "clang++" \in p
         IN [ok |-> ok, variant |-> IF ok THEN "clang" ELSE None, path |-> p]

\* CompilerDetector.detect_msvc: vswhere finds an install with vcvarsall.bat,
\* or cl is already on PATH.
DetectMsvc(h, p) ==
    IF OS # "windows" THEN [ok |-> FALSE, version |-> None]
    ELSE IF h.vs = "vswhere" /\ h.devScript # "missing"
         THEN [ok |-> TRUE, version |-> h.vsVersion]
    ELSE [ok |-> "cl" \in p, version |-> None]

DetectNinja(p) == "ninja" \in p
DetectMake(p) == "make" \in p

\* BuildSystemSelector.detect_msbuild: [ok, gen].
DetectMsbuild(h, p) ==
    LET m == DetectMsvc(h, p) IN
    IF ~m.ok THEN [ok |-> FALSE, gen |-> None]
    ELSE IF m.version = "2022" THEN [ok |-> TRUE, gen |-> "Visual Studio 17 2022"]
    ELSE IF m.version = "2019" THEN [ok |-> TRUE, gen |-> "Visual Studio 16 2019"]
    ELSE IF "msbuild" \in p THEN [ok |-> TRUE, gen |-> "Visual Studio 17 2022"]
    ELSE [ok |-> FALSE, gen |-> None]

-----------------------------------------------------------------------------
(* Compiler resolution.                                                    *)

\* Result of a step that may pick a compiler: status, compiler, PATH.
Res(st, c, p) == [st |-> st, compiler |-> c, path |-> p]

\* CompilerDetector.select_compiler_interactive; the menu is shown only
\* when both compilers are found, ans is the reply to it.
SelectCompilerInteractive(h, p, ans) ==
    IF OS = "windows"
    THEN LET m == DetectMsvc(h, p)
             c == DetectClang(h, p)
         IN IF ~m.ok /\ ~c.ok THEN Res("fail", None, c.path)
            ELSE IF m.ok /\ ~c.ok THEN Res("ok", "msvc", c.path)
            ELSE IF c.ok /\ ~m.ok THEN Res("ok", c.variant, c.path)
            ELSE IF ans = "cancel" THEN Res("interrupted", None, c.path)
            ELSE IF ans = "2" THEN Res("ok", c.variant, c.path)
            ELSE Res("ok", "msvc", c.path)
    ELSE LET g == DetectGcc(p)
             c == DetectClang(h, p)
         IN IF ~g /\ ~c.ok THEN Res("fail", None, p)
            ELSE IF g /\ ~c.ok THEN Res("ok", "gcc", p)
            ELSE IF c.ok /\ ~g THEN Res("ok", "clang", p)
            ELSE IF ans = "cancel" THEN Res("interrupted", None, p)
            ELSE IF ans = "2" THEN Res("ok", "clang", p)
            ELSE Res("ok", "gcc", p)

\* The compiler named by a CMakeCache.txt entry, as setup_compiler reads it.
CachedCompiler(cxx) ==
    LET m == MarksOf[cxx] IN
    IF "g++" \in m \/ "gcc" \in m THEN "gcc"
    ELSE IF "clang-cl" \in m THEN "clang-cl"
    ELSE IF "clang++" \in m \/ "clang" \in m THEN "clang"
    ELSE IF "cl.exe" \in m \/ "msvc" \in m THEN "msvc"
    ELSE None

\* setup_compiler with --compiler given: validate it against the host.
ValidateCompiler(h, p, c) ==
    IF OS = "windows"
    THEN IF c \in {"msvc", "cl"}
         THEN IF DetectMsvc(h, p).ok THEN Res("ok", "msvc", p) ELSE Res("fail", c, p)
         ELSE IF c \in {"clang", "clang-cl"}
         THEN LET p1 == IF c = "clang-cl" THEN SetupClangClPath(h, p) ELSE p
                  d == DetectClang(h, p1)
              IN IF ~d.ok THEN Res("fail", c, d.path)
                 ELSE IF c = "clang-cl"
                 THEN IF d.variant # "clang-cl" /\ "clang-cl" \notin d.path
                      THEN Res("fail", c, d.path)
                      ELSE Res("ok", "clang-cl", d.path)
                 ELSE IF d.variant = "clang-cl"
                         /\ ~("clang" \in d.path /\ "clang++" \in d.path)
                      THEN Res("ok", "clang-cl", d.path)
                      ELSE Res("ok", "clang", d.path)
         ELSE Res("fail", c, p)
    ELSE IF c = "gcc"
         THEN IF DetectGcc(p) THEN Res("ok", "gcc", p) ELSE Res("fail", c, p)
         ELSE IF c = "clang"
         THEN IF DetectClang(h, p).ok THEN Res("ok", "clang", p) ELSE Res("fail", c, p)
         ELSE Res("fail", c, p)

\* setup_compiler without --compiler in non-interactive mode: auto-detect.
AutoDetectCompiler(h, p) ==
    IF OS = "windows"
    THEN LET m == DetectMsvc(h, p)
             c == DetectClang(h, p)
         IN IF m.ok THEN Res("ok", "msvc", c.path)
            ELSE IF c.ok THEN Res("ok", c.variant, c.path)
            ELSE Res("fail", None, c.path)
    ELSE IF DetectGcc(p) THEN Res("ok", "gcc", p)
         ELSE IF DetectClang(h, p).ok THEN Res("ok", "clang", p)
         ELSE Res("fail", None, p)

\* Variant that auto-detects before it looks at the cache.
SetupCompilerDetectFirst(h, p, c, e, interactive, ans) ==
    IF c # None THEN ValidateCompiler(h, p, c)
    ELSE IF ~interactive THEN AutoDetectCompiler(h, p)
    ELSE IF e.configured /\ CachedCompiler(e.cxx) # None
         THEN Res("ok", CachedCompiler(e.cxx), p)
    ELSE SelectCompilerInteractive(h, p, ans)

\* CompilerDetector.setup_compiler: the explicit value, else the compiler
\* recorded in the workspace's CMakeCache.txt, else a prompt or auto-detection.
SetupCompiler(h, p, c, e, interactive, ans) ==
    IF c # None THEN ValidateCompiler(h, p, c)
    ELSE IF e.configured /\ CachedCompiler(e.cxx) # None
         THEN Res("ok", CachedCompiler(e.cxx), p)
    ELSE IF interactive THEN SelectCompilerInteractive(h, p, ans)
    ELSE AutoDetectCompiler(h, p)

-----------------------------------------------------------------------------
(* Build-system resolution (BuildSystemSelector).                          *)

\* select_build_system_interactive: [st, bs, pick].  pick is the generator
\* the menu text offers for the reply ("1) Make", "2) Ninja (default)" on
\* Linux, "1) MSBuild", "2) Ninja (default)" on Windows); None when no menu.
SelectBuildSystemInteractive(h, p, ans) ==
    LET n == DetectNinja(p)
        alt == IF OS = "windows" THEN DetectMsbuild(h, p).ok ELSE DetectMake(p)
        altGen == IF OS = "windows" THEN DetectMsbuild(h, p).gen ELSE "Make"
        picked == IF OS = "windows"
                  THEN IF ans = "1" THEN altGen ELSE "Ninja"
                  ELSE IF ans = "2" THEN "Make" ELSE "Ninja"
        offered == IF ans = "1"
                   THEN IF OS = "windows" THEN altGen ELSE "Unix Makefiles"
                   ELSE "Ninja"
    IN IF ~n /\ ~alt THEN [st |-> "fail", bs |-> None, pick |-> None]
       ELSE IF n /\ ~alt THEN [st |-> "ok", bs |-> "Ninja", pick |-> None]
       ELSE IF alt /\ ~n THEN [st |-> "ok", bs |-> altGen, pick |-> None]
       ELSE IF ans = "cancel" THEN [st |-> "interrupted", bs |-> None, pick |-> None]
       ELSE [st |-> "ok", bs |-> picked, pick |-> offered]

\* setup_build_system with a name given: normalise it and check the tool.
\* A name it does not recognise (e.g. "Visual Studio 16 2019") is kept.
ValidateBuildSystem(h, p, bs) ==
    LET l == Lower[bs] IN
    IF l = "ninja" THEN IF DetectNinja(p) THEN [st |-> "ok", bs |-> "Ninja"]
                        ELSE [st |-> "fail", bs |-> bs]
    ELSE IF l \in {"make", "unix makefiles"}
    THEN IF DetectMake(p) THEN [st |-> "ok", bs |-> "Unix Makefiles"]
         ELSE [st |-> "fail", bs |-> bs]
    ELSE IF l \in {"msbuild", "visual studio"}
    THEN IF DetectMsbuild(h, p).ok THEN [st |-> "ok", bs |-> DetectMsbuild(h, p).gen]
         ELSE [st |-> "fail", bs |-> bs]
    ELSE [st |-> "ok", bs |-> bs]

\* setup_build_system without a name: prompt, or auto-detect (Ninja first).
SetupBuildSystem(h, p, bs, interactive, ans) ==
    IF bs # None THEN ValidateBuildSystem(h, p, bs)
    ELSE IF interactive
    THEN LET r == SelectBuildSystemInteractive(h, p, ans) IN
         IF r.st = "ok" THEN ValidateBuildSystem(h, p, r.bs)
         ELSE [st |-> r.st, bs |-> None]
    ELSE IF DetectNinja(p) THEN [st |-> "ok", bs |-> "Ninja"]
    ELSE IF OS = "windows"
    THEN IF DetectMsbuild(h, p).ok THEN [st |-> "ok", bs |-> DetectMsbuild(h, p).gen]
         ELSE [st |-> "fail", bs |-> None]
    ELSE IF DetectMake(p) THEN [st |-> "ok", bs |-> "Unix Makefiles"]
    ELSE [st |-> "fail", bs |-> None]

-----------------------------------------------------------------------------
(* Environment bootstrap: CompilerDetector.setup_msvc_environment.          *)

\* The toolchain needs the MSVC developer environment: Windows, Ninja (or no
\* generator yet) and cl or clang-cl.
NeedsBootstrap(c) ==
    /\ OS = "windows"
    /\ c.buildSystem \in {None, "Ninja"}
    /\ c.compiler \in {"msvc", "cl", "clang-cl"}

\* The tool whose presence on PATH shows the environment is set up.
RequiredTool(c) == IF c.compiler = "clang-cl" THEN "mt" ELSE "cl"

\* Variant that trusts the developer script without checking PATH after it.
MsvcToolVerifiedSkipped(c, p) == TRUE

\* The final check: the required tool is on the imported PATH.
MsvcToolVerified(c, p) == RequiredTool(c) \in p

\* [ok, path]: fast path when the tool is already on PATH; otherwise find
\* a VS install (vswhere or common paths), run its developer script, import
\* the environment it prints, and verify the tool is now on PATH.
SetupMsvcEnvironment(h, p, c) ==
    IF ~NeedsBootstrap(c) \/ RequiredTool(c) \in p THEN [ok |-> TRUE, path |-> p]
    ELSE IF h.vs = "none" \/ h.devScript # "ok" THEN [ok |-> FALSE, path |-> p]
    ELSE [ok |-> MsvcToolVerified(c, p \cup h.devTools), path |-> p \cup h.devTools]

-----------------------------------------------------------------------------
(* Dependencies: ConanManager.setup_conan and the install_deps.py run.      *)

\* install_deps.py accepts only these --generator values (argparse choices).
InstallDepsGenerators == {"Ninja", "Unix Makefiles", "Visual Studio 17 2022"}

\* Outcomes of "install_deps.py --use-conan --no-interactive": non-zero
\* exit, conan install wrote conan_toolchain.cmake, or success without
\* running Conan (all system packages present).
InstallOutcomes == {"fail", "toolchain", "system"}

\* Variant that leaves use_conan = True after install_deps.py failed.
FailedInstallKeepsConan(tc) == [use |-> TRUE, toolchain |-> FALSE, tc |-> tc]

\* install_deps.py exited non-zero: continue without Conan.
FailedInstall(tc) == [use |-> FALSE, toolchain |-> FALSE, tc |-> tc]

\* setup_conan: [use, toolchain, tc] = config.use_conan, whether
\* config.conan_toolchain is set, and whether the workspace holds
\* conan_toolchain.cmake afterwards (tc: before).  a1..a3 answer "use
\* Conan?", "reinstall?" and "run install_deps.py now?"; out is the outcome
\* of install_deps.py when it runs.
SetupConan(c, tc, a1, a2, a3, out) ==
    LET use == IF c.useConan # None THEN c.useConan
               ELSE IF tc \/ ~c.interactive THEN tc ELSE Answer(a1, TRUE)
        keep == tc /\ (~c.interactive \/ ~Answer(a2, FALSE))
        run == c.interactive /\ Answer(a3, TRUE)
        res == IF out = "fail" \/ c.buildSystem \notin InstallDepsGenerators
               THEN "fail" ELSE out
        tc2 == tc \/ (run /\ res = "toolchain")
    IN IF ~use THEN [use |-> FALSE, toolchain |-> FALSE, tc |-> tc]
       ELSE IF keep THEN [use |-> TRUE, toolchain |-> TRUE, tc |-> tc]
       ELSE IF ~run THEN [use |-> FALSE, toolchain |-> FALSE, tc |-> tc]
       ELSE IF res = "fail" THEN FailedInstall(tc)
       ELSE [use |-> tc2, toolchain |-> tc2, tc |-> tc2]

\* Whether setup_conan asked each of its three questions.
ConanAsked(c, tc, a1, a2) ==
    LET use == IF c.useConan # None THEN c.useConan
               ELSE IF tc \/ ~c.interactive THEN tc ELSE Answer(a1, TRUE)
        q1 == c.useConan = None /\ ~tc /\ c.interactive
        q2 == use /\ tc /\ c.interactive
        q3 == use /\ c.interactive /\ ~(tc /\ ~Answer(a2, FALSE))
    IN <<q1, q2, q3>>

-----------------------------------------------------------------------------
(* CMake: CMakeBuilder.configure and what "cmake -S . -B <dir>" does to    *)
(* the workspace.                                                          *)

NotFound == "CMAKE_CXX_COMPILER-NOTFOUND"

\* Generators this CMake can instantiate on the platform; any other -G
\* value is rejected before the cache is read or written.
ValidGenerators ==
    IF OS = "windows"
    THEN {"Ninja", "Unix Makefiles", "Visual Studio 17 2022", "Visual Studio 16 2019"}
    ELSE {"Ninja", "Unix Makefiles"}

\* is_multi_config: Visual Studio generators take no build type and no
\* compiler on the command line.
MultiConfig(bs) == bs \in {"Visual Studio 17 2022", "Visual Studio 16 2019"}

\* The generator's build program (or VS instance) exists on this host.
GeneratorRuns(h, p, bs) ==
    CASE bs = "Ninja" -> "ninja" \in p
      [] bs = "Unix Makefiles" -> "make" \in p
      [] bs = "Visual Studio 17 2022" -> h.vs # "none" /\ h.vsVersion = "2022"
      [] OTHER -> h.vs # "none" /\ h.vsVersion = "2019"

\* The C++ compiler CMake finds when none is passed and none is cached.
DefaultCxx(h, p, bs) ==
    IF OS = "windows"
    THEN IF MultiConfig(bs)
         THEN IF h.vs # "none" THEN "MSVC/bin/Hostx64/x64/cl.exe" ELSE NotFound
         ELSE IF "cl" \in p THEN "MSVC/bin/Hostx64/x64/cl.exe"
         ELSE IF "g++" \in p THEN "/usr/bin/g++"
         ELSE IF "clang++" \in p THEN "/usr/bin/clang++"
         ELSE NotFound
    ELSE IF "g++" \in p \/ "clang++" \in p THEN "/usr/bin/c++" ELSE NotFound

\* Whether -DCMAKE_C/CXX_COMPILER is passed: fallback branch only, not for
\* multi-config generators, not for msvc.
PassesCompiler(c, conanBranch) ==
    ~conanBranch /\ ~MultiConfig(c.buildSystem) /\ c.compiler # "msvc"

\* The cmake run on workspace entry base: [why, entry].  why = None is
\* success; "badgen" and "mismatch" fail before anything is written; "late"
\* is a failure after CMakeCache.txt was written (compiler not found,
\* generator program missing, or an error in the project; fails).
\* cmake saves CMakeCache.txt copy-if-different: a cache whose content does
\* not change keeps its file, and with it its mtime (stamp).
RunCMake(h, p, c, base, conanBranch, fails) ==
    LET bs == c.buildSystem
        pass == PassesCompiler(c, conanBranch)
        cxx == IF pass THEN PathOfCxx[CxxName(c.compiler)]
               ELSE IF base.configured /\ base.cxx # NotFound THEN base.cxx
               ELSE DefaultCxx(h, p, bs)
        content == [configured |-> TRUE, cxx |-> cxx, gen |-> bs,
                    coreOnly |-> c.coreOnly, tests |-> c.tests,
                    examples |-> c.examples, useConan |-> conanBranch,
                    toolchain |-> base.toolchain, stamp |-> base.stamp]
        written == IF content = base THEN base ELSE [content EXCEPT !.stamp = runs]
        late == \/ fails
                \/ ~GeneratorRuns(h, p, bs)
                \/ cxx = NotFound
                \/ pass /\ CxxName(c.compiler) \notin p
    IN IF bs \notin ValidGenerators THEN [why |-> "badgen", entry |-> base]
       ELSE IF base.configured /\ base.gen # bs THEN [why |-> "mismatch", entry |-> base]
       ELSE IF late THEN [why |-> "late", entry |-> written]
       ELSE [why |-> None, entry |-> written]

-----------------------------------------------------------------------------
(* main(): one action per stretch of main() between two prompts.          *)

\* The workspace the invocation configures: build/<type>/<platform>.
Dir == cfg.buildType

\* An input() prompt interrupted by Ctrl-C / EOF: the exception is not
\* caught, the script dies with a traceback.
Interrupted ==
    /\ pc' = "failed" /\ cancelled' = TRUE
    /\ UNCHANGED <<host, ws, args, cfg, path, runs, ws0, pick, why>>

\* main(): BuildConfig after "Apply command line arguments".
ArgsConfig(a) ==
    [buildType |-> a.type, compiler |-> a.compiler,
     buildSystem |-> a.buildSystem,
     coreOnly |-> IF a.coreOnly THEN TRUE ELSE None,
     tests |-> a.tests, examples |-> a.examples,
     clean |-> a.clean, interactive |-> ~a.noInteractive,
     useConan |-> IF a.useConan THEN TRUE ELSE IF a.noConan THEN FALSE ELSE None,
     toolchain |-> FALSE]

\* main(): "Set defaults for non-interactive mode".
NonInteractiveDefaults(c) ==
    [c EXCEPT !.buildType = IF @ = None THEN "Release" ELSE @,
              !.coreOnly = IF @ = None THEN FALSE ELSE @,
              !.tests = IF @ = None THEN FALSE ELSE @,
              !.examples = IF @ = None THEN FALSE ELSE @]

\* main() up to the first prompt: apply the arguments, check for cmake, and
\* in non-interactive mode fill in the defaults.
Invoke(a) ==
    /\ pc \in {"idle", "done", "failed"}
    /\ runs < MaxRuns
    /\ LET c == ArgsConfig(a)
       IN /\ cfg' = IF c.interactive THEN c ELSE NonInteractiveDefaults(c)
          /\ pc' = IF "cmake" \notin host.path THEN "failed"
                   ELSE IF c.interactive THEN "modules" ELSE "setupCompiler"
    /\ args' = a /\ path' = host.path /\ runs' = runs + 1 /\ ws0' = ws
    /\ cancelled' = FALSE /\ pick' = None /\ why' = None
    /\ UNCHANGED <<host, ws>>

\* select_modules_interactive, when --core-only was not given.
Modules ==
    /\ pc = "modules"
    /\ IF cfg.coreOnly # None
       THEN pc' = "testsEx" /\ UNCHANGED <<host, ws, args, cfg, path, runs, ws0, cancelled, pick, why>>
       ELSE \E ans \in Menu :
              IF ans = "cancel" THEN Interrupted
              ELSE /\ cfg' = [cfg EXCEPT !.coreOnly = (ans = "1")]
                   /\ pc' = "testsEx"
                   /\ UNCHANGED <<host, ws, args, path, runs, ws0, cancelled, pick, why>>

\* Variant that asks even when the flag was given on the command line.
AskFlagAlways(v, a, default) == Answer(a, default)

\* select_tests_and_examples_interactive: ask only for a flag not given.
AskFlag(v, a, default) == IF v = None THEN Answer(a, default) ELSE v

\* select_tests_and_examples_interactive; ask_yes_no turns Ctrl-C into "no".
TestsExamples ==
    /\ pc = "testsEx"
    /\ \E a1, a2 \in YesNo :
         /\ cfg' = [cfg EXCEPT !.tests = AskFlag(cfg.tests, a1, FALSE),
                               !.examples = AskFlag(cfg.examples, a2, FALSE)]
         /\ cancelled' = (cancelled \/ (cfg.tests = None /\ a1 = "cancel")
                                    \/ (cfg.examples = None /\ a2 = "cancel"))
    /\ pc' = "buildType"
    /\ UNCHANGED <<host, ws, args, path, runs, ws0, pick, why>>

\* Variant of the build-type menu that yields the directory's lower-case name.
BuildTypeOfLower(ans) == IF ans = "1" THEN "debug" ELSE "release"

\* select_build_type_interactive: 1 Debug, 2 RelWithDebInfo, else Release.
BuildTypeOf(ans) == CASE ans = "1" -> "Debug"
                      [] ans = "2" -> "RelWithDebInfo"
                      [] OTHER -> "Release"

\* select_build_type_interactive, when --type was not given.
BuildType ==
    /\ pc = "buildType"
    /\ IF cfg.buildType # None
       THEN pc' = "selectCompiler" /\ UNCHANGED <<host, ws, args, cfg, path, runs, ws0, cancelled, pick, why>>
       ELSE \E ans \in Menu :
              IF ans = "cancel" THEN Interrupted
              ELSE /\ cfg' = [cfg EXCEPT !.buildType = BuildTypeOf(ans)]
                   /\ pc' = "selectCompiler"
                   /\ UNCHANGED <<host, ws, args, path, runs, ws0, cancelled, pick, why>>

\* select_compiler_interactive, when --compiler was not given; main()
\* ignores its result, setup_compiler runs next either way.
SelectCompiler ==
    /\ pc = "selectCompiler"
    /\ IF cfg.compiler # None
       THEN pc' = "setupCompiler" /\ UNCHANGED <<host, ws, args, cfg, path, runs, ws0, cancelled, pick, why>>
       ELSE \E ans \in Menu :
              LET r == SelectCompilerInteractive(host, path, ans) IN
              IF r.st = "interrupted" THEN Interrupted
              ELSE /\ cfg' = [cfg EXCEPT !.compiler = r.compiler]
                   /\ path' = r.path
                   /\ pc' = "setupCompiler"
                   /\ UNCHANGED <<host, ws, args, runs, ws0, cancelled, pick, why>>

\* setup_compiler; "return 1" when it fails.
SetupCompilerStep ==
    /\ pc = "setupCompiler"
    /\ \E ans \in Menu :
         LET r == SetupCompiler(host, path, cfg.compiler, ws[Dir], cfg.interactive, ans) IN
         IF r.st = "interrupted" THEN Interrupted
         ELSE /\ cfg' = [cfg EXCEPT !.compiler = IF r.st = "ok" THEN r.compiler ELSE @]
              /\ path' = r.path
              /\ pc' = IF r.st # "ok" THEN "failed"
                       ELSE IF cfg.interactive THEN "selectBuildSystem"
                       ELSE "setupBuildSystem"
              /\ UNCHANGED <<host, ws, args, runs, ws0, cancelled, pick, why>>

\* select_build_system_interactive, when --build-system was not given.
SelectBuildSystem ==
    /\ pc = "selectBuildSystem"
    /\ IF cfg.buildSystem # None
       THEN pc' = "setupBuildSystem" /\ UNCHANGED <<host, ws, args, cfg, path, runs, ws0, cancelled, pick, why>>
       ELSE \E ans \in Menu :
              LET r == SelectBuildSystemInteractive(host, path, ans) IN
              IF r.st = "interrupted" THEN Interrupted
              ELSE /\ cfg' = [cfg EXCEPT !.buildSystem = r.bs]
                   /\ pick' = r.pick
                   /\ pc' = "setupBuildSystem"
                   /\ UNCHANGED <<host, ws, args, path, runs, ws0, cancelled, why>>

\* setup_build_system, then setup_msvc_environment and its check in main().
SetupBuildSystemStep ==
    /\ pc = "setupBuildSystem"
    /\ \E ans \in Menu :
         LET r == SetupBuildSystem(host, path, cfg.buildSystem, cfg.interactive, ans)
             c2 == [cfg EXCEPT !.buildSystem = r.bs]
             m == SetupMsvcEnvironment(host, path, c2)
         IN
         IF r.st = "interrupted" THEN Interrupted
         ELSE /\ cfg' = c2
              /\ path' = IF r.st = "ok" THEN m.path ELSE path
              /\ pc' = IF r.st # "ok" THEN "failed"
                       ELSE IF ~m.ok /\ c2.compiler \in {"msvc", "clang-cl"} THEN "failed"
                       ELSE "conan"
              /\ UNCHANGED <<host, ws, args, runs, ws0, cancelled, pick, why>>

\* ConanManager.setup_conan; install_deps.py writes the workspace's
\* conan_toolchain.cmake when it runs Conan.
Conan ==
    /\ pc = "conan"
    /\ \E a1, a2, a3 \in YesNo, out \in InstallOutcomes :
         LET tc == ws[Dir].toolchain
             r == SetupConan(cfg, tc, a1, a2, a3, out)
             q == ConanAsked(cfg, tc, a1, a2)
         IN /\ cfg' = [cfg EXCEPT !.useConan = r.use, !.toolchain = r.toolchain]
            /\ ws' = [ws EXCEPT ![Dir].toolchain = r.tc]
            /\ cancelled' = (cancelled \/ (q[1] /\ a1 = "cancel")
                                       \/ (q[2] /\ a2 = "cancel")
                                       \/ (q[3] /\ a3 = "cancel"))
    /\ pc' = "cmake"
    /\ UNCHANGED <<host, args, path, runs, ws0, pick, why>>

\* Variant that puts the clean-the-build-directory question to a
\* non-interactive run too.
CMakeAskNonInteractive ==
    /\ pc = "cmake"
    /\ \E ans \in YesNo, fails \in BOOLEAN :
         LET e == ws[Dir]
             conanBranch == cfg.useConan = TRUE /\ cfg.toolchain
             askClean == ~conanBranch /\ e.configured /\ e.gen # cfg.buildSystem
             clean == ~conanBranch /\ (cfg.clean \/ (askClean /\ Answer(ans, TRUE)))
             base == IF clean THEN EmptyDir ELSE e
             r == RunCMake(host, path, cfg, base, conanBranch, fails)
         IN /\ ws' = [ws EXCEPT ![Dir] = r.entry]
            /\ why' = r.why
            /\ pc' = IF r.why = None THEN "done" ELSE "failed"
            /\ cancelled' = (cancelled \/ (askClean /\ ans = "cancel"))
    /\ UNCHANGED <<host, args, cfg, path, runs, ws0, pick>>

\* CMakeBuilder.configure: the Conan branch when a toolchain is set, else
\* the fallback with its generator-change prompt and --clean (rmtree,
\* which also removes conan_toolchain.cmake); then cmake itself.
CMake ==
    /\ pc = "cmake"
    /\ \E ans \in YesNo, fails \in BOOLEAN :
         LET e == ws[Dir]
             conanBranch == cfg.useConan = TRUE /\ cfg.toolchain
             askClean == ~conanBranch /\ cfg.interactive
                         /\ e.configured /\ e.gen # cfg.buildSystem
             clean == ~conanBranch /\ (cfg.clean \/ (askClean /\ Answer(ans, TRUE)))
             base == IF clean THEN EmptyDir ELSE e
             r == RunCMake(host, path, cfg, base, conanBranch, fails)
         IN /\ ws' = [ws EXCEPT ![Dir] = r.entry]
            /\ why' = r.why
            /\ pc' = IF r.why = None THEN "done" ELSE "failed"
            /\ cancelled' = (cancelled \/ (askClean /\ ans = "cancel"))
    /\ UNCHANGED <<host, args, cfg, path, runs, ws0, pick>>

\* No further invocation once MaxRuns have been made.
Finished ==
    /\ pc \in {"idle", "done", "failed"} /\ runs = MaxRuns
    /\ UNCHANGED vars

Init ==
    /\ host \in Hosts
    /\ ws = [b \in BuildTypes |-> EmptyDir]
    /\ pc = "idle"
    /\ args = CHOOSE a \in Args : TRUE
    /\ cfg = [buildType |-> None, compiler |-> None, buildSystem |-> None,
              coreOnly |-> None, tests |-> None, examples |-> None,
              clean |-> FALSE, interactive |-> TRUE, useConan |-> None,
              toolchain |-> FALSE]
    /\ path = host.path
    /\ runs = 0
    /\ ws0 = ws
    /\ cancelled = FALSE
    /\ pick = None
    /\ why = None

Next ==
    \/ \E a \in Args : Invoke(a)
    \/ Modules \/ TestsExamples \/ BuildType
    \/ SelectCompiler \/ SetupCompilerStep
    \/ SelectBuildSystem \/ SetupBuildSystemStep
    \/ Conan \/ CMake
    \/ Finished

Spec == Init /\ [][Next]_vars

-----------------------------------------------------------------------------
(* Properties.                                                             *)

TypeOK ==
    /\ host \in HostRec
    /\ ws \in [BuildTypes -> Entry]
    /\ pc \in Pcs
    /\ args \in ArgRec
    /\ cfg \in CfgRec
    /\ path \subseteq Tools
    /\ runs \in 0..MaxRuns
    /\ ws0 \in [BuildTypes -> Entry]
    /\ cancelled \in BOOLEAN
    /\ pick \in GenNames \cup {None}
    /\ why \in Failures

\* Dependencies: when cmake is about to run, config.use_conan holds exactly
\* when a Conan toolchain is set, and that toolchain file exists in the
\* workspace (setup_conan's failure paths must all reset use_conan; the
\* fallback branch of CMakeBuilder.configure relies on it); and any
\* workspace whose cache says HELIOS_USE_CONAN=ON still has its toolchain.
ConanConsistent ==
    /\ pc = "cmake" => /\ (cfg.useConan = TRUE) = cfg.toolchain
                       /\ cfg.toolchain => ws[Dir].toolchain
    /\ \A b \in BuildTypes : ws[b].configured /\ ws[b].useConan => ws[b].toolchain

\* Environment bootstrap: once setup_msvc_environment has let main()
\* continue with a toolchain that needs the MSVC environment (Ninja with
\* msvc or clang-cl on Windows), the tool it needs (cl, or mt for
\* clang-cl) is on the PATH cmake will inherit.
ToolchainReadyForCMake ==
    pc \in {"conan", "cmake", "done"} /\ NeedsBootstrap(cfg)
        => RequiredTool(cfg) \in path

\* One step replaces a configured workspace's generator only in a run given
\* --clean or in an interactive run.
ConsentedSwitches ==
    \A b \in BuildTypes :
        ws[b].configured /\ ws'[b].configured /\ ws'[b].gen # ws[b].gen
            => cfg.clean \/ cfg.interactive

\* Workspace protection, an action property: a step that replaces the
\* generator recorded in a configured workspace's CMakeCache.txt belongs to
\* a run given --clean or to an interactive run (where the user accepted
\* the "clean the build directory?" question in CMakeBuilder.configure);
\* a -n reconfiguration never switches generators silently, since cmake
\* refuses the change and configure() asks only when interactive.
GeneratorSwitchNeedsConsent == [][ConsentedSwitches]_vars

\* Explicit input wins: a run that completes records, in the workspace of
\* the --type it was given, the --build-tests/--build-examples values and
\* --core-only it was given, whatever the prompts were answered.
ExplicitArgsPersist ==
    pc = "done" =>
        /\ args.type # None => Dir = args.type
        /\ args.tests # None => ws[Dir].tests = args.tests
        /\ args.examples # None => ws[Dir].examples = args.examples
        /\ args.coreOnly => ws[Dir].coreOnly

\* Cache inheritance: a non-interactive reconfiguration without --compiler
\* of a workspace whose CMakeCache.txt names a known compiler leaves the
\* workspace configured with the same compiler (setup_compiler reads the
\* cache; CMakeBuilder.configure passes it back or lets CMake keep it).
NonInteractiveKeepsCompiler ==
    pc = "done" /\ ~cfg.interactive /\ args.compiler = None
    /\ ws0[Dir].configured /\ CompilerOfPath[ws0[Dir].cxx] # None
        => CompilerOfPath[ws[Dir].cxx] = CompilerOfPath[ws0[Dir].cxx]

\* The build-system menu: the generator configured is the one the menu
\* text offers for the reply given ("1) Make", "2) Ninja (default)").
BuildSystemPromptHonoured ==
    pick # None /\ pc \in {"conan", "cmake", "done"} => cfg.buildSystem = pick

\* Cache inheritance law of the spec, in an interactive run (the -n case is
\* NonInteractiveKeepsCompiler): with no --compiler, the resolved compiler
\* of a workspace whose cache was configured with a known compiler is that
\* compiler.
CompilerCacheInherited ==
    pc \in {"selectBuildSystem", "setupBuildSystem", "conan", "cmake", "done"}
    /\ cfg.interactive /\ args.compiler = None /\ ws0[Dir].configured /\ CompilerOfPath[ws0[Dir].cxx] # None
        => cfg.compiler = CompilerOfPath[ws0[Dir].cxx]

\* --clean starts from an empty build directory, so cmake never fails on
\* a generator that differs from the one cached.
CleanPreventsMismatch ==
    args.clean /\ pc = "failed" => why # "mismatch"

\* The workspace a completed run leaves is configured with the compiler the
\* run resolved (or one the scripts cannot name).
ResolvedCompilerRecorded ==
    pc = "done" => CompilerOfPath[ws[Dir].cxx] \in {cfg.compiler, None}

\* configure.py seen as a run of the build tree: between main()'s start and
\* its exit the run is "running".
RunPhase == IF pc \in {"idle", "done", "failed"} THEN pc ELSE "running"

WS == INSTANCE Workspaces
        WITH Dirs <- BuildTypes, Entries <- Entry, Unwritten <- EmptyDir,
             NoDir <- None, tree <- ws, run <- runs, phase <- RunPhase,
             target <- Dir, consent <- cfg.clean \/ cfg.interactive

\* configure.py keeps the workspace lifecycle of the specification: each run
\* touches only the workspace of its build type; prompts, cancels and
\* detection failures write nothing; a run succeeds only by a cache write,
\* stamped with it unless the cache is unchanged; a workspace is emptied only by --clean or a clean the
\* user accepted (CMakeBuilder.configure's rmtree).
WorkspaceLifecycle == WS!Spec

====
