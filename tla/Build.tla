-------------------------------- MODULE Build --------------------------------
(***************************************************************************)
(* scripts/build.py: pick a workspace (interactively, or the most recently *)
(* configured one), run configure.py when the workspace must be           *)
(* (re)configured -- seeding its command line from the workspace's        *)
(* CMakeCache.txt -- and run "cmake --build" on the workspace it then      *)
(* finds.  configure.py runs as a subprocess that build.py waits for: its *)
(* steps are the actions of Configure, taken while build.py is in         *)
(* "configuring", and both scripts share the build/ tree ws.              *)
(***************************************************************************)
EXTENDS Configure

CONSTANTS
    BuildArgs,  \* the build.py command lines considered
    MaxBuilds   \* bound on the number of build.py invocations

\* build.py's --build-system choices.
BuildGenerators == {"Ninja", "Unix Makefiles", "Visual Studio 17 2022"}

\* build.py's arguments; platform: whether --platform was given; lint and
\* --jobs change nothing but the output and are left out.
BArgRec == [type: BuildTypes \cup {None}, compiler: CompilerNames \cup {None},
            buildSystem: BuildGenerators \cup {None}, platform: BOOLEAN,
            coreOnly: BOOLEAN, tests: BOOLEAN \cup {None},
            examples: BOOLEAN \cup {None}, useConan: BOOLEAN \cup {None},
            clean: BOOLEAN, noInteractive: BOOLEAN, skipConfigure: BOOLEAN,
            format: BOOLEAN]

ASSUME BuildAssumption ==
    /\ BuildArgs \subseteq BArgRec /\ BuildArgs # {}
    /\ MaxBuilds \in Nat \ {0}
    /\ MaxBuilds <= MaxRuns    \* each build.py run starts configure.py at most once
    /\ None \notin {"format", "interrupted", "usage", "configure", "nodir",
                    "unconfigured", "notConfigured", "build"}  \* None is no string

\* Where build.py's main() is; the last four are exits (0 for done and
\* cancelled).
BPcs == {"idle", "format", "locate", "select", "reconfigure", "route",
         "configuring", "build", "done", "failed", "cancelled"}
Ended == {"idle", "done", "failed", "cancelled"}

\* Why build.py exited 1.
BWhy == {None, "format", "interrupted", "usage", "configure", "nodir",
         "unconfigured", "notConfigured", "build"}

VARIABLES
    bpc,      \* where build.py main() is
    bargs,    \* its command line (args.type is set by the selection)
    bdir,     \* build_dir: a build type, or None
    needs,    \* needs_configure
    btype,    \* the --config value passed to cmake --build
    builds,   \* build.py invocations so far
    bwhy,     \* why the last invocation failed
    reconf,   \* ghost: the workspace entry chosen for "Reconfigure existing"
    ranConf   \* ghost: this invocation ran configure.py

bvars == <<bpc, bargs, bdir, needs, btype, builds, bwhy, reconf, ranConf>>
allVars == <<vars, bvars>>

-----------------------------------------------------------------------------
(* Workspace discovery and the configure.py command line.                  *)

\* Variant that takes any directory for a configured one.
IsConfiguredAssumed(e) == TRUE

\* is_configured: CMakeCache.txt exists.
IsConfigured(e) == e.configured

\* find_all_configured_build_dirs (as a set; the listing order is
\* Debug, Release, RelWithDebInfo).
ConfiguredDirs(w) == {b \in BuildTypes : IsConfigured(w[b])}

\* The listing order of find_all_configured_build_dirs.
ListOrder == [b \in BuildTypes |->
                CASE b = "Debug" -> 0 [] b = "Release" -> 1 [] OTHER -> 2]

\* Variant that returns the first directory of the listing instead of the
\* newest one.
FirstConfiguredDir(w) ==
    IF ConfiguredDirs(w) = {} THEN None
    ELSE CHOOSE b \in ConfiguredDirs(w) :
           \A o \in ConfiguredDirs(w) : ListOrder[b] <= ListOrder[o]

\* find_configured_build_dir: the directory whose CMakeCache.txt was
\* written last (each configure.py run stamps the one it writes).
NewestConfiguredDir(w) ==
    IF ConfiguredDirs(w) = {} THEN None
    ELSE CHOOSE b \in ConfiguredDirs(w) :
           \A o \in ConfiguredDirs(w) : w[o].stamp <= w[b].stamp

\* Variant that passes the C++ compiler executable instead of its name.
SeedCxxCompiler(cxx) ==
    LET m == MarksOf[cxx] IN
    IF "g++" \in m \/ "gcc" \in m THEN "g++"
    ELSE IF "clang++" \in m \/ "clang" \in m THEN "clang++"
    ELSE IF "cl.exe" \in m \/ "msvc" \in m THEN "cl"
    ELSE None

\* The --compiler run_configure derives from CMAKE_CXX_COMPILER.
SeedCompiler(cxx) ==
    LET m == MarksOf[cxx] IN
    IF "g++" \in m \/ "gcc" \in m THEN "gcc"
    ELSE IF "clang++" \in m \/ "clang" \in m THEN "clang"
    ELSE IF "cl.exe" \in m \/ "msvc" \in m THEN "msvc"
    ELSE None

\* Variant that ignores the cached value of an option.
SeedFlagIgnoreCache(v, cached) == v

\* An option of run_configure: the explicit value, else the cached one.
SeedFlag(v, cached) == IF v = None THEN cached ELSE v

\* run_configure's command line, as configure.py's parse_arguments reads it;
\* e is the entry of the workspace being reconfigured, or None.
ConfigureCmd(a, e) ==
    LET seeded == e # None
        cached(f) == IF seeded THEN f ELSE None
        cc == SeedFlag(a.compiler, IF seeded THEN SeedCompiler(e.cxx) ELSE None)
    IN [type |-> a.type, compiler |-> cc,
        buildSystem |-> SeedFlag(a.buildSystem, cached(e.gen)),
        coreOnly |-> a.coreOnly,
        tests |-> SeedFlag(a.tests, cached(e.tests)),
        examples |-> SeedFlag(a.examples, cached(e.examples)),
        clean |-> a.clean, noInteractive |-> a.noInteractive,
        useConan |-> a.useConan = TRUE \/ (a.useConan = None /\ seeded /\ e.toolchain),
        noConan |-> a.useConan = FALSE]

\* has_config_args (--platform is not among them).
HasConfigArgs(a) ==
    \/ a.type # None \/ a.compiler # None \/ a.buildSystem # None
    \/ a.coreOnly \/ a.tests # None \/ a.examples # None
    \/ a.useConan # None \/ a.clean

\* Variant that only notices a successful exit of configure.py.
ConfigureExitedOnSuccess == pc = "done"

\* configure.py has exited (subprocess.run returned).
ConfigureExited == pc \in {"done", "failed"}

-----------------------------------------------------------------------------
(* build.py main().                                                        *)

\* run_configure(existing): configure.py rejects --platform (exit 2);
\* otherwise it starts on the derived command line.
RunConfigure(existing) ==
    LET cmd == ConfigureCmd(bargs, IF existing = None THEN None ELSE ws[existing])
    IN IF bargs.platform
       THEN /\ bpc' = "failed" /\ bwhy' = "usage"
            /\ UNCHANGED <<vars, bargs, bdir, needs, btype, builds, reconf, ranConf>>
       ELSE /\ Invoke(cmd)
            /\ bpc' = "configuring" /\ ranConf' = TRUE
            /\ UNCHANGED <<bargs, bdir, needs, btype, builds, bwhy, reconf>>

\* main() up to the formatting step.
Start(a) ==
    /\ bpc \in Ended /\ builds < MaxBuilds
    /\ bpc' = IF a.format THEN "format" ELSE "locate"
    /\ bargs' = a /\ bdir' = None /\ needs' = FALSE /\ btype' = None
    /\ builds' = builds + 1 /\ bwhy' = None /\ reconf' = None /\ ranConf' = FALSE
    /\ UNCHANGED vars

\* --format: run format.py; a non-zero exit ends build.py.
Format ==
    /\ bpc = "format"
    /\ \E ok \in BOOLEAN :
         /\ bpc' = IF ok THEN "locate" ELSE "failed"
         /\ bwhy' = IF ok THEN None ELSE "format"
    /\ UNCHANGED <<vars, bargs, bdir, needs, btype, builds, reconf, ranConf>>

\* The selection prompt when no option is given; otherwise the
\* non-interactive choice of the newest configured directory.
Locate ==
    /\ bpc = "locate"
    /\ LET a == bargs
           cd == NewestConfiguredDir(ws)
           nc == \/ a.clean \/ cd = None \/ (a.type # None /\ cd # a.type)
                 \/ HasConfigArgs(a)
       IN IF ~HasConfigArgs(a) /\ ~a.skipConfigure /\ ~a.noInteractive
          THEN bpc' = "select" /\ UNCHANGED <<bdir, needs>>
          ELSE /\ needs' = nc
               /\ bdir' = IF ~nc THEN cd ELSE None
               /\ bpc' = "route"
    /\ UNCHANGED <<vars, bargs, btype, builds, bwhy, reconf, ranConf>>

\* select_build_dir_interactive, first prompt: build an existing directory,
\* configure a new one, or reconfigure; Ctrl-C exits 0.
SelectBuildDir ==
    /\ bpc = "select"
    /\ IF ConfiguredDirs(ws) = {}
       THEN bpc' = "route" /\ needs' = TRUE /\ UNCHANGED <<bargs, bdir>>
       ELSE \E c \in ConfiguredDirs(ws) \cup {"new", "reconfigure", "cancel"} :
              CASE c = "cancel" -> bpc' = "cancelled" /\ UNCHANGED <<bargs, bdir, needs>>
                [] c = "new" -> bpc' = "route" /\ needs' = TRUE /\ UNCHANGED <<bargs, bdir>>
                [] c = "reconfigure" -> bpc' = "reconfigure" /\ UNCHANGED <<bargs, bdir, needs>>
                [] OTHER -> /\ bpc' = "route" /\ bdir' = c /\ needs' = FALSE
                            /\ bargs' = [bargs EXCEPT !.type = c]
    /\ UNCHANGED <<vars, btype, builds, bwhy, reconf, ranConf>>

\* select_build_dir_interactive, "Select build to reconfigure": input() is
\* not guarded here, so Ctrl-C ends build.py with a traceback.
SelectReconfigure ==
    /\ bpc = "reconfigure"
    /\ \E c \in ConfiguredDirs(ws) \cup {"cancel"} :
         IF c = "cancel"
         THEN bpc' = "failed" /\ bwhy' = "interrupted"
              /\ UNCHANGED <<bargs, bdir, needs, reconf>>
         ELSE /\ bpc' = "route" /\ bdir' = c /\ needs' = TRUE
              /\ bargs' = [bargs EXCEPT !.type = c]
              /\ reconf' = ws[c]
              /\ UNCHANGED bwhy
    /\ UNCHANGED <<vars, btype, builds, ranConf>>

\* main(): "Run configure if needed", else fall back to the newest
\* configured directory or build/<type>, configuring it if it has no cache.
Route ==
    /\ bpc = "route"
    /\ IF ~bargs.skipConfigure /\ needs THEN RunConfigure(bdir)
       ELSE IF bdir # None
       THEN bpc' = "build" /\ UNCHANGED <<vars, bargs, bdir, needs, btype, builds, bwhy, reconf, ranConf>>
       ELSE LET cd == NewestConfiguredDir(ws)
                d == IF cd # None THEN cd
                     ELSE IF bargs.type # None THEN bargs.type ELSE "Release"
            IN IF IsConfigured(ws[d])
               THEN /\ bpc' = "build" /\ bdir' = d
                    /\ UNCHANGED <<vars, bargs, needs, btype, builds, bwhy, reconf, ranConf>>
               ELSE IF bargs.skipConfigure
               THEN /\ bpc' = "failed" /\ bwhy' = "unconfigured"
                    /\ UNCHANGED <<vars, bargs, bdir, needs, btype, builds, reconf, ranConf>>
               ELSE RunConfigure(None)

\* configure.py runs; build.py waits in subprocess.run.
Configuring ==
    /\ bpc = "configuring" /\ ~ConfigureExited
    /\ \/ Modules \/ TestsExamples \/ BuildType
       \/ SelectCompiler \/ SetupCompilerStep
       \/ SelectBuildSystem \/ SetupBuildSystemStep
       \/ Conan \/ CMake
    /\ UNCHANGED bvars

\* configure.py exited: on success build.py takes the newest configured
\* directory (find_configured_build_dir).
AfterConfigure ==
    /\ bpc = "configuring" /\ ConfigureExited
    /\ LET nd == NewestConfiguredDir(ws) IN
       CASE pc = "failed" -> bpc' = "failed" /\ bwhy' = "configure" /\ UNCHANGED bdir
         [] nd = None -> bpc' = "failed" /\ bwhy' = "nodir" /\ UNCHANGED bdir
         [] OTHER -> bpc' = "build" /\ bdir' = nd /\ UNCHANGED bwhy
    /\ UNCHANGED <<vars, bargs, needs, btype, builds, reconf, ranConf>>

\* build_project: --config is args.type or the directory's build type;
\* "cmake --build" may fail (compile errors).  --lint only warns.
BuildProject ==
    /\ bpc = "build"
    /\ btype' = IF bargs.type # None THEN bargs.type ELSE bdir
    /\ IF ~IsConfigured(ws[bdir])
       THEN bpc' = "failed" /\ bwhy' = "notConfigured"
       ELSE \E ok \in BOOLEAN :
              /\ bpc' = IF ok THEN "done" ELSE "failed"
              /\ bwhy' = IF ok THEN None ELSE "build"
    /\ UNCHANGED <<vars, bargs, bdir, needs, builds, reconf, ranConf>>

\* No further invocation once MaxBuilds have been made.
BuildsDone ==
    /\ bpc \in Ended /\ builds = MaxBuilds
    /\ UNCHANGED allVars

BuildInit ==
    /\ Init
    /\ bpc = "idle" /\ bargs = CHOOSE a \in BuildArgs : TRUE
    /\ bdir = None /\ needs = FALSE /\ btype = None /\ builds = 0
    /\ bwhy = None /\ reconf = None /\ ranConf = FALSE

\* One step of build.py or of the configure.py it waits for.
BuildStep ==
    \/ Format \/ Locate \/ SelectBuildDir \/ SelectReconfigure \/ Route
    \/ Configuring \/ AfterConfigure \/ BuildProject

BuildNext == (\E a \in BuildArgs : Start(a)) \/ BuildStep \/ BuildsDone

BuildSpec == BuildInit /\ [][BuildNext]_allVars

-----------------------------------------------------------------------------
(* Properties.                                                             *)

BuildTypeOK ==
    /\ TypeOK
    /\ bpc \in BPcs
    /\ bargs \in BArgRec
    /\ bdir \in BuildTypes \cup {None}
    /\ needs \in BOOLEAN
    /\ btype \in BuildTypes \cup {None}
    /\ builds \in 0..MaxBuilds
    /\ bwhy \in BWhy
    /\ reconf \in Entry \cup {None}
    /\ ranConf \in BOOLEAN

\* Build what was configured: after build.py ran configure.py, the
\* directory it builds (find_configured_build_dir, by cache mtime) is the
\* workspace configure.py just configured, whatever other workspaces exist.
BuiltWhatConfigured ==
    bpc \in {"build", "done"} /\ ranConf => bdir = Dir

\* build_project's "This should not happen - configure.py should have run
\* first" is unreachable, and cmake --build only ever succeeds on a
\* directory holding a CMakeCache.txt.
NeverBuildsUnconfigured ==
    /\ bwhy # "notConfigured"
    /\ bpc = "done" => ws[bdir].configured

\* The workspace chosen under "Reconfigure existing" (select_build_dir
\* sets args.type to it).
ReconfiguredDir == bargs.type

\* "Reconfigure existing" keeps the workspace's settings: once configure.py
\* has succeeded, the workspace the user chose still has the generator and
\* the tests/examples flags of the cache run_configure seeded it from.
ReconfigureKeepsSettings ==
    bpc \in {"build", "done"} /\ reconf # None =>
        /\ ws[ReconfiguredDir].gen = reconf.gen
        /\ ws[ReconfiguredDir].tests = reconf.tests
        /\ ws[ReconfiguredDir].examples = reconf.examples

\* ... and the compiler of that cache: a workspace configured with a known
\* compiler still is after "Reconfigure existing".
ReconfigureKeepsCompiler ==
    bpc = "done" /\ reconf # None /\ CompilerOfPath[reconf.cxx] # None =>
        CompilerOfPath[ws[ReconfiguredDir].cxx] = CompilerOfPath[reconf.cxx]

\* ... and the --core-only setting of that cache.
ReconfigureKeepsCoreOnly ==
    bpc = "done" /\ reconf # None => ws[ReconfiguredDir].coreOnly = reconf.coreOnly

\* An explicit --type is what gets built: a build.py run given --type T
\* that succeeds built build/<T>.
ExplicitTypeBuilt ==
    bpc = "done" /\ bargs.type # None => bdir = bargs.type
====
