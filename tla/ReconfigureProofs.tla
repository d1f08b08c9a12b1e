--------------------------- MODULE ReconfigureProofs ---------------------------
(***************************************************************************)
(* Proof that "Reconfigure existing" keeps a workspace's generator and    *)
(* its tests/examples flags.  build.py reads them from the chosen         *)
(* workspace's CMakeCache.txt into configure.py's command line            *)
(* (run_configure); configure.py keeps a generator CMake accepts as it is *)
(* (setup_build_system), puts the flags in the BuildConfig and cmake      *)
(* writes them back.  The menu is only shown to a build.py run with no    *)
(* configure option, so nothing on the command line overrides the seeds.  *)
(***************************************************************************)
EXTENDS BuildProofs, ConfigureArgsProofs

\* The selection menus are reached only without configure options; the
\* "Reconfigure existing" entry remembered in reconf is a configured
\* workspace with a generator CMake accepts, nothing on the command line
\* overrides its settings, select_build_dir has set --type to it, and from
\* run_configure on configure.py's command line carries them and that type.
ReconfSeeded ==
    /\ bpc \in {"idle", "format", "locate", "select", "reconfigure"} => reconf = None
    /\ bpc \in {"select", "reconfigure"} => ~HasConfigArgs(bargs) /\ ~bargs.skipConfigure
    /\ reconf # None =>
         /\ reconf.configured /\ reconf.gen \in KnownGens
         /\ bargs.buildSystem = None /\ bargs.tests = None /\ bargs.examples = None
         /\ ~bargs.skipConfigure /\ bargs.type \in BuildTypes
         /\ bpc = "route" => bdir \in BuildTypes /\ ws[bdir] = reconf /\ needs
         /\ bpc \in {"configuring", "build", "done"} =>
              /\ ranConf /\ pc # "idle"
              /\ args.buildSystem = reconf.gen /\ args.tests = reconf.tests
              /\ args.examples = reconf.examples /\ args.type = bargs.type

\* The inductive invariant.
RInv ==
    /\ BInv /\ ArgsInCfg /\ DoneRecorded /\ GenRecorded /\ ReconfSeeded

\* What configure.py's runs keep: the arguments in the BuildConfig, a
\* completed run's flags and generator in its workspace.
CInv == ArgsInCfg /\ DoneRecorded /\ GenRecorded

-----------------------------------------------------------------------------
(* configure.py's invariants under build.py's steps.                       *)

\* A build.py step that leaves configure.py's variables alone.
LEMMA CKept ==
    ASSUME CInv, UNCHANGED vars
    PROVE  CInv'
BY DEF vars, CInv, ArgsInCfg, DoneRecorded, GenRecorded, Dir

\* run_configure starts configure.py with a well-formed command line, or
\* not at all.
LEMMA RunConfigureC ==
    ASSUME BInv, CInv, NEW ex \in BuildTypes \cup {None}, RunConfigure(ex)
    PROVE  CInv'
<1>. DEFINE cmd == ConfigureCmd(bargs, IF ex = None THEN None ELSE ws[ex])
<1>1. cmd \in ArgRec
  <2>1. bargs \in BArgRec /\ ws \in [BuildTypes -> Entry]
    BY DEF BInv, BuildTypeOK, Inv, IInv, TypeOK
  <2>2. (IF ex = None THEN None ELSE ws[ex]) \in Entry \cup {None}
    BY <2>1
  <2>. QED
    BY <2>1, <2>2, ConfigureCmdType
<1>2. CASE bargs.platform
  BY <1>2, CKept DEF RunConfigure
<1>3. CASE ~bargs.platform
  <2>1. Invoke(cmd)
    BY <1>3 DEF RunConfigure
  <2>. QED
    BY <1>1, <2>1, InvokeArgs, InvokeGen DEF BInv, CInv
<1>. QED
  BY <1>2, <1>3

\* build.py's routing either runs configure.py or leaves it alone.
LEMMA RouteCases ==
    ASSUME BInv, Route
    PROVE  \/ \E ex \in BuildTypes \cup {None} : RunConfigure(ex)
           \/ UNCHANGED vars
<1>1. bdir \in BuildTypes \cup {None}
  BY DEF BInv, BuildTypeOK
<1>2. CASE ~bargs.skipConfigure /\ needs
  BY <1>1, <1>2 DEF Route
<1>3. CASE ~(~bargs.skipConfigure /\ needs)
  BY <1>3 DEF Route
<1>. QED
  BY <1>2, <1>3

\* Every step of build.py and of the configure.py run it waits for keeps
\* CInv.
LEMMA CInvNext ==
    ASSUME BInv, CInv, [BuildNext]_allVars
    PROVE  CInv'
<1>1. CASE Route
  BY <1>1, RouteCases, RunConfigureC, CKept
<1>2. CASE Configuring
  <2>1. ArgsInCfg' /\ DoneRecorded'
    BY <1>2, ModulesArgs, TestsExamplesArgs, BuildTypeArgs, SelectCompilerArgs,
       SetupCompilerStepArgs, SelectBuildSystemArgs, SetupBuildSystemStepArgs,
       ConanArgs, CMakeArgs DEF Configuring, BInv, CInv
  <2>2. GenRecorded'
    BY <1>2, EarlyGen, SelectBuildSystemGen, SetupBuildSystemStepGen,
       ConanGen, CMakeGen DEF Configuring, BInv, CInv
  <2>. QED
    BY <2>1, <2>2 DEF CInv
<1>3. CASE ~Route /\ ~Configuring
  <2>1. UNCHANGED vars
    BY <1>3 DEF BuildNext, BuildStep, Start, Format, Locate, SelectBuildDir,
                SelectReconfigure, AfterConfigure, BuildProject, BuildsDone, allVars
  <2>. QED
    BY <2>1, CKept
<1>. QED
  BY <1>1, <1>2, <1>3

-----------------------------------------------------------------------------
(* The "Reconfigure existing" entry under build.py's steps.                *)

\* configure.py's steps after main() has parsed its command line keep it
\* and never return to idle.
LEMMA InnerKeepsArgs ==
    ASSUME \/ Modules \/ TestsExamples \/ BuildType
           \/ SelectCompiler \/ SetupCompilerStep
           \/ SelectBuildSystem \/ SetupBuildSystemStep
           \/ Conan \/ CMake
    PROVE  args' = args /\ pc' # "idle"
BY DEF Modules, TestsExamples, BuildType, SelectCompiler, SetupCompilerStep,
       SelectBuildSystem, SetupBuildSystemStep, Conan, CMake, Interrupted

\* "Reconfigure existing": the chosen workspace is configured, its generator
\* one CMake accepts, and the command line has no configure option.
LEMMA SelectReconfigureSeeded ==
    ASSUME RInv, SelectReconfigure
    PROVE  ReconfSeeded'
<1>1. /\ bpc = "reconfigure" /\ reconf = None
      /\ ~HasConfigArgs(bargs) /\ ~bargs.skipConfigure
      /\ bargs \in BArgRec /\ ws \in [BuildTypes -> Entry]
  BY DEF SelectReconfigure, RInv, ReconfSeeded, BInv, BuildTypeOK, Inv, IInv, TypeOK
<1>2. PICK c \in ConfiguredDirs(ws) \cup {"cancel"} :
        IF c = "cancel"
        THEN bpc' = "failed" /\ bwhy' = "interrupted"
             /\ UNCHANGED <<bargs, bdir, needs, reconf>>
        ELSE /\ bpc' = "route" /\ bdir' = c /\ needs' = TRUE
             /\ bargs' = [bargs EXCEPT !.type = c]
             /\ reconf' = ws[c]
             /\ UNCHANGED bwhy
  BY DEF SelectReconfigure
<1>3. ws' = ws
  BY DEF SelectReconfigure, vars
<1>4. CASE c = "cancel"
  BY <1>1, <1>2, <1>4 DEF ReconfSeeded
<1>5. CASE c # "cancel"
  <2>1. c \in BuildTypes /\ ws[c].configured
    BY <1>5 DEF ConfiguredDirs, IsConfigured
  <2>2. ws[c].gen \in KnownGens
    BY <2>1 DEF RInv, CInv, GenRecorded
  <2>3. /\ bargs.buildSystem = None /\ bargs.tests = None /\ bargs.examples = None
    BY <1>1 DEF HasConfigArgs
  <2>4. /\ bargs'.buildSystem = None /\ bargs'.tests = None /\ bargs'.examples = None
        /\ ~bargs'.skipConfigure /\ bargs'.type = c
    BY <1>1, <1>2, <1>5, <2>3 DEF BArgRec
  <2>. QED
    BY <1>2, <1>3, <1>5, <2>1, <2>2, <2>4 DEF ReconfSeeded
<1>. QED
  BY <1>4, <1>5

\* run_configure seeds configure.py's command line from the chosen
\* workspace's cache; nothing on build.py's command line overrides it.
LEMMA RouteSeeded ==
    ASSUME RInv, Route
    PROVE  ReconfSeeded'
<1>1. /\ bpc = "route" /\ bargs \in BArgRec
  BY DEF Route, RInv, BInv, BuildTypeOK
<1>2. CASE reconf = None
  <2>1. reconf' = None /\ bpc' \in {"failed", "build", "configuring"}
    BY <1>2 DEF Route, RunConfigure
  <2>. QED
    BY <2>1 DEF ReconfSeeded
<1>3. CASE reconf # None
  <2>1. /\ bdir \in BuildTypes /\ ws[bdir] = reconf /\ needs
        /\ ~bargs.skipConfigure /\ reconf.configured /\ reconf.gen \in KnownGens
        /\ bargs.buildSystem = None /\ bargs.tests = None /\ bargs.examples = None
        /\ bargs.type \in BuildTypes
    BY <1>1, <1>3 DEF RInv, ReconfSeeded
  <2>2. bdir # None
    BY <2>1, ConstantsAssumption
  <2>3. RunConfigure(bdir)
    BY <1>1, <2>1 DEF Route
  <2>4. CASE bargs.platform
    <3>1. bpc' = "failed" /\ UNCHANGED <<bargs, reconf>>
      BY <2>3, <2>4 DEF RunConfigure
    <3>. QED
      BY <2>1, <3>1 DEF ReconfSeeded
  <2>5. CASE ~bargs.platform
    <3>. DEFINE cmd == ConfigureCmd(bargs, reconf)
    <3>1. /\ Invoke(cmd) /\ bpc' = "configuring" /\ ranConf' = TRUE
          /\ UNCHANGED <<bargs, reconf>>
      BY <2>2, <2>3, <2>5, <2>1 DEF RunConfigure
    <3>2. args' = cmd /\ pc' # "idle"
      BY <3>1 DEF Invoke
    <3>3. /\ cmd.buildSystem = reconf.gen /\ cmd.tests = reconf.tests
          /\ cmd.examples = reconf.examples /\ cmd.type = bargs.type
      BY <1>3, <2>1 DEF ConfigureCmd, SeedFlag
    <3>. QED
      BY <2>1, <3>1, <3>2, <3>3 DEF ReconfSeeded
  <2>. QED
    BY <2>4, <2>5
<1>. QED
  BY <1>2, <1>3

\* Every step keeps ReconfSeeded.
LEMMA ReconfNext ==
    ASSUME RInv, [BuildNext]_allVars
    PROVE  ReconfSeeded'
<1>1. CASE \E a \in BuildArgs : Start(a)
  BY <1>1 DEF Start, ReconfSeeded
<1>2. CASE Format
  BY <1>2 DEF Format, RInv, ReconfSeeded
<1>3. CASE Locate
  BY <1>3 DEF Locate, RInv, ReconfSeeded
<1>4. CASE SelectBuildDir
  BY <1>4 DEF SelectBuildDir, RInv, ReconfSeeded
<1>5. CASE SelectReconfigure
  BY <1>5, SelectReconfigureSeeded
<1>6. CASE Route
  BY <1>6, RouteSeeded
<1>7. CASE Configuring
  <2>1. args' = args /\ pc' # "idle" /\ UNCHANGED bvars /\ bpc = "configuring"
    BY <1>7, InnerKeepsArgs DEF Configuring
  <2>. QED
    BY <2>1 DEF RInv, ReconfSeeded, bvars
<1>8. CASE AfterConfigure
  BY <1>8 DEF AfterConfigure, RInv, ReconfSeeded, vars
<1>9. CASE BuildProject
  BY <1>9 DEF BuildProject, RInv, ReconfSeeded, vars
<1>10. CASE BuildsDone \/ UNCHANGED allVars
  BY <1>10 DEF BuildsDone, RInv, ReconfSeeded, allVars, vars, bvars
<1>. QED
  BY <1>1, <1>2, <1>3, <1>4, <1>5, <1>6, <1>7, <1>8, <1>9, <1>10
     DEF BuildNext, BuildStep

-----------------------------------------------------------------------------
(* The theorem.                                                            *)

LEMMA RInvInit ==
    ASSUME BuildInit
    PROVE  RInv
<1>1. BInv
  BY BuildInitInv
<1>2. Init
  BY DEF BuildInit
<1>3. ArgsInCfg /\ DoneRecorded
  BY <1>2 DEF Init, ArgsInCfg, DoneRecorded
<1>4. GenRecorded
  BY <1>2, GenInit
<1>5. ReconfSeeded
  BY DEF BuildInit, ReconfSeeded
<1>. QED
  BY <1>1, <1>3, <1>4, <1>5 DEF RInv

LEMMA RInvNext ==
    RInv /\ [BuildNext]_allVars => RInv'
<1> SUFFICES ASSUME RInv, [BuildNext]_allVars PROVE RInv'
  OBVIOUS
<1>1. BInv'
  BY BuildNextInv DEF RInv
<1>2. CInv'
  BY CInvNext DEF RInv, CInv
<1>3. ReconfSeeded'
  BY ReconfNext
<1>. QED
  BY <1>1, <1>2, <1>3 DEF RInv, CInv

\* Once build.py builds: it has run configure.py, which completed on
\* build/<type> for the --type select_build_dir set, from a command line
\* carrying the cache's settings; configure.py kept them and cmake wrote
\* them back.
LEMMA RInvKeeps ==
    ASSUME RInv
    PROVE  ReconfigureKeepsSettings
<1> SUFFICES ASSUME bpc \in {"build", "done"}, reconf # None
             PROVE  /\ ws[ReconfiguredDir].gen = reconf.gen
                    /\ ws[ReconfiguredDir].tests = reconf.tests
                    /\ ws[ReconfiguredDir].examples = reconf.examples
  BY DEF ReconfigureKeepsSettings
<1>1. /\ ranConf /\ reconf.gen \in KnownGens
      /\ args.buildSystem = reconf.gen /\ args.tests = reconf.tests
      /\ args.examples = reconf.examples
      /\ args.type = bargs.type /\ bargs.type \in BuildTypes
  BY DEF RInv, ReconfSeeded
<1>2. pc = "done"
  BY <1>1 DEF RInv, BInv, Chosen
<1>3. Dir = ReconfiguredDir
  <2>1. args.type # None
    BY <1>1, ConstantsAssumption
  <2>. QED
    BY <1>1, <1>2, <2>1 DEF RInv, ArgsInCfg, Dir, ReconfiguredDir
<1>4. reconf \in Entry
  BY DEF RInv, BInv, BuildTypeOK
<1>5. args.tests # None /\ args.examples # None
  BY <1>1, <1>4, ConstantsAssumption DEF Entry
<1>6. /\ ws[Dir].tests = args.tests /\ ws[Dir].examples = args.examples
  BY <1>2, <1>5 DEF RInv, ArgsInCfg, DoneRecorded
<1>7. ws[Dir].gen = args.buildSystem
  BY <1>1, <1>2 DEF RInv, GenRecorded
<1>. QED
  BY <1>1, <1>3, <1>6, <1>7

\* ReconfigureKeepsSettings: once a build.py run that took "Reconfigure
\* existing" reaches build_project, the workspace the user picked holds
\* the generator and the tests/examples flags its cache had before
\* (run_configure seeds configure.py from that cache).  Which workspace is
\* then built is find_configured_build_dir's choice, which this does not
\* fix (see BuiltWhatConfigured).
THEOREM ReconfigureKeeps == BuildSpec => []ReconfigureKeepsSettings
<1>1. BuildInit => RInv
  BY RInvInit
<1>2. RInv /\ [BuildNext]_allVars => RInv'
  BY RInvNext
<1>3. RInv => ReconfigureKeepsSettings
  BY RInvKeeps
<1>. QED
  BY <1>1, <1>2, <1>3, PTL DEF BuildSpec

=============================================================================
