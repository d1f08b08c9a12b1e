---------------------------- MODULE BuildRefinement ----------------------------
(***************************************************************************)
(* build.py with the configure.py runs it starts refines the workspace    *)
(* lifecycle of Workspaces under the mapping of Configure (WS).  build.py *)
(* never writes a workspace itself: its own steps leave configure.py's    *)
(* variables alone and map to stutters, run_configure is a Begin, and     *)
(* while it waits the steps are configure.py's.                           *)
(***************************************************************************)
EXTENDS ReconfigureProofs, ConfigureRefinement

\* A build.py step that leaves configure.py alone is a stutter of the
\* lifecycle.
LEMMA ConfigureStutter ==
    ASSUME UNCHANGED vars
    PROVE  UNCHANGED WS!wvars
BY DEF vars, WS!wvars, RunPhase, Dir

\* run_configure starts a configure.py run on a parsed command line.
LEMMA RunConfigureStep ==
    ASSUME BInv, BInv', NEW ex \in BuildTypes \cup {None}, RunConfigure(ex)
    PROVE  [WS!Next]_WS!wvars
<1>. DEFINE cmd == ConfigureCmd(bargs, IF ex = None THEN None ELSE ws[ex])
<1>1. cmd \in ArgRec
  <2>1. bargs \in BArgRec /\ ws \in [BuildTypes -> Entry]
    BY DEF BInv, BuildTypeOK, Inv, IInv, TypeOK
  <2>2. (IF ex = None THEN None ELSE ws[ex]) \in Entry \cup {None}
    BY <2>1
  <2>. QED
    BY <2>1, <2>2, ConfigureCmdType
<1>2. CASE bargs.platform
  BY <1>2, ConfigureStutter DEF RunConfigure
<1>3. CASE ~bargs.platform
  <2>1. Invoke(cmd)
    BY <1>3 DEF RunConfigure
  <2>. QED
    BY <1>1, <2>1, InvokeStep DEF BInv, WS!Next
<1>. QED
  BY <1>2, <1>3

\* Every step of the composition maps to a lifecycle step or a stutter.
LEMMA BuildNextRefines ==
    ASSUME BInv, BInv', [BuildNext]_allVars
    PROVE  [WS!Next]_WS!wvars
<1>1. CASE Route
  BY <1>1, RouteCases, RunConfigureStep, ConfigureStutter
<1>2. CASE Configuring
  <2>1. Inv
    BY DEF BInv
  <2>. QED
    BY <1>2, <2>1, MiddleStep, BuildTypeStep, ConanStep, CMakeStep
       DEF Configuring, WS!Next
<1>3. CASE ~Route /\ ~Configuring
  <2>1. UNCHANGED vars
    BY <1>3 DEF BuildNext, BuildStep, Start, Format, Locate, SelectBuildDir,
                SelectReconfigure, AfterConfigure, BuildProject, BuildsDone, allVars
  <2>. QED
    BY <2>1, ConfigureStutter
<1>. QED
  BY <1>1, <1>2, <1>3

\* BuildWorkspaceRefinement: whatever build.py's command lines, every
\* workspace change made while build.py runs is one configure.py's
\* lifecycle allows: build.py's menus, routing and "cmake --build" touch no
\* cache, and each run_configure is one configure.py run.
THEOREM BuildWorkspaceRefinement == BuildSpec => WorkspaceLifecycle
<1>1. BuildInit => WS!Init
  <2> SUFFICES ASSUME BuildInit PROVE WS!Init
    OBVIOUS
  <2>1. Init
    BY DEF BuildInit
  <2>2. (cfg.clean \/ cfg.interactive) \in BOOLEAN
    BY <2>1, Zenon DEF Init
  <2>. QED
    BY <2>1, <2>2 DEF Init, WS!Init, RunPhase, Dir
<1>2. BuildInit => BInv
  BY BuildInitInv
<1>3. BInv /\ [BuildNext]_allVars => BInv'
  BY BuildNextInv
<1>4. BInv /\ BInv' /\ [BuildNext]_allVars => [WS!Next]_WS!wvars
  BY BuildNextRefines
<1>. QED
  BY <1>1, <1>2, <1>3, <1>4, PTL DEF BuildSpec, WorkspaceLifecycle, WS!Spec

=============================================================================
