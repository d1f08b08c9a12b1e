------------------------------ MODULE BuildProofs ------------------------------
(***************************************************************************)
(* Proofs about build.py together with the configure.py runs it starts:   *)
(* its variables keep their types, it never runs "cmake --build" on a     *)
(* workspace without a CMakeCache.txt.  That after running configure.py   *)
(* it builds the workspace configure.py just wrote does not hold: cmake    *)
(* saves an unchanged cache copy-if-different, keeping its old mtime, so  *)
(* find_configured_build_dir can pick another workspace (the run          *)
(* build_builtWhatConfigured shows it).                                   *)
(***************************************************************************)
EXTENDS Build, ConfigureProofs

\* Where build.py main() is, what holds of the directory it has chosen and
\* of whether it has run configure.py.
Chosen ==
    /\ bpc \in {"format", "locate", "select", "reconfigure"} => bdir = None
    /\ bpc = "route" /\ bdir # None => ws[bdir].configured
    /\ bpc \in {"build", "done"} => bdir \in BuildTypes /\ ws[bdir].configured
    /\ bpc \in {"format", "locate", "select", "reconfigure", "route"} => ~ranConf
    /\ bpc \in {"build", "done"} /\ ranConf => pc = "done"

\* The inductive invariant.
BInv ==
    /\ Inv /\ BuildTypeOK /\ Chosen
    /\ bwhy # "notConfigured"

USE BuildAssumption

-----------------------------------------------------------------------------
(* find_configured_build_dir and run_configure's command line.             *)

\* Among finitely many configured workspaces one has the newest cache, so
\* find_configured_build_dir returns a configured workspace, and the newest.
LEMMA NewestConfigured ==
    ASSUME NEW w \in [BuildTypes -> Entry], ConfiguredDirs(w) # {}
    PROVE  /\ NewestConfiguredDir(w) \in ConfiguredDirs(w)
           /\ \A o \in ConfiguredDirs(w) :
                 w[o].stamp <= w[NewestConfiguredDir(w)].stamp
<1>1. \E b \in ConfiguredDirs(w) : \A o \in ConfiguredDirs(w) : w[o].stamp <= w[b].stamp
  BY DEF ConfiguredDirs, IsConfigured, BuildTypes, Entry
<1>. QED
  BY <1>1 DEF NewestConfiguredDir

\* run_configure hands configure.py a command line it parses.
LEMMA ConfigureCmdType ==
    ASSUME NEW a \in BArgRec, NEW e \in Entry \cup {None}
    PROVE  ConfigureCmd(a, e) \in ArgRec
<1>. DEFINE cmd == ConfigureCmd(a, e)
<1>1. SeedCompiler(e.cxx) \in CompilerNames \cup {None}
  BY DEF SeedCompiler, CompilerNames
<1>2. /\ cmd.type \in BuildTypes \cup {None}
      /\ cmd.compiler \in CompilerNames \cup {None}
      /\ cmd.buildSystem \in GenNames \cup {None}
      /\ cmd.tests \in BOOLEAN \cup {None}
      /\ cmd.examples \in BOOLEAN \cup {None}
  <2>1. cmd.type \in BuildTypes \cup {None}
    BY DEF ConfigureCmd, BArgRec
  <2>2. cmd.compiler \in CompilerNames \cup {None}
    BY <1>1 DEF ConfigureCmd, SeedFlag, BArgRec
  <2>3. cmd.buildSystem \in GenNames \cup {None}
    BY DEF ConfigureCmd, SeedFlag, BArgRec, Entry, BuildGenerators, GenNames
  <2>4. cmd.tests \in BOOLEAN \cup {None} /\ cmd.examples \in BOOLEAN \cup {None}
    BY DEF ConfigureCmd, SeedFlag, BArgRec, Entry
  <2>. QED
    BY <2>1, <2>2, <2>3, <2>4
<1>3. /\ cmd.coreOnly \in BOOLEAN /\ cmd.clean \in BOOLEAN
      /\ cmd.noInteractive \in BOOLEAN
      /\ cmd.useConan \in BOOLEAN /\ cmd.noConan \in BOOLEAN
  BY Zenon DEF ConfigureCmd, BArgRec
<1>4. cmd = [type |-> cmd.type, compiler |-> cmd.compiler,
             buildSystem |-> cmd.buildSystem, coreOnly |-> cmd.coreOnly,
             tests |-> cmd.tests, examples |-> cmd.examples,
             clean |-> cmd.clean, noInteractive |-> cmd.noInteractive,
             useConan |-> cmd.useConan, noConan |-> cmd.noConan]
  BY DEF ConfigureCmd
<1>. QED
  BY <1>2, <1>3, <1>4, Zenon DEF ArgRec

-----------------------------------------------------------------------------
(* build.py's steps.                                                       *)

\* find_configured_build_dir returns None or a configured workspace.
LEMMA NewestDir ==
    ASSUME NEW w \in [BuildTypes -> Entry], NewestConfiguredDir(w) # None
    PROVE  NewestConfiguredDir(w) \in BuildTypes /\ w[NewestConfiguredDir(w)].configured
<1>1. ConfiguredDirs(w) # {}
  BY DEF NewestConfiguredDir
<1>. QED
  BY <1>1, NewestConfigured DEF ConfiguredDirs, IsConfigured

\* A step of build.py alone leaves configure.py's state, and so Inv, alone.
LEMMA ConfigureKept ==
    ASSUME Inv, UNCHANGED vars
    PROVE  Inv'
BY StutterInv DEF vars

LEMMA BuildInitInv ==
    ASSUME BuildInit
    PROVE  BInv
<1>1. Inv
  BY InitInv DEF BuildInit
<1>2. bargs \in BArgRec
  BY DEF BuildInit
<1>3. needs \in BOOLEAN /\ ranConf \in BOOLEAN
  BY Zenon DEF BuildInit
<1>4. /\ bpc \in BPcs /\ bdir \in BuildTypes \cup {None}
      /\ btype \in BuildTypes \cup {None} /\ builds \in 0..MaxBuilds
      /\ bwhy \in BWhy /\ reconf \in Entry \cup {None} /\ bwhy # "notConfigured"
  BY DEF BuildInit, BPcs, BWhy
<1>5. Chosen
  BY DEF BuildInit, Chosen
<1>. QED
  BY <1>1, <1>2, <1>3, <1>4, <1>5, Zenon DEF BInv, BuildTypeOK, Inv, IInv

\* run_configure: either --platform makes configure.py exit 2 at once, or
\* a configure.py run starts on the derived command line.
LEMMA RunConfigureInv ==
    ASSUME BInv, bpc = "route", NEW ex \in BuildTypes \cup {None}, RunConfigure(ex)
    PROVE  BInv'
<1>1. ConfigureCmd(bargs, IF ex = None THEN None ELSE ws[ex]) \in ArgRec
  <2>1. bargs \in BArgRec /\ ws \in [BuildTypes -> Entry]
    BY DEF BInv, BuildTypeOK, TypeOK
  <2>2. CASE ex = None
    BY <2>1, <2>2, ConfigureCmdType
  <2>3. CASE ex \in BuildTypes
    <3>1. ws[ex] \in Entry
      BY <2>1, <2>3
    <3>2. ex # None
      BY <2>3, ConstantsAssumption
    <3>. QED
      BY <2>1, <3>1, <3>2, ConfigureCmdType
  <2>. QED
    BY <2>2, <2>3
<1>2. CASE bargs.platform
  <2>1. /\ bpc' = "failed" /\ bwhy' = "usage"
        /\ UNCHANGED <<vars, bargs, bdir, needs, btype, builds, reconf, ranConf>>
    BY <1>2 DEF RunConfigure
  <2>2. Inv'
    BY <2>1, ConfigureKept DEF BInv
  <2>. QED
    BY <2>1, <2>2 DEF BInv, BuildTypeOK, Inv, IInv, Chosen, BPcs, BWhy
<1>3. CASE ~bargs.platform
  <2>1. /\ Invoke(ConfigureCmd(bargs, IF ex = None THEN None ELSE ws[ex]))
        /\ bpc' = "configuring" /\ ranConf' = TRUE
        /\ UNCHANGED <<bargs, bdir, needs, btype, builds, bwhy, reconf>>
    BY <1>3 DEF RunConfigure
  <2>2. Inv'
    BY <1>1, <2>1, InvokeInv DEF BInv
  <2>. QED
    BY <2>1, <2>2 DEF BInv, BuildTypeOK, Inv, IInv, Chosen, BPcs
<1>. QED
  BY <1>2, <1>3

\* A new build.py invocation starts from a clean slate.
LEMMA StartInv ==
    ASSUME BInv, NEW a \in BuildArgs, Start(a)
    PROVE  BInv'
<1>1. Inv'
  BY ConfigureKept DEF Start, BInv
<1>2. needs' \in BOOLEAN /\ ranConf' \in BOOLEAN
  BY Zenon DEF Start
<1>3. /\ bpc' \in BPcs /\ bargs' \in BArgRec /\ bdir' \in BuildTypes \cup {None}
      /\ btype' \in BuildTypes \cup {None} /\ builds' \in 0..MaxBuilds
      /\ bwhy' \in BWhy /\ reconf' \in Entry \cup {None} /\ bwhy' # "notConfigured"
  BY DEF Start, BInv, BuildTypeOK, BPcs, BWhy
<1>4. Chosen'
  BY DEF Start, Chosen
<1>. QED
  BY <1>1, <1>2, <1>3, <1>4, Zenon DEF BInv, BuildTypeOK, Inv, IInv

\* format.py succeeds or fails; nothing is chosen yet.
LEMMA FormatInv ==
    ASSUME BInv, Format
    PROVE  BInv'
<1>1. Inv'
  BY ConfigureKept DEF Format, BInv
<1>2. needs' \in BOOLEAN /\ ranConf' \in BOOLEAN
  BY Zenon DEF Format, BInv, BuildTypeOK
<1>3. /\ bpc' \in BPcs /\ bargs' \in BArgRec /\ bdir' \in BuildTypes \cup {None}
      /\ btype' \in BuildTypes \cup {None} /\ builds' \in 0..MaxBuilds
      /\ bwhy' \in BWhy /\ reconf' \in Entry \cup {None} /\ bwhy' # "notConfigured"
  BY DEF Format, BInv, BuildTypeOK, BPcs, BWhy
<1>4. Chosen'
  BY DEF Format, BInv, Chosen
<1>. QED
  BY <1>1, <1>2, <1>3, <1>4, Zenon DEF BInv, BuildTypeOK, Inv, IInv

\* Without an option build.py goes to the prompt; otherwise it takes the
\* newest configured workspace when no reconfiguration is needed.
LEMMA LocateInv ==
    ASSUME BInv, Locate
    PROVE  BInv'
<1>1. Inv'
  BY ConfigureKept DEF Locate, BInv
<1>2. needs' \in BOOLEAN /\ ranConf' \in BOOLEAN
  BY Zenon DEF Locate, BInv, BuildTypeOK
<1>3. NewestConfiguredDir(ws) # None =>
        NewestConfiguredDir(ws) \in BuildTypes /\ ws[NewestConfiguredDir(ws)].configured
  BY NewestDir DEF BInv, Inv, IInv, TypeOK
<1>4. /\ bpc' \in BPcs /\ bargs' \in BArgRec /\ bdir' \in BuildTypes \cup {None}
      /\ btype' \in BuildTypes \cup {None} /\ builds' \in 0..MaxBuilds
      /\ bwhy' \in BWhy /\ reconf' \in Entry \cup {None} /\ bwhy' # "notConfigured"
  BY <1>3 DEF Locate, BInv, BuildTypeOK, BPcs, BWhy
<1>5. Chosen'
  <2>1. CASE ~HasConfigArgs(bargs) /\ ~bargs.skipConfigure /\ ~bargs.noInteractive
    BY <2>1 DEF Locate, BInv, Chosen, vars
  <2>2. CASE ~(~HasConfigArgs(bargs) /\ ~bargs.skipConfigure /\ ~bargs.noInteractive)
    <3>1. /\ bpc = "locate" /\ bpc' = "route" /\ ws' = ws /\ ranConf' = ranConf
          /\ \/ bdir' = None
             \/ bdir' = NewestConfiguredDir(ws) /\ NewestConfiguredDir(ws) # None
      BY <2>2 DEF Locate, vars
    <3>. QED
      BY <1>3, <3>1 DEF BInv, Chosen
  <2>. QED
    BY <2>1, <2>2
<1>. QED
  BY <1>1, <1>2, <1>4, <1>5, Zenon DEF BInv, BuildTypeOK, Inv, IInv

\* build_project on the chosen workspace: it holds a cache, so the
\* "should not happen" branch is not taken.
LEMMA BuildProjectInv ==
    ASSUME BInv, BuildProject
    PROVE  BInv'
<1>1. Inv'
  BY ConfigureKept DEF BuildProject, BInv
<1>2. needs' \in BOOLEAN /\ ranConf' \in BOOLEAN
  BY Zenon DEF BuildProject, BInv, BuildTypeOK
<1>3. bdir \in BuildTypes /\ IsConfigured(ws[bdir])
  BY DEF BuildProject, BInv, Chosen, IsConfigured
<1>4. /\ bpc = "build" /\ bpc' \in {"done", "failed"} /\ bwhy' \in {None, "build"}
      /\ btype' \in BuildTypes
      /\ UNCHANGED <<vars, bargs, bdir, needs, builds, reconf, ranConf>>
  BY <1>3 DEF BuildProject, BInv, BuildTypeOK, BArgRec
<1>5. /\ bpc' \in BPcs /\ bargs' \in BArgRec /\ bdir' \in BuildTypes \cup {None}
      /\ btype' \in BuildTypes \cup {None} /\ builds' \in 0..MaxBuilds
      /\ bwhy' \in BWhy /\ reconf' \in Entry \cup {None} /\ bwhy' # "notConfigured"
  BY <1>4 DEF BInv, BuildTypeOK, BPcs, BWhy
<1>6. ws' = ws /\ pc' = pc /\ cfg' = cfg
  BY <1>4 DEF vars
<1>7. Chosen'
  BY <1>3, <1>4, <1>6 DEF BInv, Chosen, Dir, IsConfigured
<1>. QED
  BY <1>1, <1>2, <1>5, <1>7, Zenon DEF BInv, BuildTypeOK, Inv, IInv

LEMMA BuildsDoneInv ==
    ASSUME BInv, BuildsDone \/ UNCHANGED allVars
    PROVE  BInv'
<1>1. UNCHANGED allVars
  BY DEF BuildsDone
<1>2. Inv'
  BY <1>1, ConfigureKept DEF allVars, BInv
<1>3. needs' \in BOOLEAN /\ ranConf' \in BOOLEAN
  BY <1>1, Zenon DEF allVars, bvars, BInv, BuildTypeOK
<1>4. /\ bpc' \in BPcs /\ bargs' \in BArgRec /\ bdir' \in BuildTypes \cup {None}
      /\ btype' \in BuildTypes \cup {None} /\ builds' \in 0..MaxBuilds
      /\ bwhy' \in BWhy /\ reconf' \in Entry \cup {None} /\ bwhy' # "notConfigured"
  BY <1>1 DEF allVars, bvars, BInv, BuildTypeOK
<1>5. Chosen'
  BY <1>1 DEF allVars, bvars, vars, BInv, Chosen, Dir
<1>. QED
  BY <1>2, <1>3, <1>4, <1>5, Zenon DEF BInv, BuildTypeOK, Inv, IInv

\* BInv' from its parts; the Boolean-valued variables are Zenon's.
LEMMA Assemble ==
    ASSUME Inv', Chosen', needs' \in BOOLEAN, ranConf' \in BOOLEAN,
           bpc' \in BPcs, bargs' \in BArgRec, bdir' \in BuildTypes \cup {None},
           btype' \in BuildTypes \cup {None}, builds' \in 0..MaxBuilds,
           bwhy' \in BWhy, reconf' \in Entry \cup {None}, bwhy' # "notConfigured"
    PROVE  BInv'
BY Zenon DEF BInv, BuildTypeOK, Inv, IInv

\* The first prompt: a configured workspace, a new one, "Reconfigure
\* existing", or Ctrl-C.
LEMMA SelectBuildDirInv ==
    ASSUME BInv, SelectBuildDir
    PROVE  BInv'
<1>1. Inv'
  BY ConfigureKept DEF SelectBuildDir, BInv
<1>2. /\ bpc = "select" /\ bdir = None /\ ~ranConf /\ bargs \in BArgRec
      /\ ws \in [BuildTypes -> Entry]
      /\ UNCHANGED <<vars, btype, builds, bwhy, reconf, ranConf>>
  BY DEF SelectBuildDir, BInv, Chosen, BuildTypeOK, TypeOK
<1>3. needs' \in BOOLEAN /\ ranConf' \in BOOLEAN
  BY <1>2, Zenon DEF SelectBuildDir, BInv, BuildTypeOK
<1>4. /\ btype' \in BuildTypes \cup {None} /\ builds' \in 0..MaxBuilds
      /\ bwhy' \in BWhy /\ reconf' \in Entry \cup {None} /\ bwhy' # "notConfigured"
  BY <1>2 DEF BInv, BuildTypeOK
<1>5. \/ /\ bpc' \in {"route", "cancelled", "reconfigure"}
         /\ bdir' = None /\ bargs' = bargs
      \/ \E c \in ConfiguredDirs(ws) :
           /\ bpc' = "route" /\ bdir' = c
           /\ bargs' = [bargs EXCEPT !.type = c]
  BY <1>2 DEF SelectBuildDir, ConfiguredDirs, BuildTypes
<1>6. CASE /\ bpc' \in {"route", "cancelled", "reconfigure"}
           /\ bdir' = None /\ bargs' = bargs
  BY <1>1, <1>2, <1>3, <1>4, <1>6, Assemble DEF Chosen, BPcs, vars
<1>7. CASE \E c \in ConfiguredDirs(ws) :
             /\ bpc' = "route" /\ bdir' = c
             /\ bargs' = [bargs EXCEPT !.type = c]
  <2>1. PICK c \in ConfiguredDirs(ws) :
             /\ bpc' = "route" /\ bdir' = c
             /\ bargs' = [bargs EXCEPT !.type = c]
    BY <1>7
  <2>2. c \in BuildTypes /\ ws[c].configured
    BY DEF ConfiguredDirs, IsConfigured
  <2>3. bargs' \in BArgRec
    BY <1>2, <2>1, <2>2 DEF BArgRec
  <2>. QED
    BY <1>1, <1>2, <1>3, <1>4, <2>1, <2>2, <2>3, Assemble DEF Chosen, BPcs, vars
<1>. QED
  BY <1>5, <1>6, <1>7

\* "Select build to reconfigure": a configured workspace, or Ctrl-C.
LEMMA SelectReconfigureInv ==
    ASSUME BInv, SelectReconfigure
    PROVE  BInv'
<1>1. Inv'
  BY ConfigureKept DEF SelectReconfigure, BInv
<1>2. /\ bpc = "reconfigure" /\ bdir = None /\ ~ranConf /\ bargs \in BArgRec
      /\ ws \in [BuildTypes -> Entry] /\ reconf \in Entry \cup {None}
      /\ UNCHANGED <<vars, btype, builds, ranConf>>
  BY DEF SelectReconfigure, BInv, Chosen, BuildTypeOK, TypeOK
<1>3. needs' \in BOOLEAN /\ ranConf' \in BOOLEAN
  BY <1>2, Zenon DEF SelectReconfigure, BInv, BuildTypeOK
<1>4. btype' \in BuildTypes \cup {None} /\ builds' \in 0..MaxBuilds
  BY <1>2 DEF BInv, BuildTypeOK
<1>5. CASE bpc' = "failed"
  <2>1. bwhy' = "interrupted" /\ bdir' = None /\ bargs' = bargs /\ reconf' = reconf
    BY <1>2, <1>5 DEF SelectReconfigure
  <2>. QED
    BY <1>1, <1>2, <1>3, <1>4, <1>5, <2>1, Assemble DEF Chosen, BPcs, BWhy
<1>6. CASE bpc' # "failed"
  <2>1. PICK c \in ConfiguredDirs(ws) :
          /\ bpc' = "route" /\ bdir' = c /\ bargs' = [bargs EXCEPT !.type = c]
          /\ reconf' = ws[c] /\ bwhy' = bwhy
    BY <1>6 DEF SelectReconfigure
  <2>2. c \in BuildTypes /\ ws[c].configured
    BY DEF ConfiguredDirs, IsConfigured
  <2>3. bargs' \in BArgRec /\ reconf' \in Entry
    BY <1>2, <2>1, <2>2 DEF BArgRec
  <2>4. bwhy' \in BWhy /\ bwhy' # "notConfigured"
    BY <2>1 DEF BInv, BuildTypeOK
  <2>. QED
    BY <1>1, <1>2, <1>3, <1>4, <2>1, <2>2, <2>3, <2>4, Assemble DEF Chosen, BPcs, vars
<1>. QED
  BY <1>5, <1>6

\* main()'s routing: configure when needed, else build the chosen or the
\* newest configured workspace, configuring build/<type> if it has none.
LEMMA RouteInv ==
    ASSUME BInv, Route
    PROVE  BInv'
<1>1. /\ bpc = "route" /\ ~ranConf /\ bargs \in BArgRec
      /\ bdir \in BuildTypes \cup {None} /\ ws \in [BuildTypes -> Entry]
      /\ bdir # None => ws[bdir].configured
  BY DEF Route, BInv, Chosen, BuildTypeOK, TypeOK
<1>2. CASE ~bargs.skipConfigure /\ needs
  BY <1>1, <1>2, RunConfigureInv DEF Route
<1>3. CASE ~(~bargs.skipConfigure /\ needs) /\ bdir # None
  <2>1. bpc' = "build" /\ UNCHANGED <<vars, bargs, bdir, needs, btype, builds, bwhy, reconf, ranConf>>
    BY <1>3 DEF Route
  <2>2. Inv'
    BY <2>1, ConfigureKept DEF BInv
  <2>3. needs' \in BOOLEAN /\ ranConf' \in BOOLEAN
    BY <2>1, Zenon DEF BInv, BuildTypeOK
  <2>4. /\ btype' \in BuildTypes \cup {None} /\ builds' \in 0..MaxBuilds
        /\ bwhy' \in BWhy /\ reconf' \in Entry \cup {None} /\ bwhy' # "notConfigured"
    BY <2>1 DEF BInv, BuildTypeOK
  <2>. QED
    BY <1>1, <1>3, <2>1, <2>2, <2>3, <2>4, Assemble DEF Chosen, BPcs, vars
<1>4. CASE ~(~bargs.skipConfigure /\ needs) /\ bdir = None
  <2>. DEFINE cd == NewestConfiguredDir(ws)
              d == IF cd # None THEN cd
                   ELSE IF bargs.type # None THEN bargs.type ELSE "Release"
  <2>1. d \in BuildTypes
    BY <1>1, NewestDir DEF BArgRec, BuildTypes
  <2>2. CASE IsConfigured(ws[d])
    <3>1. /\ bpc' = "build" /\ bdir' = d
          /\ UNCHANGED <<vars, bargs, needs, btype, builds, bwhy, reconf, ranConf>>
      BY <1>4, <2>2 DEF Route
    <3>2. Inv'
      BY <3>1, ConfigureKept DEF BInv
    <3>3. needs' \in BOOLEAN /\ ranConf' \in BOOLEAN
      BY <3>1, Zenon DEF BInv, BuildTypeOK
    <3>4. /\ btype' \in BuildTypes \cup {None} /\ builds' \in 0..MaxBuilds
          /\ bwhy' \in BWhy /\ reconf' \in Entry \cup {None} /\ bwhy' # "notConfigured"
      BY <3>1 DEF BInv, BuildTypeOK
    <3>. QED
      BY <1>1, <2>1, <2>2, <3>1, <3>2, <3>3, <3>4, Assemble
         DEF Chosen, BPcs, vars, IsConfigured
  <2>3. CASE ~IsConfigured(ws[d]) /\ bargs.skipConfigure
    <3>1. /\ bpc' = "failed" /\ bwhy' = "unconfigured"
          /\ UNCHANGED <<vars, bargs, bdir, needs, btype, builds, reconf, ranConf>>
      BY <1>4, <2>3 DEF Route
    <3>2. Inv'
      BY <3>1, ConfigureKept DEF BInv
    <3>3. needs' \in BOOLEAN /\ ranConf' \in BOOLEAN
      BY <3>1, Zenon DEF BInv, BuildTypeOK
    <3>4. /\ btype' \in BuildTypes \cup {None} /\ builds' \in 0..MaxBuilds
          /\ bwhy' \in BWhy /\ reconf' \in Entry \cup {None} /\ bwhy' # "notConfigured"
      BY <3>1 DEF BInv, BuildTypeOK, BWhy
    <3>. QED
      BY <1>1, <1>4, <3>1, <3>2, <3>3, <3>4, Assemble DEF Chosen, BPcs
  <2>4. CASE ~IsConfigured(ws[d]) /\ ~bargs.skipConfigure
    BY <1>1, <1>4, <2>4, RunConfigureInv DEF Route
  <2>. QED
    BY <2>2, <2>3, <2>4
<1>. QED
  BY <1>2, <1>3, <1>4

\* configure.py takes a step while build.py waits.
LEMMA ConfiguringInv ==
    ASSUME BInv, Configuring
    PROVE  BInv'
<1>1. bpc = "configuring" /\ UNCHANGED bvars
  BY DEF Configuring
<1>2. Inv'
  BY ModulesInv, TestsExamplesInv, BuildTypeInv, SelectCompilerInv,
     SetupCompilerStepInv, SelectBuildSystemInv, SetupBuildSystemStepInv,
     ConanInv, CMakeInv DEF Configuring, BInv
<1>4. needs' \in BOOLEAN /\ ranConf' \in BOOLEAN
  BY <1>1, Zenon DEF bvars, BInv, BuildTypeOK
<1>5. /\ bpc' \in BPcs /\ bargs' \in BArgRec /\ bdir' \in BuildTypes \cup {None}
      /\ btype' \in BuildTypes \cup {None} /\ builds' \in 0..MaxBuilds
      /\ bwhy' \in BWhy /\ reconf' \in Entry \cup {None} /\ bwhy' # "notConfigured"
  BY <1>1 DEF bvars, BInv, BuildTypeOK, BPcs
<1>6. Chosen'
  BY <1>1 DEF bvars, Chosen
<1>. QED
  BY <1>2, <1>4, <1>5, <1>6, Assemble

\* configure.py has exited: on success build.py builds the newest cache.
LEMMA AfterConfigureInv ==
    ASSUME BInv, AfterConfigure
    PROVE  BInv'
<1>1. /\ bpc = "configuring" /\ pc \in {"done", "failed"}
      /\ UNCHANGED <<vars, bargs, needs, btype, builds, reconf, ranConf>>
  BY DEF AfterConfigure, ConfigureExited
<1>2. Inv'
  BY <1>1, ConfigureKept DEF BInv
<1>3. needs' \in BOOLEAN /\ ranConf' \in BOOLEAN
  BY <1>1, Zenon DEF BInv, BuildTypeOK
<1>4. /\ bargs' \in BArgRec /\ btype' \in BuildTypes \cup {None}
      /\ builds' \in 0..MaxBuilds /\ reconf' \in Entry \cup {None}
      /\ ws \in [BuildTypes -> Entry] /\ bdir \in BuildTypes \cup {None}
  BY <1>1 DEF BInv, BuildTypeOK, TypeOK
<1>5. CASE pc = "failed" \/ NewestConfiguredDir(ws) = None
  <2>1. bpc' = "failed" /\ bwhy' \in {"configure", "nodir"} /\ bdir' = bdir
    BY <1>5 DEF AfterConfigure
  <2>. QED
    BY <1>2, <1>3, <1>4, <2>1, Assemble DEF Chosen, BPcs, BWhy
<1>6. CASE pc = "done" /\ NewestConfiguredDir(ws) # None
  <2>1. bpc' = "build" /\ bdir' = NewestConfiguredDir(ws) /\ bwhy' = bwhy
    BY <1>6 DEF AfterConfigure
  <2>2. bdir' \in BuildTypes /\ ws[bdir'].configured
    BY <1>4, <1>6, <2>1, NewestDir
  <2>4. bwhy' \in BWhy /\ bwhy' # "notConfigured"
    BY <2>1 DEF BInv, BuildTypeOK
  <2>. QED
    BY <1>1, <1>2, <1>3, <1>4, <1>6, <2>1, <2>2, <2>4, Assemble
       DEF Chosen, BPcs, vars
<1>. QED
  BY <1>1, <1>5, <1>6

\* Every step of build.py, of the configure.py run it waits for, and
\* stuttering, preserves BInv.
LEMMA BuildNextInv == BInv /\ [BuildNext]_allVars => BInv'
<1> SUFFICES ASSUME BInv, [BuildNext]_allVars PROVE BInv'
  OBVIOUS
<1>1. CASE \E a \in BuildArgs : Start(a)
  BY <1>1, StartInv
<1>2. CASE Format
  BY <1>2, FormatInv
<1>3. CASE Locate
  BY <1>3, LocateInv
<1>4. CASE SelectBuildDir
  BY <1>4, SelectBuildDirInv
<1>5. CASE SelectReconfigure
  BY <1>5, SelectReconfigureInv
<1>6. CASE Route
  BY <1>6, RouteInv
<1>7. CASE Configuring
  BY <1>7, ConfiguringInv
<1>8. CASE AfterConfigure
  BY <1>8, AfterConfigureInv
<1>9. CASE BuildProject
  BY <1>9, BuildProjectInv
<1>10. CASE BuildsDone \/ UNCHANGED allVars
  BY <1>10, BuildsDoneInv
<1>. QED
  BY <1>1, <1>2, <1>3, <1>4, <1>5, <1>6, <1>7, <1>8, <1>9, <1>10
     DEF BuildNext, BuildStep

LEMMA BInvAlways == BuildSpec => []BInv
<1>1. BuildInit => BInv
  BY BuildInitInv
<1>2. BInv /\ [BuildNext]_allVars => BInv'
  BY BuildNextInv
<1>. QED
  BY <1>1, <1>2, PTL DEF BuildSpec

-----------------------------------------------------------------------------
(* Theorems.                                                               *)

\* build.py's variables, and those of the configure.py runs it starts on
\* the command lines run_configure derives, keep their types.
THEOREM BuildTypeCorrect == BuildSpec => []BuildTypeOK
<1>1. BInv => BuildTypeOK
  BY DEF BInv
<1>. QED
  BY <1>1, BInvAlways, PTL

\* build_project's "This should not happen - configure.py should have run
\* first" branch is unreachable, and cmake --build succeeds only on a
\* workspace holding a CMakeCache.txt.
THEOREM NoUnconfiguredBuild == BuildSpec => []NeverBuildsUnconfigured
<1>1. BInv => NeverBuildsUnconfigured
  BY DEF BInv, Chosen, NeverBuildsUnconfigured
<1>. QED
  BY <1>1, BInvAlways, PTL

================================================================================
