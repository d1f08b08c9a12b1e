# TLA+ models of the HeliosEngine build scripts

These modules model the Python scripts under `src/scripts/` that prepare a native build of the engine. Among them, `configure.py` resolves one build configuration and runs CMake on a persistent workspace `build/<type>/<platform>`. The models are checked with TLC and, where it matters most, proved with TLAPS.

## The system

| Part | Source | What it does | Status |
|---|---|---|---|
| configure.py | `src/scripts/configure.py` | `main()` applies the arguments. It then resolves each field in order: modules, tests/examples, build type, compiler, build system. Next it bootstraps the MSVC environment for Ninja with msvc or clang-cl, sets up Conan (it may run `install_deps.py`), and runs `cmake -S . -B build/<type>/<platform>`. | modelled (`Configure`) |
| install_deps.py | `src/scripts/install_deps.py` | Installs Conan or system packages and writes `conan_toolchain.cmake` into the workspace. | partly: only what configure.py sees of it |
| build.py | `src/scripts/build.py` | Optionally formats, then selects, reconfigures or creates a workspace (running configure.py with arguments seeded from its cache) and runs `cmake --build`. | modelled (`Build`, composed with `Configure`) |
| lint.py, format.py, docs.py | `src/scripts/` | Run clang-tidy, clang-format and doxygen over files. | not modelled: pure I/O over external tools |
| conanfile.py | `src/conanfile.py` | The Conan recipe. | not modelled: declarative data evaluated by Conan |

The parts interact through the file system. The workspace directory holds `CMakeCache.txt`, which CMake writes and `setup_compiler` and `configure()` read back. It also holds `conan_toolchain.cmake`, which `install_deps.py` writes and `setup_conan` and `configure()` look for. build.py reads the same caches (`CMakeCache.txt` for the configured flag, compiler, generator and module flags; the mtime of `CMakeCache.txt` for the newest workspace) and runs configure.py as a subprocess, so the two scripts meet in `ws` and in configure.py's exit code. The process environment (PATH) is the other shared resource: `_setup_clang_cl_path` and `setup_msvc_environment` extend it, and cmake inherits it.

## Modules

- **`Configure.tla`** models configure.py. The whole `build/` tree persists across invocations, so one behaviour is a sequence of up to `MaxRuns` invocations.
  - **Constants:**
    - `OS`: `"linux"` or `"windows"`; macOS takes the Linux branches.
    - `Hosts`: what is on PATH, whether a VS install is found by vswhere, and what its developer script adds.
    - `Args`: the command lines.
    - `MaxRuns`.
    - `None`: a model value for Python's None.
  - **State:**
    - `ws`: per build type, a workspace record. It holds the cache's presence, the recorded compiler path, the generator, the module flags and whether `HELIOS_USE_CONAN` is on, plus the presence of `conan_toolchain.cmake`.
    - `cfg`: the `BuildConfig`.
    - `path`: the process PATH.
    - `pc`: where `main()` is.
    - Ghosts `ws0`, `cancelled`, `pick` and `why` record what the properties refer to.
  - **Actions:** one per stretch of `main()` between two prompts.
    - `Invoke(a)` covers argument application, the cmake check and the non-interactive defaults.
    - `Modules`, `TestsExamples`, `BuildType`, `SelectCompiler`, `SetupCompilerStep` and `SelectBuildSystem`.
    - `SetupBuildSystemStep` covers `setup_build_system`, `setup_msvc_environment` and the failure check in `main()`.
    - `Conan` covers `setup_conan` including the `install_deps.py` run.
    - `CMake` covers `CMakeBuilder.configure`: the Conan branch, or the fallback with its generator-change prompt and `--clean`, then cmake itself.
    - A Ctrl-C at an `input()` menu is `Interrupted`: the exception is not caught and the script ends with a traceback. `ask_yes_no` instead catches Ctrl-C and answers "no", which the model follows.
    - `Finished` stutters once `MaxRuns` invocations have been made.
  - **Data abstraction:**
    - A tool is a name on PATH.
    - A recorded compiler path is one of six strings. `MarksOf` gives the substrings the scripts test with `in`, including the accidental ones (`/usr/bin/clang++` contains `g++`). `CompilerOfPath` gives the compiler a path really is; the properties about compilers are stated with it.
    - A prompt answer is one of the replies the code tells apart: `"1"`, `"2"`, Enter (which also stands for any other reply), or `"cancel"`.
    - CMake itself is modelled by `RunCMake`:
      - An unknown `-G` fails before anything is written.
      - A generator different from the cached one fails with no write.
      - A late failure (compiler not found, generator program missing, or any project error, chosen freely) writes the cache and then fails.
      - Success writes the cache.
      - cmake saves `CMakeCache.txt` copy-if-different: a write whose content equals the cache already there leaves the file, and with it its mtime (`stamp`), as it was. Any other write stamps the entry with the current invocation count.
- **`MCConfigureLinux.tla`, `MCConfigureWindows.tla`** instantiate the model.
  - **Linux:**
    - Hosts: one host with everything, so every menu is shown, and one with only clang and make.
    - Five command lines: none; `-n`; `-n --clean -b make`; `-t Debug -c clang --build-tests --core-only`; `-n --use-conan`.
  - **Windows:**
    - Hosts: a VS 2022 install whose developer script provides `cl` but not `mt`, and an LLVM shell without Visual Studio.
    - Four command lines, including `-c clang-cl` and `-b msbuild`.
- **`Build.tla`** models build.py and EXTENDS `Configure`: one behaviour is up to `MaxBuilds` build.py invocations on the same `build/` tree.
  - **Constants:** `BuildArgs` (build.py command lines, records of `--type`, `--compiler`, `--build-system`, `--platform`, `--core-only`, `--build-tests`, `--build-examples`, `--use-conan`/`--no-conan`, `--clean`, `-n`, `--skip-configure`, `--format`) and `MaxBuilds`.
  - **State:** `bpc` (where `main()` is), `bargs`, `bdir` (the workspace chosen), `needs` (whether configure must run), `btype` (what `cmake --build` built), `builds`, `bwhy` (why it stopped); ghosts `reconf` (the cache entry a reconfiguration started from) and `ranConf` (configure ran in this invocation).
  - **Actions:** `Start(a)`, `Format`, `Locate` (the `main()` branch that decides between the interactive selection and the old argument logic), `SelectBuildDir` (`select_build_directory`: a configured workspace, a new one, reconfigure, or cancel), `SelectReconfigure` (`reconfigure_build_directory`'s own menu), `Route`, `RunConfigure` (`run_configure`: the command line seeded from the cache), `Configuring`, `AfterConfigure`, `BuildProject` (`build_project`) and `BuildsDone`.
  - **Composition:** `RunConfigure` starts configure.py by taking `Configure`'s `Invoke(cmd)` with the command line `ConfigureCmd(bargs, ws[...])` builds. While `bpc = "configuring"`, the `Configuring` action takes one of `Configure`'s inner steps (`Modules` … `CMake`) and leaves build.py's variables alone; `AfterConfigure` reads configure.py's outcome (`pc` is `"done"` or `"failed"`). Both scripts thus act on the one `ws`.
  - **Data abstraction:** the newest workspace (`find_configured_build_dir`, by the cache's mtime) is the configured one with the largest `stamp`, the invocation count at the last cmake write that changed its cache. The outcome of `cmake --build` is a free Boolean.
- **`MCBuildLinux.tla`** instantiates it: a Linux host with every tool, and five build.py command lines (none; `-t RelWithDebInfo -n`; `--skip-configure --format`; `-t Debug --skip-configure`; `--platform`). `TypedBuildArgs` (`-t Debug -n` and `-t Release -n`) serves the `BuiltWhatConfigured` run.
- **`Workspaces.tla`** is the abstract specification of what a configure.py run promises of the `build/` tree, the lifecycle and error sections of the spec. A workspace (`tree[d]`) is created by a configuration and mutated in place by a reconfiguration. It is emptied only by a clean the run may do (`consent`). A run (`Begin`) resolves one build type (`Resolve`) and touches only that workspace. It may add or remove its toolchain file (`Provision`), write its cache (`Write`), stamped with the run unless the content is unchanged, clean it (`Clean`), or fail without changing anything (`Abort`). A write that changes a configured workspace's generator or its toolchain file needs `consent`.
  - `Configure.tla` maps itself onto it with `WS == INSTANCE Workspaces WITH ...`:
    - `tree` is `ws` and `run` is `runs`;
    - `phase` is `RunPhase`: `pc` when idle, done or failed, else `"running"`;
    - `target` is `Dir`, the build type of `BuildConfig`;
    - `consent` is `cfg.clean \/ cfg.interactive`.

  The property is `WorkspaceLifecycle == WS!Spec`.
- **`ConfigureProofs.tla`, `ConfigureArgsProofs.tla`, `ConfigureRefinement.tla`, `BuildProofs.tla`, `ReconfigureProofs.tla`, `BuildRefinement.tla`** hold the TLAPS proofs (see Proofs).

## Runs

Each run uses `MaxRuns = 2`. Two invocations are what every cross-run property needs: the first writes a workspace, the second reconfigures it. The Linux host set makes every branch of the compiler and build-system menus reachable. The Windows host set reaches both bootstrap outcomes (`cl` provided, `mt` missing).

| Run | Result | Checks |
|---|---|---|
| `configure_linux` | pass, ~400k states | `TypeOK`, `ConanConsistent`, `ExplicitArgsPersist`, `GeneratorSwitchNeedsConsent` (action property) |
| `configure_windows` | pass, ~170k states | `ConanConsistent`, `ToolchainReadyForCMake`, `WorkspaceLifecycle` (refinement of `Workspaces`) |
| `configure_buildSystemPromptHonoured` | violation | The Linux menu prints "1) Make, 2) Ninja" but maps "2" to Make (configure.py:948). |
| `configure_compilerCacheInherited` | violation | Interactive mode calls `select_compiler_interactive` before `setup_compiler` (configure.py:1643), and the menu ignores the cache: after `-n` configured g++, an interactive run that picks clang reconfigures with clang++. This breaks the spec's cache inheritance law. The property is restricted to interactive runs; the `-n` side is `configure_nonInteractiveKeepsCompiler`. |
| `configure_cleanPreventsMismatch` | violation | The Conan branch of `configure()` skips `--clean` and the generator check. A Conan workspace reconfigured with `--clean -b make` fails on a generator mismatch. |
| `configure_resolvedCompilerRecorded` | violation | The Conan branch passes no compiler, and msvc is never passed, so the workspace keeps the old cached compiler. |
| `configure_nonInteractiveKeepsCompiler` | violation | `setup_compiler` reads the cached compiler with `"g++" in cxx_compiler` before testing for clang (configure.py:774). `/usr/bin/clang++` contains `g++`, so `configure.py -n` switches a clang workspace to g++. |
| `build_linux` | pass, ~736k states | `BuildTypeOK`, `NeverBuildsUnconfigured`, `ReconfigureKeepsSettings`, over two build.py invocations (`MaxBuilds = MaxRuns = 2`). Deadlock is checked: every invocation reaches an end from which another can start, until the bound, where `BuildsDone` stutters. |
| `build_reconfigureKeepsCoreOnly` | violation | `run_configure` seeds tests, examples, compiler and generator from the cache but never `--core-only` (build.py:326): reconfiguring a core-only workspace turns the modules back on. |
| `build_explicitTypeBuilt` | violation | `-t Debug --skip-configure` builds the newest configured workspace, not Debug (build.py:808). |
| `build_reconfigureKeepsCompiler` | violation | `run_configure` maps `CMAKE_CXX_COMPILER` back to `--compiler` with the same substring tests (build.py:314): "Reconfigure existing" of a clang workspace passes `--compiler gcc`. |
| `build_builtWhatConfigured` | violation | After configure.py succeeds, `run_configure` returns the workspace with the newest cache mtime (build.py:386). cmake leaves an unchanged cache's mtime alone, so `-t Release -n`, `-t Debug -n`, `-t Release -n` builds `build/debug` on the third call. Three invocations (`MaxRuns = MaxBuilds = 3`) are the fewest that show it. |

The runs are capped at twelve, so three further disagreements are documented here rather than kept as runs. First, build.py passes `--platform` to configure.py, whose parser has no such option (build.py:356); the model keeps that branch (`RunConfigure` fails with a usage error), and no property states it. Second, a Ctrl-C at the reconfigure menu (build.py:257) ends with a traceback, where the selection menu exits 0. Third, `-n --use-conan` on a host where no toolchain can be produced configures without Conan and exits 0 (configure.py:1159); the model keeps that path (`Conan` falls back to `use = FALSE`), and `ConanConsistent` only asks that the flag and the file agree. The Windows side of the substring bug (a clang-cl cache seeded as `--compiler clang`) is the same code as `build_reconfigureKeepsCompiler`.

What the passing properties say:

- **`ConanConsistent`:** when cmake is about to run, `use_conan` holds exactly when a toolchain is set, and that file exists. A workspace whose cache has Conan on still has its toolchain. The `--clean` rmtree and every failure path of `setup_conan` threaten this.
- **`ToolchainReadyForCMake`:** a run that continues with Ninja and msvc or clang-cl has `cl`, or `mt` for clang-cl, on the PATH cmake inherits.
- **`ExplicitArgsPersist`:** `--type`, `--build-tests`, `--build-examples` and `--core-only` end up in the workspace a completed run configured.
- **`GeneratorSwitchNeedsConsent`** (action property, `[][ConsentedSwitches]_vars`): a step that replaces the generator of a configured workspace belongs to a run given `--clean` or to an interactive run, where the user accepted the clean question. A `-n` reconfiguration with another generator must fail instead: cmake refuses the change, and `CMakeBuilder.configure` asks about cleaning only when interactive.
- **`WorkspaceLifecycle`:** every step of configure.py is a step of `Workspaces` under the mapping `WS`, or leaves its variables alone. It is checked on the Windows instance only. On the Linux instance TLC takes about nine minutes with it, and the theorem covers every instance anyway. Its mutant lets the clean question reach a `-n` run (`CMakeAskNonInteractive`). TLC then finds a non-interactive write that switches a Ninja workspace to MSBuild without consent.
- **`NeverBuildsUnconfigured`:** build.py never calls `cmake --build` on a workspace without a cache, and never ends in `build_project`'s "not configured" error.
- **`ReconfigureKeepsSettings`:** once a build.py run that took "Reconfigure existing" reaches `build_project`, the workspace the user picked (`select_build_dir` sets `--type` to it) still has its generator and its tests and examples flags, whether cmake rewrote its cache or left it unchanged. The compiler and `--core-only` are not kept (two violation runs), and the workspace then built is `find_configured_build_dir`'s choice, which need not be the picked one (`build_builtWhatConfigured`).

Each property has a mutant listed in `PROJECT.json`. The mutant is a plausible bug in the mapped code, and TLC finds it violates the property under the run's own configuration.

**Fairness.** No run checks liveness, so no fairness is assumed. The scripts block on `input()` and on subprocesses with no timeout, so a liveness property would rest on the user answering, not on the code. `build_linux` checks deadlock instead: every reachable state of build.py and configure.py has a successor, so no invocation is stuck part-way.

## Proofs

Six modules hold the TLAPS proofs. Together they prove ten theorems for every `OS`, every host set, every set of command lines and every bound. The assumptions are `ConstantsAssumption` (in `Configure`) and `BuildAssumption` (in `Build`). Each says which constants are well-typed and nonempty, and that `None`, Python's None, is none of the strings the scripts use.

`ConfigureProofs.tla` (configure.py):

- `TypeCorrect == Spec => []TypeOK`
- `ConanConsistency == Spec => []ConanConsistent`
- `ToolchainReady == Spec => []ToolchainReadyForCMake`
- `GeneratorSwitchConsent == Spec => GeneratorSwitchNeedsConsent` (an action property)

`ConfigureArgsProofs.tla` (configure.py):

- `ExplicitArgsPersistence == Spec => []ExplicitArgsPersist`

`ConfigureRefinement.tla` (configure.py against `Workspaces`):

- `WorkspaceRefinement == Spec => WorkspaceLifecycle`

`BuildProofs.tla` (build.py composed with configure.py):

- `BuildTypeCorrect == BuildSpec => []BuildTypeOK`
- `NoUnconfiguredBuild == BuildSpec => []NeverBuildsUnconfigured`

`ReconfigureProofs.tla` (build.py's "Reconfigure existing" through configure.py):

- `ReconfigureKeeps == BuildSpec => []ReconfigureKeepsSettings`

`BuildRefinement.tla` (build.py composed with configure.py, against `Workspaces`):

- `BuildWorkspaceRefinement == BuildSpec => WorkspaceLifecycle`. No run checks this composition against the lifecycle: the Linux configure.py instance already needs about 9 minutes for it, and build_linux is larger. The proof covers every instance.

**Why strengthenings are needed.** `TypeOK` alone is not inductive, because the helpers take fields that must already be resolved. For example, `Dir = cfg.buildType` must be a build type when `SetupCompilerStep` reads `ws[Dir]`. The inductive invariant is `IInv == TypeOK /\ Stages`, where `Stages` says which `BuildConfig` fields are set at each stage of `main()`:

- after `testsEx`, the module flag is set;
- after `buildType`, the build type is set;
- after `setupCompiler`, a real compiler (never `"cl"`);
- at `conan` and `cmake`, a generator.

**Proof structure (configure.py).** Lemmas state what each helper returns: detection, `SetupCompiler`, `SetupBuildSystem`, `SetupMsvcEnvironment`, `SetupConan` and `RunCMake`. Each action then has a lemma showing it preserves `Inv == IInv /\ ConanConsistent`. `InvokeInv` holds for any parsed command line (`ArgRec`), not only those in `Args`; build.py's proofs need this. `ConanConsistent` is inductive together with `IInv` for two reasons:

- `SetupConan` returns `use = toolchain`, and it never claims a toolchain file that does not exist (lemma `SetupConanSound`).
- `RunCMake` writes `HELIOS_USE_CONAN=ON` only in the Conan branch, and it keeps the workspace's toolchain file.

`ToolchainReadyForCMake` is inductive relative to `IInv`. `Stages` rules out the compiler `"cl"` once `setupBuildSystem` is reached. So a toolchain that needs bootstrapping there has compiler msvc or clang-cl, and `main()` goes on only when `setup_msvc_environment` reported success (lemma `SetupMsvcEnvironmentReady`). `setup_conan` and cmake change neither PATH nor the compiler and generator.

`GeneratorSwitchNeedsConsent` follows from `IInv` step by step. Only `CMake` changes a workspace's generator, and only after the rmtree that `--clean` or an interactive "yes" asks for, because `RunCMake` refuses a different generator on a configured cache.

**Refinement.** `WorkspaceRefinement` follows the usual three steps:

1. `Init` maps to `WS!Init`.
2. `Inv` holds throughout (`InitInv`, `NextInv`).
3. Under `Inv /\ Inv'`, every step maps to a `Workspaces` step or to a stutter (`NextRefines`).

Step 3 has one lemma per kind of step:

- `InvokeStep`: `Invoke` is `Begin`.
- `QuietStep`, used by `MiddleStep`: the prompts and the compiler and build-system setup are stutters, or `Abort` when they fail or are cancelled.
- `BuildTypeStep`: the build-type prompt is `Resolve`.
- `ConanStep`: `Conan` is `Provision`.
- `CMakeStep`: `CMake` is one of three steps.
  - `Write`, when cmake writes. `RunCMake` keeps the base's toolchain file and refuses a generator other than a configured base's, so only the clean, which needs `--clean` or interactivity, can change either.
  - `Clean`, when the rmtree was followed by a failure before the write.
  - `Abort`, when cmake failed without cleaning.

`Inv` supplies what the mapping needs: `Dir` is a build type from the `buildType` stage on, and cmake's input is well typed.

`ExplicitArgsPersist` needs two more conjuncts:

- `ArgsInCfg`: once `main()` has applied the arguments, every given field is in the `BuildConfig`. Each prompt asks only for a field that is still None, and the non-interactive defaults fill only None fields.
- `DoneRecorded`: a completed run's workspace holds the `BuildConfig`'s module flags, because only a cmake write reports success.

**Proof structure (build.py).** The inductive invariant is `BInv == Inv /\ BuildTypeOK /\ Chosen /\ bwhy # "notConfigured"`. `Chosen` relates build.py's position to its chosen directory:

- `bdir` is None before routing;
- `bdir` is configured at `route`, `build` and `done`;
- configure has not run before routing;
- at `build` and `done` after running configure, configure succeeded (`pc = "done"`).

The key step is `AfterConfigure`: `find_configured_build_dir` returns a configured workspace or None (lemmas `NewestConfigured`, which shows a maximum exists among the workspaces, and `NewestDir`). Which one it returns is not fixed: an unchanged cache keeps an older stamp than another workspace's, which is what `build_builtWhatConfigured` shows. `RunConfigure` is covered by `InvokeInv`, applied to the command line `ConfigureCmd` derives, which is a parsed command line (`ConfigureCmdType`). Each build.py action has its own lemma, and `BuildNextInv` combines them.

**Proof structure (reconfiguration).** `ReconfigureKeepsSettings` is a round trip through two programs. build.py reads the generator and the flags from the chosen cache (build.py:321-340) and passes them on configure.py's command line. configure.py normalises the generator and writes the flags back. The inductive invariant is `RInv == BInv /\ ArgsInCfg /\ DoneRecorded /\ GenRecorded /\ ReconfSeeded`.

- `GenRecorded` (in `ConfigureArgsProofs`) is about configure.py:
  - every configured cache names one of `KnownGens`, the generators CMake instantiates;
  - a `--build-system` naming one of them stays in the `BuildConfig`;
  - a completed run's workspace names the `BuildConfig`'s generator.

  The second conjunct rests on lemma `ValidateKeepsKnown`: `setup_build_system` maps each of these names to itself, whether or not the tool is found. The build-system menu is only shown when no generator was given (`SelectBuildSystemGen`).
- `ReconfSeeded` is about build.py:
  - the selection menus are reached only with no configure option on the command line;
  - the entry chosen under "Reconfigure existing" (the ghost `reconf`) is a configured cache;
  - `--type` is set to the chosen workspace (`ReconfiguredDir`);
  - from `run_configure` on, configure.py's command line carries that cache's generator and flags, and that type.

At `build` and `done`, `Chosen` gives `pc = "done"`. `ArgsInCfg` gives `Dir = cfg.buildType = args.type = ReconfiguredDir`, and `DoneRecorded` and `GenRecorded` carry the command line into that workspace's cache. Whether cmake rewrote the cache or left it unchanged does not matter: lemma `RunCMakeWrites` says that a write, changed or not, holds the `BuildConfig`'s generator and flags. The configure.py invariants are lifted to build.py's steps (`CInvNext`): `run_configure` is `InvokeArgs` and `InvokeGen` on a parsed command line, and build.py's own steps leave configure.py's variables alone.

**Refinement (build.py).** `BuildWorkspaceRefinement` reuses configure.py's step lemmas under `BInv /\ BInv'`:

- build.py's own steps leave configure.py's variables alone, so they are stutters (`ConfigureStutter`);
- `run_configure` is `InvokeStep` applied to the parsed command line `ConfigureCmd` builds (`RunConfigureStep`);
- the steps taken while build.py waits are configure.py's (`MiddleStep`, `BuildTypeStep`, `ConanStep`, `CMakeStep`).

Every strengthening (`IInv`, `Inv`, `ArgsInv`, `BInv`, `RInv`) was checked with TLC as an invariant before it was proved (`BInv` and `RInv` on all 735,777 states of the `build_linux` instance).

**Left to TLC.**

- Deadlock freedom of `build_linux`: it is a statement about ENABLED, which TLAPS's backends do not handle.
- The properties of the violation runs, which do not hold. Among them `BuiltWhatConfigured`, which an earlier model proved only because it stamped every cmake write.

## Not modelled, and the plan

- **Not modelled in configure.py:**
  - `CMakeBuilder.build`, which `main()` never calls.
  - The git warning, which changes nothing the properties observe.
  - `--cmake-args`. Its `-D` options reach cmake after the ones `configure()` builds, so `--cmake-args "-DHELIOS_BUILD_TESTS=ON"` overrides `--no-tests`, and `-DCMAKE_CXX_COMPILER=...` overrides the compiler. The model's command lines have no `--cmake-args`, so `ExplicitArgsPersist`, `ReconfigureKeepsSettings` and the theorems about them hold only for command lines without it.
  - The Windows `conanbuild.bat` environment import in `configure()`: its failure is only a warning.
- **Not modelled in build.py:**
  - The Windows build environment (`setup_msvc_environment` and `conanbuild.bat` before `cmake --build`). Its outcome is folded into the free result of the build.
  - `--lint` and `--jobs`.
  - The re-prompt loops on invalid menu input, which only repeat a question.
  - The Windows instance of build.py: the run cap leaves no room for it.

  A Ctrl-C at the reconfigure menu (build.py:257) is modelled as a failure, where the selection menu exits 0; no property states the difference.
- **install_deps.py:** its run as a component, covering the Conan profile, the fallback to system packages and partial installs, refining the three outcomes `Configure` assumes.
