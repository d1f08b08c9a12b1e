------------------------- MODULE MCConfigureWindows -------------------------
(* configure.py on Windows: a VS 2022 install whose developer script puts  *)
(* cl but not mt on PATH (no Windows SDK) with clang-cl under the install  *)
(* dir, and a plain shell with LLVM (clang, clang++, clang-cl) and the SDK *)
(* tools on PATH but no Visual Studio.                                     *)
EXTENDS Configure

NoArgs == [type |-> None, compiler |-> None, buildSystem |-> None,
           coreOnly |-> FALSE, tests |-> None, examples |-> None,
           clean |-> FALSE, noInteractive |-> FALSE,
           useConan |-> FALSE, noConan |-> FALSE]

WindowsHosts ==
    { [path |-> {"cmake", "ninja"},
       clangClDir |-> TRUE, vs |-> "vswhere", vsVersion |-> "2022",
       devScript |-> "ok", devTools |-> {"cl"}],
      [path |-> {"cmake", "ninja", "clang", "clang++", "clang-cl", "mt"},
       clangClDir |-> FALSE, vs |-> "none", vsVersion |-> "2022",
       devScript |-> "missing", devTools |-> {}] }

WindowsArgs ==
    { NoArgs,                                              \* configure.py
      [NoArgs EXCEPT !.noInteractive = TRUE],              \* --no-interactive
      [NoArgs EXCEPT !.noInteractive = TRUE, !.compiler = "clang-cl"],
      [NoArgs EXCEPT !.noInteractive = TRUE, !.noConan = TRUE,
                     !.buildSystem = "msbuild"] }
=============================================================================
