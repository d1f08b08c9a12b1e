-------------------------- MODULE MCConfigureLinux --------------------------
(* configure.py on Linux: a machine with both compilers and both build     *)
(* systems (every menu is shown) and one with only clang and make.         *)
EXTENDS Configure

\* A command line with nothing given; fields are overridden below.
NoArgs == [type |-> None, compiler |-> None, buildSystem |-> None,
           coreOnly |-> FALSE, tests |-> None, examples |-> None,
           clean |-> FALSE, noInteractive |-> FALSE,
           useConan |-> FALSE, noConan |-> FALSE]

LinuxHosts ==
    { [path |-> {"cmake", "gcc", "g++", "clang", "clang++", "ninja", "make"},
       clangClDir |-> FALSE, vs |-> "none", vsVersion |-> "2022",
       devScript |-> "missing", devTools |-> {}],
      [path |-> {"cmake", "clang", "clang++", "make"},
       clangClDir |-> FALSE, vs |-> "none", vsVersion |-> "2022",
       devScript |-> "missing", devTools |-> {}] }

LinuxArgs ==
    { NoArgs,                                              \* configure.py
      [NoArgs EXCEPT !.noInteractive = TRUE],              \* --no-interactive
      [NoArgs EXCEPT !.noInteractive = TRUE, !.clean = TRUE,
                     !.buildSystem = "make"],              \* -n --clean --build-system make
      [NoArgs EXCEPT !.type = "Debug", !.compiler = "clang",
                     !.tests = TRUE, !.coreOnly = TRUE],   \* -t Debug -c clang --build-tests --core-only
      [NoArgs EXCEPT !.noInteractive = TRUE, !.useConan = TRUE] } \* -n --use-conan
=============================================================================
