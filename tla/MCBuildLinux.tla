---------------------------- MODULE MCBuildLinux ----------------------------
(* build.py on a Linux machine with both compilers and both build systems. *)
EXTENDS Build

\* configure.py's command line before build.py first starts it.
NoArgs == [type |-> None, compiler |-> None, buildSystem |-> None,
           coreOnly |-> FALSE, tests |-> None, examples |-> None,
           clean |-> FALSE, noInteractive |-> FALSE,
           useConan |-> FALSE, noConan |-> FALSE]
ConfigureArgs == {NoArgs}

\* build.py with no option.
NoBArgs == [type |-> None, compiler |-> None, buildSystem |-> None,
            platform |-> FALSE, coreOnly |-> FALSE, tests |-> None,
            examples |-> None, useConan |-> None, clean |-> FALSE,
            noInteractive |-> FALSE, skipConfigure |-> FALSE, format |-> FALSE]

BuildHosts ==
    { [path |-> {"cmake", "gcc", "g++", "clang", "clang++", "ninja", "make"},
       clangClDir |-> FALSE, vs |-> "none", vsVersion |-> "2022",
       devScript |-> "missing", devTools |-> {}] }

LinuxBuildArgs ==
    { NoBArgs,                                                    \* build.py
      [NoBArgs EXCEPT !.type = "RelWithDebInfo", !.noInteractive = TRUE], \* -t RelWithDebInfo --no-interactive
      [NoBArgs EXCEPT !.skipConfigure = TRUE, !.format = TRUE],   \* --skip-configure --format
      [NoBArgs EXCEPT !.type = "Debug", !.skipConfigure = TRUE],  \* -t Debug --skip-configure
      [NoBArgs EXCEPT !.platform = TRUE] }                        \* --platform linux

\* build.py -t Debug -n and build.py -t Release -n, in any order.
TypedBuildArgs ==
    { [NoBArgs EXCEPT !.type = t, !.noInteractive = TRUE] : t \in {"Debug", "Release"} }
=============================================================================
