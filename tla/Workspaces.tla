------------------------------ MODULE Workspaces ------------------------------
(***************************************************************************)
(* What a configuration run promises of the build tree, as the            *)
(* specification's lifecycle and error sections state it: a workspace is *)
(* created by a successful configuration, mutated in place by a           *)
(* reconfiguration, removed only by an explicit clean; a run touches only *)
(* the workspace of the build type it resolved, and a cancel, a detection *)
(* or validation failure mutates nothing.  A backend write that changes *)
(* the cache stamps it with the run that made it; one that does not keeps *)
(* the old cache file and its stamp.                                      *)
(***************************************************************************)
EXTENDS Naturals

CONSTANTS
    Dirs,       \* the workspaces, one per build type
    Entries,    \* the states of a workspace's cache
    Unwritten,  \* the state of a workspace without a cache
    NoDir,      \* no build type resolved yet
    MaxRuns     \* bound on the number of runs

VARIABLES
    tree,     \* the build tree: a cache state per workspace
    run,      \* runs started so far
    phase,    \* "idle", "running", or how the last run ended
    target,   \* the workspace of the build type the run resolved, or NoDir
    consent   \* the run may clean its workspace (--clean, or it may ask)

wvars == <<tree, run, phase, target, consent>>

Init ==
    /\ tree = [d \in Dirs |-> Unwritten]
    /\ run = 0 /\ phase = "idle" /\ target = NoDir /\ consent \in BOOLEAN

\* A run starts, possibly with its build type already given; it may fail at
\* once (no backend on PATH).
Begin ==
    /\ phase # "running" /\ run < MaxRuns
    /\ run' = run + 1 /\ phase' \in {"running", "failed"}
    /\ target' \in Dirs \cup {NoDir} /\ consent' \in BOOLEAN
    /\ UNCHANGED tree

\* The build type is resolved (prompted) once.
Resolve(d) ==
    /\ phase = "running" /\ target = NoDir /\ target' = d
    /\ UNCHANGED <<tree, run, phase, consent>>

\* A cancel or a failure before the backend: nothing persisted changes.
Abort ==
    /\ phase = "running" /\ phase' = "failed"
    /\ UNCHANGED <<tree, run, target, consent>>

\* The dependency manager adds or removes the workspace's toolchain file.
Provision ==
    /\ phase = "running" /\ target \in Dirs
    /\ \E b \in BOOLEAN : tree' = [tree EXCEPT ![target].toolchain = b]
    /\ UNCHANGED <<run, phase, target, consent>>

\* The backend writes the workspace's cache, stamped with this run unless
\* the cache is unchanged (then the old file and stamp stay); the run may
\* still fail after the write.  A configured workspace is mutated in place:
\* its generator and its toolchain file change only when the run may clean
\* it.
Write ==
    /\ phase = "running" /\ target \in Dirs
    /\ \E e \in Entries :
         /\ e.configured /\ (e.stamp = run \/ e = tree[target])
         /\ tree[target].configured /\ e.gen # tree[target].gen => consent
         /\ e.toolchain # tree[target].toolchain => consent
         /\ tree' = [tree EXCEPT ![target] = e]
    /\ phase' \in {"done", "failed"}
    /\ UNCHANGED <<run, target, consent>>

\* A consented clean removes the workspace and the run fails.
Clean ==
    /\ phase = "running" /\ target \in Dirs /\ consent
    /\ tree' = [tree EXCEPT ![target] = Unwritten] /\ phase' = "failed"
    /\ UNCHANGED <<run, target, consent>>

Next ==
    \/ Begin \/ Abort \/ Provision \/ Write \/ Clean
    \/ \E d \in Dirs : Resolve(d)

Spec == Init /\ [][Next]_wvars

================================================================================
