-------------------------------- MODULE Gate --------------------------------
(***************************************************************************)
(* The regression gate (tools/run_regression.py): one build, a bounded     *)
(* pool of suites that read the build tree, then the suites that rebuild   *)
(* it one at a time, then a checked restore and an exit code.              *)
(*                                                                         *)
(* A suite is a process of its own: it may pass, fail or hang, and one     *)
(* that rebuilds the tree does so through a child `make` that survives     *)
(* proc.kill().  Elapsed time is one bit per suite, past its deadline or   *)
(* not; the order of the two lists and what the suites print are left out. *)
(***************************************************************************)
EXTENDS Naturals, FiniteSets

CONSTANTS
    TESTS,         \* suites of the parallel pool
    SERIAL_TESTS,  \* suites that rebuild the tree
    MAX_PARALLEL

ASSUME SuitesAssumption ==
    /\ IsFiniteSet(TESTS) /\ IsFiniteSet(SERIAL_TESTS)
    /\ TESTS \cap SERIAL_TESTS = {} /\ SERIAL_TESTS # {}
ASSUME ParallelAssumption == MAX_PARALLEL \in Nat \ {0}

VARIABLES
    phase,      \* where main() stands
    pending,    \* suites of the current list still to launch
    running,    \* suites launched and not yet reaped
    todo,       \* of those, the ones this pass of reap() has still to look at
    results,    \* suite -> "none" until reaped, then how it ended
    restored,   \* what restore_default_build() returned
    exit_code,
    proc,       \* suite -> the state of its process
    late,       \* suites whose SUITE_TIMEOUT has passed
    making,     \* suites with a child `make` at work
    tree,       \* what build/ holds
    disturbed   \* history: suites that ran while somebody else changed build/

gate == <<phase, pending, running, todo, results, restored, exit_code>>
world == <<proc, late, making, tree, disturbed>>
vars == <<gate, world>>

Suites == TESTS \cup SERIAL_TESTS
Mutators == SERIAL_TESTS
Trees == {"default", "other", "none"}
Outcomes == {"pass", "fail", "killed"}

TypeOK ==
    /\ phase \in {"build", "pool", "serial", "restore", "report", "done"}
    /\ pending \subseteq Suites
    /\ running \subseteq Suites
    /\ todo \subseteq running
    /\ results \in [Suites -> Outcomes \cup {"none"}]
    /\ restored \in BOOLEAN
    /\ exit_code \in {0, 1}
    /\ proc \in [Suites -> {"none", "live"} \cup Outcomes]
    /\ late \subseteq Suites
    /\ making \subseteq Mutators
    /\ tree \in Trees
    /\ disturbed \subseteq Suites

Live == {s \in Suites : proc[s] = "live"}

-----------------------------------------------------------------------------
(* The gate.                                                               *)

Init ==
    /\ phase = "build"
    /\ pending = {} /\ running = {} /\ todo = {}
    /\ results = [s \in Suites |-> "none"]
    /\ restored = FALSE
    /\ exit_code = 1
    /\ proc = [s \in Suites |-> "none"]
    /\ late = {} /\ making = {} /\ disturbed = {}
    /\ tree \in Trees

\* The one build at the start.  The result of `make clean` is not looked at;
\* a `make` that fails ends the gate with 1.
Build ==
    /\ phase = "build"
    /\ \/ tree' = "default" /\ phase' = "pool" /\ pending' = TESTS
       \/ tree' \in Trees /\ phase' = "done" /\ pending' = {}
    /\ UNCHANGED <<running, todo, results, restored, exit_code,
                   proc, late, making, disturbed>>

\* A suite that is given a tree which is not the one it counts on, or that is
\* being changed, is disturbed from its first instruction.
launch(s) ==
    /\ pending' = pending \ {s}
    /\ running' = running \cup {s}
    /\ proc' = [proc EXCEPT ![s] = "live"]
    /\ disturbed' = IF making # {} \/ (s \notin Mutators /\ tree # "default")
                    THEN disturbed \cup {s} ELSE disturbed

Room == Cardinality(running) < MAX_PARALLEL

\* The inner loop of the pool: only after reap() has gone through `running`.
LaunchPool(s) ==
    /\ phase = "pool" /\ todo = {}
    /\ s \in pending /\ Room
    /\ launch(s)
    /\ UNCHANGED <<phase, todo, results, restored, exit_code, late, making, tree>>

\* A serial suite starts alone and is polled at once.
LaunchSerial(s) ==
    /\ phase = "serial" /\ running = {}
    /\ s \in pending
    /\ launch(s)
    /\ todo' = {s}
    /\ UNCHANGED <<phase, results, restored, exit_code, late, making, tree>>

\* Mutant: the deadline is not looked at, as before 2026-09-04.
reap_unbounded(s) ==
    /\ s \in todo
    /\ todo' = todo \ {s}
    /\ \/ /\ proc[s] = "live"
          /\ UNCHANGED <<running, results, proc>>
       \/ /\ proc[s] # "live"
          /\ running' = running \ {s}
          /\ results' = [results EXCEPT ![s] = proc[s]]
          /\ UNCHANGED proc
    /\ UNCHANGED <<phase, pending, restored, exit_code, late, making, tree, disturbed>>

\* One round of the loop of reap(): a suite that has ended gives its return
\* code, one past its deadline is killed and counts as failed, any other
\* stays.  kill() reaches the suite and not the `make` it may have started.
reap(s) ==
    /\ s \in todo
    /\ todo' = todo \ {s}
    /\ \/ /\ proc[s] = "live" /\ s \in late
          /\ running' = running \ {s}
          /\ results' = [results EXCEPT ![s] = "killed"]
          /\ proc' = [proc EXCEPT ![s] = "killed"]
       \/ /\ proc[s] = "live" /\ s \notin late
          /\ UNCHANGED <<running, results, proc>>
       \/ /\ proc[s] # "live"
          /\ running' = running \ {s}
          /\ results' = [results EXCEPT ![s] = proc[s]]
          /\ UNCHANGED proc
    /\ UNCHANGED <<phase, pending, restored, exit_code, late, making, tree, disturbed>>

\* The sleep between two passes: the pool has no room or nothing to launch.
Poll ==
    /\ todo = {} /\ running # {}
    /\ \/ phase = "pool" /\ (pending = {} \/ ~Room)
       \/ phase = "serial"
    /\ todo' = running
    /\ UNCHANGED <<phase, pending, running, results, restored, exit_code, world>>

\* Mutant: the loop ends when there is nothing left to launch.
PoolDrained_early ==
    /\ phase = "pool" /\ todo = {} /\ pending = {}
    /\ phase' = "serial" /\ pending' = SERIAL_TESTS /\ running' = {}
    /\ UNCHANGED <<todo, results, restored, exit_code, world>>

\* `while pending or running` is over: on to the suites that rebuild.
PoolDrained ==
    /\ phase = "pool" /\ todo = {} /\ pending = {} /\ running = {}
    /\ phase' = "serial" /\ pending' = SERIAL_TESTS
    /\ UNCHANGED <<running, todo, results, restored, exit_code, world>>

SerialDone ==
    /\ phase = "serial" /\ pending = {} /\ running = {}
    /\ phase' = "restore"
    /\ UNCHANGED <<pending, running, todo, results, restored, exit_code, world>>

\* Mutant: the return codes of the two makes are not looked at, as before
\* 2026-09-04.
restore_default_build_unchecked ==
    /\ phase = "restore"
    /\ tree' \in Trees
    /\ restored' = TRUE
    /\ phase' = "report"
    /\ UNCHANGED <<pending, running, todo, results, exit_code,
                   proc, late, making, disturbed>>

\* make clean, make, and the program must exist.  Both return codes are
\* looked at, but a `make` that an orphaned one runs beside tells nothing.
restore_default_build ==
    /\ phase = "restore"
    /\ \/ restored' = TRUE /\ tree' = "default"
       \/ restored' = FALSE /\ tree' \in Trees
       \/ making # {} /\ restored' = TRUE /\ tree' \in {"default", "other"}
    /\ phase' = "report"
    /\ UNCHANGED <<pending, running, todo, results, exit_code,
                   proc, late, making, disturbed>>

\* all_ok: every result is a zero and the tree was restored.  A suite without
\* a result is not looked for.
all_ok ==
    /\ \A s \in Suites : results[s] \in {"none", "pass"}
    /\ restored

Report ==
    /\ phase = "report"
    /\ exit_code' = IF all_ok THEN 0 ELSE 1
    /\ phase' = "done"
    /\ UNCHANGED <<pending, running, todo, results, restored, world>>

-----------------------------------------------------------------------------
(* The suites and their makes (external to the gate).                      *)

\* Everybody else who is alive sees build/ change under him.
Disturb(s) == disturbed' = disturbed \cup (Live \ {s})

\* A suite that rebuilds starts its make: build/ is empty or half written.
StartMake(s) ==
    /\ s \in Mutators \cap Live /\ s \notin making
    /\ making' = making \cup {s}
    /\ tree' = "none"
    /\ Disturb(s)
    /\ UNCHANGED <<gate, proc, late>>

\* The make ends, whether or not its suite is still there.
EndMake(s) ==
    /\ s \in making
    /\ making' = making \ {s}
    /\ tree' \in Trees
    /\ Disturb(s)
    /\ UNCHANGED <<gate, proc, late>>

\* A suite ends by itself; it has waited for its make.
Exit(s) ==
    /\ s \in Live /\ s \notin making
    /\ \E rc \in {"pass", "fail"} : proc' = [proc EXCEPT ![s] = rc]
    /\ UNCHANGED <<gate, late, making, tree, disturbed>>

\* Time passes the deadline of a suite.
Deadline(s) ==
    /\ s \in Live \ late
    /\ late' = late \cup {s}
    /\ UNCHANGED <<gate, proc, making, tree, disturbed>>

-----------------------------------------------------------------------------
Step ==
    \/ Build
    \/ \E s \in Suites : LaunchPool(s) \/ LaunchSerial(s) \/ reap(s)
    \/ Poll \/ PoolDrained \/ SerialDone
    \/ restore_default_build \/ Report

Next ==
    \/ Step
    \/ \E s \in Suites : StartMake(s) \/ EndMake(s) \/ Exit(s) \/ Deadline(s)

\* The gate's own process keeps running and time passes; no suite is assumed
\* to end.  The gate's own make is: subprocess.run waits for it with no timeout,
\* in the first build and in restore_default_build, each of which is one Step.
Fairness == WF_vars(Step) /\ \A s \in Suites : WF_vars(Deadline(s))

Spec == Init /\ [][Next]_vars /\ Fairness

-----------------------------------------------------------------------------
(* Properties.                                                             *)

\* A gate that exits with 0 has run every suite of both lists to a pass, none
\* of them while anybody else changed build/, and leaves the default build
\* behind with nobody still writing to it (main, run_regression.py:862-897).
ExitZeroHonest ==
    phase = "done" /\ exit_code = 0 =>
        /\ \A s \in Suites : results[s] = "pass" /\ s \notin disturbed
        /\ tree = "default" /\ making = {}

\* No suite of the pool ever runs beside a rebuild, whatever is killed
\* (SERIAL_TESTS, run_regression.py:320-338).
PoolUndisturbed ==
    /\ Live \cap TESTS # {} => making = {} /\ tree = "default"
    /\ disturbed \cap TESTS = {}

\* The gate ends, whatever hangs (reap, run_regression.py:492-527).
GateEnds == <>(phase = "done")

=============================================================================
