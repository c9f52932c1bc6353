----------------------------- MODULE GateProofs -----------------------------
(***************************************************************************)
(* An exit code of 0 is honest and the pool is never disturbed, for any    *)
(* lists of suites and any MAX_PARALLEL.  The argument: what makes the     *)
(* tree change is a suite in `running` or the make of one that was killed, *)
(* and a kill is in `results` for good.                                    *)
(***************************************************************************)
EXTENDS Gate, TLAPS

Reaped(s) == results[s] # "none"
SomeKilled == \E s \in Suites : results[s] = "killed"

\* What is live is counted, and a result is final.
Counted ==
    /\ Live \subseteq running
    /\ \A s \in Suites :
         /\ Reaped(s) => s \notin running \cup pending /\ proc[s] = results[s]
         /\ s \in running => s \notin pending /\ proc[s] # "none"

\* Where a make comes from, and what it can have done.
Makers ==
    /\ \A s \in making : (s \in running /\ proc[s] = "live") \/ results[s] = "killed"
    /\ disturbed # {} => SomeKilled
    /\ disturbed \subseteq Mutators

\* What each phase has behind it.
Phases ==
    /\ phase = "build" =>
         /\ pending = {} /\ running = {} /\ making = {} /\ disturbed = {}
         /\ \A s \in Suites : ~Reaped(s)
    /\ phase = "pool" =>
         /\ pending \cup running \subseteq TESTS
         /\ \A s \in TESTS : s \in pending \cup running \/ Reaped(s)
         /\ \A s \in Mutators : ~Reaped(s)
         /\ making = {} /\ disturbed = {} /\ tree = "default"
    /\ phase = "serial" =>
         /\ pending \cup running \subseteq Mutators
         /\ \A s \in TESTS : Reaped(s)
         /\ \A s \in Mutators : s \in pending \cup running \/ Reaped(s)
         /\ \A s, t \in running : s = t
    /\ phase \in {"restore", "report"} =>
         pending = {} /\ running = {} /\ \A s \in Suites : Reaped(s)
    /\ phase = "report" /\ restored => tree = "default" \/ SomeKilled
    /\ phase = "done" => running = {} /\ pending = {}
    /\ phase = "done" /\ exit_code = 0 =>
         tree = "default" /\ \A s \in Suites : results[s] = "pass"
    /\ phase # "done" => exit_code = 1

IInv == TypeOK /\ Counted /\ Makers /\ Phases

-----------------------------------------------------------------------------
LEMMA InitIInv == Init => IInv
  BY SuitesAssumption
  DEF Init, IInv, TypeOK, Counted, Makers, Phases, Live, Suites, Mutators, Reaped,
      Outcomes, Trees, SomeKilled

LEMMA NextTypeOK == ASSUME TypeOK, [Next]_vars PROVE TypeOK'
  <1> USE SuitesAssumption
      DEF TypeOK, Suites, Mutators, Outcomes, Trees, Live, gate, world
  <1>1. CASE Build BY <1>1 DEF Build
  <1>2. ASSUME NEW s \in Suites, LaunchPool(s) PROVE TypeOK'
    BY <1>2 DEF LaunchPool, launch
  <1>3. ASSUME NEW s \in Suites, LaunchSerial(s) PROVE TypeOK'
    BY <1>3 DEF LaunchSerial, launch
  <1>4. ASSUME NEW s \in Suites, reap(s) PROVE TypeOK'
    BY <1>4 DEF reap
  <1>5. CASE Poll BY <1>5 DEF Poll
  <1>6. CASE PoolDrained BY <1>6 DEF PoolDrained
  <1>7. CASE SerialDone BY <1>7 DEF SerialDone
  <1>8. CASE restore_default_build BY <1>8 DEF restore_default_build
  <1>9. CASE Report BY <1>9 DEF Report
  <1>10. ASSUME NEW s \in Suites, StartMake(s) PROVE TypeOK'
    BY <1>10 DEF StartMake, Disturb
  <1>11. ASSUME NEW s \in Suites, EndMake(s) PROVE TypeOK'
    BY <1>11 DEF EndMake, Disturb
  <1>12. ASSUME NEW s \in Suites, Exit(s) PROVE TypeOK'
    BY <1>12 DEF Exit
  <1>13. ASSUME NEW s \in Suites, Deadline(s) PROVE TypeOK'
    BY <1>13 DEF Deadline
  <1>14. CASE UNCHANGED vars BY <1>14 DEF vars
  <1> QED
    BY <1>1, <1>2, <1>3, <1>4, <1>5, <1>6, <1>7, <1>8, <1>9, <1>10, <1>11, <1>12,
       <1>13, <1>14 DEF Next, Step

LEMMA NextIInv == ASSUME IInv, [Next]_vars PROVE IInv'
  <1>0. TypeOK /\ TypeOK'
    BY NextTypeOK DEF IInv
  <1> SUFFICES Counted' /\ Makers' /\ Phases'
    BY <1>0 DEF IInv
  <1> USE SuitesAssumption, <1>0
      DEF IInv, Counted, Makers, Phases, Reaped, SomeKilled, Live, Suites, Mutators,
          gate, world
  <1>1. CASE Build BY <1>1 DEF Build, TypeOK
  <1>2. ASSUME NEW s \in Suites, LaunchPool(s) PROVE Counted' /\ Makers' /\ Phases'
    BY <1>2 DEF LaunchPool, launch, TypeOK
  <1>3. ASSUME NEW s \in Suites, LaunchSerial(s) PROVE Counted' /\ Makers' /\ Phases'
    <2>1. Counted' BY <1>3 DEF LaunchSerial, launch, TypeOK
    <2>2. Makers' BY <1>3 DEF LaunchSerial, launch, TypeOK
    <2>3. phase' = "serial" /\ phase = "serial" /\ pending' = pending \ {s}
          /\ running = {} /\ running' = {s} /\ s \in pending /\ UNCHANGED <<results, exit_code>>
      BY <1>3 DEF LaunchSerial, launch
    <2>4. Phases' BY <2>3
    <2> QED BY <2>1, <2>2, <2>4
  <1>4. ASSUME NEW s \in Suites, reap(s) PROVE Counted' /\ Makers' /\ Phases'
    <2>0. s \in running /\ s \notin pending /\ proc[s] # "none" /\ ~Reaped(s)
      BY <1>4 DEF reap, TypeOK
    <2>1. CASE UNCHANGED <<running, results, proc>>
      BY <1>4, <2>1 DEF reap, TypeOK
    <2>2. ASSUME NEW r \in Outcomes, running' = running \ {s},
                 results' = [results EXCEPT ![s] = r],
                 proc' = [proc EXCEPT ![s] = r],
                 s \in making => r = "killed"
          PROVE  Counted' /\ Makers' /\ Phases'
      <3>1. /\ UNCHANGED <<phase, pending, restored, exit_code, making, tree, disturbed>>
            /\ \A t \in Suites : Reaped(t)' <=> Reaped(t) \/ t = s
            /\ \A t \in Suites : results[t] = "killed" => results'[t] = "killed"
        BY <1>4, <2>0, <2>2 DEF reap, TypeOK, Outcomes
      <3>2. Counted' BY <2>0, <2>2, <3>1 DEF TypeOK, Outcomes
      <3>3. Makers' BY <2>0, <2>2, <3>1 DEF TypeOK
      <3>4. Phases' BY <2>0, <2>2, <3>1 DEF TypeOK
      <3> QED BY <3>2, <3>3, <3>4
    <2>3. CASE proc[s] = "live" /\ s \in late
      <3>1. proc' = [proc EXCEPT ![s] = "killed"] /\ running' = running \ {s}
            /\ results' = [results EXCEPT ![s] = "killed"]
        BY <1>4, <2>3 DEF reap
      <3> QED BY <2>2, <3>1 DEF Outcomes
    <2>4. CASE proc[s] # "live"
      <3>1. proc' = [proc EXCEPT ![s] = proc[s]] /\ running' = running \ {s}
            /\ results' = [results EXCEPT ![s] = proc[s]] /\ proc[s] \in Outcomes
        BY <1>4, <2>0, <2>4 DEF reap, TypeOK
      <3>2. s \in making => proc[s] = "killed"
        BY <2>0, <2>4, <3>1 DEF Outcomes, TypeOK
      <3> QED BY <2>2, <3>1, <3>2
    <2> QED BY <1>4, <2>1, <2>3, <2>4 DEF reap
  <1>5. CASE Poll BY <1>5 DEF Poll, TypeOK
  <1>6. CASE PoolDrained BY <1>6 DEF PoolDrained, TypeOK
  <1>7. CASE SerialDone BY <1>7 DEF SerialDone, TypeOK
  <1>8. CASE restore_default_build
    <2>1. Counted' /\ Makers' BY <1>8 DEF restore_default_build, TypeOK
    <2>2. making # {} => SomeKilled BY <1>8 DEF restore_default_build, TypeOK
    <2>3. phase' = "report" /\ phase = "restore"
          /\ UNCHANGED <<pending, running, results, exit_code>>
      BY <1>8 DEF restore_default_build
    <2>4. restored' => tree' = "default" \/ SomeKilled
      BY <1>8, <2>2 DEF restore_default_build
    <2> QED BY <2>1, <2>3, <2>4
  <1>9. CASE Report
    <2>1. Counted' /\ Makers' BY <1>9 DEF Report, TypeOK
    <2>2. phase' = "done" /\ phase = "report"
          /\ UNCHANGED <<pending, running, results, tree>>
      BY <1>9 DEF Report
    <2>3. exit_code' = 0 => restored /\ \A s \in Suites : results[s] = "pass"
      BY <1>9 DEF Report, all_ok
    <2> QED BY <2>1, <2>2, <2>3
  <1>10. ASSUME NEW s \in Suites, StartMake(s) PROVE Counted' /\ Makers' /\ Phases'
    BY <1>10 DEF StartMake, Disturb, TypeOK
  <1>11. ASSUME NEW s \in Suites, EndMake(s) PROVE Counted' /\ Makers' /\ Phases'
    <2>1. Counted' BY <1>11 DEF EndMake, Disturb, TypeOK
    <2>2. CASE s \in running
      <3>1. Live \ {s} = {} /\ phase = "serial" BY <1>11, <2>2 DEF EndMake, TypeOK
      <3> QED BY <1>11, <2>1, <3>1 DEF EndMake, Disturb, TypeOK
    <2>3. CASE results[s] = "killed"
      <3>1. phase # "pool" /\ phase # "build" /\ SomeKilled
        BY <1>11, <2>3 DEF EndMake, TypeOK
      <3>2. Live \cap TESTS = {} BY <3>1 DEF TypeOK
      <3>3. Makers' BY <1>11, <3>1, <3>2 DEF EndMake, Disturb, TypeOK
      <3>4. Phases' BY <1>11, <3>1 DEF EndMake, Disturb, TypeOK
      <3> QED BY <2>1, <3>3, <3>4
    <2> QED BY <1>11, <2>2, <2>3 DEF EndMake
  <1>12. ASSUME NEW s \in Suites, Exit(s) PROVE Counted' /\ Makers' /\ Phases'
    BY <1>12 DEF Exit, TypeOK
  <1>13. ASSUME NEW s \in Suites, Deadline(s) PROVE Counted' /\ Makers' /\ Phases'
    BY <1>13 DEF Deadline, TypeOK
  <1>14. CASE UNCHANGED vars BY <1>14 DEF vars
  <1> QED
    BY <1>1, <1>2, <1>3, <1>4, <1>5, <1>6, <1>7, <1>8, <1>9, <1>10, <1>11, <1>12,
       <1>13, <1>14 DEF Next, Step

LEMMA GateInvariant == Spec => []IInv
  BY InitIInv, NextIInv, PTL DEF Spec

-----------------------------------------------------------------------------
\* Exit code 0 means that every suite passed undisturbed and the default
\* build is in place, for any lists of suites (main, run_regression.py:862).
THEOREM ExitZeroAlwaysHonest == Spec => []ExitZeroHonest
  <1>1. IInv => ExitZeroHonest
    BY SuitesAssumption
    DEF IInv, TypeOK, Makers, Phases, SomeKilled, ExitZeroHonest, Suites, Mutators
  <1> QED BY <1>1, GateInvariant, PTL

\* The pool never runs beside a rebuild (run_regression.py:320-338).
THEOREM PoolNeverDisturbed == Spec => []PoolUndisturbed
  <1>1. IInv => PoolUndisturbed
    BY SuitesAssumption
    DEF IInv, TypeOK, Counted, Makers, Phases, PoolUndisturbed, Suites, Mutators, Live
  <1> QED BY <1>1, GateInvariant, PTL

=============================================================================
