------------------------ MODULE DeviceSessionProofs -------------------------
(***************************************************************************)
(* DeviceSession implements Handover, for any set of lanes.  The invariant *)
(* follows one lane through its teardown: while it holds the lock nobody   *)
(* else changes the device, so what its result says of a stage stays true  *)
(* until it gives the device up.                                           *)
(***************************************************************************)
EXTENDS DeviceSession, TLAPS

Holding == {"client", "work", "import", "clock", "reu", "reset", "judge", "release"}

\* Who holds the lock, who could not give it back, and who has not touched the
\* device.
LockOf(l) ==
    /\ pc[l] \in Holding => lock = l
    /\ pc[l] \in {"acquire", "done"} => lock # l
    /\ pc[l] \in {"acquire", "client"} => l \notin used
    /\ pc[l] = "exit" /\ lock = l => l \in stuck
    /\ pc[l] = "clock" /\ op[l] = "restore" => Promise(l) = {}

\* What the result of the teardown says so far is true of the device.
ResultOf(l) ==
    /\ pc[l] \in {"acquire", "client", "work", "import", "clock"} => st[l] = NoTeardown
    /\ pc[l] \in {"reu", "reset", "judge"} /\ lock = l =>
         /\ st[l].idle => "clock" \notin dirty
         /\ st[l].reu => "reu" \notin dirty
         /\ st[l].reset = "verified" => "sockets" \notin dirty

\* A lane that used the device and has recorded no failure hands over, or has
\* handed over, what it promised.
HonestOf(l) ==
    /\ pc[l] = "release" /\ l \in used /\ ~failed[l] => dirty \cap Promise(l) = {}
    /\ pc[l] = "exit" /\ l \in used /\ ~failed[l] /\ rc[l] \in {0, 77} =>
         IF lock = l THEN dirty \cap Promise(l) = {} ELSE l \in kept

LaneOK(l) == LockOf(l) /\ ResultOf(l) /\ HonestOf(l)
IInv == TypeOK /\ \A l \in Lanes : LaneOK(l)

-----------------------------------------------------------------------------
LEMMA InitIInv == Init => IInv
  BY LaneAssumption
  DEF Init, IInv, TypeOK, LaneOK, LockOf, ResultOf, HonestOf, Holding, NoTeardown, Resets

LEMMA NextTypeOK == ASSUME TypeOK, [Next]_vars PROVE TypeOK'
  <1> USE LaneAssumption
      DEF TypeOK, Resets, Goto, Touches, GivesUp, history, device, lanes, NoTeardown,
          WithoutClient, TakesOwnLock, lock_release
  <1>0. \A l \in Lanes : teardown_failure(l) \in BOOLEAN BY DEF teardown_failure
  <1>1. ASSUME NEW l \in Lanes, Acquire(l) PROVE TypeOK' BY <1>1 DEF Acquire
  <1>2. ASSUME NEW l \in Lanes, NoLock(l) PROVE TypeOK' BY <1>0, <1>2 DEF NoLock
  <1>3. ASSUME NEW l \in Lanes, Client(l) PROVE TypeOK' BY <1>3 DEF Client
  <1>4. ASSUME NEW l \in Lanes, NoClient(l) PROVE TypeOK'
    <2>1. CASE op[l] \in TakesOwnLock
      <3>1. UNCHANGED <<op, lock, dirty, cbm80, st, failed, code, used, kept, owes, stuck>>
        BY <1>4, <2>1 DEF NoClient
      <3>2. PICK r \in {1, 77} : rc' = [rc EXCEPT ![l] = r] BY <1>4, <2>1 DEF NoClient
      <3>3. pc' = [pc EXCEPT ![l] = "release"] BY <1>4, <2>1 DEF NoClient
      <3> QED BY <3>1, <3>2, <3>3
    <2>2. CASE op[l] \notin TakesOwnLock
      <3>1. WithoutClient(l) /\ UNCHANGED <<op, dirty, cbm80, st, code, used, owes>>
        BY <1>4, <2>2 DEF NoClient
      <3>2. PICK returns \in BOOLEAN : lock_release(l, returns) BY <1>4, <2>2 DEF NoClient
      <3>3. /\ lock' \in Lanes \cup {NoLane}
            /\ kept' \in {kept, kept \cup {l}} /\ stuck' \in {stuck, stuck \cup {l}}
        BY <3>2
      <3> QED BY <1>0, <3>1, <3>3
    <2> QED BY <2>1, <2>2
  <1>5. ASSUME NEW l \in Lanes, WorkEnds(l) PROVE TypeOK' BY <1>5 DEF WorkEnds
  <1>6. ASSUME NEW l \in Lanes, CheckFirmware(l) PROVE TypeOK' BY <1>6 DEF CheckFirmware
  <1>7. ASSUME NEW l \in Lanes, ImportHelpers(l) PROVE TypeOK' BY <1>7 DEF ImportHelpers
  <1>8. ASSUME NEW l \in Lanes, Clock(l) PROVE TypeOK'
    <2>1. dirty' \in SUBSET Parts /\ UNCHANGED <<op, lock, cbm80, failed, rc, code, kept, stuck>>
          /\ pc' \in [Lanes -> {"reu", "reset", "judge"} \cup {pc[k] : k \in Lanes}]
      BY <1>8 DEF Clock
    <2>2. PICK i \in BOOLEAN : st' = [st EXCEPT ![l].idle = i] BY <1>8 DEF Clock
    <2>3. st' \in [Lanes -> [idle : BOOLEAN, reu : BOOLEAN, reset : Resets]] BY <2>2
    <2> QED BY <1>8, <2>1, <2>3 DEF Clock
  <1>9. ASSUME NEW l \in Lanes, restore_idle(l) PROVE TypeOK' BY <1>9 DEF restore_idle
  <1>10. ASSUME NEW l \in Lanes, Reu(l) PROVE TypeOK'
    <2>1. dirty' \in SUBSET Parts BY <1>10 DEF Reu
    <2>2. CASE UNCHANGED st BY <1>10, <2>1, <2>2 DEF Reu
    <2>3. ASSUME NEW b \in BOOLEAN, st' = [st EXCEPT ![l].reu = b]
          PROVE  st' \in [Lanes -> [idle : BOOLEAN, reu : BOOLEAN, reset : Resets]]
      BY <2>3
    <2>4. CASE st' = [st EXCEPT ![l].reu = TRUE]
      <3>1. TRUE \in BOOLEAN OBVIOUS
      <3>2. st' \in [Lanes -> [idle : BOOLEAN, reu : BOOLEAN, reset : Resets]]
        BY ONLY <2>3, <2>4, <3>1, Zenon
      <3>3. UNCHANGED <<op, lock, cbm80, failed, rc, code, kept, stuck>> BY <1>10 DEF Reu
      <3>4. pc' = [pc EXCEPT ![l] = IF reset(l) THEN "reset" ELSE "judge"]
        BY <1>10 DEF Reu
      <3>5. used' = used \cup {l} /\ owes' \in {owes, owes \cup {l}} BY <1>10 DEF Reu
      <3> QED BY <2>1, <3>2, <3>3, <3>4, <3>5
    <2> QED BY <1>10, <2>2, <2>4 DEF Reu
  <1>11. ASSUME NEW l \in Lanes, reset_and_verify(l) PROVE TypeOK'
    BY <1>11 DEF reset_and_verify, ResetVerdict
  <1>12. ASSUME NEW l \in Lanes, Interrupt(l) PROVE TypeOK' BY <1>12 DEF Interrupt
  <1>13. ASSUME NEW l \in Lanes, check_teardown(l) PROVE TypeOK'
    BY <1>0, <1>13 DEF check_teardown
  <1>14. ASSUME NEW l \in Lanes, Release(l) PROVE TypeOK' BY <1>14 DEF Release
  <1>15. ASSUME NEW l \in Lanes, Exit(l) PROVE TypeOK'
    BY <1>15 DEF Exit, exit_code_after_teardown
  <1>16. ASSUME NEW l \in Lanes, Work(l) PROVE TypeOK' BY <1>16 DEF Work
  <1>17. ASSUME NEW l \in Lanes, InterruptClient(l) PROVE TypeOK' BY <1>17 DEF InterruptClient
  <1>18. CASE UNCHANGED vars BY <1>18 DEF vars
  <1> QED
    BY <1>1, <1>2, <1>3, <1>4, <1>5, <1>6, <1>7, <1>8, <1>9, <1>10, <1>11, <1>12, <1>13,
       <1>14, <1>15, <1>16, <1>17, <1>18 DEF Next, Proceeds

\* The other lanes' part of a step: they keep their place, and the device only
\* changes, and the lock is only given up, under a lane that holds the lock.
Aside(l) ==
    /\ op' = op
    /\ \A k \in Lanes \ {l} :
         /\ pc'[k] = pc[k] /\ st'[k] = st[k] /\ failed'[k] = failed[k] /\ rc'[k] = rc[k]
         /\ k \in used' <=> k \in used
         /\ k \in kept' <=> k \in kept
         /\ k \in stuck' <=> k \in stuck
    /\ lock' # lock => lock \in {l, NoLane} /\ lock' \in {l, NoLane}
    /\ dirty' # dirty => lock = l

LEMMA OthersUnharmed ==
    ASSUME IInv, TypeOK', NEW l \in Lanes, Aside(l), NEW k \in Lanes, k # l
    PROVE  LaneOK(k)'
  <1>1. LaneOK(k) BY DEF IInv
  <1>2. Promise(k)' = Promise(k) BY DEF Aside, Promise
  <1>3. lock' = k <=> lock = k BY LaneAssumption DEF Aside
  <1>4. lock = k => dirty' = dirty BY DEF Aside
  <1>5. pc[k] = "release" => lock = k BY <1>1 DEF LaneOK, LockOf, Holding
  <1>6. LockOf(k)' BY <1>1, <1>2, <1>3 DEF LaneOK, LockOf, Aside, Holding
  <1>7. ResultOf(k)' BY <1>1, <1>3, <1>4 DEF LaneOK, ResultOf, Aside
  <1>8. HonestOf(k)' BY <1>1, <1>2, <1>3, <1>4, <1>5 DEF LaneOK, HonestOf, Aside
  <1> QED BY <1>6, <1>7, <1>8 DEF LaneOK

LEMMA StepAside ==
    ASSUME IInv, NEW l \in Lanes, Proceeds(l) \/ Work(l)
    PROVE  Aside(l)
  <1>0. TypeOK /\ LaneOK(l) BY DEF IInv
  <1> USE <1>0, LaneAssumption
      DEF TypeOK, LaneOK, LockOf, Holding, Aside, Goto, Touches, GivesUp, history, device,
          lanes, WithoutClient, lock_release
  <1>1. CASE Acquire(l) BY <1>1 DEF Acquire
  <1>2. CASE NoLock(l) BY <1>2 DEF NoLock
  <1>3. CASE Client(l) BY <1>3 DEF Client
  <1>4. CASE NoClient(l) BY <1>4 DEF NoClient
  <1>5. CASE WorkEnds(l) BY <1>5 DEF WorkEnds
  <1>6. CASE CheckFirmware(l) BY <1>6 DEF CheckFirmware
  <1>7. CASE ImportHelpers(l) BY <1>7 DEF ImportHelpers
  <1>8. CASE Clock(l) BY <1>8 DEF Clock
  <1>9. CASE restore_idle(l) BY <1>9 DEF restore_idle
  <1>10. CASE Reu(l) BY <1>10 DEF Reu
  <1>11. CASE reset_and_verify(l) BY <1>11 DEF reset_and_verify
  <1>12. CASE Interrupt(l) BY <1>12 DEF Interrupt
  <1>13. CASE check_teardown(l) BY <1>13 DEF check_teardown
  <1>14. CASE Release(l) BY <1>14 DEF Release
  <1>15. CASE Exit(l) BY <1>15 DEF Exit
  <1>16. CASE Work(l) BY <1>16 DEF Work
  <1>17. CASE InterruptClient(l) BY <1>17 DEF InterruptClient
  <1> QED
    BY <1>1, <1>2, <1>3, <1>4, <1>5, <1>6, <1>7, <1>8, <1>9, <1>10, <1>11, <1>12, <1>13,
       <1>14, <1>15, <1>16, <1>17 DEF Proceeds

LEMMA StepOwn ==
    ASSUME IInv, TypeOK', NEW l \in Lanes, Proceeds(l) \/ Work(l)
    PROVE  LaneOK(l)'
  <1>0. TypeOK /\ LaneOK(l) BY DEF IInv
  <1> USE <1>0, LaneAssumption
      DEF TypeOK, LaneOK, LockOf, ResultOf, HonestOf, Holding, Goto, Touches, GivesUp,
          history, device, lanes, WithoutClient, lock_release, Promise, Parts, TakesOwnLock,
          NoTeardown
  <1>1. CASE Acquire(l) BY <1>1 DEF Acquire
  <1>2. CASE NoLock(l) BY <1>2 DEF NoLock
  <1>3. CASE Client(l) BY <1>3 DEF Client, Ops
  <1>4. CASE NoClient(l) BY <1>4 DEF NoClient
  <1>5. CASE WorkEnds(l) BY <1>5 DEF WorkEnds
  <1>6. CASE CheckFirmware(l) BY <1>6 DEF CheckFirmware
  <1>7. CASE ImportHelpers(l) BY <1>7 DEF ImportHelpers, reset
  <1>8. CASE Clock(l) BY <1>8 DEF Clock, reset, reu_off
  <1>9. CASE restore_idle(l) BY <1>9 DEF restore_idle
  <1>10. CASE Reu(l) BY <1>10 DEF Reu, reset
  <1>11. CASE reset_and_verify(l) BY <1>11 DEF reset_and_verify, ResetVerdict
  <1>12. CASE Interrupt(l) BY <1>12 DEF Interrupt
  <1>13. CASE check_teardown(l)
    <2>1. /\ pc[l] = "judge" /\ lock = l /\ pc'[l] = "release"
          /\ failed'[l] = (failed[l] \/ teardown_failure(l))
          /\ UNCHANGED <<op, lock, dirty, used, kept, rc>>
      BY <1>13 DEF check_teardown
    <2>2. ~teardown_failure(l) /\ op[l] \in {"live", "teardown", "chat"}
            => dirty \cap Promise(l) = {}
      BY <2>1 DEF teardown_failure, reset, reu_off
    <2>3. op[l] \in {"restore", "firmware"} => Promise(l) = {} OBVIOUS
    <2>4. ~failed'[l] => dirty \cap Promise(l) = {}
      BY <2>1, <2>2, <2>3 DEF Ops
    <2> QED BY <2>1, <2>4
  <1>14. CASE Release(l) BY <1>14 DEF Release
  <1>15. CASE Exit(l) BY <1>15 DEF Exit
  <1>16. CASE Work(l) BY <1>16 DEF Work
  <1>17. CASE InterruptClient(l) BY <1>17 DEF InterruptClient
  <1> QED
    BY <1>1, <1>2, <1>3, <1>4, <1>5, <1>6, <1>7, <1>8, <1>9, <1>10, <1>11, <1>12, <1>13,
       <1>14, <1>15, <1>16, <1>17 DEF Proceeds

LEMMA NextIInv == ASSUME IInv, [Next]_vars PROVE IInv'
  <1>1. TypeOK' BY NextTypeOK DEF IInv
  <1>2. ASSUME NEW l \in Lanes, Proceeds(l) \/ Work(l) PROVE IInv'
    BY <1>1, <1>2, StepAside, StepOwn, OthersUnharmed DEF IInv
  <1>3. CASE UNCHANGED vars
    BY <1>1, <1>3
    DEF vars, lanes, device, history, IInv, LaneOK, LockOf, ResultOf, HonestOf, Promise
  <1> QED BY <1>2, <1>3 DEF Next

LEMMA DeviceInvariant == Spec => []IInv
  BY InitIInv, NextIInv, PTL DEF Spec

\* A tool that is out of its locked region holds the lock only if release()
\* raised or Ctrl-C struck while the client was being built (locked_client,
\* device_session.py:115-136).
THEOREM LockAlwaysReturned == Spec => []LockReturned
  <1>1. IInv => LockReturned BY DEF IInv, LaneOK, LockOf, LockReturned
  <1> QED BY <1>1, DeviceInvariant, PTL

-----------------------------------------------------------------------------
(* Each step is a step of Handover or leaves its variables alone.          *)

Says(l) == IF pc[l] # "done" THEN "none"
           ELSE IF code[l] \in {0, 77} THEN "good" ELSE "bad"
AllSays == [l \in Lanes |-> Says(l)]
Promises == [l \in Lanes |-> Promise(l)]

LEMMA InitImplements == Init => Bench!Init
  BY DEF Init, Bench!Init, Promise, Parts

LEMMA StutterImplements ==
    ASSUME Promises' = Promises, AllSays' = AllSays, UNCHANGED <<lock, dirty, used, kept>>
    PROVE  UNCHANGED Bench!hvars
  BY DEF Bench!hvars, Promises, AllSays, Says

LEMMA UseImplements ==
    ASSUME NEW l \in Lanes, Promises' = Promises, AllSays' = AllSays,
           lock = l, dirty' \in SUBSET Parts, used' = used \cup {l}, UNCHANGED <<lock, kept>>
    PROVE  Bench!Next
  <1>1. Bench!Use(l) BY DEF Bench!Use, Promises, AllSays, Says
  <1> QED BY <1>1 DEF Bench!Next

LEMMA GiveImplements ==
    ASSUME NEW l \in Lanes, Promises' = Promises, AllSays' = AllSays,
           lock = l, GivesUp(l), UNCHANGED <<dirty, used>>
    PROVE  Bench!Next
  <1>1. Promises[l] = Promise(l) BY DEF Promises
  <1>2. Bench!GiveOrSay(l)
    BY <1>1 DEF Bench!GiveOrSay, Promises, AllSays, Says, GivesUp
  <1> QED BY <1>2 DEF Bench!Next

\* Until it exits, a lane says nothing.
LEMMA Silent ==
    ASSUME TypeOK, NEW l \in Lanes, NEW label, pc' = [pc EXCEPT ![l] = label],
           label # "done", pc[l] # "done", code' = code
    PROVE  AllSays' = AllSays
  <1>1. \A k \in Lanes : Says(k)' = Says(k) BY DEF Says, TypeOK
  <1> QED BY <1>1 DEF AllSays

LEMMA ExitImplements ==
    ASSUME IInv, NEW l \in Lanes, Exit(l), Promises' = Promises
    PROVE  Bench!Next
  <1>0. TypeOK /\ LaneOK(l) BY DEF IInv
  <1>1. pc[l] = "exit" /\ pc' = [pc EXCEPT ![l] = "done"] /\ UNCHANGED <<dirty, used>>
    BY DEF Exit, Goto
  <1>2. AllSays[l] = "none" BY <1>1 DEF AllSays, Says
  <1>3. \A k \in Lanes : Says(k)' = IF k = l THEN Says(l)' ELSE Says(k)
    BY <1>0, <1>1 DEF Says, Exit, TypeOK
  <1>4. AllSays' = [AllSays EXCEPT ![l] = Says(l)'] BY <1>3 DEF AllSays
  <1>5. \/ lock = l /\ GivesUp(l)
        \/ lock # l /\ UNCHANGED <<lock, kept>>
    BY DEF Exit
  <1>6. lock' # l BY <1>5, LaneAssumption DEF GivesUp
  <1>7. Says(l)' \in {"good", "bad"} BY <1>0, <1>1 DEF Says, TypeOK
  <1>8. Says(l)' = "good" => ~failed[l] /\ rc[l] \in {0, 77}
    BY <1>0, <1>1 DEF Says, Exit, exit_code_after_teardown, TypeOK
  <1>9. Says(l)' = "good" /\ l \in used => l \in kept'
    BY <1>0, <1>1, <1>5, <1>8 DEF LaneOK, HonestOf, GivesUp
  <1>10. Promises[l] = Promise(l) BY DEF Promises
  <1>11. Bench!GiveOrSay(l)
    BY <1>1, <1>2, <1>4, <1>5, <1>6, <1>7, <1>9, <1>10
    DEF Bench!GiveOrSay, Promises, AllSays, Says, GivesUp
  <1> QED BY <1>11 DEF Bench!Next

LEMMA StepImplements ==
    ASSUME IInv, TypeOK', NEW l \in Lanes, Proceeds(l) \/ Work(l)
    PROVE  Bench!Next \/ UNCHANGED Bench!hvars
  <1>0. TypeOK /\ LaneOK(l) BY DEF IInv
  <1>a. Promises' = Promises
    BY DEF Promises, Promise, Proceeds, Acquire, NoLock, Client, NoClient, WorkEnds,
       CheckFirmware, ImportHelpers, Clock, restore_idle, Reu, reset_and_verify, Interrupt,
       check_teardown, Release, Exit, Work, InterruptClient
  <1>b. pc[l] \in Holding => lock = l BY <1>0 DEF LaneOK, LockOf
  <1>c. dirty' \in SUBSET Parts BY DEF TypeOK
  <1> USE <1>0, <1>a, <1>b, <1>c, Silent, StutterImplements, UseImplements, GiveImplements
      DEF Goto, Touches, history, device, lanes, Holding, lock_release
  <1>1. CASE Acquire(l)
    <2>1. AllSays' = AllSays BY <1>1 DEF Acquire
    <2>2. Bench!Take(l) BY <1>1, <2>1 DEF Acquire, Bench!Take, Promises, AllSays, Says
    <2> QED BY <2>2 DEF Bench!Next
  <1>2. CASE NoLock(l) BY <1>2 DEF NoLock, WithoutClient
  <1>3. CASE Client(l) BY <1>3 DEF Client
  <1>4. CASE NoClient(l)
    <2>1. AllSays' = AllSays BY <1>4 DEF NoClient, WithoutClient
    <2>2. CASE UNCHANGED <<lock, kept>> BY <1>4, <2>1, <2>2 DEF NoClient
    <2>3. CASE GivesUp(l) BY <1>4, <2>1, <2>3 DEF NoClient
    <2> QED BY <1>4, <2>2, <2>3 DEF NoClient
  <1>5. CASE WorkEnds(l) BY <1>5 DEF WorkEnds
  <1>6. CASE CheckFirmware(l) BY <1>6 DEF CheckFirmware
  <1>7. CASE ImportHelpers(l)
    <2>1. AllSays' = AllSays BY <1>7 DEF ImportHelpers
    <2> QED BY <1>7, <2>1 DEF ImportHelpers
  <1>8. CASE Clock(l) BY <1>8 DEF Clock
  <1>9. CASE restore_idle(l) BY <1>9 DEF restore_idle
  <1>10. CASE Reu(l) BY <1>10 DEF Reu
  <1>11. CASE reset_and_verify(l) BY <1>11 DEF reset_and_verify
  <1>12. CASE Interrupt(l) BY <1>12 DEF Interrupt
  <1>13. CASE check_teardown(l) BY <1>13 DEF check_teardown
  <1>14. CASE Release(l)
    <2>1. AllSays' = AllSays BY <1>14 DEF Release
    <2>2. CASE UNCHANGED <<lock, kept>> BY <1>14, <2>1, <2>2 DEF Release
    <2>3. CASE GivesUp(l) BY <1>14, <2>1, <2>3 DEF Release
    <2> QED BY <1>14, <2>2, <2>3 DEF Release
  <1>15. CASE Exit(l) BY <1>15, ExitImplements
  <1>16. CASE Work(l)
    <2>1. AllSays' = AllSays BY <1>16 DEF Work, AllSays, Says
    <2> QED BY <1>16, <2>1 DEF Work
  <1>17. CASE InterruptClient(l) BY <1>17 DEF InterruptClient
  <1> QED
    BY <1>1, <1>2, <1>3, <1>4, <1>5, <1>6, <1>7, <1>8, <1>9, <1>10, <1>11, <1>12, <1>13,
       <1>14, <1>15, <1>16, <1>17 DEF Proceeds

\* The tools keep the promise of Handover: the device is touched under the lock
\* only, and no run that used it calls itself a success unless the parts its
\* mode covers were idle when it let go (device_session.py:313-505).
THEOREM ToolsKeepPromise == Spec => ImplementsHandover
  <1>1. ASSUME IInv, [Next]_vars PROVE [Bench!Next]_(Bench!hvars)
    <2>1. ASSUME NEW l \in Lanes, Proceeds(l) \/ Work(l)
          PROVE  Bench!Next \/ UNCHANGED Bench!hvars
      BY <1>1, <2>1, NextTypeOK, StepImplements DEF IInv, Next
    <2>2. CASE UNCHANGED vars
      BY <2>2 DEF vars, lanes, device, history, Bench!hvars, Promise
    <2> QED BY <1>1, <2>1, <2>2 DEF Next
  <1> QED
    BY InitImplements, DeviceInvariant, <1>1, PTL DEF Spec, ImplementsHandover, Bench!Spec

-----------------------------------------------------------------------------
Owing == {"work", "import", "clock", "reu", "reset"}
OwesInv == \A l \in Lanes :
    op[l] \in {"live", "teardown"} /\ l \in owes => pc[l] \in Owing

LEMMA NextOwes == ASSUME TypeOK, OwesInv, [Next]_vars PROVE OwesInv'
  <1> USE DEF OwesInv, Owing, TypeOK, Goto, Touches, GivesUp, history, device, lanes,
              WithoutClient, TakesOwnLock, reset, reu_off, lock_release
  <1>1. ASSUME NEW l \in Lanes, Proceeds(l) PROVE OwesInv'
    <2>1. CASE Acquire(l) BY <2>1 DEF Acquire
    <2>2. CASE NoLock(l) BY <2>2 DEF NoLock
    <2>3. CASE Client(l) BY <2>3 DEF Client
    <2>4. CASE NoClient(l) BY <2>4 DEF NoClient
    <2>5. CASE WorkEnds(l) BY <2>5 DEF WorkEnds
    <2>6. CASE CheckFirmware(l) BY <2>6 DEF CheckFirmware
    <2>7. CASE ImportHelpers(l) BY <2>7 DEF ImportHelpers
    <2>8. CASE Clock(l) BY <2>8 DEF Clock
    <2>9. CASE restore_idle(l) BY <2>9 DEF restore_idle
    <2>10. CASE Reu(l) BY <2>10 DEF Reu
    <2>11. CASE reset_and_verify(l) BY <2>11 DEF reset_and_verify
    <2>12. CASE Interrupt(l) BY <2>12 DEF Interrupt
    <2>13. CASE check_teardown(l) BY <2>13 DEF check_teardown
    <2>14. CASE Release(l) BY <2>14 DEF Release
    <2>15. CASE Exit(l) BY <2>15 DEF Exit
    <2>16. CASE InterruptClient(l) BY <2>16 DEF InterruptClient
    <2> QED
      BY <1>1, <2>1, <2>2, <2>3, <2>4, <2>5, <2>6, <2>7, <2>8, <2>9, <2>10, <2>11, <2>12,
         <2>13, <2>14, <2>15, <2>16 DEF Proceeds
  <1>2. ASSUME NEW l \in Lanes, Work(l) PROVE OwesInv' BY <1>2 DEF Work
  <1>3. CASE UNCHANGED vars BY <1>3 DEF vars
  <1> QED BY <1>1, <1>2, <1>3 DEF Next

\* Whatever stage fails, a full teardown that had a client has issued the reset
\* before the device is given up (teardown_device, device_session.py:339-396).
THEOREM ResetAlwaysReached == Spec => []ResetReached
  <1>1. Init => OwesInv BY DEF Init, OwesInv
  <1>2. OwesInv => ResetReached BY DEF OwesInv, Owing, ResetReached
  <1>3. IInv => TypeOK BY DEF IInv
  <1> QED BY <1>1, <1>2, <1>3, NextOwes, DeviceInvariant, PTL DEF Spec

=============================================================================
