--------------------------- MODULE DeviceSession ----------------------------
(***************************************************************************)
(* The session and teardown helpers of the tools that share one Ultimate   *)
(* 64 (tools/device_session.py), with the tools that use them: a live test *)
(* (lock, body, full teardown inside the lock), wg_chat (gentle teardown), *)
(* teardown_device and restore_idle taking the lock themselves, and the    *)
(* firmware check of u64_firmware.py.                                      *)
(*                                                                         *)
(* The device is the set of its parts that are not idle.  Every REST call  *)
(* may raise, with or without having had its effect; a clock write or a    *)
(* reset may be accepted and not take.  set_reu, where it returns, and     *)
(* reads, where they answer, are believed.  A clock survives a reset, the  *)
(* sockets are closed by a reset that took and by nothing else.            *)
(***************************************************************************)
EXTENDS Naturals

CONSTANTS Lanes, NoLane

ASSUME LaneAssumption == NoLane \notin Lanes

Parts == {"clock", "reu", "sockets"}
Ops == {"live", "chat", "teardown", "restore", "firmware"}
TakesOwnLock == {"live", "chat"}

VARIABLES
    op,         \* lane -> the tool it is
    pc,
    lock,       \* the DeviceLock's holder
    dirty,      \* parts of the device that are not idle
    cbm80,      \* an autostart cartridge is in the port: a reset skips RAMTAS
    st,         \* lane -> the result of its teardown
    failed,     \* lane -> a teardown failure was recorded (_teardown_failures)
    rc,         \* lane -> what the tool's main() is about to return
    code,       \* lane -> the exit code, 99 while it runs
    used, kept, \* history: see Handover
    owes,       \* history: lanes that used the device and have not reset it
    stuck       \* history: lanes that could not give the lock back

lanes == <<pc, st, failed, rc, code>>
device == <<lock, dirty>>
history == <<used, kept, owes, stuck>>
vars == <<op, lanes, device, cbm80, history>>

Resets == {"none", "verified", "unverified", "failed"}
NoTeardown == [idle |-> FALSE, reu |-> FALSE, reset |-> "none"]

TypeOK ==
    /\ op \in [Lanes -> Ops]
    /\ pc \in [Lanes -> {"acquire", "client", "work", "import", "clock", "reu",
                         "reset", "judge", "release", "exit", "done"}]
    /\ lock \in Lanes \cup {NoLane}
    /\ dirty \in SUBSET Parts
    /\ cbm80 \in BOOLEAN
    /\ st \in [Lanes -> [idle : BOOLEAN, reu : BOOLEAN, reset : Resets]]
    /\ failed \in [Lanes -> BOOLEAN]
    /\ rc \in [Lanes -> {0, 1, 3, 77}]
    /\ code \in [Lanes -> {0, 1, 3, 77, 99}]
    /\ {used, kept, owes, stuck} \subseteq SUBSET Lanes

\* The modes of teardown_device: all of it, or the clock alone for wg_chat,
\* whose C64 goes on talking.
reu_off(l) == op[l] # "chat"
reset(l) == op[l] # "chat"

Promise(l) == CASE op[l] \in {"live", "teardown"} -> Parts
                [] op[l] = "chat" -> {"clock"}
                [] OTHER -> {}

Goto(l, label) == pc' = [pc EXCEPT ![l] = label]
Touches(l) ==
    /\ used' = used \cup {l}
    /\ owes' = IF reset(l) THEN owes \cup {l} ELSE owes
GivesUp(l) ==
    /\ lock' = NoLane
    /\ kept' = IF dirty \cap Promise(l) = {} THEN kept \cup {l} ELSE kept

Init ==
    /\ op \in [Lanes -> Ops]
    /\ pc = [l \in Lanes |-> "acquire"]
    /\ lock = NoLane
    /\ dirty \in SUBSET Parts
    /\ cbm80 \in BOOLEAN
    /\ st = [l \in Lanes |-> NoTeardown]
    /\ failed = [l \in Lanes |-> FALSE]
    /\ rc = [l \in Lanes |-> 0]
    /\ code = [l \in Lanes |-> 99]
    /\ used = {} /\ kept = {} /\ owes = {} /\ stuck = {}

-----------------------------------------------------------------------------
(* The lock.                                                               *)

\* lock.release() returns, or raises and leaves the lock where it was.
lock_release(l, returns) ==
    IF returns THEN GivesUp(l) /\ UNCHANGED stuck
               ELSE stuck' = stuck \cup {l} /\ UNCHANGED <<lock, kept>>

\* Why the result is not a restore, against the mode that was asked for.
teardown_failure(l) ==
    \/ ~st[l].idle
    \/ reu_off(l) /\ ~st[l].reu
    \/ reset(l) /\ st[l].reset # "verified"

\* What a lane does when it is handed no client: a test skips, the firmware
\* check says 3, restore_idle returns False, and a teardown that could not be
\* attempted is judged like any other.
WithoutClient(l) ==
    /\ rc' = [rc EXCEPT ![l] = CASE op[l] \in TakesOwnLock -> 77
                                 [] op[l] = "firmware" -> 3
                                 [] op[l] = "restore" -> 1
                                 [] OTHER -> 0]
    /\ failed' = [failed EXCEPT ![l] = op[l] = "teardown" /\ teardown_failure(l)]
    /\ Goto(l, "exit")

\* acquire_or_raise succeeds.
Acquire(l) ==
    /\ pc[l] = "acquire" /\ lock = NoLane
    /\ lock' = l
    /\ Goto(l, "client")
    /\ UNCHANGED <<op, dirty, cbm80, st, failed, rc, code, history>>

\* No harness, no lock directory, or a peer that kept the lock too long.
NoLock(l) ==
    /\ pc[l] = "acquire"
    /\ WithoutClient(l)
    /\ UNCHANGED <<op, device, cbm80, st, code, history>>

\* Ultimate64Client().  A test that fails here has no client to tear down
\* with: it skips or dies, and releases.
Client(l) ==
    /\ pc[l] = "client"
    /\ Goto(l, CASE op[l] \in TakesOwnLock -> "work"
                 [] op[l] = "teardown" -> "import"
                 [] op[l] = "restore" -> "clock"
                 [] OTHER -> "work")
    /\ UNCHANGED <<op, device, cbm80, st, failed, rc, code, history>>

\* Mutant: the path without a client leaves the release to the finally, which
\* it does not reach.
NoClient_keeps(l) ==
    /\ pc[l] = "client"
    /\ IF op[l] \in TakesOwnLock
       THEN /\ \E r \in {1, 77} : rc' = [rc EXCEPT ![l] = r]
            /\ Goto(l, "release")
            /\ UNCHANGED <<lock, kept, stuck, failed>>
       ELSE /\ WithoutClient(l)
            /\ UNCHANGED <<lock, kept, stuck>>
    /\ UNCHANGED <<op, dirty, cbm80, st, code, used, owes>>

\* The constructor raises: locked_client releases before it yields None.
NoClient(l) ==
    /\ pc[l] = "client"
    /\ IF op[l] \in TakesOwnLock
       THEN /\ \E r \in {1, 77} : rc' = [rc EXCEPT ![l] = r]
            /\ Goto(l, "release")
            /\ UNCHANGED <<lock, kept, stuck, failed>>
       ELSE /\ WithoutClient(l)
            /\ \E returns \in BOOLEAN : lock_release(l, returns)
    /\ UNCHANGED <<op, dirty, cbm80, st, code, used, owes>>

\* Ctrl-C in the constructor is no Exception: it leaves locked_client, and the
\* tool, with the lock held.
InterruptClient(l) ==
    /\ pc[l] = "client" /\ op[l] \notin TakesOwnLock
    /\ rc' = [rc EXCEPT ![l] = 1]
    /\ stuck' = stuck \cup {l}
    /\ Goto(l, "exit")
    /\ UNCHANGED <<op, device, cbm80, st, failed, code, used, kept, owes>>

-----------------------------------------------------------------------------
(* What the tools do with the device.                                      *)

\* A live test's body sets the clock and the REU, resets, and runs a program
\* that opens sockets.
Work(l) ==
    /\ pc[l] = "work" /\ op[l] \in TakesOwnLock
    /\ dirty' \in SUBSET Parts
    /\ Touches(l)
    /\ UNCHANGED <<op, lanes, lock, cbm80, kept, stuck>>

\* It returns, raises, skips, or is interrupted: wg_chat and wg_demo turn the
\* interrupt into a 0.
WorkEnds(l) ==
    /\ pc[l] = "work" /\ op[l] \in TakesOwnLock
    /\ \E r \in {0, 1, 77} : rc' = [rc EXCEPT ![l] = r]
    /\ Touches(l)
    /\ Goto(l, "import")
    /\ UNCHANGED <<op, device, cbm80, st, failed, code, kept, stuck>>

\* What fetch_info brings back of /v1/info: nothing or no object; an HTTP
\* status; an object whose hash is absent or empty, is one this repository has
\* not measured, matches several builds, or is one of KNOWN_BUILDS.
fetch_info == {"nothing", "status", "hashless", "strange", "ambiguous", "known"}

\* The verdict on the device's build.
describe_build(info) ==
    CASE info = "nothing" -> "unreachable"
      [] info \in {"status", "hashless"} -> "no-hash"
      [] info \in {"strange", "ambiguous"} -> "unknown"
      [] OTHER -> "chunked"

\* The question and the verdict, under the lock: a read, whatever it answers.
CheckFirmware(l) ==
    /\ pc[l] = "work" /\ op[l] = "firmware"
    /\ \E info \in fetch_info :
         rc' = [rc EXCEPT ![l] = IF describe_build(info) = "unreachable" THEN 1 ELSE 0]
    /\ Goto(l, "release")
    /\ UNCHANGED <<op, device, cbm80, st, failed, code, history>>

-----------------------------------------------------------------------------
(* teardown_device.                                                        *)

\* Mutant: the restores and the reset share one try.
ImportHelpers_skips(l) ==
    /\ pc[l] = "import"
    /\ \/ Goto(l, "clock")
       \/ Goto(l, "judge")
    /\ UNCHANGED <<op, device, cbm80, st, failed, rc, code, history>>

\* The import of the restore helpers; without them straight to the reset.
ImportHelpers(l) ==
    /\ pc[l] = "import"
    /\ \/ Goto(l, "clock")
       \/ Goto(l, IF reset(l) THEN "reset" ELSE "judge")
    /\ UNCHANGED <<op, device, cbm80, st, failed, rc, code, history>>

\* Read, write unless the clock is known to be idle, read back.  Each call may
\* raise, and the write may not take.
Clock(l) ==
    /\ pc[l] = "clock" /\ op[l] # "restore"
    /\ dirty' \in {dirty, dirty \ {"clock"}}
    /\ \E answered \in BOOLEAN :
         st' = [st EXCEPT ![l].idle = answered /\ "clock" \notin dirty']
    /\ Goto(l, IF reu_off(l) THEN "reu" ELSE IF reset(l) THEN "reset" ELSE "judge")
    /\ Touches(l)
    /\ UNCHANGED <<op, lock, cbm80, failed, rc, code, kept, stuck>>

\* restore_idle: the same without the read-back, True unless a call raised.
restore_idle(l) ==
    /\ pc[l] = "clock" /\ op[l] = "restore"
    /\ dirty' \in {dirty, dirty \ {"clock"}}
    /\ \E r \in {0, 1} : rc' = [rc EXCEPT ![l] = r]
    /\ Goto(l, "release")
    /\ Touches(l)
    /\ UNCHANGED <<op, lock, cbm80, st, failed, code, kept, stuck>>

\* set_reu(False), which may raise before or after it had its effect.
Reu(l) ==
    /\ pc[l] = "reu"
    /\ \/ dirty' = dirty \ {"reu"} /\ st' = [st EXCEPT ![l].reu = TRUE]
       \/ dirty' \in {dirty, dirty \ {"reu"}} /\ UNCHANGED st
    /\ Goto(l, IF reset(l) THEN "reset" ELSE "judge")
    /\ Touches(l)
    /\ UNCHANGED <<op, lock, cbm80, failed, rc, code, kept, stuck>>

\* Mutant: a sentinel that is gone counts, whether or not it was ever there.
ResetVerdict_unarmed(placed, raised, answered, standing) ==
    CASE raised -> "failed"
      [] ~answered -> "unverified"
      [] standing -> "failed"
      [] OTHER -> "verified"

\* What reset_and_verify returns: the sentinel was placed, reset() raised, the
\* read after it answered, the sentinel still stands.
ResetVerdict(placed, raised, answered, standing) ==
    CASE raised -> "failed"
      [] ~placed -> "unverified"
      [] ~answered -> "unverified"
      [] standing -> "failed"
      [] OTHER -> "verified"

\* The reset may be accepted and not take; one that takes closes the sockets,
\* and clears the sentinel unless a cartridge starts before RAMTAS.
reset_and_verify(l) ==
    /\ pc[l] = "reset"
    /\ \E placed, raised, took, answered \in BOOLEAN :
         /\ dirty' = IF took THEN dirty \ {"sockets"} ELSE dirty
         /\ st' = [st EXCEPT ![l].reset =
                     ResetVerdict(placed, raised, answered, placed /\ (~took \/ cbm80))]
    /\ Goto(l, "judge")
    /\ used' = used \cup {l} /\ owes' = owes \ {l}
    /\ UNCHANGED <<op, lock, cbm80, failed, rc, code, kept, stuck>>

\* Mutant: the teardown is wrapped in "except Exception", which Ctrl-C passes.
Interrupt_escapes(l) ==
    /\ pc[l] \in {"import", "clock", "reu", "reset"} /\ op[l] \in TakesOwnLock
    /\ failed' = [failed EXCEPT ![l] = TRUE]
    /\ st' = [st EXCEPT ![l] = NoTeardown]
    /\ owes' = owes \ {l}
    /\ Goto(l, "exit")
    /\ UNCHANGED <<op, device, cbm80, rc, code, used, kept, stuck>>

\* A second Ctrl-C inside the teardown: the test records that it has no result.
Interrupt(l) ==
    /\ pc[l] \in {"import", "clock", "reu", "reset"} /\ op[l] \in TakesOwnLock
    /\ failed' = [failed EXCEPT ![l] = TRUE]
    /\ st' = [st EXCEPT ![l] = NoTeardown]
    /\ owes' = owes \ {l}
    /\ Goto(l, "release")
    /\ UNCHANGED <<op, device, cbm80, rc, code, used, kept, stuck>>

\* The teardown's result is judged and recorded.
check_teardown(l) ==
    /\ pc[l] = "judge"
    /\ failed' = [failed EXCEPT ![l] = @ \/ teardown_failure(l)]
    /\ st' = [st EXCEPT ![l] = NoTeardown]
    /\ Goto(l, "release")
    /\ UNCHANGED <<op, device, cbm80, rc, code, history>>

\* Mutant: the finally of locked_client is lost.
Release_forgets(l) ==
    /\ pc[l] = "release"
    /\ Goto(l, "exit")
    /\ UNCHANGED <<op, device, cbm80, st, failed, rc, code, history>>

\* lock.release().  In locked_client a failure is logged; in a test it raises.
Release(l) ==
    /\ pc[l] = "release"
    /\ \E returns \in BOOLEAN :
         /\ lock_release(l, returns)
         /\ rc' = [rc EXCEPT ![l] = IF ~returns /\ op[l] \in TakesOwnLock THEN 1 ELSE @]
    /\ Goto(l, "exit")
    /\ UNCHANGED <<op, dirty, cbm80, st, failed, code, used, owes>>

\* exit_code_after_teardown: a recorded failure overrides success and skip.
exit_code_after_teardown(r, failures) == IF failures /\ r \in {0, 77} THEN 1 ELSE r

\* The process ends, and with it a lock it could not release.
Exit(l) ==
    /\ pc[l] = "exit"
    /\ code' = [code EXCEPT ![l] = exit_code_after_teardown(rc[l], failed[l])]
    /\ IF lock = l THEN GivesUp(l)
                   ELSE UNCHANGED <<lock, kept>>
    /\ rc' = [rc EXCEPT ![l] = 0] /\ failed' = [failed EXCEPT ![l] = FALSE]
    /\ Goto(l, "done")
    /\ UNCHANGED <<op, dirty, cbm80, st, used, owes, stuck>>

-----------------------------------------------------------------------------
Proceeds(l) ==
    \/ Acquire(l) \/ NoLock(l) \/ Client(l) \/ NoClient(l) \/ InterruptClient(l)
    \/ WorkEnds(l) \/ CheckFirmware(l)
    \/ ImportHelpers(l) \/ Clock(l) \/ restore_idle(l) \/ Reu(l) \/ reset_and_verify(l)
    \/ Interrupt(l) \/ check_teardown(l) \/ Release(l) \/ Exit(l)

Next == \E l \in Lanes : Proceeds(l) \/ Work(l)

Spec == Init /\ [][Next]_vars

-----------------------------------------------------------------------------
(* Properties.                                                             *)

Bench == INSTANCE Handover WITH
    promise <- [l \in Lanes |-> Promise(l)],
    holder <- lock,
    says <- [l \in Lanes |-> IF pc[l] # "done" THEN "none"
                             ELSE IF code[l] \in {0, 77} THEN "good" ELSE "bad"]

\* The tools keep the promise of Handover: the device is touched under the
\* lock only, and no run that used it exits with 0 or 77 unless the parts its
\* mode covers were idle when it let go (device_session.py:313-505).
ImplementsHandover == Bench!Spec

\* Whatever stage of a teardown failed, a lane that had a client and was to
\* reset has issued the reset before it gives the device up, unless a second
\* Ctrl-C cut the teardown short (teardown_device, device_session.py:339-396).
ResetReached ==
    \A l \in Lanes :
        op[l] \in {"live", "teardown"} /\ pc[l] \in {"release", "exit", "done"}
            => l \notin owes

\* The lock comes back on every path: a tool that is out of its locked region
\* still holds it only if release() itself raised or Ctrl-C struck while the
\* client was being built, so nobody waits for a tool that is done with the
\* device (locked_client, device_session.py:124 and 132; a second Ctrl-C inside
\* a test's teardown, test_uci_handshake_live.py:1366-1374).
LockReturned ==
    \A l \in Lanes : pc[l] \in {"exit", "done"} /\ lock = l => l \in stuck

=============================================================================
