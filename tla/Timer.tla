------------------------------- MODULE Timer -------------------------------
(***************************************************************************)
(* The session timers (src/wg/timer.s) driven by the main loop             *)
(* (src/boot.s): one pass polls the network and handles a datagram, runs   *)
(* timer_check, then serves a key.  The clock is the KERNAL jiffy clock,   *)
(* which returns to 0 after Day jiffies; elapsed times are differences of  *)
(* its low 16 bits (Word), and every reading of it may be torn by a tick   *)
(* (Jiffies).  What a datagram says is the business of Tunnel: here a      *)
(* handshake may succeed or fail at any poll.                              *)
(*                                                                         *)
(* In the code Keepalive = 600, HsTimeout = 5400, Rekey = 7200 and         *)
(* Expire = 10800 jiffies.                                                 *)
(***************************************************************************)
EXTENDS Jiffies

CONSTANTS
    Keepalive, HsTimeout, Rekey, Expire,  \* thresholds, in jiffies
    MaxPass,    \* bound: jiffies one pass of the main loop may take
    MaxPrompt,  \* bound: jiffies a pass may take when it waits for a typed line
    Horizon     \* bound: the clock stops here (Day: it never stops)

ASSUME ThresholdAssumption ==
    /\ {Keepalive, HsTimeout, Rekey, Expire} \subseteq Nat \ {0}
    /\ Keepalive < Expire /\ Rekey < Expire /\ Expire < Word /\ HsTimeout < Word
ASSUME BoundAssumption == {MaxPass, MaxPrompt, Horizon} \subseteq Nat

VARIABLES
    pc,                   \* where the main loop stands
    wg_state,
    jiffy,                \* $A0-$A2
    session_start_jiffy,
    last_send_jiffy,
    hs_timer_armed,
    rekey_pending,
    session_age,          \* history: jiffies really elapsed since the snapshot
    send_age,             \* history: the same for last_send_jiffy
    pass_time             \* jiffies since the last timer_check

timers == <<session_start_jiffy, last_send_jiffy, hs_timer_armed>>
ages == <<session_age, send_age, pass_time>>
vars == <<pc, wg_state, jiffy, timers, rekey_pending, ages>>

AgeCap == Word + Expire
States == {"IDLE", "HS_SENT", "ACTIVE"}

TypeOK ==
    /\ pc \in {"poll", "timer", "key", "prompt"}
    /\ wg_state \in States
    /\ {jiffy, session_start_jiffy, last_send_jiffy} \subseteq 0..(Day - 1)
    /\ {session_age, send_age} \subseteq 0..AgeCap
    /\ pass_time \in Nat
    /\ {hs_timer_armed, rekey_pending} \subseteq BOOLEAN

-----------------------------------------------------------------------------
\* Mutant: the borrow of the low byte is dropped, so the comparison is one
\* jiffy short.
timer_elapsed_cmp_off(read, saved, threshold) ==
    (read - saved - 1) % Word >= threshold

\* Only the low 16 bits of the difference are compared; read is what the two
\* fetches of the clock gave.
timer_elapsed_cmp(read, saved, threshold) == (read - saved) % Word >= threshold

\* The jiffy clock is copied, byte by byte, into both snapshots.
Snapshot ==
    /\ session_start_jiffy' \in Copies(jiffy)
    /\ last_send_jiffy' = session_start_jiffy'
    /\ session_age' = 0
    /\ send_age' = 0

timer_session_start == Snapshot /\ hs_timer_armed' = FALSE

\* Mutant: timer_session_start disarms last.
timer_handshake_start_unarmed == Snapshot /\ hs_timer_armed' = FALSE

timer_handshake_start == Snapshot /\ hs_timer_armed' = TRUE

timer_mark_send ==
    /\ last_send_jiffy' \in Copies(jiffy)
    /\ send_age' = 0
    /\ UNCHANGED <<session_start_jiffy, hs_timer_armed, session_age>>

session_reset ==
    /\ wg_state' = "IDLE"
    /\ hs_timer_armed' = FALSE
    /\ UNCHANGED <<session_start_jiffy, last_send_jiffy, session_age, send_age>>

\* session_initiate: the initiation is on the wire, or the send was refused.
session_initiate ==
    \/ wg_state' = "HS_SENT" /\ timer_handshake_start
    \/ session_reset

-----------------------------------------------------------------------------
(* The main loop *)

Init ==
    /\ pc = "poll"
    /\ wg_state = "IDLE"
    /\ jiffy = 0
    /\ session_start_jiffy = 0 /\ last_send_jiffy = 0
    /\ hs_timer_armed = FALSE
    /\ rekey_pending = FALSE
    /\ session_age = 0 /\ send_age = 0 /\ pass_time = 0

Older(age) == IF age < AgeCap THEN age + 1 ELSE age

\* The KERNAL's clock update: 24 hours of jiffies, then 0.
UDTIM == (jiffy + 1) % Day

\* The interrupt clock runs beside the main loop.
Tick ==
    /\ jiffy # Horizon
    /\ pass_time < (IF pc = "prompt" THEN MaxPrompt ELSE MaxPass)
    /\ jiffy' = UDTIM
    /\ session_age' = Older(session_age)
    /\ send_age' = Older(send_age)
    /\ pass_time' = pass_time + 1
    /\ UNCHANGED <<pc, wg_state, timers, rekey_pending>>

\* Poll: nothing arrived, or nothing that moves the session.
PollQuiet ==
    /\ pc = "poll" /\ pc' = "timer"
    /\ UNCHANGED <<wg_state, jiffy, timers, rekey_pending, ages>>

\* Poll: a Type 2 completes the handshake, or kills it.
PollResponse ==
    /\ pc = "poll" /\ pc' = "timer"
    /\ wg_state = "HS_SENT"
    /\ \/ wg_state' = "ACTIVE" /\ timer_session_start
       \/ session_reset
    /\ UNCHANGED <<jiffy, rekey_pending, pass_time>>

\* Poll: a Type 3 restarts the handshake.
PollCookie ==
    /\ pc = "poll" /\ pc' = "timer"
    /\ wg_state = "HS_SENT"
    /\ session_initiate
    /\ UNCHANGED <<jiffy, rekey_pending, pass_time>>

timer_check_handshake ==
    \E read \in ShortReadings(jiffy) :
        /\ IF hs_timer_armed /\ timer_elapsed_cmp(read, session_start_jiffy, HsTimeout)
           THEN session_reset
           ELSE UNCHANGED <<wg_state, timers, session_age, send_age>>
        /\ UNCHANGED rekey_pending

\* Check 3: an empty Type 4, and the timer restarted whether or not it left;
\* nothing else about a send concerns the timers.
check_keepalive ==
    \E read \in ShortReadings(jiffy) :
        IF timer_elapsed_cmp(read, last_send_jiffy, Keepalive)
        THEN timer_mark_send
        ELSE UNCHANGED <<timers, session_age, send_age>>

\* Check 2: a flag already up is left up.
check_rekey ==
    \E read \in ShortReadings(jiffy) :
        rekey_pending' = (rekey_pending \/ timer_elapsed_cmp(read, session_start_jiffy, Rekey))

\* Mutant: the keepalive is checked before the expiry.
timer_check_active_reordered ==
    \E read \in ShortReadings(jiffy) :
        IF timer_elapsed_cmp(read, last_send_jiffy, Keepalive)
        THEN timer_mark_send /\ UNCHANGED <<wg_state, rekey_pending>>
        ELSE /\ IF timer_elapsed_cmp(read, session_start_jiffy, Expire)
                THEN session_reset
                ELSE UNCHANGED <<wg_state, timers, session_age, send_age>>
             /\ UNCHANGED rekey_pending

\* Mutant: a rekey already flagged skips the keepalive as well.
timer_check_active_skip ==
    \E read \in ShortReadings(jiffy) :
        IF timer_elapsed_cmp(read, session_start_jiffy, Expire)
        THEN session_reset /\ UNCHANGED rekey_pending
        ELSE /\ check_rekey
             /\ IF rekey_pending
                THEN UNCHANGED <<timers, session_age, send_age>>
                ELSE check_keepalive
             /\ UNCHANGED wg_state

\* Checks 1 to 3, in priority order, each with a reading of its own.
timer_check_active ==
    \E read \in ShortReadings(jiffy) :
        IF timer_elapsed_cmp(read, session_start_jiffy, Expire)
        THEN session_reset /\ UNCHANGED rekey_pending
        ELSE check_rekey /\ check_keepalive /\ UNCHANGED wg_state

timer_check ==
    /\ pc = "timer" /\ pc' = "key"
    /\ CASE wg_state = "ACTIVE"  -> timer_check_active
         [] wg_state = "HS_SENT" -> timer_check_handshake
         [] OTHER -> UNCHANGED <<wg_state, timers, rekey_pending,
                                 session_age, send_age>>
    /\ pass_time' = 0
    /\ UNCHANGED jiffy

\* No key, or one that leaves the timers alone ('I', 'L').
KeyNone ==
    /\ pc = "key" /\ pc' = "poll"
    /\ UNCHANGED <<wg_state, jiffy, timers, rekey_pending, ages>>

\* 'H'
do_handshake ==
    /\ pc = "key" /\ pc' = "poll"
    /\ session_initiate
    /\ UNCHANGED <<jiffy, rekey_pending, pass_time>>

\* 'S': a Type 4 with no state gate and no timer_mark_send.
do_send_test ==
    /\ pc = "key" /\ pc' = "poll"
    /\ UNCHANGED <<wg_state, jiffy, timers, rekey_pending, ages>>

\* 'P'
do_ping ==
    /\ pc = "key" /\ pc' = "poll"
    /\ wg_state = "ACTIVE"
    /\ timer_mark_send
    /\ UNCHANGED <<wg_state, jiffy, rekey_pending, pass_time>>

\* 'M': the state is checked, then read_input_line holds the main loop until
\* RETURN.
do_message_input ==
    /\ pc = "key" /\ pc' = "prompt"
    /\ wg_state = "ACTIVE"
    /\ UNCHANGED <<wg_state, jiffy, timers, rekey_pending, ages>>

\* RETURN: the line is sent, with no second look at the state.
read_input_line ==
    /\ pc = "prompt" /\ pc' = "poll"
    /\ timer_mark_send
    /\ UNCHANGED <<wg_state, jiffy, rekey_pending, pass_time>>

main_loop == PollQuiet \/ PollResponse \/ PollCookie \/ timer_check \/ KeyNone
             \/ do_handshake \/ do_send_test \/ do_ping \/ do_message_input

Next == main_loop \/ read_input_line \/ Tick

\* The main loop never stops running, and neither does the clock; nobody has
\* to finish typing.
Fairness == WF_vars(main_loop) /\ WF_vars(Tick)

Spec == Init /\ [][Next]_vars /\ Fairness

-----------------------------------------------------------------------------
(* Properties *)

\* An unanswered initiation always has a deadline running, and nothing else
\* has one (issue #84: HS_SENT must not be absorbing).
ArmedExactlyInHandshake == (wg_state = "HS_SENT") <=> hs_timer_armed

\* The age at which timer_check drops a session in the current state.
Limit == IF wg_state = "ACTIVE" THEN Expire ELSE HsTimeout

\* A tick tore the snapshot, or may tear a reading made now.
Tearing == session_start_jiffy + session_age # jiffy \/ jiffy % Byte = 0

\* timer_check never lets a session pass its limit, and drops it early only
\* when a tick tore the snapshot or the reading, which makes a session look
\* less than two $A2's older than it is: as long as the age fits in the 16
\* bits and the clock has not returned to zero since the snapshot.
DropsInTime ==
    [][timer_check /\ wg_state # "IDLE" /\ session_age + 2 * Byte <= Word
         /\ session_start_jiffy + session_age <= jiffy
       => /\ session_age >= Limit => wg_state' = "IDLE"
          /\ wg_state' = "IDLE" =>
                session_age >= Limit \/ (Tearing /\ session_age + 2 * Byte > Limit)]_vars

\* In an active session no more than the keepalive interval and one pass of
\* the main loop go by without an attempt to send.
KeepaliveInTime ==
    (wg_state = "ACTIVE" /\ pc # "prompt") => send_age <= Keepalive + MaxPass

\* A handshake that is not restarted ends: the user is back at IDLE, or the
\* session is up.
HandshakeEnds == (wg_state = "HS_SENT") ~> (wg_state # "HS_SENT" \/ session_age = 0)

\* An active session ends or is replaced, unless the prompt holds the loop.
SessionEnds ==
    (wg_state = "ACTIVE") ~> (wg_state # "ACTIVE" \/ session_age = 0 \/ pc = "prompt")

\* What the comment on timer_elapsed_cmp says: carry set iff the elapsed time
\* has reached the threshold.  Of readings no tick has torn.
ElapsedTrue ==
    (wg_state # "IDLE" /\ (session_start_jiffy + session_age) % Day = jiffy) =>
        (timer_elapsed_cmp(jiffy, session_start_jiffy, Expire) <=> session_age >= Expire)

=============================================================================
