---------------------------- MODULE TimerProofs ----------------------------
(***************************************************************************)
(* The handshake deadline is armed exactly while a handshake is pending,   *)
(* no deadline is late nor early by more than a torn reading makes it, an  *)
(* active session is never silent for longer than the keepalive interval   *)
(* and one pass, and midnight does not prolong a handshake at all, nor a   *)
(* session by more than the day leaves over: for all thresholds, clock     *)
(* widths and bounds, and whatever readings of the clock are torn.         *)
(***************************************************************************)
EXTENDS Timer, TLAPS

\* What the snapshots of the timers may be.
TimersTyped ==
    /\ wg_state \in States /\ hs_timer_armed \in BOOLEAN
    /\ {session_start_jiffy, last_send_jiffy} \subseteq 0..(Day - 1)
    /\ {session_age, send_age} \subseteq 0..AgeCap

\* What \div answers, for a divisor that is not known.
LEMMA DivBounds ==
    ASSUME NEW k \in Nat, NEW n \in Nat \ {0}
    PROVE  k \div n \in Nat /\ k = (k \div n) * n + (k % n) /\ k % n \in 0..(n - 1)
  BY SMT

\* A multiple of a positive number is at least that number, or not positive.
LEMMA MultipleApart ==
    ASSUME NEW n \in Nat, NEW k \in Int, k >= 1
    PROVE  k * n >= n
  <1>1. (k - 1) * n >= 0
    BY SMT
  <1>2. (k - 1) * n = k * n - n
    BY SMT
  <1> QED
    BY <1>1, <1>2, SMT

\* A remainder is the only number below the divisor that is a multiple away.
LEMMA ModUnique ==
    ASSUME NEW n \in Nat \ {0}, NEW q \in Int, NEW r \in 0..(n - 1)
    PROVE  (q * n + r) % n = r
  <1> DEFINE a == q * n + r
             k == a \div n
             s == a % n
  <1>1. a \in Int /\ k \in Int /\ s \in 0..(n - 1) /\ a = k * n + s
    BY SMT
  <1>2. (q - k) * n = s - r /\ (k - q) * n = r - s
    BY <1>1, SMT
  <1> HIDE DEF a, k, s
  <1>3. ~(q - k >= 1)
    BY <1>1, <1>2, MultipleApart
  <1>4. ~(k - q >= 1)
    BY <1>1, <1>2, MultipleApart
  <1>5. q - k = 0
    BY <1>1, <1>3, <1>4
  <1>6. s = r
    BY <1>1, <1>2, <1>5
  <1> QED
    BY <1>6 DEF a, s

\* The number below one that is not zero has the same multiple under it, unless
\* a carry has just made the multiple.
LEMMA SpliceBelow ==
    ASSUME NEW j \in Nat \ {0}, NEW n \in Nat \ {0}
    PROVE  /\ Splice(j - 1, j, n) = IF j % n = 0 THEN j - n ELSE j
           /\ j % n = 0 => j >= n
  <1> DEFINE q == j \div n
             r == j % n
  <1>1. q \in Nat /\ r \in 0..(n - 1) /\ j = q * n + r
    BY DivBounds
  <1>2. (q - 1) * n = q * n - n
    BY <1>1, SMT
  <1>a. j - 1 \in Nat /\ j - 1 = ((j - 1) \div n) * n + ((j - 1) % n)
    BY DivBounds
  <1> HIDE DEF q
  <1>3. CASE r = 0
    <2>1. q >= 1
      BY <1>1, <1>3, SMT
    <2>2. j - 1 = (q - 1) * n + (n - 1)
      BY <1>1, <1>2, <1>3, SMT
    <2>a. q - 1 \in Int /\ n - 1 \in 0..(n - 1)
      BY <1>1
    <2>b. ((q - 1) * n + (n - 1)) % n = n - 1
      BY <2>a, ModUnique
    <2>3. (j - 1) % n = n - 1
      BY <2>2, <2>b
    <2>4. ((j - 1) \div n) * n = j - n
      <3>1. (j - 1) \div n \in Nat
        BY <1>a, DivBounds
      <3>2. ((j - 1) \div n) * n \in Nat
        BY <3>1, SMT
      <3> QED
        BY <1>a, <2>3, <3>2
    <2>5. q * n >= n
      BY <1>1, <2>1, MultipleApart
    <2> QED
      BY <1>1, <1>3, <2>4, <2>5 DEF Splice
  <1>4. CASE r # 0
    <2>1. j - 1 = q * n + (r - 1)
      BY <1>1, <1>4
    <2>a. q \in Int /\ r - 1 \in 0..(n - 1)
      BY <1>1, <1>4
    <2>b. (q * n + (r - 1)) % n = r - 1
      BY <2>a, ModUnique
    <2>2. (j - 1) % n = r - 1
      BY <2>1, <2>b
    <2>3. ((j - 1) \div n) * n = j - r
      <3>1. (j - 1) \div n \in Nat
        BY <1>a, DivBounds
      <3>2. ((j - 1) \div n) * n \in Nat
        BY <3>1, SMT
      <3> QED
        BY <1>1, <1>a, <2>2, <3>2
    <2> QED
      BY <1>1, <1>4, <2>3 DEF Splice
  <1> QED
    BY <1>3, <1>4

\* The four ways in which a snapshot may be torn: a byte or two short, or one
\* of these at midnight.
LEMMA CopyIs ==
    ASSUME NEW at \in 0..(Day - 1), NEW saved \in Copies(at)
    PROVE  /\ saved \in 0..(Day - 1)
           /\ \/ saved = at
              \/ at > 0 /\ saved = at - Byte
              \/ at > 0 /\ saved = at - Word
              \/ at = 0 /\ saved = Day - Byte
              \/ at = 0 /\ saved > 0 /\ saved = ((Day - 1) \div Word) * Word
  <1>1. Byte \in Nat \ {0} /\ Word \in Nat \ {0} /\ Day \in Nat \ {0} /\ Byte < Day /\ Word < Day
    BY JiffyAssumption
  <1>2. CASE at > 0
    <2>1. Before(at) = at - 1
      BY <1>1, <1>2 DEF Before
    <2> QED
      BY <1>1, <1>2, <2>1, SpliceBelow DEF Copies
  <1>3. CASE at = 0
    <2>1. Before(at) = Day - 1 /\ at % Byte = 0 /\ at % Word = 0
      BY <1>1, <1>3 DEF Before
    <2>2. Splice(Before(at), at, Byte) = Day - Byte
      <3>1. Splice(Day - 1, Day, Byte) = Day - Byte
        BY <1>1, SpliceBelow, JiffyAssumption
      <3> QED
        BY <2>1, <3>1, JiffyAssumption DEF Splice
    <2>3. Splice(Before(at), at, Word) = ((Day - 1) \div Word) * Word
      BY <1>1, <2>1, DivBounds DEF Splice
    <2>4. /\ ((Day - 1) \div Word) * Word \in Nat
          /\ ((Day - 1) \div Word) * Word > 0
          /\ ((Day - 1) \div Word) * Word < Day
      <3> DEFINE q == (Day - 1) \div Word
                 r == (Day - 1) % Word
      <3>a. Day - 1 \in Nat
        BY <1>1
      <3>1. q \in Nat /\ r \in 0..(Word - 1) /\ Day - 1 = q * Word + r
        BY <1>1, <3>a, DivBounds
      <3>2. q * Word \in Nat
        BY <1>1, <3>1, SMT
      <3>3. q * Word > 0
        BY <1>1, <3>1, <3>2
      <3> QED
        BY <1>1, <3>1, <3>2, <3>3
    <2> QED
      BY <1>1, <1>3, <2>2, <2>3, <2>4 DEF Copies
  <1> QED
    BY <1>1, <1>2, <1>3

\* A torn reading is less than a byte ahead, and only just after a carry.
LEMMA ReadingIs ==
    ASSUME jiffy \in 0..(Day - 1), NEW read \in ShortReadings(jiffy)
    PROVE  \E more \in 0..(Byte - 1) :
               read = jiffy + more /\ (jiffy % Byte # 0 => more = 0)
  <1>1. Byte \in Nat \ {0} /\ Day \in Nat \ {0} /\ 0 \in 0..(Byte - 1)
    BY JiffyAssumption
  <1>2. CASE read = jiffy
    BY <1>1, <1>2
  <1>3. CASE jiffy % Byte = 0 /\ read = Splice(jiffy, Before(jiffy), Byte)
    <2>1. (jiffy \div Byte) * Byte = jiffy
      BY <1>1, <1>3, DivBounds
    <2>2. Before(jiffy) \in Nat
      BY <1>1 DEF Before
    <2>3. Before(jiffy) % Byte \in 0..(Byte - 1)
      BY <1>1, <2>2, DivBounds
    <2> QED
      BY <1>1, <1>3, <2>1, <2>3 DEF Splice
  <1> QED
    BY <1>2, <1>3 DEF ShortReadings, LowFirst

\* Torn or not, a snapshot is a value of the clock.
LEMMA SnapshotTyped ==
    ASSUME TypeOK, Snapshot
    PROVE  /\ {session_start_jiffy', last_send_jiffy'} \subseteq 0..(Day - 1)
           /\ {session_age', send_age'} \subseteq 0..AgeCap
  <1>1. 0 \in 0..AgeCap
    BY ThresholdAssumption, JiffyAssumption DEF AgeCap
  <1>2. session_start_jiffy' \in 0..(Day - 1)
    BY CopyIs DEF TypeOK, Snapshot
  <1> QED
    BY <1>1, <1>2 DEF Snapshot

\* A session that is dropped is idle, with its deadline disarmed.
LEMMA ResetArms ==
    ASSUME TypeOK, session_reset
    PROVE  TimersTyped' /\ ArmedExactlyInHandshake'
  BY DEF TypeOK, session_reset, TimersTyped, ArmedExactlyInHandshake, States

\* An initiation leaves the deadline armed, or no handshake behind it.
LEMMA InitiateArms ==
    ASSUME TypeOK, session_initiate
    PROVE  TimersTyped' /\ ArmedExactlyInHandshake'
  <1>1. CASE wg_state' = "HS_SENT" /\ timer_handshake_start
    BY <1>1, SnapshotTyped
    DEF timer_handshake_start, TimersTyped, ArmedExactlyInHandshake, States
  <1>2. CASE session_reset
    BY <1>2, ResetArms
  <1> QED
    BY <1>1, <1>2 DEF session_initiate

\* Marking a send does not touch the deadline.
LEMMA MarkArms ==
    ASSUME TypeOK, ArmedExactlyInHandshake, timer_mark_send, UNCHANGED wg_state
    PROVE  TimersTyped' /\ ArmedExactlyInHandshake'
  <1>1. 0 \in 0..AgeCap
    BY ThresholdAssumption, JiffyAssumption DEF AgeCap
  <1>2. last_send_jiffy' \in 0..(Day - 1)
    BY CopyIs DEF TypeOK, timer_mark_send
  <1> QED
    BY <1>1, <1>2 DEF TypeOK, timer_mark_send, TimersTyped, ArmedExactlyInHandshake

\* A step that leaves state and timers alone keeps both facts.
LEMMA IdleArms ==
    ASSUME TypeOK, ArmedExactlyInHandshake,
           UNCHANGED <<wg_state, timers, session_age, send_age>>
    PROVE  TimersTyped' /\ ArmedExactlyInHandshake'
  BY DEF TypeOK, timers, TimersTyped, ArmedExactlyInHandshake

\* timer_check, in each of its three states.
LEMMA CheckArms ==
    ASSUME TypeOK, ArmedExactlyInHandshake, timer_check
    PROVE  /\ TimersTyped' /\ ArmedExactlyInHandshake'
           /\ rekey_pending' \in BOOLEAN
  <1>1. CASE wg_state = "ACTIVE"
    <2>1. timer_check_active
      BY <1>1 DEF timer_check
    <2>2. CASE session_reset /\ UNCHANGED rekey_pending
      BY <2>2, ResetArms DEF TypeOK
    <2>3. CASE check_rekey /\ check_keepalive /\ UNCHANGED wg_state
      <3>1. rekey_pending' \in BOOLEAN
        BY <2>3 DEF check_rekey, TypeOK, timer_elapsed_cmp
      <3>2. CASE timer_mark_send
        BY <2>3, <3>1, <3>2, MarkArms
      <3>3. CASE UNCHANGED <<timers, session_age, send_age>>
        BY <2>3, <3>1, <3>3, IdleArms
      <3> QED
        BY <2>3, <3>2, <3>3 DEF check_keepalive
    <2> QED
      BY <2>1, <2>2, <2>3 DEF timer_check_active
  <1>2. CASE wg_state = "HS_SENT"
    <2>1. timer_check_handshake
      BY <1>2 DEF timer_check
    <2>2. CASE session_reset
      BY <2>1, <2>2, ResetArms DEF timer_check_handshake, TypeOK
    <2>3. CASE UNCHANGED <<wg_state, timers, session_age, send_age>>
      BY <2>1, <2>3, IdleArms DEF timer_check_handshake, TypeOK
    <2> QED
      BY <2>1, <2>2, <2>3 DEF timer_check_handshake
  <1>3. CASE wg_state = "IDLE"
    BY <1>3, IdleArms DEF timer_check, TypeOK
  <1> QED
    BY <1>1, <1>2, <1>3 DEF TypeOK, States

\* Both facts are kept by every step of the main loop and of the clock.
LEMMA TimerNext ==
    TypeOK /\ ArmedExactlyInHandshake /\ [Next]_vars
        => TypeOK' /\ ArmedExactlyInHandshake'
  <1> SUFFICES ASSUME TypeOK, ArmedExactlyInHandshake, [Next]_vars
               PROVE  TypeOK' /\ ArmedExactlyInHandshake'
    OBVIOUS
  <1>1. CASE Tick
    <2>1. jiffy' \in 0..(Day - 1)
      BY <1>1, JiffyAssumption DEF Tick, UDTIM, TypeOK
    <2>2. {session_age', send_age'} \subseteq 0..AgeCap
      BY <1>1, ThresholdAssumption, JiffyAssumption DEF Tick, Older, TypeOK, AgeCap
    <2> QED
      BY <1>1, <2>1, <2>2 DEF Tick, TypeOK, timers, ArmedExactlyInHandshake
  <1>2. CASE PollQuiet
    BY <1>2 DEF PollQuiet, TypeOK, timers, ages, ArmedExactlyInHandshake
  <1>3. CASE PollResponse
    <2>1. CASE wg_state' = "ACTIVE" /\ timer_session_start
      <3>1. TimersTyped' /\ ArmedExactlyInHandshake'
        BY <2>1, SnapshotTyped
        DEF timer_session_start, States, TimersTyped, ArmedExactlyInHandshake
      <3> QED
        BY <1>3, <3>1 DEF PollResponse, TimersTyped, TypeOK
    <2>2. CASE session_reset
      BY <1>3, <2>2, ResetArms DEF PollResponse, TimersTyped, TypeOK
    <2> QED
      BY <1>3, <2>1, <2>2 DEF PollResponse
  <1>4. CASE PollCookie
    BY <1>4, InitiateArms DEF PollCookie, TimersTyped, TypeOK
  <1>5. CASE timer_check
    BY <1>5, CheckArms DEF timer_check, TimersTyped, TypeOK
  <1>6. CASE KeyNone
    BY <1>6 DEF KeyNone, TypeOK, timers, ages, ArmedExactlyInHandshake
  <1>7. CASE do_handshake
    BY <1>7, InitiateArms DEF do_handshake, TimersTyped, TypeOK
  <1>8. CASE do_send_test
    BY <1>8 DEF do_send_test, TypeOK, timers, ages, ArmedExactlyInHandshake
  <1>9. CASE do_ping \/ read_input_line
    <2>1. timer_mark_send /\ UNCHANGED wg_state
      BY <1>9 DEF do_ping, read_input_line
    <2>2. pc' = "poll" /\ UNCHANGED <<jiffy, rekey_pending, pass_time>>
      BY <1>9 DEF do_ping, read_input_line
    <2> QED
      BY <2>1, <2>2, MarkArms DEF TimersTyped, TypeOK
  <1>10. CASE do_message_input
    BY <1>10 DEF do_message_input, TypeOK, timers, ages, ArmedExactlyInHandshake
  <1>11. CASE UNCHANGED vars
    BY <1>11 DEF vars, TypeOK, timers, ages, ArmedExactlyInHandshake
  <1> QED
    BY <1>1, <1>2, <1>3, <1>4, <1>5, <1>6, <1>7, <1>8, <1>9, <1>10, <1>11
    DEF Next, main_loop

\* Issue #84 for every instance: a pending handshake always has its deadline
\* armed, and nothing else has.
THEOREM DeadlineAlwaysArmed == Spec => [](TypeOK /\ ArmedExactlyInHandshake)
  <1>1. Init => TypeOK /\ ArmedExactlyInHandshake
    <2>1. 0 \in 0..AgeCap /\ 0 \in 0..(Day - 1) /\ 0 \in Nat
      BY ThresholdAssumption, JiffyAssumption DEF AgeCap
    <2> QED
      BY <2>1 DEF Init, TypeOK, ArmedExactlyInHandshake, States
  <1> QED
    BY <1>1, TimerNext, PTL DEF Spec

-----------------------------------------------------------------------------
(* What the snapshots tell *)

\* The snapshot was taken age jiffies ago, whole or torn, with midnight at most
\* once since.
Seen(saved, age) ==
    \E at \in 0..(Day - 1) :
        saved \in Copies(at) /\ (jiffy = at + age \/ jiffy = at + age - Day)

\* Both snapshots are as old as their histories say, as long as the 16 bits.
SeenInv ==
    /\ session_age < Word => Seen(session_start_jiffy, session_age)
    /\ send_age < Word => Seen(last_send_jiffy, send_age)

\* A copy of the clock made now is zero jiffies old.
LEMMA SeenNow ==
    ASSUME TypeOK, NEW saved \in Copies(jiffy)
    PROVE  Seen(saved, 0)
  <1>1. jiffy \in 0..(Day - 1) /\ jiffy = jiffy + 0
    BY JiffyAssumption DEF TypeOK
  <1> QED
    BY <1>1 DEF Seen

\* One tick: one jiffy older.
LEMMA SeenTick ==
    ASSUME TypeOK, NEW saved, NEW age \in Nat, age + 1 < Word, Seen(saved, age),
           jiffy' = UDTIM
    PROVE  \E at \in 0..(Day - 1) :
               saved \in Copies(at) /\ (jiffy' = at + (age + 1) \/ jiffy' = at + (age + 1) - Day)
  <1>1. PICK at \in 0..(Day - 1) :
               saved \in Copies(at) /\ (jiffy = at + age \/ jiffy = at + age - Day)
    BY DEF Seen
  <1>2. jiffy \in 0..(Day - 1) /\ Word \in Nat /\ Day \in Nat \ {0} /\ Word < Day
    BY JiffyAssumption DEF TypeOK
  <1>3. jiffy' = IF jiffy + 1 = Day THEN 0 ELSE jiffy + 1
    BY <1>2 DEF UDTIM
  <1>4. jiffy' = at + (age + 1) \/ jiffy' = at + (age + 1) - Day
    BY <1>1, <1>2, <1>3
  <1> QED
    BY <1>1, <1>4

\* A send marked now.
LEMMA MarkSeen ==
    ASSUME TypeOK, SeenInv, timer_mark_send, jiffy' = jiffy
    PROVE  SeenInv'
  <1>1. Seen(last_send_jiffy', 0)
    BY SeenNow DEF timer_mark_send
  <1> QED
    BY <1>1 DEF timer_mark_send, SeenInv, Seen

\* Both snapshots taken now.
LEMMA SnapshotSeen ==
    ASSUME TypeOK, Snapshot, jiffy' = jiffy
    PROVE  SeenInv'
  <1>1. Seen(session_start_jiffy', 0)
    BY SeenNow DEF Snapshot
  <1> QED
    BY <1>1 DEF Snapshot, SeenInv, Seen

\* A session dropped keeps its snapshots.
LEMMA ResetSeen ==
    ASSUME SeenInv, session_reset, jiffy' = jiffy
    PROVE  SeenInv'
  BY DEF session_reset, SeenInv, Seen

\* Every step keeps the snapshots and their histories together.
LEMMA SeenNext == TypeOK /\ SeenInv /\ [Next]_vars => SeenInv'
  <1> SUFFICES ASSUME TypeOK, SeenInv, [Next]_vars PROVE SeenInv'
    OBVIOUS
  <1>1. ASSUME UNCHANGED <<jiffy, timers, session_age, send_age>>
        PROVE  SeenInv'
    BY <1>1 DEF timers, SeenInv, Seen
  <1>2. ASSUME session_initiate, jiffy' = jiffy
        PROVE  SeenInv'
    BY <1>2, SnapshotSeen, ResetSeen DEF session_initiate, timer_handshake_start
  <1>3. CASE Tick
    <2>1. {session_age, send_age, Word, Expire} \subseteq Nat
      BY ThresholdAssumption, JiffyAssumption DEF TypeOK, AgeCap
    <2>2. jiffy' = UDTIM /\ UNCHANGED timers
      BY <1>3 DEF Tick
    <2>3. ASSUME session_age' < Word
          PROVE  Seen(session_start_jiffy, session_age)'
      <3>1. session_age' = session_age + 1 /\ session_age < Word
        BY <1>3, <2>1, <2>3 DEF Tick, Older, AgeCap
      <3>2. \E at \in 0..(Day - 1) :
               /\ session_start_jiffy \in Copies(at)
               /\ \/ jiffy' = at + (session_age + 1)
                  \/ jiffy' = at + (session_age + 1) - Day
        BY <2>1, <2>2, <2>3, <3>1, SeenTick DEF SeenInv
      <3> QED
        BY <2>2, <3>1, <3>2 DEF Seen, timers
    <2>4. ASSUME send_age' < Word
          PROVE  Seen(last_send_jiffy, send_age)'
      <3>1. send_age' = send_age + 1 /\ send_age < Word
        BY <1>3, <2>1, <2>4 DEF Tick, Older, AgeCap
      <3>2. \E at \in 0..(Day - 1) :
               /\ last_send_jiffy \in Copies(at)
               /\ \/ jiffy' = at + (send_age + 1)
                  \/ jiffy' = at + (send_age + 1) - Day
        BY <2>1, <2>2, <2>4, <3>1, SeenTick DEF SeenInv
      <3> QED
        BY <2>2, <3>1, <3>2 DEF Seen, timers
    <2> QED
      BY <2>3, <2>4 DEF SeenInv
  <1>4. CASE PollQuiet \/ KeyNone \/ do_send_test \/ do_message_input
    BY <1>1, <1>4 DEF PollQuiet, KeyNone, do_send_test, do_message_input, ages
  <1>5. CASE PollResponse
    BY <1>5, SnapshotSeen, ResetSeen DEF PollResponse, timer_session_start
  <1>6. CASE PollCookie \/ do_handshake
    BY <1>2, <1>6 DEF PollCookie, do_handshake
  <1>7. CASE timer_check
    <2>1. jiffy' = jiffy
      BY <1>7 DEF timer_check
    <2>2. \/ session_reset \/ timer_mark_send
          \/ UNCHANGED <<timers, session_age, send_age>>
      BY <1>7 DEF timer_check, timer_check_active, timer_check_handshake, check_keepalive
    <2> QED
      BY <1>1, <2>1, <2>2, MarkSeen, ResetSeen
  <1>8. CASE do_ping \/ read_input_line
    BY <1>8, MarkSeen DEF do_ping, read_input_line
  <1>9. CASE UNCHANGED vars
    BY <1>1, <1>9 DEF vars, ages
  <1> QED
    BY <1>3, <1>4, <1>5, <1>6, <1>7, <1>8, <1>9 DEF Next, main_loop

\* What the proofs below rest on, of every reachable state.
LEMMA SnapshotsTrue == Spec => [](TypeOK /\ ArmedExactlyInHandshake /\ SeenInv)
  <1>1. TypeOK /\ Init => SeenInv
    <2> SUFFICES ASSUME TypeOK, Init PROVE SeenInv
      OBVIOUS
    <2>1. Seen(0, 0)
      BY SeenNow DEF Init, Copies
    <2> QED
      BY <2>1 DEF Init, SeenInv
  <1> QED
    BY <1>1, SeenNext, DeadlineAlwaysArmed, PTL DEF Spec

\* The difference to a snapshot is its age, up to a byte that a torn snapshot
\* lacks, a day if midnight came in between, and a multiple of the 16 bits.
LEMMA SeenDiff ==
    ASSUME TypeOK, NEW saved, NEW age \in Nat, age < Word, Seen(saved, age)
    PROVE  \E more \in {0, Byte}, day \in {0, Day}, z \in Int :
               /\ saved \in Nat
               /\ jiffy - saved = age + more - day + z * Word
               /\ saved + age <= jiffy => day = 0
               /\ saved + age = jiffy => more = 0
  <1>1. PICK at \in 0..(Day - 1) :
               saved \in Copies(at) /\ (jiffy = at + age \/ jiffy = at + age - Day)
    BY DEF Seen
  <1>2. /\ jiffy \in 0..(Day - 1) /\ Byte \in Nat \ {0} /\ Word \in Nat \ {0} /\ Day \in Nat \ {0}
        /\ Byte <= Word /\ Word < Day
    BY JiffyAssumption DEF TypeOK
  <1>3. saved \in 0..(Day - 1)
    BY <1>1, CopyIs
  <1> DEFINE Goal(more, day, z) ==
                 /\ saved \in Nat
                 /\ jiffy - saved = age + more - day + z * Word
                 /\ saved + age <= jiffy => day = 0
                 /\ saved + age = jiffy => more = 0
  <1> SUFFICES \E more \in {0, Byte}, day \in {0, Day}, z \in Int : Goal(more, day, z)
    OBVIOUS
  <1>a. 0 \in Int /\ 1 \in Int
    OBVIOUS
  <1> HIDE DEF Goal
  <1>4. CASE saved = at
    <2>1. Goal(0, 0, 0) \/ Goal(0, Day, 0)
      BY <1>1, <1>2, <1>3, <1>4 DEF Goal
    <2> QED
      BY <1>a, <2>1
  <1>5. CASE at > 0 /\ saved = at - Byte
    <2>1. Goal(Byte, 0, 0) \/ Goal(Byte, Day, 0)
      BY <1>1, <1>2, <1>3, <1>5 DEF Goal
    <2> QED
      BY <1>a, <2>1
  <1>6. CASE at > 0 /\ saved = at - Word
    <2>1. Goal(0, 0, 1) \/ Goal(0, Day, 1)
      BY <1>1, <1>2, <1>3, <1>6 DEF Goal
    <2> QED
      BY <1>a, <2>1
  <1>7. CASE at = 0 /\ saved = Day - Byte
    <2>1. Goal(Byte, Day, 0)
      BY <1>1, <1>2, <1>3, <1>7 DEF Goal
    <2> QED
      BY <1>a, <2>1
  <1>8. CASE at = 0 /\ saved > 0 /\ saved = ((Day - 1) \div Word) * Word
    <2> DEFINE q == (Day - 1) \div Word
    <2>1. q \in Nat
      BY <1>2, DivBounds
    <2> HIDE DEF q
    <2>2. (0 - q) * Word = 0 - q * Word /\ q * Word \in Nat /\ 0 - q \in Int
      BY <1>2, <2>1, SMT
    <2>3. saved = q * Word
      BY <1>8 DEF q
    <2>4. jiffy = age
      BY <1>1, <1>2, <1>8
    <2>5. Goal(0, 0, 0 - q)
      BY <1>2, <1>3, <1>8, <2>2, <2>3, <2>4 DEF Goal
    <2> QED
      BY <2>2, <2>5
  <1> QED
    BY <1>1, <1>4, <1>5, <1>6, <1>7, <1>8, CopyIs

\* What timer_elapsed_cmp compares: the age and less than two bytes more, or the
\* same without what the day leaves over modulo the 16 bits.
LEMMA ElapsedIs ==
    ASSUME TypeOK, NEW saved, NEW age \in Nat, Seen(saved, age), age + 2 * Byte <= Word,
           NEW read \in ShortReadings(jiffy)
    PROVE  \E more \in 0..(2 * Byte - 1) :
               /\ \/ (read - saved) % Word = age + more
                  \/ /\ ~(saved + age <= jiffy)
                     /\ (read - saved) % Word = IF age + more < Day % Word
                                                THEN Word + age + more - (Day % Word)
                                                ELSE age + more - (Day % Word)
               /\ (saved + age = jiffy /\ jiffy % Byte # 0) => more = 0
  <1>1. /\ jiffy \in 0..(Day - 1) /\ Byte \in Nat \ {0} /\ Word \in Nat \ {0} /\ Day \in Nat \ {0}
        /\ Byte <= Word /\ Word < Day
    BY JiffyAssumption DEF TypeOK
  <1>2. PICK torn \in {0, Byte}, day \in {0, Day}, z \in Int :
               /\ saved \in Nat
               /\ jiffy - saved = age + torn - day + z * Word
               /\ saved + age <= jiffy => day = 0
               /\ saved + age = jiffy => torn = 0
    <2>1. age < Word
      BY <1>1
    <2> QED
      BY <2>1, SeenDiff
  <1>3. PICK ahead \in 0..(Byte - 1) :
               read = jiffy + ahead /\ (jiffy % Byte # 0 => ahead = 0)
    BY <1>1, ReadingIs
  <1> DEFINE more == torn + ahead
             d == Day % Word
             q == Day \div Word
  <1>4. /\ more \in 0..(2 * Byte - 1) /\ more \in Nat /\ age + more < Word
        /\ (saved + age = jiffy /\ jiffy % Byte # 0) => more = 0
    BY <1>1, <1>2, <1>3
  <1>5. q \in Nat /\ d \in 0..(Word - 1) /\ Day = q * Word + d
    BY <1>1, DivBounds
  <1>6. read - saved = age + more - day + z * Word
    BY <1>1, <1>2, <1>3
  <1> HIDE DEF more, d, q
  <1>7. CASE day = 0
    <2>1. read - saved = z * Word + (age + more)
      BY <1>1, <1>2, <1>4, <1>6, <1>7, SMT
    <2>a. age + more \in 0..(Word - 1)
      BY <1>1, <1>4
    <2>b. (z * Word + (age + more)) % Word = age + more
      BY <1>1, <2>a, ModUnique
    <2>2. (read - saved) % Word = age + more
      BY <2>1, <2>b
    <2> QED
      BY <1>4, <2>2
  <1>8. CASE day = Day /\ day # 0
    <2> DEFINE rest == IF age + more < d THEN Word + age + more - d ELSE age + more - d
               y == IF age + more < d THEN z - q - 1 ELSE z - q
    <2>1. rest \in 0..(Word - 1) /\ y \in Int
      BY <1>1, <1>2, <1>4, <1>5
    <2>2. read - saved = y * Word + rest
      <3>1. (z - q - 1) * Word = z * Word - q * Word - Word /\ (z - q) * Word = z * Word - q * Word
        BY <1>1, <1>2, <1>5, SMT
      <3>2. z * Word \in Int /\ q * Word \in Int
        BY <1>1, <1>2, <1>5, SMT
      <3> QED
        BY <1>1, <1>2, <1>4, <1>5, <1>6, <1>8, <3>1, <3>2
    <2> HIDE DEF y, rest
    <2>a. (y * Word + rest) % Word = rest
      BY <1>1, <2>1, ModUnique
    <2>3. (read - saved) % Word = rest
      BY <2>2, <2>a
    <2>4. ~(saved + age <= jiffy)
      BY <1>2, <1>8
    <2> QED
      BY <1>4, <2>3, <2>4 DEF d, rest
  <1> QED
    BY <1>2, <1>7, <1>8

-----------------------------------------------------------------------------
(* The limits *)

\* Away from midnight no session passes its limit, and none is dropped before
\* it but by a torn reading, and then by less than two bytes of jiffies: for
\* all thresholds in the order of the code.
THEOREM DropsNeverLate == Spec => DropsInTime
  <1> DEFINE InTime == timer_check /\ wg_state # "IDLE" /\ session_age + 2 * Byte <= Word
                         /\ session_start_jiffy + session_age <= jiffy
                       => /\ session_age >= Limit => wg_state' = "IDLE"
                          /\ wg_state' = "IDLE" =>
                               \/ session_age >= Limit
                               \/ Tearing /\ session_age + 2 * Byte > Limit
  <1>1. TypeOK /\ ArmedExactlyInHandshake /\ SeenInv => InTime
    <2> SUFFICES ASSUME TypeOK, ArmedExactlyInHandshake, SeenInv, timer_check,
                        wg_state # "IDLE", session_age + 2 * Byte <= Word,
                        session_start_jiffy + session_age <= jiffy
                 PROVE  /\ session_age >= Limit => wg_state' = "IDLE"
                        /\ wg_state' = "IDLE" =>
                             \/ session_age >= Limit
                             \/ Tearing /\ session_age + 2 * Byte > Limit
      OBVIOUS
    <2>1. /\ {jiffy, session_start_jiffy, session_age, Byte, Word, Limit} \subseteq Nat
          /\ Byte > 0
      BY ThresholdAssumption, JiffyAssumption DEF TypeOK, AgeCap, Limit
    <2>2. \E read \in ShortReadings(jiffy) :
              (wg_state' = "IDLE") <=> timer_elapsed_cmp(read, session_start_jiffy, Limit)
      <3>1. CASE wg_state = "ACTIVE"
        BY <3>1 DEF timer_check, timer_check_active, session_reset, Limit
      <3>2. CASE wg_state = "HS_SENT"
        BY <3>2
        DEF timer_check, timer_check_handshake, session_reset, Limit, ArmedExactlyInHandshake
      <3> QED
        BY <3>1, <3>2 DEF TypeOK, States
    <2>3. PICK read \in ShortReadings(jiffy) :
              (wg_state' = "IDLE") <=> timer_elapsed_cmp(read, session_start_jiffy, Limit)
      BY <2>2
    <2>4. Seen(session_start_jiffy, session_age)
      BY <2>1 DEF SeenInv
    <2>5. PICK more \in 0..(2 * Byte - 1) :
              /\ (read - session_start_jiffy) % Word = session_age + more
              /\ (session_start_jiffy + session_age = jiffy /\ jiffy % Byte # 0) => more = 0
      BY <2>1, <2>4, ElapsedIs
    <2> QED
      BY <2>1, <2>3, <2>5 DEF timer_elapsed_cmp, Tearing
  <1>2. TypeOK /\ ArmedExactlyInHandshake /\ SeenInv => [InTime]_vars
    BY <1>1
  <1> QED
    BY <1>2, SnapshotsTrue, PTL DEF DropsInTime

\* Midnight does not make timer_elapsed_cmp late: what the day leaves over
\* modulo the 16 bits only adds to the difference, and so does a torn reading.
LEMMA CmpNeverLate ==
    ASSUME TypeOK, NEW saved, NEW age \in Nat, NEW threshold \in Nat, Seen(saved, age),
           age + 2 * Byte <= Day % Word, age >= threshold,
           NEW read \in ShortReadings(jiffy)
    PROVE  timer_elapsed_cmp(read, saved, threshold)
  <1>1. Byte \in Nat \ {0} /\ Word \in Nat \ {0} /\ Day \in Nat /\ Day % Word \in 0..(Word - 1)
    BY JiffyAssumption, DivBounds
  <1>2. PICK more \in 0..(2 * Byte - 1) :
               \/ (read - saved) % Word = age + more
               \/ (read - saved) % Word = IF age + more < Day % Word
                                          THEN Word + age + more - (Day % Word)
                                          ELSE age + more - (Day % Word)
    <2>1. age + 2 * Byte <= Word
      BY <1>1
    <2> QED
      BY <1>1, <2>1, ElapsedIs
  <1> QED
    BY <1>1, <1>2 DEF timer_elapsed_cmp

\* After midnight it may be late, by less than what the day leaves over.
LEMMA CmpLateBounded ==
    ASSUME TypeOK, Seen(session_start_jiffy, session_age), session_age + 2 * Byte <= Word,
           NEW read \in ShortReadings(jiffy),
           ~timer_elapsed_cmp(read, session_start_jiffy, Expire)
    PROVE  session_age < Expire + (Day % Word)
  <1>1. /\ Byte \in Nat \ {0} /\ Word \in Nat \ {0} /\ Day \in Nat /\ Day % Word \in 0..(Word - 1)
        /\ Expire \in Nat \ {0} /\ session_age \in Nat
    <2>1. Expire \in Nat \ {0} /\ session_age \in Nat
      BY JiffyAssumption, ThresholdAssumption DEF TypeOK, AgeCap
    <2> QED
      BY <2>1, JiffyAssumption, DivBounds
  <1>2. PICK more \in 0..(2 * Byte - 1) :
               \/ (read - session_start_jiffy) % Word = session_age + more
               \/ (read - session_start_jiffy) % Word =
                      IF session_age + more < Day % Word
                      THEN Word + session_age + more - (Day % Word)
                      ELSE session_age + more - (Day % Word)
    BY <1>1, ElapsedIs
  <1> QED
    BY <1>1, <1>2 DEF timer_elapsed_cmp

-----------------------------------------------------------------------------
(* The keepalive *)

\* The inductive form of KeepaliveInTime: the silence is the interval and the
\* time of this pass.
SendInv ==
    (wg_state = "ACTIVE" /\ pc # "prompt") =>
        /\ send_age <= Keepalive + pass_time
        /\ send_age <= Keepalive + MaxPass

\* After timer_check a session still active has been silent for less than the
\* interval: either it was, or an empty Type 4 has just been tried.
LEMMA CheckSends ==
    ASSUME TypeOK, SeenInv, Keepalive + MaxPass + 2 * Byte <= Day % Word, SendInv, timer_check
    PROVE  SendInv'
  <1> SUFFICES ASSUME wg_state' = "ACTIVE"
               PROVE  /\ send_age' <= Keepalive + pass_time'
                      /\ send_age' <= Keepalive + MaxPass
    BY DEF SendInv
  <1>1. /\ {send_age, Keepalive, MaxPass, Day, Byte} \subseteq Nat /\ Word \in Nat \ {0}
        /\ Day % Word \in Nat /\ Day % Word < Word
    BY ThresholdAssumption, BoundAssumption, JiffyAssumption DEF TypeOK, AgeCap
  <1>2. wg_state = "ACTIVE" /\ check_keepalive
    BY DEF timer_check, timer_check_active, timer_check_handshake, session_reset, TypeOK, States
  <1>3. pass_time' = 0 /\ pc = "timer"
    BY DEF timer_check
  <1>4. CASE timer_mark_send
    BY <1>1, <1>3, <1>4 DEF timer_mark_send
  <1>5. CASE ~timer_mark_send
    <2>1. PICK read \in ShortReadings(jiffy) :
              ~timer_elapsed_cmp(read, last_send_jiffy, Keepalive) /\ send_age' = send_age
      BY <1>2, <1>5 DEF check_keepalive
    <2>2. send_age <= Keepalive + MaxPass
      BY <1>2, <1>3 DEF SendInv
    <2>3. send_age < Keepalive
      <3>1. send_age + 2 * Byte <= Day % Word /\ send_age < Word
        BY <1>1, <2>2
      <3>2. Seen(last_send_jiffy, send_age)
        BY <3>1 DEF SeenInv
      <3> QED
        BY <1>1, <2>1, <3>1, <3>2, CmpNeverLate
    <2> QED
      BY <1>1, <1>3, <2>1, <2>3
  <1> QED
    BY <1>4, <1>5

\* The clock: one jiffy more of silence.
LEMMA TickSends ==
    ASSUME TypeOK, SendInv, Tick
    PROVE  SendInv'
  <1> SUFFICES ASSUME wg_state = "ACTIVE", pc # "prompt"
               PROVE  /\ send_age' <= Keepalive + pass_time'
                      /\ send_age' <= Keepalive + MaxPass
    BY DEF SendInv, Tick
  <1>1. {send_age, pass_time, Keepalive, MaxPass} \subseteq Nat
    BY ThresholdAssumption, BoundAssumption, JiffyAssumption DEF TypeOK, AgeCap
  <1>2. send_age <= Keepalive + pass_time /\ send_age <= Keepalive + MaxPass
    BY DEF SendInv
  <1>3. pass_time' = pass_time + 1 /\ pass_time < MaxPass
    BY DEF Tick
  <1>4. send_age' <= send_age + 1 /\ send_age' \in Nat
    BY <1>1 DEF Tick, Older
  <1> QED
    BY <1>1, <1>2, <1>3, <1>4

\* Every other step leaves the silence alone, ends it, or ends the session.
LEMMA SendNext ==
    ASSUME Keepalive + MaxPass + 2 * Byte <= Day % Word
    PROVE  TypeOK /\ SeenInv /\ SendInv /\ [Next]_vars => SendInv'
  <1> SUFFICES ASSUME TypeOK, SeenInv, SendInv, [Next]_vars
               PROVE  SendInv'
    OBVIOUS
  <1>1. {pass_time, Keepalive, MaxPass} \subseteq Nat
    BY ThresholdAssumption, BoundAssumption DEF TypeOK
  <1>2. ASSUME send_age' = 0, pass_time' = pass_time
        PROVE  SendInv'
    BY <1>1, <1>2 DEF SendInv
  <1>3. ASSUME wg_state' # "ACTIVE"
        PROVE  SendInv'
    BY <1>3 DEF SendInv
  <1>4. ASSUME session_initiate
        PROVE  SendInv'
    BY <1>3, <1>4 DEF session_initiate, session_reset
  <1>5. CASE Tick
    BY <1>5, TickSends
  <1>6. CASE timer_check
    BY <1>6, CheckSends
  <1>7. CASE PollQuiet \/ KeyNone \/ do_send_test \/ do_message_input
    BY <1>7
    DEF PollQuiet, KeyNone, do_send_test, do_message_input, SendInv, ages
  <1>8. CASE PollResponse
    <2>1. CASE timer_session_start
      BY <1>2, <1>8, <2>1 DEF PollResponse, timer_session_start, Snapshot
    <2>2. CASE session_reset
      BY <1>3, <2>2 DEF session_reset
    <2> QED
      BY <1>8, <2>1, <2>2 DEF PollResponse
  <1>9. CASE PollCookie \/ do_handshake
    BY <1>4, <1>9 DEF PollCookie, do_handshake
  <1>10. CASE do_ping \/ read_input_line
    BY <1>2, <1>10 DEF do_ping, read_input_line, timer_mark_send
  <1>11. CASE UNCHANGED vars
    BY <1>11 DEF vars, ages, SendInv
  <1> QED
    BY <1>5, <1>6, <1>7, <1>8, <1>9, <1>10, <1>11 DEF Next, main_loop

\* The keepalive of an active session is never late by more than one pass,
\* midnight and torn readings included, whenever the interval, a pass and two
\* bytes are no longer than what the day leaves over modulo the 16 bits (600, a
\* pass and 512 against 6656 in the code).
THEOREM KeepaliveNeverLate ==
    ASSUME Keepalive + MaxPass + 2 * Byte <= Day % Word
    PROVE  Spec => []KeepaliveInTime
  <1>1. Init => SendInv
    BY DEF Init, SendInv
  <1>2. TypeOK /\ SeenInv /\ SendInv /\ [Next]_vars => SendInv'
    BY SendNext
  <1>3. SendInv => KeepaliveInTime
    BY DEF SendInv, KeepaliveInTime
  <1> QED
    BY <1>1, <1>2, <1>3, SnapshotsTrue, PTL DEF Spec

-----------------------------------------------------------------------------
(* The handshake *)

\* An initiation that is not restarted is given up in time: no more than the
\* deadline and one pass of the main loop go by in HS_SENT (issue #84).
HandshakeInTime == wg_state = "HS_SENT" => session_age <= HsTimeout + MaxPass

\* The age at the last timer_check was below the deadline, and no prompt has held
\* the loop since: it is only reached in an active session.
HandshakeInv ==
    /\ pc = "prompt" => wg_state = "ACTIVE"
    /\ wg_state = "HS_SENT" =>
        /\ session_age <= HsTimeout + pass_time
        /\ session_age <= HsTimeout + MaxPass

\* After timer_check an initiation that still waits is younger than the deadline.
LEMMA CheckGivesUp ==
    ASSUME TypeOK, ArmedExactlyInHandshake, SeenInv,
           HsTimeout + MaxPass + 2 * Byte <= Day % Word, HandshakeInv, timer_check
    PROVE  HandshakeInv'
  <1>1. /\ {session_age, HsTimeout, MaxPass, Day, Byte} \subseteq Nat /\ Word \in Nat \ {0}
        /\ Day % Word \in Nat /\ Day % Word < Word
    BY ThresholdAssumption, BoundAssumption, JiffyAssumption DEF TypeOK, AgeCap
  <1>2. pass_time' = 0 /\ pc' = "key"
    BY DEF timer_check
  <1> SUFFICES ASSUME wg_state' = "HS_SENT"
               PROVE  /\ session_age' <= HsTimeout + pass_time'
                      /\ session_age' <= HsTimeout + MaxPass
    BY <1>2 DEF HandshakeInv
  <1>3. wg_state = "HS_SENT" /\ timer_check_handshake
    BY DEF timer_check, timer_check_active, session_reset, TypeOK, States
  <1>4. session_age <= HsTimeout + MaxPass
    BY <1>3 DEF HandshakeInv
  <1>5. PICK read \in ShortReadings(jiffy) :
            ~timer_elapsed_cmp(read, session_start_jiffy, HsTimeout) /\ session_age' = session_age
    BY <1>3 DEF timer_check_handshake, session_reset, ArmedExactlyInHandshake
  <1>6. session_age < HsTimeout
    <2>1. session_age + 2 * Byte <= Day % Word /\ session_age < Word
      BY <1>1, <1>4
    <2>2. Seen(session_start_jiffy, session_age)
      BY <2>1 DEF SeenInv
    <2> QED
      BY <1>1, <1>5, <2>1, <2>2, CmpNeverLate
  <1> QED
    BY <1>1, <1>2, <1>5, <1>6

\* The clock: one jiffy more of waiting.
LEMMA TickWaits ==
    ASSUME TypeOK, HandshakeInv, Tick
    PROVE  HandshakeInv'
  <1> SUFFICES ASSUME wg_state = "HS_SENT"
               PROVE  /\ session_age' <= HsTimeout + pass_time'
                      /\ session_age' <= HsTimeout + MaxPass
    BY DEF HandshakeInv, Tick
  <1>1. {session_age, pass_time, HsTimeout, MaxPass} \subseteq Nat
    BY ThresholdAssumption, BoundAssumption, JiffyAssumption DEF TypeOK, AgeCap
  <1>2. session_age <= HsTimeout + pass_time /\ session_age <= HsTimeout + MaxPass /\ pc # "prompt"
    BY DEF HandshakeInv
  <1>3. pass_time' = pass_time + 1 /\ pass_time < MaxPass
    BY <1>2 DEF Tick
  <1>4. session_age' <= session_age + 1 /\ session_age' \in Nat
    BY <1>1 DEF Tick, Older
  <1> QED
    BY <1>1, <1>2, <1>3, <1>4

\* Every other step leaves the wait alone, starts one or ends it.
LEMMA HandshakeNext ==
    ASSUME HsTimeout + MaxPass + 2 * Byte <= Day % Word
    PROVE  TypeOK /\ ArmedExactlyInHandshake /\ SeenInv /\ HandshakeInv /\ [Next]_vars
               => HandshakeInv'
  <1> SUFFICES ASSUME TypeOK, ArmedExactlyInHandshake, SeenInv, HandshakeInv, [Next]_vars
               PROVE  HandshakeInv'
    OBVIOUS
  <1>1. {pass_time, HsTimeout, MaxPass} \subseteq Nat
    BY ThresholdAssumption, BoundAssumption DEF TypeOK
  <1>2. ASSUME session_initiate, pc' # "prompt", pass_time' = pass_time
        PROVE  HandshakeInv'
    BY <1>1, <1>2
    DEF session_initiate, session_reset, timer_handshake_start, Snapshot, HandshakeInv
  <1>3. CASE Tick
    BY <1>3, TickWaits
  <1>4. CASE timer_check
    BY <1>4, CheckGivesUp
  <1>5. CASE PollQuiet \/ KeyNone \/ do_send_test \/ do_message_input
    BY <1>5
    DEF PollQuiet, KeyNone, do_send_test, do_message_input, HandshakeInv, timers, ages
  <1>6. CASE PollResponse
    BY <1>6 DEF PollResponse, session_reset, HandshakeInv
  <1>7. CASE PollCookie \/ do_handshake
    BY <1>2, <1>7 DEF PollCookie, do_handshake
  <1>8. CASE do_ping \/ read_input_line
    BY <1>8 DEF do_ping, read_input_line, timer_mark_send, HandshakeInv
  <1>9. CASE UNCHANGED vars
    BY <1>9 DEF vars, timers, ages, HandshakeInv
  <1> QED
    BY <1>3, <1>4, <1>5, <1>6, <1>7, <1>8, <1>9 DEF Next, main_loop

\* HS_SENT is not absorbing and not even long: an initiation is given up within
\* the deadline and one pass, midnight and torn readings included, whenever
\* these and two bytes are no longer than what the day leaves over modulo the 16
\* bits (5400, a pass and 512 against 6656).
THEOREM HandshakeNeverStuck ==
    ASSUME HsTimeout + MaxPass + 2 * Byte <= Day % Word
    PROVE  Spec => []HandshakeInTime
  <1>1. Init => HandshakeInv
    BY DEF Init, HandshakeInv
  <1>2. TypeOK /\ ArmedExactlyInHandshake /\ SeenInv /\ HandshakeInv /\ [Next]_vars
            => HandshakeInv'
    BY HandshakeNext
  <1>3. HandshakeInv => HandshakeInTime
    BY DEF HandshakeInv, HandshakeInTime
  <1> QED
    BY <1>1, <1>2, <1>3, SnapshotsTrue, PTL DEF Spec

-----------------------------------------------------------------------------
(* The expiry *)

\* The longest time between two runs of timer_check.
Longest == IF MaxPass > MaxPrompt THEN MaxPass ELSE MaxPrompt

\* What midnight can cost (run timer_midnight): an active session outlives its
\* limit by less than the day leaves over modulo the 16 bits, and one pass.
SessionInTime == wg_state = "ACTIVE" => session_age < Expire + (Day % Word) + Longest

\* The same, of the last timer_check.
ExpiryInv ==
    /\ pass_time <= Longest
    /\ wg_state = "ACTIVE" => session_age < Expire + (Day % Word) + pass_time

\* After timer_check a session still active is below that bound.
LEMMA CheckExpires ==
    ASSUME TypeOK, SeenInv, Expire + (Day % Word) + Longest + 2 * Byte <= Word,
           ExpiryInv, timer_check
    PROVE  ExpiryInv'
  <1>1. /\ {session_age, pass_time, MaxPass, MaxPrompt, Expire, Byte} \subseteq Nat
        /\ Word \in Nat \ {0} /\ Day \in Nat \ {0} /\ Byte > 0
    BY ThresholdAssumption, BoundAssumption, JiffyAssumption DEF TypeOK, AgeCap
  <1>2. Day % Word \in Nat /\ Longest \in Nat
    BY <1>1 DEF Longest
  <1>a. pass_time' <= Longest
    BY <1>2 DEF timer_check
  <1> SUFFICES ASSUME wg_state' = "ACTIVE"
               PROVE  session_age' < Expire + (Day % Word) + pass_time'
    BY <1>a DEF ExpiryInv
  <1>3. wg_state = "ACTIVE" /\ timer_check_active /\ pass_time' = 0
    BY DEF timer_check, timer_check_handshake, session_reset, TypeOK, States
  <1>4. PICK read \in ShortReadings(jiffy) :
            ~timer_elapsed_cmp(read, session_start_jiffy, Expire) /\ session_age' = session_age
    BY <1>3 DEF timer_check_active, session_reset, check_keepalive, timer_mark_send
  <1>5. session_age < Expire + (Day % Word) + pass_time /\ pass_time <= Longest
    BY <1>3 DEF ExpiryInv
  <1>6. session_age + 2 * Byte <= Word /\ session_age < Word
    BY <1>1, <1>2, <1>5
  <1>7. session_age < Expire + (Day % Word)
    BY <1>4, <1>6, CmpLateBounded DEF SeenInv
  <1> QED
    BY <1>1, <1>2, <1>3, <1>4, <1>7

\* The clock: one jiffy more of the session and of the pass.
LEMMA TickAges ==
    ASSUME TypeOK, ExpiryInv, Tick
    PROVE  ExpiryInv'
  <1>1. /\ {session_age, pass_time, MaxPass, MaxPrompt, Expire} \subseteq Nat
        /\ Day % Word \in Nat
    BY ThresholdAssumption, BoundAssumption, JiffyAssumption DEF TypeOK, AgeCap
  <1>2. pass_time' = pass_time + 1 /\ pass_time' <= Longest
    BY <1>1 DEF Tick, Longest
  <1>3. session_age' <= session_age + 1 /\ session_age' \in Nat /\ wg_state' = wg_state
    BY <1>1 DEF Tick, Older
  <1> QED
    BY <1>1, <1>2, <1>3 DEF ExpiryInv

\* Every other step leaves the age alone, or starts or ends a session.
LEMMA ExpiryNext ==
    ASSUME Expire + (Day % Word) + Longest + 2 * Byte <= Word
    PROVE  TypeOK /\ SeenInv /\ ExpiryInv /\ [Next]_vars => ExpiryInv'
  <1> SUFFICES ASSUME TypeOK, SeenInv, ExpiryInv, [Next]_vars PROVE ExpiryInv'
    OBVIOUS
  <1>1. /\ {pass_time, MaxPass, MaxPrompt, Expire, Day % Word, Longest} \subseteq Nat
        /\ Expire > 0
    BY ThresholdAssumption, BoundAssumption, JiffyAssumption DEF TypeOK, Longest
  <1>2. CASE Tick
    BY <1>2, TickAges
  <1>3. CASE timer_check
    BY <1>3, CheckExpires
  <1>4. CASE PollQuiet \/ KeyNone \/ do_send_test \/ do_message_input
    BY <1>4
    DEF PollQuiet, KeyNone, do_send_test, do_message_input, ExpiryInv, ages
  <1>5. CASE PollResponse
    BY <1>1, <1>5
    DEF PollResponse, session_reset, timer_session_start, Snapshot, ExpiryInv
  <1>6. CASE PollCookie \/ do_handshake
    BY <1>6 DEF PollCookie, do_handshake, session_initiate, session_reset, ExpiryInv
  <1>7. CASE do_ping \/ read_input_line
    BY <1>7 DEF do_ping, read_input_line, timer_mark_send, ExpiryInv
  <1>8. CASE UNCHANGED vars
    BY <1>8 DEF vars, ages, ExpiryInv
  <1> QED
    BY <1>2, <1>3, <1>4, <1>5, <1>6, <1>7, <1>8 DEF Next, main_loop

\* Midnight may keep an active session past its limit, but not by more than what
\* the day leaves over modulo the 16 bits and one pass (6656 jiffies, under two
\* minutes, on top of 10800), whatever readings are torn, as long as no pass
\* comes near the 16 bits: a prompt left open for longer than they hold is what
\* this leaves out.
THEOREM SessionNeverOverstays ==
    ASSUME Expire + (Day % Word) + Longest + 2 * Byte <= Word
    PROVE  Spec => []SessionInTime
  <1>1. Init => ExpiryInv
    BY BoundAssumption DEF Init, ExpiryInv, Longest
  <1>2. TypeOK /\ SeenInv /\ ExpiryInv /\ [Next]_vars => ExpiryInv'
    BY ExpiryNext
  <1>3. TypeOK /\ ExpiryInv => SessionInTime
    <2> SUFFICES ASSUME TypeOK, ExpiryInv, wg_state = "ACTIVE"
                 PROVE  session_age < Expire + (Day % Word) + Longest
      BY DEF SessionInTime
    <2>1. {session_age, pass_time, MaxPass, MaxPrompt, Expire, Day % Word, Longest} \subseteq Nat
      BY ThresholdAssumption, BoundAssumption, JiffyAssumption DEF TypeOK, AgeCap, Longest
    <2> QED
      BY <2>1 DEF ExpiryInv
  <1> QED
    BY <1>1, <1>2, <1>3, SnapshotsTrue, PTL DEF Spec

=============================================================================
