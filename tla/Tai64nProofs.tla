---------------------------- MODULE Tai64nProofs ----------------------------
(***************************************************************************)
(* Timestamps are well formed, strictly increasing, not further ahead of   *)
(* the host than torn readings of the clock can make them, and for a day   *)
(* never behind it, for every clock rate, day length and field width.      *)
(***************************************************************************)
EXTENDS Tai64n, TLAPS

\* What \div answers, for a divisor that is not known.
LEMMA DivBounds ==
    ASSUME NEW n \in Nat, NEW h \in Nat \ {0}
    PROVE  n \div h \in Nat /\ h * (n \div h) <= n /\ n < h * (n \div h) + h
  OBVIOUS

\* The same, with the remainder.
LEMMA Division ==
    ASSUME NEW k \in Nat, NEW n \in Nat \ {0}
    PROVE  k \div n \in Nat /\ k = (k \div n) * n + (k % n) /\ k % n \in 0 .. n - 1
  BY SMT

\* A multiple of a positive number is at least that number, or not positive.
LEMMA MultipleApart ==
    ASSUME NEW n \in Nat, NEW k \in Int, k >= 1
    PROVE  k * n >= n
  <1>1. (k - 1) * n >= 0
    BY SMT
  <1>2. (k - 1) * n = k * n - n
    BY SMT
  <1> QED
    BY <1>1, <1>2, SMT

\* A remainder is the only number below the divisor that is a multiple away.
LEMMA ModUnique ==
    ASSUME NEW n \in Nat \ {0}, NEW q \in Int, NEW r \in 0..(n - 1)
    PROVE  (q * n + r) % n = r
  <1> DEFINE a == q * n + r
             k == a \div n
             s == a % n
  <1>1. a \in Int /\ k \in Int /\ s \in 0..(n - 1) /\ a = k * n + s
    BY SMT
  <1>2. (q - k) * n = s - r /\ (k - q) * n = r - s
    BY <1>1, SMT
  <1> HIDE DEF a, k, s
  <1>3. ~(q - k >= 1)
    BY <1>1, <1>2, MultipleApart
  <1>4. ~(k - q >= 1)
    BY <1>1, <1>2, MultipleApart
  <1>5. q - k = 0
    BY <1>1, <1>3, <1>4
  <1>6. s = r
    BY <1>1, <1>2, <1>5
  <1> QED
    BY <1>6 DEF a, s

\* The number below one that is not zero has the same multiple under it, unless
\* a carry has just made the multiple.
LEMMA SpliceBelow ==
    ASSUME NEW j \in Nat \ {0}, NEW n \in Nat \ {0}
    PROVE  /\ Splice(j - 1, j, n) = IF j % n = 0 THEN j - n ELSE j
           /\ j % n = 0 => j >= n
  <1> DEFINE q == j \div n
             r == j % n
  <1>1. q \in Nat /\ r \in 0..(n - 1) /\ j = q * n + r
    BY Division
  <1>2. (q - 1) * n = q * n - n
    BY <1>1, SMT
  <1>a. j - 1 \in Nat /\ j - 1 = ((j - 1) \div n) * n + ((j - 1) % n)
    BY Division
  <1> HIDE DEF q
  <1>3. CASE r = 0
    <2>1. q >= 1
      BY <1>1, <1>3, SMT
    <2>2. j - 1 = (q - 1) * n + (n - 1)
      BY <1>1, <1>2, <1>3, SMT
    <2>a. q - 1 \in Int /\ n - 1 \in 0..(n - 1)
      BY <1>1
    <2>b. ((q - 1) * n + (n - 1)) % n = n - 1
      BY <2>a, ModUnique
    <2>3. (j - 1) % n = n - 1
      BY <2>2, <2>b
    <2>4. ((j - 1) \div n) * n = j - n
      <3>1. (j - 1) \div n \in Nat
        BY <1>a, Division
      <3>2. ((j - 1) \div n) * n \in Nat
        BY <3>1, SMT
      <3> QED
        BY <1>a, <2>3, <3>2
    <2>5. q * n >= n
      BY <1>1, <2>1, MultipleApart
    <2> QED
      BY <1>1, <1>3, <2>4, <2>5 DEF Splice
  <1>4. CASE r # 0
    <2>1. j - 1 = q * n + (r - 1)
      BY <1>1, <1>4
    <2>a. q \in Int /\ r - 1 \in 0..(n - 1)
      BY <1>1, <1>4
    <2>b. (q * n + (r - 1)) % n = r - 1
      BY <2>a, ModUnique
    <2>2. (j - 1) % n = r - 1
      BY <2>1, <2>b
    <2>3. ((j - 1) \div n) * n = j - r
      <3>1. (j - 1) \div n \in Nat
        BY <1>a, Division
      <3>2. ((j - 1) \div n) * n \in Nat
        BY <3>1, SMT
      <3> QED
        BY <1>1, <1>a, <2>2, <3>2
    <2> QED
      BY <1>1, <1>4, <2>3 DEF Splice
  <1> QED
    BY <1>3, <1>4

\* A new anchor is a value of the clock and lies behind it by a word at most.
LEMMA CopyBehind ==
    ASSUME jiffy \in 0 .. Day - 1, NEW copy \in Copies(jiffy)
    PROVE  copy \in 0 .. Day - 1 /\ elapsed(jiffy, copy) \in 0 .. Word
  <1>1. /\ Byte \in Nat \ {0} /\ Word \in Nat \ {0} /\ Day \in Nat \ {0} /\ Wrap \in Nat
        /\ Byte <= Word /\ Word < Day /\ Day < Wrap
    BY JiffyAssumption, ClockAssumption
  <1>2. CASE copy = jiffy
    BY <1>1, <1>2 DEF elapsed
  <1>3. CASE copy # jiffy /\ jiffy > 0
    <2>1. Before(jiffy) = jiffy - 1
      BY <1>3 DEF Before
    <2>2. copy \in {jiffy - Byte, jiffy - Word} /\ copy >= 0
      BY <1>1, <1>3, <2>1, SpliceBelow DEF Copies
    <2> QED
      BY <1>1, <1>3, <2>2 DEF elapsed
  <1>4. CASE copy # jiffy /\ jiffy = 0
    <2>1. Before(jiffy) = Day - 1
      BY <1>4 DEF Before
    <2>2. copy \in Day - Word .. Day - 1
      <3>1. CASE copy = Splice(Day - 1, 0, Byte)
        <4>a. 0 % Byte = 0 /\ Day % Byte = 0
          BY <1>1, JiffyAssumption
        <4>1. Splice(Day - 1, Day, Byte) = Day - Byte /\ 0 % Byte = Day % Byte
          BY <1>1, <4>a, SpliceBelow
        <4> QED
          BY <1>1, <3>1, <4>1 DEF Splice
      <3>2. CASE copy = Splice(Day - 1, 0, Word)
        <4> DEFINE q == (Day - 1) \div Word
                   s == (Day - 1) % Word
        <4>1. Day - 1 \in Nat /\ 0 % Word = 0
          BY <1>1
        <4>2. q \in Nat /\ s \in 0 .. Word - 1 /\ Day - 1 = q * Word + s
          BY <1>1, <4>1, Division
        <4>3. q * Word \in Nat
          BY <1>1, <4>2, SMT
        <4>4. copy = q * Word
          BY <3>2, <4>1, <4>3 DEF Splice
        <4> HIDE DEF q, s
        <4> QED
          BY <1>1, <4>2, <4>3, <4>4
      <3> QED
        BY <1>4, <2>1, <3>1, <3>2 DEF Copies
    <2> QED
      BY <1>1, <1>4, <2>2 DEF elapsed
  <1> QED
    BY <1>1, <1>2, <1>3, <1>4

\* A reading, torn or not, is less than a word ahead of the clock.
LEMMA ReadingAhead ==
    ASSUME jiffy \in 0 .. Day - 1, NEW read \in LongReadings(jiffy)
    PROVE  read \in jiffy .. jiffy + Word - 1
  <1>1. /\ Byte \in Nat \ {0} /\ Word \in Nat \ {0} /\ Day \in Nat \ {0} /\ jiffy \in Nat
        /\ Byte <= Word
    BY JiffyAssumption
  <1>2. Before(jiffy) \in Nat
    BY <1>1 DEF Before
  <1>3. ASSUME NEW n \in {Byte, Word}, jiffy % n = 0
        PROVE  Splice(jiffy, Before(jiffy), n) \in jiffy .. jiffy + Word - 1
    <2>1. n \in Nat \ {0} /\ n <= Word
      BY <1>1
    <2>2. (jiffy \div n) * n = jiffy
      BY <1>1, <1>3, <2>1, Division
    <2>3. Before(jiffy) % n \in 0 .. n - 1
      BY <1>2, <2>1, Division
    <2> QED
      BY <1>1, <2>1, <2>2, <2>3 DEF Splice
  <1> QED
    BY <1>1, <1>3 DEF LongReadings, ShortReadings, LowFirst

\* What the clock counts since an anchor, and what a reading of it adds: less
\* than a word, unless the count goes past the day.
LEMMA ElapsedAhead ==
    ASSUME jiffy \in 0 .. Day - 1, NEW anchor \in 0 .. Day - 1, NEW read \in LongReadings(jiffy)
    PROVE  /\ elapsed(jiffy, anchor) \in 0 .. Day - 1
           /\ elapsed(read, anchor) \in 0 .. elapsed(jiffy, anchor) + Word - 1
           /\ elapsed(jiffy, anchor) + Word - 1 < Day =>
                  elapsed(read, anchor) >= elapsed(jiffy, anchor)
  <1>1. Word \in Nat \ {0} /\ Day \in Nat \ {0} /\ Wrap \in Nat /\ Day < Wrap
    BY JiffyAssumption, ClockAssumption
  <1>2. read \in jiffy .. jiffy + Word - 1
    BY ReadingAhead
  <1>3. elapsed(jiffy, anchor) = IF jiffy >= anchor THEN jiffy - anchor ELSE jiffy - anchor + Day
    BY <1>1 DEF elapsed
  <1>4. elapsed(read, anchor) = IF read >= anchor THEN read - anchor ELSE read - anchor + Day
    BY <1>1, <1>2 DEF elapsed
  <1> QED
    BY <1>1, <1>2, <1>3, <1>4

\* Jiffies make a whole number of seconds.
LEMMA SecondsNat ==
    ASSUME NEW n \in Nat
    PROVE  n \div Hz \in Nat
  BY DivBounds, ClockAssumption

\* A product below the next multiple.
LEMMA MultipleBelow ==
    ASSUME NEW x \in Int, NEW y \in Int, NEW h \in Nat \ {0}, h * x < h * y + h
    PROVE  x <= y
  <1> SUFFICES ASSUME x >= y + 1 PROVE FALSE
    OBVIOUS
  <1>1. h * (x - (y + 1)) >= 0
    OBVIOUS
  <1>2. h * (x - (y + 1)) = h * x - (h * y + h)
    OBVIOUS
  <1> QED
    BY <1>1, <1>2

\* Rounding the seconds of an interval down does not take its start, given
\* in seconds, past the second in which it ends.
LEMMA SecondsAdd ==
    ASSUME NEW b \in Nat, NEW e \in Nat, NEW n \in Nat, Hz * b + e <= n
    PROVE  b + e \div Hz <= n \div Hz
  <1>1. Hz \in Nat \ {0}
    BY ClockAssumption
  <1>2. e \div Hz \in Nat /\ Hz * (e \div Hz) <= e
    BY <1>1, DivBounds
  <1>3. n \div Hz \in Nat /\ n < Hz * (n \div Hz) + Hz
    BY <1>1, DivBounds
  <1>4. Hz * (b + e \div Hz) = Hz * b + Hz * (e \div Hz)
    BY <1>1, <1>2
  <1>5. Hz * b \in Nat /\ Hz * (e \div Hz) \in Nat /\ Hz * (n \div Hz) \in Nat
    BY <1>1, <1>2, <1>3
  <1>6. Hz * (b + e \div Hz) < Hz * (n \div Hz) + Hz
    BY <1>1, <1>2, <1>3, <1>4, <1>5
  <1> QED
    BY <1>1, <1>2, <1>3, <1>6, MultipleBelow

\* The anchor in use after tai64n_sync, kept or new.
LEMMA SyncTyped ==
    ASSUME TypeOK, NEW copy \in Copies(jiffy)
    PROVE  /\ tai64n_sync(copy).base = tai64n_base_time /\ tai64n_base_time \in Nat
           /\ tai64n_sync(copy).jiffy \in 0 .. Day - 1
           /\ tai64n_sync(copy).seq \in 0 .. Nanos - 1
           /\ tai64n_sync(copy).last = tai64n_last
  <1>1. copy \in 0 .. Day - 1 /\ 0 \in 0 .. Nanos - 1
    BY CopyBehind, ClockAssumption DEF TypeOK
  <1> QED
    BY <1>1 DEF TypeOK, tai64n_sync, tai64n_init, Running

\* The carry of tai64n_increment makes its result the next timestamp.
LEMMA IncrementAbove ==
    ASSUME NEW t \in Stamps
    PROVE  tai64n_increment(t) \in Stamps /\ Less(t, tai64n_increment(t))
  <1>1. t.sec \in Nat /\ t.nano \in 0 .. Nanos - 1 /\ Nanos \in Nat \ {0}
    BY ClockAssumption DEF Stamps
  <1>2. CASE t.nano + 1 = Nanos
    BY <1>1, <1>2 DEF Stamps, tai64n_increment, Less
  <1>3. CASE t.nano + 1 # Nanos
    <2>1. tai64n_increment(t) = [sec |-> t.sec, nano |-> t.nano + 1]
      BY <1>1, <1>3 DEF tai64n_increment, Stamps
    <2> QED
      BY <1>1, <1>3, <2>1 DEF Stamps, Less
  <1> QED
    BY <1>2, <1>3

\* tai64n_now, on any anchor, answers above what was emitted last.
LEMMA NowAbove ==
    ASSUME NEW a, a.base \in Nat, a.jiffy \in 0 .. Day - 1, a.seq \in 0 .. Nanos - 1,
           a.last \in Stamps, jiffy \in 0 .. Day - 1, NEW read \in LongReadings(jiffy)
    PROVE  /\ tai64n_now(a, read) \in Stamps
           /\ Less(a.last, tai64n_now(a, read))
  <1> DEFINE candidate == [sec  |-> a.base + elapsed(read, a.jiffy) \div Hz,
                           nano |-> (a.seq + 1) % Nanos]
  <1>1. elapsed(read, a.jiffy) \in Nat
    BY ElapsedAhead
  <1>2. elapsed(read, a.jiffy) \div Hz \in Nat
    BY <1>1, SecondsNat
  <1>3. (a.seq + 1) % Nanos \in 0 .. Nanos - 1
    BY ClockAssumption
  <1>4. candidate \in Stamps
    BY <1>2, <1>3 DEF Stamps
  <1>5. tai64n_now(a, read) = IF Less(a.last, candidate) THEN candidate ELSE tai64n_increment(a.last)
    BY DEF tai64n_now
  <1> HIDE DEF candidate
  <1> QED
    BY <1>4, <1>5, IncrementAbove

\* The initial state is well formed.
LEMMA StampInit == Init => TypeOK
  BY ClockAssumption, JiffyAssumption DEF Init, TypeOK, Zero, Stamps

\* The latest second a timestamp may claim.
LEMMA ReachNat ==
    ASSUME TypeOK
    PROVE  Reach \in Nat /\ Lead \in Nat /\ now + Lead \in Nat
  <1>1. Lead \in Nat /\ now + Lead \in Nat
    BY JiffyAssumption DEF Lead, TypeOK
  <1> QED
    BY <1>1, SecondsNat DEF Reach

\* What session_initiate does with an anchor and a reading.
Emitted(a, read) ==
    /\ tai64n_init_base' = a.base /\ tai64n_init_jiffy' = a.jiffy
    /\ tai64n_seq' = (a.seq + 1) % Nanos
    /\ tai64n_last' = tai64n_now(a, read)
    /\ greatest' = IF Less(greatest, tai64n_last') THEN tai64n_last' ELSE greatest
    /\ sent_in' = Reach
    /\ anchored_at' = IF tai64n_base_time # tai64n_init_base THEN now ELSE anchored_at
    /\ stamps' = stamps + 1
    /\ UNCHANGED <<jiffy, tai64n_base_time, now, earlier_sent_in, loads>>

\* An initiation emits one timestamp, with some anchor and some reading.
LEMMA InitiateEmits ==
    ASSUME session_initiate
    PROVE  \E copy \in Copies(jiffy), read \in LongReadings(jiffy) :
               Emitted(tai64n_sync(copy), read)
  <1>1. PICK copy \in Copies(jiffy), read \in LongReadings(jiffy) :
            LET a == tai64n_sync(copy)
                stamp == tai64n_now(a, read)
            IN  /\ stamps < MaxStamps
                /\ tai64n_init_base' = a.base /\ tai64n_init_jiffy' = a.jiffy
                /\ tai64n_seq' = (a.seq + 1) % Nanos
                /\ tai64n_last' = stamp
                /\ greatest' = IF Less(greatest, stamp) THEN stamp ELSE greatest
                /\ sent_in' = Reach
                /\ anchored_at' = IF tai64n_base_time # tai64n_init_base THEN now ELSE anchored_at
                /\ stamps' = stamps + 1
                /\ UNCHANGED <<jiffy, tai64n_base_time, now, earlier_sent_in, loads>>
    BY Zenon DEF session_initiate
  <1>2. Emitted(tai64n_sync(copy), read)
    BY <1>1 DEF Emitted
  <1> QED
    BY <1>2

\* Every step keeps the state well formed.
LEMMA StampNext == TypeOK /\ [Next]_vars => TypeOK'
  <1> SUFFICES ASSUME TypeOK, [Next]_vars PROVE TypeOK'
    OBVIOUS
  <1>1. CASE UDTIM
    BY <1>1, JiffyAssumption DEF UDTIM, TypeOK, prg, ghosts
  <1>2. CASE stage_base_time
    <2>1. tai64n_base_time' \in Nat
      BY <1>2, ClockAssumption DEF stage_base_time
    <2> QED
      BY <1>2, <2>1 DEF stage_base_time, TypeOK, ghosts
  <1>3. CASE session_initiate
    <2>1. PICK copy \in Copies(jiffy), read \in LongReadings(jiffy) :
              Emitted(tai64n_sync(copy), read)
      BY <1>3, InitiateEmits
    <2>2. tai64n_now(tai64n_sync(copy), read) \in Stamps
      BY SyncTyped, NowAbove DEF TypeOK
    <2>3. (tai64n_sync(copy).seq + 1) % Nanos \in 0 .. Nanos - 1
      BY SyncTyped, ClockAssumption
    <2>4. Reach \in Nat
      BY ReachNat
    <2>5. tai64n_last' \in Stamps /\ greatest' \in Stamps
      BY <2>1, <2>2 DEF Emitted, TypeOK
    <2>6. /\ tai64n_init_base' \in Nat
          /\ tai64n_init_jiffy' \in 0 .. Day - 1
          /\ tai64n_seq' \in 0 .. Nanos - 1
      BY <2>1, <2>3, SyncTyped DEF Emitted
    <2>7. {sent_in', anchored_at', stamps'} \subseteq Nat
      BY <2>1, <2>4 DEF Emitted, TypeOK
    <2> QED
      BY <2>1, <2>5, <2>6, <2>7 DEF Emitted, TypeOK
  <1>4. CASE load_prg
    BY <1>4, ClockAssumption, JiffyAssumption DEF load_prg, TypeOK, Zero, Stamps
  <1>5. CASE UNCHANGED vars
    BY <1>5 DEF vars, prg, ghosts, TypeOK
  <1> QED
    BY <1>1, <1>2, <1>3, <1>4, <1>5 DEF Next

\* Anchors, counters and timestamps stay within their fields.
THEOREM StampsTyped == Spec => []TypeOK
  BY StampInit, StampNext, PTL DEF Spec

\* Within a load, every initiation is stamped above all before it: what a
\* conformant peer needs to accept it.
THEOREM StampsAlwaysIncrease == Spec => StampsIncrease
  <1>1. TypeOK /\ [Next]_vars => [session_initiate => Less(tai64n_last, tai64n_last')]_vars
    <2> SUFFICES ASSUME TypeOK, session_initiate PROVE Less(tai64n_last, tai64n_last')
      OBVIOUS
    <2>1. PICK copy \in Copies(jiffy), read \in LongReadings(jiffy) :
              Emitted(tai64n_sync(copy), read)
      BY InitiateEmits
    <2>2. Less(tai64n_sync(copy).last, tai64n_now(tai64n_sync(copy), read))
      BY SyncTyped, NowAbove DEF TypeOK
    <2> QED
      BY <2>1, <2>2, SyncTyped DEF Emitted
  <1> QED
    BY <1>1, StampsTyped, PTL DEF Spec, StampsIncrease

-----------------------------------------------------------------------------

\* tai64n_sync leaves an anchor that lies in the past but for a word, kept or
\* new.
LEMMA SyncPast ==
    ASSUME TypeOK, AnchorPast, NEW copy \in Copies(jiffy)
    PROVE  Hz * tai64n_base_time + elapsed(jiffy, tai64n_sync(copy).jiffy) <= now + Word
  <1>1. CASE tai64n_base_time # tai64n_init_base
    <2>1. tai64n_sync(copy).jiffy = copy
      BY <1>1 DEF tai64n_sync, tai64n_init
    <2>2. elapsed(jiffy, copy) \in 0 .. Word
      BY CopyBehind DEF TypeOK
    <2>3. Hz * tai64n_base_time \in Nat /\ now \in Nat /\ Word \in Nat
      BY ClockAssumption, JiffyAssumption DEF TypeOK
    <2>4. Hz * tai64n_base_time <= now
      BY DEF AnchorPast
    <2> QED
      BY <2>1, <2>2, <2>3, <2>4
  <1>2. CASE tai64n_base_time = tai64n_init_base
    BY <1>2 DEF tai64n_sync, Running, AnchorPast
  <1> QED
    BY <1>1, <1>2

\* A timestamp is no earlier than the base time in use and the whole seconds
\* counted since its anchor.
LEMMA NowCovers ==
    ASSUME TypeOK, NEW copy \in Copies(jiffy), NEW read \in LongReadings(jiffy)
    PROVE  /\ tai64n_now(tai64n_sync(copy), read).sec
                  >= tai64n_base_time + elapsed(read, tai64n_sync(copy).jiffy) \div Hz
           /\ tai64n_now(tai64n_sync(copy), read).sec >= tai64n_base_time
  <1> DEFINE a == tai64n_sync(copy)
             candidate == [sec  |-> a.base + elapsed(read, a.jiffy) \div Hz,
                           nano |-> (a.seq + 1) % Nanos]
  <1>1. /\ a.base = tai64n_base_time /\ tai64n_base_time \in Nat
        /\ a.jiffy \in 0 .. Day - 1 /\ a.seq \in 0 .. Nanos - 1 /\ a.last \in Stamps
    BY SyncTyped DEF TypeOK
  <1>2. elapsed(read, a.jiffy) \in Nat
    BY <1>1, ElapsedAhead DEF TypeOK
  <1>3. elapsed(read, a.jiffy) \div Hz \in Nat
    BY <1>2, SecondsNat
  <1> DEFINE due == tai64n_base_time + elapsed(read, a.jiffy) \div Hz
  <1>5. candidate.sec = due /\ due \in Nat /\ due >= tai64n_base_time
    BY <1>1, <1>3
  <1>6. tai64n_now(a, read) = IF Less(a.last, candidate) THEN candidate
                              ELSE tai64n_increment(a.last)
    BY DEF tai64n_now
  <1>7. candidate.sec \in Nat /\ candidate.nano \in 0 .. Nanos - 1
    BY <1>1, <1>3, ClockAssumption
  <1> HIDE DEF a, candidate, due
  <1>8. CASE ~Less(a.last, candidate)
    <2>1. a.last.sec >= due
      BY <1>1, <1>5, <1>7, <1>8 DEF Less, Stamps
    <2>2. tai64n_increment(a.last).sec >= a.last.sec
      BY <1>1 DEF tai64n_increment, Stamps
    <2>3. tai64n_increment(a.last) \in Stamps
      BY <1>1, IncrementAbove
    <2> QED
      BY <1>1, <1>5, <1>6, <1>8, <2>1, <2>2, <2>3 DEF a, due, Stamps
  <1>9. CASE Less(a.last, candidate)
    BY <1>5, <1>6, <1>9 DEF a, due
  <1> QED
    BY <1>8, <1>9

\* While the nanoseconds have room, a timestamp is within the reach of now.
LEMMA NowReaches ==
    ASSUME StampInv, stamps + 1 < Nanos,
           NEW copy \in Copies(jiffy), NEW read \in LongReadings(jiffy)
    PROVE  /\ tai64n_now(tai64n_sync(copy), read).sec <= Reach
           /\ tai64n_now(tai64n_sync(copy), read).nano <= stamps + 1
           /\ (tai64n_sync(copy).seq + 1) % Nanos <= stamps + 1
  <1> DEFINE a == tai64n_sync(copy)
             candidate == [sec  |-> a.base + elapsed(read, a.jiffy) \div Hz,
                           nano |-> (a.seq + 1) % Nanos]
  <1>a. FewStamps /\ SentPast
    BY ClockAssumption DEF StampInv, TypeOK
  <1>1. /\ a.base = tai64n_base_time /\ tai64n_base_time \in Nat
        /\ a.jiffy \in 0 .. Day - 1 /\ a.seq \in 0 .. Nanos - 1
        /\ a.last = tai64n_last
    BY SyncTyped DEF StampInv
  <1>2. /\ elapsed(jiffy, a.jiffy) \in Nat
        /\ elapsed(read, a.jiffy) \in 0 .. elapsed(jiffy, a.jiffy) + Word - 1
    BY <1>1, ElapsedAhead, JiffyAssumption DEF StampInv, TypeOK
  <1>3. a.base + elapsed(read, a.jiffy) \div Hz <= Reach
    <2>1. Hz * tai64n_base_time + elapsed(jiffy, a.jiffy) <= now + Word
      BY SyncPast DEF StampInv
    <2>2. /\ Hz * tai64n_base_time \in Nat /\ now \in Nat /\ Word \in Nat
          /\ now + Lead \in Nat /\ Lead = 2 * Word - 1
      BY <1>1, ClockAssumption, JiffyAssumption, ReachNat DEF StampInv, TypeOK, Lead
    <2>3. elapsed(read, a.jiffy) \in Nat
      BY <1>2, <2>2
    <2> HIDE DEF a
    <2>4. Hz * tai64n_base_time + elapsed(read, a.jiffy) <= now + Lead
      BY <1>2, <2>1, <2>2, <2>3
    <2>5. tai64n_base_time + elapsed(read, a.jiffy) \div Hz <= (now + Lead) \div Hz
      BY <1>1, <2>2, <2>3, <2>4, SecondsAdd
    <2> QED
      BY <1>1, <2>5 DEF Reach
  <1>4. a.seq <= stamps
    BY <1>a DEF tai64n_sync, tai64n_init, Running, StampInv, FewStamps, TypeOK
  <1>5. (a.seq + 1) % Nanos = a.seq + 1
    BY <1>1, <1>4, ClockAssumption DEF StampInv, TypeOK
  <1>7. elapsed(read, a.jiffy) \div Hz \in Nat
    <2>1. elapsed(read, a.jiffy) \in Nat
      BY <1>2, JiffyAssumption
    <2> QED
      BY <2>1, SecondsNat
  <1>8. tai64n_now(a, read) = IF Less(tai64n_last, candidate) THEN candidate
                              ELSE tai64n_increment(tai64n_last)
    BY <1>1 DEF tai64n_now
  <1>9. /\ tai64n_increment(tai64n_last).sec = tai64n_last.sec
        /\ tai64n_increment(tai64n_last).nano = tai64n_last.nano + 1
    <2>1. tai64n_last.nano \in Nat /\ tai64n_last.nano + 1 # Nanos
      BY <1>a, ClockAssumption DEF StampInv, FewStamps, TypeOK, Stamps
    <2>2. tai64n_increment(tai64n_last) = [tai64n_last EXCEPT !.nano = @ + 1]
      BY <2>1 DEF tai64n_increment
    <2> QED
      BY <2>2 DEF StampInv, TypeOK, Stamps
  <1>10. candidate.sec = a.base + elapsed(read, a.jiffy) \div Hz /\ candidate.nano = a.seq + 1
    BY <1>5
  <1>11. /\ tai64n_last.sec <= Reach /\ tai64n_last.nano <= stamps
         /\ Reach \in Nat /\ tai64n_last.sec \in Nat
    BY <1>a, ReachNat DEF StampInv, SentPast, FewStamps, TypeOK, Stamps
  <1>12. stamps \in Nat /\ tai64n_last.nano \in Nat
    BY ClockAssumption DEF StampInv, TypeOK, Stamps
  <1> HIDE DEF a, candidate
  <1>13. CASE tai64n_now(a, read) = candidate
    BY <1>1, <1>3, <1>4, <1>5, <1>7, <1>10, <1>12, <1>13 DEF a
  <1>14. CASE tai64n_now(a, read) = tai64n_increment(tai64n_last)
    BY <1>1, <1>4, <1>5, <1>9, <1>11, <1>12, <1>14 DEF a
  <1> QED
    BY <1>8, <1>13, <1>14

\* The invariant holds initially.
LEMMA StampInvInit == Init => StampInv
  <1> SUFFICES ASSUME Init PROVE StampInv
    OBVIOUS
  <1>1. TypeOK
    BY StampInit
  <1>2. AnchorPast
    BY ClockAssumption, JiffyAssumption DEF Init, AnchorPast, elapsed
  <1>3. Reach \in Nat
    BY <1>1, ReachNat
  <1> QED
    BY <1>1, <1>2, <1>3, ClockAssumption
    DEF Init, StampInv, FewStamps, SentPast, GreatestIsLast, Zero

\* Every step keeps the invariant, while the nanoseconds have room.
LEMMA StampInvNext ==
    StampInv /\ [Next]_vars => StampInv'
  <1> SUFFICES ASSUME StampInv, [Next]_vars PROVE StampInv'
    OBVIOUS
  <1>1. TypeOK /\ TypeOK'
    BY StampNext DEF StampInv
  <1>a. /\ Reach \in Nat /\ Lead \in Nat /\ Word \in Nat
        /\ Hz * tai64n_init_base \in Nat /\ Hz * tai64n_base_time \in Nat
    BY <1>1, ReachNat, ClockAssumption, JiffyAssumption DEF TypeOK
  <1>2. CASE UDTIM
    <2> DEFINE e == elapsed(jiffy, tai64n_init_jiffy)
    <2>1. e' <= e + 1 /\ e \in Nat /\ e' \in Nat
      <3>1. /\ jiffy \in 0 .. Day - 1 /\ tai64n_init_jiffy \in 0 .. Day - 1
            /\ Day \in Nat /\ Wrap \in Nat /\ Day < Wrap
        BY <1>1, ClockAssumption, JiffyAssumption DEF TypeOK
      <3>2. /\ jiffy' = IF jiffy + 1 = Day THEN 0 ELSE jiffy + 1
            /\ tai64n_init_jiffy' = tai64n_init_jiffy
        BY <1>2 DEF UDTIM, prg
      <3> QED
        BY <3>1, <3>2 DEF elapsed
    <2> HIDE DEF e
    <2>3. AnchorPast'
      <3>1. Hz * tai64n_init_base + e <= now + Word
        BY DEF StampInv, AnchorPast, e
      <3>2. now' = now + 1 /\ now \in Nat /\ UNCHANGED prg
        BY <1>1, <1>2 DEF UDTIM, TypeOK
      <3>3. Hz * tai64n_init_base + e' <= now' + Word
        BY <1>a, <2>1, <3>1, <3>2
      <3>4. jiffy' <= now' /\ Hz * tai64n_base_time <= now'
        BY <1>1, <1>2, <1>a, <3>2, JiffyAssumption DEF UDTIM, StampInv, AnchorPast, TypeOK
      <3> QED
        BY <3>2, <3>3, <3>4 DEF AnchorPast, prg, e
    <2>4. Reach <= Reach'
      <3>1. now \in Nat /\ now' = now + 1 /\ now + Lead \in Nat /\ now + 1 + Lead \in Nat
        BY <1>1, <1>2, <1>a DEF TypeOK, UDTIM
      <3>2. 0 + (now + Lead) \div Hz <= (now + 1 + Lead) \div Hz
        BY <1>a, <3>1, SecondsAdd, ClockAssumption
      <3> QED
        BY <1>a, <3>1, <3>2 DEF Reach, Lead
    <2>5. Reach' \in Nat
      <3>1. now' + Lead \in Nat
        BY <1>1, <1>a DEF TypeOK
      <3> QED
        BY <3>1, SecondsNat DEF Reach, Lead
    <2> QED
      BY <1>1, <1>2, <1>a, <2>3, <2>4, <2>5
      DEF UDTIM, prg, ghosts, StampInv, FewStamps, SentPast, GreatestIsLast, TypeOK
  <1>3. CASE stage_base_time
    <2>1. Hz * tai64n_base_time' <= now
      <3>a. Second \in Nat
        BY <1>1, SecondsNat DEF Second, TypeOK
      <3>1. tai64n_base_time' \in 0 .. Second
        BY <1>3, <3>a, ClockAssumption DEF stage_base_time
      <3>2. Hz * Second <= now
        BY <1>1, DivBounds, ClockAssumption DEF Second, TypeOK
      <3>3. Hz * (Second - tai64n_base_time') >= 0
        BY <3>a, <3>1, ClockAssumption
      <3>4. Hz * (Second - tai64n_base_time') = Hz * Second - Hz * tai64n_base_time'
        BY <3>a, <3>1, ClockAssumption
      <3>5. Hz * Second \in Nat /\ Hz * tai64n_base_time' \in Nat
        BY <3>a, <3>1, ClockAssumption
      <3> QED
        BY <1>1, <3>2, <3>3, <3>4, <3>5 DEF TypeOK
    <2>2. AnchorPast'
      BY <1>3, <2>1 DEF stage_base_time, AnchorPast, StampInv, elapsed
    <2> QED
      BY <1>1, <1>3, <2>2
      DEF stage_base_time, ghosts, StampInv, FewStamps, SentPast, GreatestIsLast, Reach, Lead
  <1>4. CASE session_initiate
    <2>1. PICK copy \in Copies(jiffy), read \in LongReadings(jiffy) :
              Emitted(tai64n_sync(copy), read)
      BY <1>4, InitiateEmits
    <2>2. stamps' = stamps + 1 /\ Reach' = Reach
      BY <2>1 DEF Emitted, Reach, Lead
    <2>3. AnchorPast'
      <3>1. /\ tai64n_init_base' = tai64n_base_time
            /\ tai64n_init_jiffy' = tai64n_sync(copy).jiffy
        BY <1>1, <2>1, SyncTyped DEF Emitted
      <3>2. Hz * tai64n_base_time + elapsed(jiffy, tai64n_sync(copy).jiffy) <= now + Word
        BY <1>1, SyncPast DEF StampInv
      <3> QED
        BY <2>1, <3>1, <3>2 DEF Emitted, AnchorPast, StampInv, elapsed
    <2> SUFFICES ASSUME stamps + 1 < Nanos
                 PROVE  FewStamps' /\ SentPast' /\ GreatestIsLast'
      BY <1>1, <2>2, <2>3 DEF StampInv
    <2>4. FewStamps /\ SentPast /\ GreatestIsLast
      BY <1>1, ClockAssumption DEF StampInv, TypeOK
    <2>5. /\ tai64n_last'.sec <= Reach
          /\ tai64n_last'.nano <= stamps + 1
          /\ tai64n_seq' <= stamps + 1
      BY <2>1, NowReaches DEF Emitted
    <2>6. FewStamps'
      BY <1>1, <2>2, <2>5, ClockAssumption DEF FewStamps, TypeOK
    <2>7. SentPast'
      BY <1>1, <1>a, <2>1, <2>2, <2>4, <2>5 DEF Emitted, SentPast, TypeOK, Stamps
    <2>8. GreatestIsLast'
      <3>1. Less(tai64n_last, tai64n_last')
        BY <1>1, <2>1, SyncTyped, NowAbove DEF TypeOK, Emitted
      <3> QED
        BY <2>1, <3>1, <2>4 DEF Emitted, GreatestIsLast
    <2> QED
      BY <2>6, <2>7, <2>8
  <1>5. CASE load_prg
    <2>1. AnchorPast'
      BY <1>1, <1>5, <1>a, ClockAssumption, JiffyAssumption
      DEF load_prg, AnchorPast, StampInv, elapsed, TypeOK
    <2> QED
      BY <1>1, <1>5, <1>a, <2>1
      DEF load_prg, StampInv, FewStamps, SentPast, GreatestIsLast, Reach, Lead, Zero, TypeOK
  <1>6. CASE UNCHANGED vars
    BY <1>1, <1>6
    DEF vars, prg, ghosts, StampInv, AnchorPast, FewStamps, SentPast, GreatestIsLast,
        Reach, Lead, elapsed
  <1> QED
    BY <1>2, <1>3, <1>4, <1>5, <1>6 DEF Next

\* Torn readings put a timestamp ahead of the host clock by less than two words
\* of jiffies (36 minutes), and do not add up through any number of midnights,
\* base times and loads, until the nanoseconds have been counted through.
THEOREM StampsLeadBounded == Spec => []LeadBounded
  <1>1. StampInv => LeadBounded
    <2> SUFFICES ASSUME StampInv PROVE LeadBounded
      OBVIOUS
    <2>1. Reach \in Nat
      BY ReachNat DEF StampInv
    <2> QED
      BY <2>1 DEF StampInv, TypeOK, Stamps, SentPast, LeadBounded
  <1> QED
    BY <1>1, StampInvInit, StampInvNext, PTL DEF Spec

\* After a LOAD a base time past what the earlier loads can have claimed, torn
\* readings included, is enough for a peer that has seen all that they sent.
THEOREM LoadAccepted == Spec => AcceptedAfterLoad
  <1>1. StampInv /\ [Next]_vars =>
          [(session_initiate /\ stamps < Nanos /\ tai64n_base_time > earlier_sent_in)
            => Less(greatest, tai64n_last')]_vars
    <2> SUFFICES ASSUME StampInv, session_initiate, stamps < Nanos,
                        tai64n_base_time > earlier_sent_in
                 PROVE  Less(greatest, tai64n_last')
      OBVIOUS
    <2>a. PICK copy \in Copies(jiffy), read \in LongReadings(jiffy) :
              Emitted(tai64n_sync(copy), read)
      BY InitiateEmits
    <2>1. Less(tai64n_last, tai64n_last') /\ tai64n_last' \in Stamps
      BY <2>a, SyncTyped, NowAbove DEF StampInv, TypeOK, Emitted
    <2>2. CASE greatest = tai64n_last
      BY <2>1, <2>2
    <2>3. CASE greatest.sec <= earlier_sent_in
      <3>1. tai64n_last'.sec >= tai64n_base_time
        BY <2>a, NowCovers DEF Emitted, StampInv
      <3> QED
        BY <2>1, <2>3, <3>1 DEF Less, StampInv, TypeOK, Stamps
    <2> QED
      BY <2>2, <2>3 DEF StampInv, GreatestIsLast
  <1> QED
    BY <1>1, StampInvInit, StampInvNext, PTL DEF Spec, AcceptedAfterLoad

-----------------------------------------------------------------------------
(* Keeping up *)

\* One more jiffy, midnight or not, is one more jiffy counted, unless the
\* count has reached the day.
LEMMA TickCounts ==
    ASSUME TypeOK, UDTIM, elapsed(jiffy, tai64n_init_jiffy) < Day - 1
    PROVE  elapsed(jiffy, tai64n_init_jiffy)' = elapsed(jiffy, tai64n_init_jiffy) + 1
  <1>1. /\ jiffy \in 0 .. Day - 1 /\ tai64n_init_jiffy \in 0 .. Day - 1
        /\ Day \in Nat /\ Wrap \in Nat /\ Day < Wrap
    BY ClockAssumption, JiffyAssumption DEF TypeOK
  <1>2. /\ jiffy' = IF jiffy + 1 = Day THEN 0 ELSE jiffy + 1
        /\ tai64n_init_jiffy' = tai64n_init_jiffy
    BY DEF UDTIM, prg
  <1>3. CASE jiffy + 1 = Day
    BY <1>1, <1>2, <1>3 DEF elapsed
  <1>4. CASE jiffy + 1 # Day
    BY <1>1, <1>2, <1>4 DEF elapsed
  <1> QED
    BY <1>3, <1>4

\* After session_initiate's tai64n_sync the anchor is as old as the host says,
\* or a word older.
LEMMA SyncCounts ==
    ASSUME TypeOK, CountsUp, tai64n_base_time # 0,
           NEW copy \in Copies(jiffy), NEW read \in LongReadings(jiffy),
           Emitted(tai64n_sync(copy), read)
    PROVE  /\ anchored_at' <= now
           /\ now - anchored_at' + Word < Day =>
                  elapsed(jiffy, tai64n_sync(copy).jiffy) \in
                      (now - anchored_at') .. (now - anchored_at' + Word)
  <1>1. CASE tai64n_base_time # tai64n_init_base
    <2>1. anchored_at' = now /\ tai64n_sync(copy).jiffy = copy
      BY <1>1 DEF Emitted, tai64n_sync, tai64n_init
    <2>2. elapsed(jiffy, copy) \in 0 .. Word
      BY CopyBehind DEF TypeOK
    <2> QED
      BY <2>1, <2>2, JiffyAssumption DEF TypeOK
  <1>2. CASE tai64n_base_time = tai64n_init_base
    BY <1>2 DEF Emitted, tai64n_sync, Running, CountsUp
  <1> QED
    BY <1>1, <1>2

\* Every step keeps the count right.
LEMMA CountsNext == TypeOK /\ CountsUp /\ [Next]_vars => CountsUp'
  <1> SUFFICES ASSUME TypeOK, CountsUp, [Next]_vars PROVE CountsUp'
    OBVIOUS
  <1>1. CASE UDTIM
    <2>1. now \in Nat /\ anchored_at \in Nat /\ Day \in Nat /\ Word \in Nat
      BY JiffyAssumption DEF TypeOK
    <2>2. /\ now' = now + 1 /\ anchored_at' = anchored_at
          /\ tai64n_init_base' = tai64n_init_base
      BY <1>1 DEF UDTIM, prg, ghosts
    <2> DEFINE e == elapsed(jiffy, tai64n_init_jiffy)
    <2>3. e < Day - 1 => e' = e + 1
      BY <1>1, TickCounts
    <2> HIDE DEF e
    <2>4. ASSUME tai64n_init_base # 0
          PROVE  /\ anchored_at' <= now'
                 /\ now' - anchored_at' + Word < Day =>
                        e' \in (now' - anchored_at') .. (now' - anchored_at' + Word)
      <3>1. /\ anchored_at <= now
            /\ now - anchored_at + Word < Day =>
                   e \in (now - anchored_at) .. (now - anchored_at + Word)
        BY <2>4 DEF CountsUp, e
      <3> QED
        BY <2>1, <2>2, <2>3, <3>1
    <2> QED
      BY <2>2, <2>4 DEF CountsUp, e
  <1>2. CASE stage_base_time
    BY <1>2 DEF stage_base_time, ghosts, CountsUp, elapsed
  <1>3. CASE session_initiate
    <2>1. PICK copy \in Copies(jiffy), read \in LongReadings(jiffy) :
              Emitted(tai64n_sync(copy), read)
      BY <1>3, InitiateEmits
    <2>2. tai64n_init_base' = tai64n_base_time /\ tai64n_init_jiffy' = tai64n_sync(copy).jiffy
      BY <2>1, SyncTyped DEF Emitted
    <2>3. jiffy' = jiffy /\ now' = now
      BY <2>1 DEF Emitted
    <2> QED
      BY <2>1, <2>2, <2>3, SyncCounts DEF CountsUp, elapsed
  <1>4. CASE load_prg
    BY <1>4 DEF load_prg, CountsUp
  <1>5. CASE UNCHANGED vars
    BY <1>5 DEF vars, prg, ghosts, CountsUp, elapsed
  <1> QED
    BY <1>1, <1>2, <1>3, <1>4, <1>5 DEF Next

\* For a day, less two words, after a base time was first used no timestamp lags
\* behind the host by more than the fraction of a second it drops, midnight and
\* torn readings included.
THEOREM StampsKeepUp == Spec => KeepsUp
  <1>1. Init => CountsUp
    BY DEF Init, CountsUp
  <1>2. TypeOK /\ CountsUp =>
          [(session_initiate /\ tai64n_base_time # 0 /\ now - anchored_at' + Lead < Day)
            => tai64n_last'.sec >= tai64n_base_time + (now - anchored_at') \div Hz]_vars
    <2> SUFFICES ASSUME TypeOK, CountsUp, session_initiate, tai64n_base_time # 0,
                        now - anchored_at' + Lead < Day
                 PROVE  tai64n_last'.sec >= tai64n_base_time + (now - anchored_at') \div Hz
      OBVIOUS
    <2>1. PICK copy \in Copies(jiffy), read \in LongReadings(jiffy) :
              Emitted(tai64n_sync(copy), read)
      BY InitiateEmits
    <2> DEFINE age == now - anchored_at'
               anchor == tai64n_sync(copy).jiffy
    <2>2. Word \in Nat \ {0} /\ Day \in Nat /\ Lead = 2 * Word - 1 /\ now \in Nat
      BY JiffyAssumption DEF Lead, TypeOK
    <2>3. anchored_at' \in Nat
      BY <2>1 DEF Emitted, TypeOK
    <2>4. age \in Nat /\ (age + Word < Day => elapsed(jiffy, anchor) \in age .. age + Word)
      <3>1. anchored_at' <= now /\ (age + Word < Day => elapsed(jiffy, anchor) \in age .. age + Word)
        BY <2>1, SyncCounts
      <3>2. anchored_at' <= now
        BY <3>1
      <3>3. \A a, b \in Nat : b <= a => a - b \in Nat
        OBVIOUS
      <3>4. now \in Nat
        BY <2>2
      <3>5. now - anchored_at' \in Nat
        BY <2>3, <3>2, <3>3, <3>4
      <3> QED
        BY <3>1, <3>5
    <2>5. /\ elapsed(read, anchor) \in 0 .. elapsed(jiffy, anchor) + Word - 1
          /\ elapsed(jiffy, anchor) + Word - 1 < Day =>
                 elapsed(read, anchor) >= elapsed(jiffy, anchor)
      BY SyncTyped, ElapsedAhead DEF TypeOK
    <2>6. tai64n_last'.sec >= tai64n_base_time + elapsed(read, anchor) \div Hz
      BY <2>1, NowCovers DEF Emitted
    <2>7. tai64n_last'.sec \in Nat /\ tai64n_base_time \in Nat
      BY <2>1, SyncTyped, NowAbove DEF Emitted, TypeOK, Stamps
    <2> HIDE DEF age, anchor
    <2>8. age + Lead < Day
      BY DEF age
    <2>9. elapsed(read, anchor) \in Nat /\ elapsed(read, anchor) >= age
      BY <2>2, <2>4, <2>5, <2>8
    <2>10. 0 + age \div Hz <= elapsed(read, anchor) \div Hz
      BY <2>4, <2>9, SecondsAdd, ClockAssumption
    <2>11. age \div Hz \in Nat /\ elapsed(read, anchor) \div Hz \in Nat
      BY <2>4, <2>9, SecondsNat
    <2>12. tai64n_last'.sec >= tai64n_base_time + age \div Hz
      BY <2>6, <2>7, <2>10, <2>11
    <2> QED
      BY <2>12 DEF age
  <1> QED
    BY <1>1, <1>2, StampsTyped, CountsNext, PTL DEF Spec, KeepsUp

=============================================================================
