------------------------------- MODULE Tai64n -------------------------------
(***************************************************************************)
(* The timestamp of an initiation (tai64n.s): staged base time plus the    *)
(* jiffies since the anchor, held strictly above everything emitted since  *)
(* the program was loaded.  A peer accepts an initiation only if its       *)
(* timestamp is above the greatest it has seen (tools/wg_responder).       *)
(*                                                                         *)
(* A timestamp is a record of seconds and nanoseconds; comparing its       *)
(* twelve big-endian bytes is comparing the fields in that order.  Base    *)
(* times have ten decimal digits at most, so the 64 bits of the seconds    *)
(* are never exhausted; the 32 bits of the nanoseconds are (Nanos).        *)
(* A tick may tear a reading of the clock or an anchor (Jiffies).          *)
(***************************************************************************)
EXTENDS Jiffies

CONSTANTS
    Hz,          \* jiffies in a second: 60
    Wrap,        \* a three-byte subtraction is modulo this: 2^24
    Nanos,       \* values of the nanosecond field: 2^32
    BaseTimes,   \* bound: base times that are staged
    MaxStamps,   \* bound: initiations
    MaxLoads,    \* bound: LOADs of the program
    Horizon      \* bound: host time, in jiffies

ASSUME ClockAssumption ==
    /\ {Hz, Wrap, Nanos} \subseteq Nat \ {0}
    /\ Day + Word <= Wrap
    /\ BaseTimes \subseteq Nat /\ {MaxStamps, MaxLoads, Horizon} \subseteq Nat

VARIABLES
    jiffy,               \* $A0-$A2
    tai64n_base_time,    \* line 9 of WG.CFG, zero if it has none
    tai64n_init_base, tai64n_init_jiffy, tai64n_seq,
    tai64n_last,
    \* for the properties only
    now,                 \* host time since the epoch, in jiffies
    anchored_at,         \* when the base time in use was first used
    greatest,            \* the greatest timestamp ever emitted, by any load
    sent_in,             \* latest second the last emission can have claimed
    earlier_sent_in,     \* the same, of the loads before this one
    stamps, loads        \* counted for the bounds

prg == <<tai64n_base_time, tai64n_init_base, tai64n_init_jiffy, tai64n_seq, tai64n_last>>
ghosts == <<anchored_at, greatest, sent_in, earlier_sent_in, stamps, loads>>
vars == <<jiffy, prg, now, ghosts>>

Stamps == [sec : Nat, nano : 0 .. Nanos - 1]
Zero == [sec |-> 0, nano |-> 0]
Second == now \div Hz

\* A torn anchor is at most a word too old, a torn reading less than a word too
\* new: so far ahead of the host the seconds of a timestamp may run.
Lead == 2 * Word - 1
Reach == (now + Lead) \div Hz

Less(s, t) == s.sec < t.sec \/ (s.sec = t.sec /\ s.nano < t.nano)

TypeOK ==
    /\ jiffy \in 0 .. Day - 1
    /\ {tai64n_base_time, tai64n_init_base} \subseteq Nat
    /\ tai64n_init_jiffy \in 0 .. Day - 1
    /\ tai64n_seq \in 0 .. Nanos - 1
    /\ tai64n_last \in Stamps /\ greatest \in Stamps
    /\ {now, anchored_at, sent_in, earlier_sent_in, stamps, loads} \subseteq Nat

-----------------------------------------------------------------------------
(* tai64n.s *)

Running ==
    [base |-> tai64n_init_base, jiffy |-> tai64n_init_jiffy,
     seq  |-> tai64n_seq, last |-> tai64n_last]

\* Anchored to the staged base time and a copy of the clock; what was emitted
\* is kept.
tai64n_init(copy) ==
    [base |-> tai64n_base_time, jiffy |-> copy, seq |-> 0, last |-> tai64n_last]

\* Mutant: a new anchor forgets what was emitted.
tai64n_sync_forgets(copy) ==
    IF tai64n_base_time # tai64n_init_base
    THEN [tai64n_init(copy) EXCEPT !.last = Zero] ELSE Running

\* Mutant: every initiation anchors anew (issue #87).
tai64n_sync_always(copy) == tai64n_init(copy)

tai64n_sync(copy) ==
    IF tai64n_base_time # tai64n_init_base THEN tai64n_init(copy) ELSE Running

\* Mutant: the borrow of the subtraction is ignored.
elapsed_raw(read, anchor) == (read - anchor) % Wrap

\* Jiffies since the anchor; a clock behind it has been through midnight.
elapsed(read, anchor) == IF read >= anchor THEN read - anchor
                         ELSE (read - anchor + Day) % Wrap

tai64n_increment(t) ==
    IF t.nano + 1 = Nanos THEN [sec |-> t.sec + 1, nano |-> 0]
    ELSE [t EXCEPT !.nano = @ + 1]

tai64n_now(a, read) ==
    LET candidate == [sec  |-> a.base + elapsed(read, a.jiffy) \div Hz,
                      nano |-> (a.seq + 1) % Nanos]
    IN  IF Less(a.last, candidate) THEN candidate ELSE tai64n_increment(a.last)

-----------------------------------------------------------------------------
(* The program and its surroundings *)

Init ==
    /\ jiffy \in 0 .. Day - 1
    /\ tai64n_base_time = 0
    /\ tai64n_init_base = 0 /\ tai64n_init_jiffy = 0 /\ tai64n_seq = 0
    /\ tai64n_last = Zero /\ greatest = Zero
    /\ now = Day
    /\ anchored_at = 0 /\ sent_in = 0 /\ earlier_sent_in = 0
    /\ stamps = 0 /\ loads = 0

\* The KERNAL's interrupt.
UDTIM ==
    /\ now < Horizon
    /\ now' = now + 1
    /\ jiffy' = IF jiffy + 1 = Day THEN 0 ELSE jiffy + 1
    /\ UNCHANGED <<prg, ghosts>>

\* Key L, or a host tool that writes the buffer: a time no later than the
\* host's own, or none.
stage_base_time ==
    /\ tai64n_base_time' \in BaseTimes /\ tai64n_base_time' <= Second
    /\ tai64n_base_time' # tai64n_base_time
    /\ UNCHANGED <<jiffy, tai64n_init_base, tai64n_init_jiffy, tai64n_seq, tai64n_last,
                   now, ghosts>>

\* The calls of session_initiate: config_load's tai64n_sync, then tai64n_now.
session_initiate ==
    \E copy \in Copies(jiffy), read \in LongReadings(jiffy) :
        LET a == tai64n_sync(copy)
            stamp == tai64n_now(a, read)
        IN  /\ stamps < MaxStamps
            /\ tai64n_init_base' = a.base /\ tai64n_init_jiffy' = a.jiffy
            /\ tai64n_seq' = (a.seq + 1) % Nanos
            /\ tai64n_last' = stamp
            /\ greatest' = IF Less(greatest, stamp) THEN stamp ELSE greatest
            /\ sent_in' = Reach
            /\ anchored_at' = IF tai64n_base_time # tai64n_init_base THEN now ELSE anchored_at
            /\ stamps' = stamps + 1
            /\ UNCHANGED <<jiffy, tai64n_base_time, now, earlier_sent_in, loads>>

\* LOAD: the image carries its variables as zero bytes, the clock runs on.
load_prg ==
    /\ loads < MaxLoads
    /\ loads' = loads + 1
    /\ tai64n_base_time' = 0 /\ tai64n_init_base' = 0 /\ tai64n_init_jiffy' = 0
    /\ tai64n_seq' = 0 /\ tai64n_last' = Zero
    /\ earlier_sent_in' = sent_in
    /\ UNCHANGED <<jiffy, now, anchored_at, greatest, sent_in, stamps>>

Next == UDTIM \/ stage_base_time \/ session_initiate \/ load_prg

Spec == Init /\ [][Next]_vars

-----------------------------------------------------------------------------
(* Properties *)

\* Every initiation carries a timestamp above all the earlier ones of this
\* load, whatever base times were staged in between and whatever the clock
\* did (issue #87).
StampsIncrease == [][session_initiate => Less(tai64n_last, tai64n_last')]_vars

\* Until the nanosecond field has counted through its values, no timestamp is
\* further ahead of the host, whose clock is what the next load starts from,
\* than a torn anchor and a torn reading can make it: midnight on the jiffy
\* clock adds no time, and torn readings do not add up.
LeadBounded == stamps < Nanos => tai64n_last.sec <= Reach /\ greatest.sec <= Reach

\* For a day after a real base time was first used, less what torn readings can
\* add, the seconds emitted keep up with the time that has gone by.
KeepsUp ==
    [][(session_initiate /\ tai64n_base_time # 0 /\ now - anchored_at' + Lead < Day)
        => tai64n_last'.sec >= tai64n_base_time + (now - anchored_at') \div Hz]_vars

\* After a LOAD, a base time past the latest second that the earlier loads can
\* have claimed when they last sent is enough to be accepted by a peer that has
\* seen all they sent.
AcceptedAfterLoad ==
    [][(session_initiate /\ stamps < Nanos /\ tai64n_base_time > earlier_sent_in)
        => Less(greatest, tai64n_last')]_vars

-----------------------------------------------------------------------------
(* The inductive invariant behind LeadBounded and AcceptedAfterLoad *)

\* Base times lie in the past; so do anchors, the jiffies counted since
\* included, but for the word that a torn one lacks.
AnchorPast ==
    /\ Hz * tai64n_base_time <= now
    /\ Hz * tai64n_init_base + elapsed(jiffy, tai64n_init_jiffy) <= now + Word
    /\ jiffy <= now

\* The nanosecond field counts initiations.
FewStamps == tai64n_seq <= stamps /\ tai64n_last.nano <= stamps

SentPast ==
    /\ tai64n_last.sec <= sent_in /\ greatest.sec <= sent_in
    /\ sent_in <= Reach /\ earlier_sent_in <= sent_in

\* Unless an earlier load went further, the last timestamp is the greatest.
GreatestIsLast == greatest = tai64n_last \/ greatest.sec <= earlier_sent_in

StampInv ==
    /\ TypeOK /\ AnchorPast
    /\ stamps < Nanos => FewStamps /\ SentPast /\ GreatestIsLast

-----------------------------------------------------------------------------
(* The inductive invariant behind KeepsUp *)

\* For a day, less the word that a torn anchor lacks, the clock and the anchor
\* tell the real time since the base time in use was first used, and at most
\* that word more, midnight in between or not.
CountsUp ==
    tai64n_init_base # 0 =>
        /\ anchored_at <= now
        /\ now - anchored_at + Word < Day =>
               elapsed(jiffy, tai64n_init_jiffy) \in
                   (now - anchored_at) .. (now - anchored_at + Word)

=============================================================================
