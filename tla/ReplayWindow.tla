---------------------------- MODULE ReplayWindow ----------------------------
(***************************************************************************)
(* The anti-replay window of transport_decrypt (src/wg/transport.s): which *)
(* Type 4 counters are accepted under one receive key, and how the bitmap  *)
(* moves.  A bitmap of Window bits is indexed by counter % Window; it is   *)
(* a faithful record of the counters in (rw_counter_max - Window,          *)
(* rw_counter_max] only if every bit is cleared exactly when the window    *)
(* front passes it.                                                        *)
(*                                                                         *)
(* In the code Window = 2048, ClearLimit = 256, Block = 65536 and          *)
(* RejectLimit = 16 * 2^56.                                                *)
(***************************************************************************)
EXTENDS Integers

CONSTANTS
    Window,       \* bits in rw_bitmap
    ClearLimit,   \* an advance this long clears the whole bitmap
    Block,        \* counters that share bytes 2-7
    RejectLimit,  \* first counter refused outright (byte 7 = $10)
    MaxCounter    \* bound on the counters datagrams carry

ASSUME WindowAssumption == Window \in Nat \ {0}
ASSUME ClearLimitAssumption == ClearLimit \in Nat \ {0}
ASSUME BlockAssumption == Block \in Nat \ {0}
ASSUME CounterAssumption == RejectLimit \in Nat /\ MaxCounter \in Nat

VARIABLES
    rw_counter_max,  \* highest counter accepted
    rw_bitmap,       \* the set of bit positions that are 1
    accepted,        \* history: counters accepted under this key
    live             \* history: those accepted since the last @clear_all

vars == <<rw_counter_max, rw_bitmap, accepted, live>>

Counters == 0..MaxCounter
Bits == 0..(Window - 1)

\* A Type 4 datagram as transport_decrypt sees it: its counter, whether it is
\* long enough to hold header and tag, and whether the tag verifies under the
\* receive key.
Datagrams == [counter : Counters, whole : BOOLEAN, genuine : BOOLEAN]

TypeOK ==
    /\ rw_counter_max \in Counters
    /\ rw_bitmap \subseteq Bits
    /\ accepted \subseteq Counters
    /\ live \subseteq accepted

-----------------------------------------------------------------------------
\* Position of a counter in the bitmap: its low 11 bits.
Bit(c) == c % Window

\* Bytes 2-7 of the two counters agree.
SameBlock(c, d) == c \div Block = d \div Block

\* The check before decryption.  A counter below the maximum is compared byte
\* by byte above the low 16 bits, then by its distance, then by its bit.
ReplayOK(c) ==
    /\ c < RejectLimit
    /\ \/ c > rw_counter_max
       \/ /\ c < rw_counter_max => /\ SameBlock(c, rw_counter_max)
                                   /\ rw_counter_max - c < Window
          /\ c <= rw_counter_max
          /\ Bit(c) \notin rw_bitmap

\* The bit-by-bit clear is taken only for a short advance inside one block.
ShortAdvance(c) ==
    /\ SameBlock(c, rw_counter_max)
    /\ c - rw_counter_max < ClearLimit

\* Mutant: the clear starts one position late.
ClearedBitsLate(c) ==
    IF ShortAdvance(c) THEN {Bit(k) : k \in (rw_counter_max + 2)..c} ELSE Bits

\* Mutant: the clear also takes the old maximum's own bit.
ClearedBitsEarly(c) ==
    IF ShortAdvance(c) THEN {Bit(k) : k \in rw_counter_max..c} ELSE Bits

\* Bits zeroed by an advance to c: exactly the positions of
\* (rw_counter_max, c], or all of them.
ClearedBits(c) ==
    IF ShortAdvance(c) THEN {Bit(k) : k \in (rw_counter_max + 1)..c} ELSE Bits

-----------------------------------------------------------------------------
Init ==
    /\ rw_counter_max = 0
    /\ rw_bitmap = {}
    /\ accepted = {}
    /\ live = {}

\* transport_init after a completed handshake: a new key, an empty window.
transport_init ==
    /\ rw_counter_max' = 0
    /\ rw_bitmap' = {}
    /\ accepted' = {}
    /\ live' = {}

\* The datagram passes every check.  At or below the maximum only its bit is
\* set.
AcceptOld(d) ==
    /\ d.counter <= rw_counter_max
    /\ rw_bitmap' = rw_bitmap \cup {Bit(d.counter)}
    /\ live' = live \cup {d.counter}
    /\ UNCHANGED rw_counter_max

\* Above the maximum the window moves first.
AcceptNew(d) ==
    /\ d.counter > rw_counter_max
    /\ rw_bitmap' = (rw_bitmap \ ClearedBits(d.counter)) \cup {Bit(d.counter)}
    /\ live' = IF ShortAdvance(d.counter) THEN live \cup {d.counter}
                                          ELSE {d.counter}
    /\ rw_counter_max' = d.counter

\* transport_decrypt: refused by the window, by its length or by its tag, a
\* datagram leaves the window alone.
transport_decrypt(d) ==
    /\ ReplayOK(d.counter) /\ d.whole /\ d.genuine
    /\ AcceptOld(d) \/ AcceptNew(d)
    /\ accepted' = accepted \cup {d.counter}

Refuse(d) ==
    /\ ~(ReplayOK(d.counter) /\ d.whole /\ d.genuine)
    /\ UNCHANGED vars

Next ==
    \/ transport_init
    \/ \E d \in Datagrams : transport_decrypt(d) \/ Refuse(d)

Spec == Init /\ [][Next]_vars

-----------------------------------------------------------------------------
(* Properties *)

\* The ring buffer holds exactly the counters accepted since the last full
\* clear that are still inside the window: no bit is left over from a counter
\* one lap ago, and none is lost when the front passes it.
BitmapExact ==
    rw_bitmap = {Bit(c) : c \in {k \in live : rw_counter_max - k < Window}}

\* A counter accepted since the last full clear is never accepted again.
LiveNotReplayable == \A c \in live : ~ReplayOK(c)

\* A counter never accepted, inside the window and in the same block as the
\* maximum, is accepted when it arrives: reordering alone loses nothing.
FreshAccepted ==
    \A c \in Counters :
        /\ c < RejectLimit
        /\ c \notin accepted
        /\ SameBlock(c, rw_counter_max)
        /\ rw_counter_max - c < Window
        => ReplayOK(c)

\* What the window is for: no counter is accepted twice under one key.
NoReplay == \A c \in accepted : ~ReplayOK(c)

\* No accepted counter lies above the maximum.
AcceptedBelowMax == \A c \in accepted : c <= rw_counter_max

\* The inductive strengthening behind the invariants above.
WindowInv == TypeOK /\ BitmapExact /\ AcceptedBelowMax

\* Counters a full clear has forgotten can no longer reach the bitmap test:
\* too old, or in an earlier block.
ForgottenOutOfReach ==
    \A c \in accepted \ live :
        rw_counter_max - c >= Window \/ ~SameBlock(c, rw_counter_max)

=============================================================================
