------------------------------ MODULE Jiffies ------------------------------
(***************************************************************************)
(* What a program gets that fetches the three bytes of the KERNAL's jiffy  *)
(* clock one after the other with interrupts on.  The state's clock, j, is *)
(* the value after the tick that may have fallen between two fetches: a    *)
(* fetch before it saw a byte of Before(j).  This shows only when the tick *)
(* carried into a byte fetched on the other side of it.                    *)
(*                                                                         *)
(* net_jiffy16 of net/ip65/net.s reads again when that happens; timer.s    *)
(* and tai64n.s do not.  A tick tears one reading at most, so allowing any *)
(* reading of the jiffy after a carry to be torn allows a little more than *)
(* the code.  In the code Byte = 2^8, Word = 2^16 and Day = $4F1A00.       *)
(***************************************************************************)
EXTENDS Integers

CONSTANTS
    Byte,   \* values of $A2
    Word,   \* values of $A1 and $A2
    Day     \* where the KERNAL takes the clock back to zero

ASSUME JiffyAssumption ==
    /\ {Byte, Word, Day} \subseteq Nat \ {0}
    /\ Byte <= Word /\ Word < Day
    /\ Day % Byte = 0

\* The clock one tick earlier.
Before(j) == IF j = 0 THEN Day - 1 ELSE j - 1

\* The low bytes, n values of them, of one reading under the rest of another.
Splice(rest, low, n) == (rest \div n) * n + (low % n)

\* $A0, $A1, $A2 in this order.
Copies(j) == {j, Splice(Before(j), j, Byte), Splice(Before(j), j, Word)}

\* The low bytes were fetched before the carry out of them, the rest after it.
LowFirst(j, n) == IF j % n = 0 THEN {Splice(j, Before(j), n)} ELSE {}

\* $A2, then $A1.
ShortReadings(j) == {j} \cup LowFirst(j, Byte)

\* $A2, $A1, $A0 in this order.
LongReadings(j) == ShortReadings(j) \cup LowFirst(j, Word)

=============================================================================
