------------------------- MODULE ReplayWindowProofs -------------------------
(***************************************************************************)
(* Proofs about ReplayWindow for every window size, clear limit, block and *)
(* counter range.                                                          *)
(***************************************************************************)
EXTENDS ReplayWindow, TLAPS

\* Division with remainder, as the provers need it spelled out.
LEMMA DivMod ==
    ASSUME NEW a \in Int, NEW n \in Nat \ {0}
    PROVE  /\ a \div n \in Int
           /\ a % n \in 0..(n - 1)
           /\ a = n * (a \div n) + (a % n)
  OBVIOUS

\* A positive multiple of n is at least n.
LEMMA MultipleAtLeast ==
    ASSUME NEW n \in Nat \ {0}, NEW k \in Int, k >= 1
    PROVE  n * k >= n
  OBVIOUS

\* Two counters less than a window apart share a bit only if they are equal:
\* why indexing by the low bits is sound.
LEMMA BitInjective ==
    ASSUME NEW a \in Nat, NEW b \in Nat, a <= b, b - a < Window,
           Bit(a) = Bit(b)
    PROVE  a = b
  <1> DEFINE q == b \div Window - a \div Window
  <1>1. /\ a \div Window \in Int
        /\ b \div Window \in Int
        /\ a = Window * (a \div Window) + (a % Window)
        /\ b = Window * (b \div Window) + (b % Window)
        /\ a % Window \in Int
    BY DivMod, WindowAssumption
  <1>2. b - a = Window * (b \div Window) - Window * (a \div Window)
    BY <1>1, WindowAssumption DEF Bit
  <1>3. Window * (b \div Window) - Window * (a \div Window) = Window * q
    BY <1>1, WindowAssumption
  <1>4. q < 1
    <2>1. SUFFICES ASSUME q >= 1 PROVE FALSE
      BY <1>1
    <2>2. Window * q >= Window
      BY <2>1, <1>1, MultipleAtLeast, WindowAssumption
    <2> QED BY <2>2, <1>2, <1>3, WindowAssumption
  <1>5. q > -1
    <2>1. SUFFICES ASSUME -q >= 1 PROVE FALSE
      BY <1>1
    <2>2. Window * (-q) >= Window
      BY <2>1, <1>1, MultipleAtLeast, WindowAssumption
    <2>3. Window * (-q) = -(Window * q)
      BY <1>1, WindowAssumption
    <2> QED BY <2>2, <2>3, <1>2, <1>3, WindowAssumption
  <1>6. q = 0
    BY <1>1, <1>4, <1>5
  <1> QED BY <1>2, <1>3, <1>6, WindowAssumption

LEMMA BitType == ASSUME NEW c \in Nat PROVE Bit(c) \in Bits
  BY DivMod, WindowAssumption DEF Bit, Bits

\* One lap later a counter has the same bit.
LEMMA BitPeriodic ==
    ASSUME NEW a \in Nat
    PROVE  Bit(a + Window) = Bit(a)
  <1>1. /\ a \div Window \in Int
        /\ a = Window * (a \div Window) + (a % Window)
        /\ a % Window \in 0..(Window - 1)
    BY DivMod, WindowAssumption
  <1>2. Window * (a \div Window) + Window = Window * (a \div Window + 1)
    BY <1>1, WindowAssumption
  <1>3. a + Window = Window * (a \div Window + 1) + (a % Window)
    BY <1>1, <1>2, WindowAssumption
  <1>4. ASSUME NEW b \in Nat, NEW q \in Int, NEW r \in 0..(Window - 1),
               b = Window * q + r
        PROVE  b % Window = r
    BY <1>4, WindowAssumption
  <1>5. a + Window \in Nat /\ a \div Window + 1 \in Int
    BY <1>1, WindowAssumption
  <1>6. (a + Window) % Window = a % Window
    <2> DEFINE b == a + Window
               q == a \div Window + 1
               r == a % Window
    <2>1. b \in Nat /\ q \in Int /\ r \in 0..(Window - 1) /\ b = Window * q + r
      BY <1>1, <1>3, <1>5
    <2> HIDE DEF b, q, r
    <2>2. b % Window = r
      BY <2>1, <1>4
    <2> QED BY <2>2 DEF b, r
  <1> QED BY <1>6 DEF Bit

\* Blocks are intervals: a counter between two of one block belongs to it.
LEMMA BlockInterval ==
    ASSUME NEW a \in Nat, NEW b \in Nat, NEW c \in Nat,
           a <= b, b <= c, SameBlock(a, c)
    PROVE  SameBlock(a, b) /\ SameBlock(b, c)
  <1>1. ASSUME NEW x \in Nat, NEW y \in Nat, x <= y
        PROVE  x \div Block <= y \div Block
    <2> DEFINE q == x \div Block - y \div Block
    <2>1. /\ x \div Block \in Int
          /\ y \div Block \in Int
          /\ x = Block * (x \div Block) + (x % Block)
          /\ y = Block * (y \div Block) + (y % Block)
          /\ x % Block \in 0..(Block - 1)
          /\ y % Block \in 0..(Block - 1)
      BY DivMod, BlockAssumption
    <2>2. SUFFICES ASSUME q >= 1 PROVE FALSE
      BY <2>1
    <2>3. Block * q >= Block
      BY <2>1, <2>2, MultipleAtLeast, BlockAssumption
    <2>4. Block * q = Block * (x \div Block) - Block * (y \div Block)
      BY <2>1, BlockAssumption
    <2> HIDE DEF q
    <2>5. Block * (x \div Block) \in Int /\ Block * (y \div Block) \in Int
      BY <2>1, BlockAssumption
    <2> QED BY <1>1, <2>1, <2>3, <2>4, <2>5, BlockAssumption
  <1>2. a \div Block <= b \div Block /\ b \div Block <= c \div Block
    BY <1>1
  <1>3. a \div Block \in Int /\ b \div Block \in Int /\ c \div Block \in Int
    BY DivMod, BlockAssumption
  <1> QED BY <1>2, <1>3 DEF SameBlock

-----------------------------------------------------------------------------
\* Accepting a counter at or below the maximum keeps the ring exact.
LEMMA AcceptOldExact ==
    ASSUME WindowInv, NEW d \in Datagrams, transport_decrypt(d), AcceptOld(d)
    PROVE  BitmapExact'
  <1>1. d.counter \in Nat /\ rw_counter_max \in Nat
    BY CounterAssumption DEF WindowInv, TypeOK, Datagrams, Counters
  <1>2. rw_counter_max - d.counter < Window
    BY <1>1, WindowAssumption DEF AcceptOld, transport_decrypt, ReplayOK
  <1> QED
    BY <1>1, <1>2 DEF AcceptOld, WindowInv, BitmapExact

\* Advancing bit by bit keeps the ring exact: the positions cleared are those
\* of the counters that leave the window, and no others.
LEMMA AcceptNewShortExact ==
    ASSUME WindowInv, NEW d \in Datagrams, AcceptNew(d),
           ShortAdvance(d.counter)
    PROVE  BitmapExact'
  <1> DEFINE c == d.counter
             m == rw_counter_max
             Kept == {k \in live \cup {c} : c - k < Window}
  <1>1. c \in Nat /\ m \in Nat /\ c > m
    BY CounterAssumption
    DEF WindowInv, TypeOK, Datagrams, Counters, AcceptNew
  <1>2. \A k \in live : k \in Nat /\ k <= m
    BY CounterAssumption DEF WindowInv, TypeOK, Counters, AcceptedBelowMax
  <1>3. rw_bitmap' = (rw_bitmap \ {Bit(k) : k \in (m + 1)..c}) \cup {Bit(c)}
    BY DEF AcceptNew, ClearedBits
  <1>4. live' = live \cup {c} /\ rw_counter_max' = c
    BY DEF AcceptNew
  <1>5. \A x : x \in rw_bitmap <=> \E k \in live : m - k < Window /\ x = Bit(k)
    BY DEF WindowInv, BitmapExact
  <1>6. ASSUME NEW x \in rw_bitmap', x # Bit(c)
        PROVE  \E k \in Kept : x = Bit(k)
    <2>1. x \in rw_bitmap /\ \A j \in (m + 1)..c : x # Bit(j)
      BY <1>3, <1>6
    <2>2. PICK k \in live : m - k < Window /\ x = Bit(k)
      BY <2>1, <1>5
    <2>3. k \in Nat /\ k <= m
      BY <1>2, <2>2
    <2>4. c - k < Window
      <3>1. SUFFICES ASSUME c - k >= Window PROVE FALSE
        BY <1>1, <2>3, WindowAssumption
      <3>2. k + Window \in (m + 1)..c
        BY <1>1, <2>2, <2>3, <3>1, WindowAssumption
      <3>3. Bit(k + Window) = x
        BY <2>2, <2>3, BitPeriodic
      <3> QED BY <2>1, <3>2, <3>3
    <2> QED BY <2>2, <2>4
  <1>7. ASSUME NEW k \in live, c - k < Window
        PROVE  Bit(k) \in rw_bitmap'
    <2>1. k \in Nat /\ k <= m
      BY <1>2
    <2>2. m - k < Window
      BY <1>1, <2>1, <1>7, WindowAssumption
    <2>3. Bit(k) \in rw_bitmap
      BY <1>5, <2>2
    <2>4. ASSUME NEW j \in (m + 1)..c, Bit(k) = Bit(j)
          PROVE  FALSE
      <3>1. j \in Nat /\ k <= j /\ j - k < Window /\ k # j
        BY <1>1, <1>7, <2>1, <2>4, WindowAssumption
      <3> QED BY <2>1, <2>4, <3>1, BitInjective
    <2> QED BY <1>3, <2>3, <2>4
  <1>8. Bit(c) \in rw_bitmap' /\ c \in Kept
    BY <1>1, <1>3, WindowAssumption
  <1>9. \A x : x \in rw_bitmap' <=> \E k \in Kept : x = Bit(k)
    BY <1>6, <1>7, <1>8
  <1>10. rw_bitmap' = {Bit(k) : k \in Kept}
    BY <1>9
  <1> QED BY <1>4, <1>10 DEF BitmapExact, Bit

\* A full clear leaves only the new maximum.
LEMMA AcceptNewClearExact ==
    ASSUME WindowInv, NEW d \in Datagrams, AcceptNew(d),
           ~ShortAdvance(d.counter)
    PROVE  BitmapExact'
  <1>1. d.counter \in Nat
    BY CounterAssumption DEF Datagrams, Counters
  <1>2. rw_bitmap' = {Bit(d.counter)}
    BY DEF AcceptNew, ClearedBits, WindowInv, TypeOK
  <1>3. live' = {d.counter} /\ rw_counter_max' = d.counter
    BY DEF AcceptNew
  <1>4. {k \in live' : rw_counter_max' - k < Window} = {d.counter}
    BY <1>1, <1>3, WindowAssumption
  <1> QED BY <1>2, <1>4 DEF BitmapExact, Bit
-----------------------------------------------------------------------------
\* Every reachable window is exact, whatever the datagrams carry.
LEMMA WindowInvInductive ==
    WindowInv /\ [Next]_vars => WindowInv'
  <1> SUFFICES ASSUME WindowInv, [Next]_vars PROVE WindowInv'
    OBVIOUS
  <1>1. CASE transport_init
    BY <1>1, WindowAssumption, CounterAssumption
    DEF transport_init, WindowInv, TypeOK, BitmapExact, AcceptedBelowMax,
        Counters, Bits
  <1>2. ASSUME NEW d \in Datagrams, transport_decrypt(d)
        PROVE  WindowInv'
    <2>1. d.counter \in Counters /\ d.counter \in Nat /\ rw_counter_max \in Nat
      BY CounterAssumption DEF Datagrams, Counters, WindowInv, TypeOK
    <2>2. Bit(d.counter) \in Bits
      BY <2>1, BitType
    <2>3. accepted' = accepted \cup {d.counter}
      BY <1>2 DEF transport_decrypt
    <2>4. \A c \in accepted : c \in Nat /\ c <= rw_counter_max
      BY CounterAssumption DEF WindowInv, TypeOK, AcceptedBelowMax, Counters
    <2>5. CASE AcceptOld(d)
      <3>1. TypeOK'
        BY <2>1, <2>2, <2>3, <2>5 DEF AcceptOld, WindowInv, TypeOK
      <3>2. AcceptedBelowMax'
        BY <2>1, <2>3, <2>4, <2>5 DEF AcceptOld, AcceptedBelowMax
      <3> QED BY <1>2, <2>5, <3>1, <3>2, AcceptOldExact DEF WindowInv
    <2>6. CASE AcceptNew(d)
      <3>1. TypeOK'
        BY <2>1, <2>2, <2>3, <2>6 DEF AcceptNew, WindowInv, TypeOK
      <3>2. AcceptedBelowMax'
        BY <2>1, <2>3, <2>4, <2>6 DEF AcceptNew, AcceptedBelowMax
      <3> QED
        BY <2>6, <3>1, <3>2, AcceptNewShortExact, AcceptNewClearExact
        DEF WindowInv
    <2> QED BY <1>2, <2>5, <2>6 DEF transport_decrypt
  <1>3. ASSUME NEW d \in Datagrams, Refuse(d) PROVE WindowInv'
    BY <1>3
    DEF Refuse, vars, WindowInv, TypeOK, BitmapExact, AcceptedBelowMax, Bit
  <1>4. CASE UNCHANGED vars
    BY <1>4 DEF vars, WindowInv, TypeOK, BitmapExact, AcceptedBelowMax, Bit
  <1> QED BY <1>1, <1>2, <1>3, <1>4 DEF Next

\* The bitmap is an exact record of the counters accepted since the last full
\* clear that are still in the window, for every window size.
THEOREM WindowExact == Spec => [](TypeOK /\ BitmapExact)
  <1>1. Init => WindowInv
    BY WindowAssumption, CounterAssumption
    DEF Init, WindowInv, TypeOK, BitmapExact, AcceptedBelowMax, Counters, Bits
  <1>2. WindowInv => TypeOK /\ BitmapExact
    BY DEF WindowInv
  <1> QED BY <1>1, <1>2, WindowInvInductive, PTL DEF Spec

\* transport_decrypt never accepts a counter again that it accepted since the
\* last full clear.
THEOREM LiveNeverReplayed == Spec => []LiveNotReplayable
  <1>1. Init => WindowInv
    BY WindowAssumption, CounterAssumption
    DEF Init, WindowInv, TypeOK, BitmapExact, AcceptedBelowMax, Counters, Bits
  <1>2. WindowInv => LiveNotReplayable
    <2> SUFFICES ASSUME WindowInv, NEW c \in live, ReplayOK(c) PROVE FALSE
      BY DEF LiveNotReplayable
    <2>1. c \in Nat /\ rw_counter_max \in Nat /\ c <= rw_counter_max
      BY CounterAssumption DEF WindowInv, TypeOK, AcceptedBelowMax, Counters
    <2>2. rw_counter_max - c < Window
      BY <2>1, WindowAssumption DEF ReplayOK
    <2>3. Bit(c) \in rw_bitmap
      BY <2>2 DEF WindowInv, BitmapExact
    <2> QED BY <2>1, <2>3 DEF ReplayOK
  <1> QED BY <1>1, <1>2, WindowInvInductive, PTL DEF Spec

\* A counter never received, inside the window and in the maximum's block, is
\* never mistaken for a duplicate.
THEOREM FreshNeverRefused == Spec => []FreshAccepted
  <1>1. Init => WindowInv
    BY WindowAssumption, CounterAssumption
    DEF Init, WindowInv, TypeOK, BitmapExact, AcceptedBelowMax, Counters, Bits
  <1>2. WindowInv => FreshAccepted
    <2> SUFFICES ASSUME WindowInv, NEW c \in Counters, c < RejectLimit,
                        c \notin accepted, SameBlock(c, rw_counter_max),
                        rw_counter_max - c < Window
                 PROVE  ReplayOK(c)
      BY DEF FreshAccepted
    <2>1. c \in Nat /\ rw_counter_max \in Nat
      BY CounterAssumption DEF WindowInv, TypeOK, Counters
    <2>2. CASE c > rw_counter_max
      BY <2>2 DEF ReplayOK
    <2>3. CASE c <= rw_counter_max
      <3>1. Bit(c) \notin rw_bitmap
        <4> SUFFICES ASSUME Bit(c) \in rw_bitmap PROVE FALSE
          OBVIOUS
        <4>1. PICK k \in live : rw_counter_max - k < Window /\ Bit(c) = Bit(k)
          BY DEF WindowInv, BitmapExact
        <4>2. k \in Nat /\ k <= rw_counter_max /\ k \in accepted
          BY CounterAssumption
          DEF WindowInv, TypeOK, AcceptedBelowMax, Counters
        <4>3. CASE k <= c
          <5>1. c - k < Window
            BY <2>1, <2>3, <4>1, <4>2, WindowAssumption
          <5> QED BY <2>1, <4>1, <4>2, <4>3, <5>1, BitInjective
        <4>4. CASE c <= k
          <5>1. k - c < Window
            BY <2>1, <4>1, <4>2, WindowAssumption
          <5> QED BY <2>1, <4>1, <4>2, <4>4, <5>1, BitInjective
        <4> QED BY <2>1, <4>2, <4>3, <4>4
      <3> QED BY <2>3, <3>1 DEF ReplayOK
    <2> QED BY <2>1, <2>2, <2>3
  <1> QED BY <1>1, <1>2, WindowInvInductive, PTL DEF Spec

\* If only an advance of a whole window cleared the bitmap, no counter would
\* ever be accepted twice under one key: the condition the code's limit of
\* 256 against 2048 bits does not meet, and the only one it lacks.
THEOREM NoReplayIfClearCoversWindow ==
    ASSUME ClearLimit >= Window
    PROVE  Spec => []NoReplay
  <1> DEFINE Inv == WindowInv /\ ForgottenOutOfReach
  <1>1. Init => Inv
    BY WindowAssumption, CounterAssumption
    DEF Init, WindowInv, TypeOK, BitmapExact, AcceptedBelowMax, Counters, Bits,
        ForgottenOutOfReach
  <1>2. ASSUME Inv, [Next]_vars PROVE ForgottenOutOfReach'
    <2>1. CASE transport_init
      BY <2>1 DEF transport_init, ForgottenOutOfReach
    <2>2. ASSUME NEW d \in Datagrams, transport_decrypt(d)
          PROVE  ForgottenOutOfReach'
      <3> DEFINE c == d.counter
                 m == rw_counter_max
      <3>1. c \in Nat /\ m \in Nat /\ accepted' = accepted \cup {c}
        BY <1>2, <2>2, CounterAssumption
        DEF Datagrams, Counters, WindowInv, TypeOK, transport_decrypt
      <3>2. \A k \in accepted : k \in Nat /\ k <= m
        BY <1>2, CounterAssumption
        DEF WindowInv, TypeOK, AcceptedBelowMax, Counters
      <3>3. CASE AcceptOld(d)
        BY <1>2, <3>1, <3>3 DEF AcceptOld, ForgottenOutOfReach, SameBlock
      <3>4. CASE AcceptNew(d)
        <4>1. m < c /\ rw_counter_max' = c /\ c \in live'
          BY <3>1, <3>4 DEF AcceptNew
        <4>2. SUFFICES ASSUME NEW k \in accepted, k \notin live', k # c,
                              SameBlock(k, c)
                       PROVE  c - k >= Window
          BY <3>1, <4>1 DEF ForgottenOutOfReach, SameBlock
        <4>3. k \in Nat /\ k <= m
          BY <3>2
        <4>4. SameBlock(k, m) /\ SameBlock(m, c)
          BY <3>1, <4>1, <4>2, <4>3, BlockInterval
        <4>5. CASE ShortAdvance(c)
          <5>1. k \notin live
            BY <3>4, <4>2, <4>5 DEF AcceptNew
          <5>2. m - k >= Window
            BY <1>2, <4>4, <5>1 DEF ForgottenOutOfReach
          <5> QED BY <3>1, <4>1, <4>3, <5>2, WindowAssumption
        <4>6. CASE ~ShortAdvance(c)
          <5>1. SameBlock(c, m)
            BY <4>4 DEF SameBlock
          <5>2. c - m >= ClearLimit
            BY <3>1, <4>6, <5>1, ClearLimitAssumption DEF ShortAdvance
          <5> QED
            BY <3>1, <4>3, <5>2, WindowAssumption, ClearLimitAssumption
        <4> QED BY <4>5, <4>6
      <3> QED BY <2>2, <3>3, <3>4 DEF transport_decrypt
    <2>3. ASSUME NEW d \in Datagrams, Refuse(d) PROVE ForgottenOutOfReach'
      BY <1>2, <2>3 DEF Refuse, vars, ForgottenOutOfReach, SameBlock
    <2>4. CASE UNCHANGED vars
      BY <1>2, <2>4 DEF vars, ForgottenOutOfReach, SameBlock
    <2> QED BY <1>2, <2>1, <2>2, <2>3, <2>4 DEF Next
  <1>3. Inv /\ [Next]_vars => Inv'
    BY <1>2, WindowInvInductive
  <1>4. Inv => NoReplay
    <2> SUFFICES ASSUME Inv, NEW c \in accepted, ReplayOK(c) PROVE FALSE
      BY DEF NoReplay
    <2>1. c \in Nat /\ rw_counter_max \in Nat /\ c <= rw_counter_max
      BY CounterAssumption DEF WindowInv, TypeOK, AcceptedBelowMax, Counters
    <2>2. rw_counter_max - c < Window
      BY <2>1, WindowAssumption DEF ReplayOK
    <2>3. c \in live
      <3>1. SUFFICES ASSUME c \notin live PROVE FALSE
        OBVIOUS
      <3>2. ~SameBlock(c, rw_counter_max)
        BY <2>1, <2>2, <3>1, WindowAssumption DEF ForgottenOutOfReach
      <3>3. c # rw_counter_max
        BY <3>2 DEF SameBlock
      <3> QED BY <2>1, <3>2, <3>3 DEF ReplayOK
    <2>4. Bit(c) \in rw_bitmap
      BY <2>2, <2>3 DEF WindowInv, BitmapExact
    <2> QED BY <2>1, <2>4 DEF ReplayOK
  <1> QED BY <1>1, <1>3, <1>4, PTL DEF Spec

=============================================================================
