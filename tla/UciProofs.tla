----------------------------- MODULE UciProofs -----------------------------
(***************************************************************************)
(* Whatever waits expire and whatever replies come late, the firmware is   *)
(* handed whole commands that name sockets it holds, and net_poll delivers *)
(* whole datagrams and drops none; without a timeout no socket leaks; what *)
(* a call reports is what Udp allows: for every pool, every size of a      *)
(* block and every length of a datagram.                                   *)
(***************************************************************************)
EXTENDS Uci, SequenceTheorems, TLAPS

\* What a read of UCI_STATUS can be relied on for: an idle one, once no edge is
\* pending or the interface is already past it, and a queue bit that is up.
LEMMA StatusRead ==
    ASSUME FpgaOK, Handshake, NEW s \in UCI_STATUS
    PROVE  /\ s \in Statuses
           /\ s.data_av => avail > 0
           /\ s.state = "Idle" => state \in {"Idle", "Last"}
           /\ s.state = "Idle" /\ ~edge => state = "Idle"
  <1>1. Torn \subseteq States /\ ("Idle" \in Torn => state \in {"Idle", "Last"})
    BY DEF Torn, States, FpgaOK
  <1>2. Steady \in Statuses /\ (Steady.data_av => avail > 0) /\ Steady.state = state
    BY DEF Steady, Staged, Statuses, States, FpgaOK
  <1>3. CASE ~edge
    BY <1>2, <1>3 DEF UCI_STATUS, States, FpgaOK
  <1>4. CASE edge
    <2>1. s \in [state : Torn, data_av : {FALSE, Steady.data_av}, stat_av : {FALSE, Steady.stat_av}]
      BY <1>4 DEF UCI_STATUS
    <2>2. s.state \in Torn /\ s.data_av \in {FALSE, Steady.data_av}
      BY <2>1
    <2>3. {FALSE, Steady.data_av} \subseteq BOOLEAN /\ {FALSE, Steady.stat_av} \subseteq BOOLEAN
      BY DEF Steady
    <2>4. s \in Statuses
      BY <1>1, <2>1, <2>3 DEF Statuses
    <2> QED
      BY <1>1, <1>2, <1>4, <2>2, <2>4
  <1> QED
    BY <1>3, <1>4 DEF FpgaOK

\* One block or two.
Shapes == {b \in Seq(Nat) : Len(b) \in {1, 2}}

\* A reply with one block or two of the size of a number.
LEMMA ReplyShape ==
    ASSUME NEW val \in Nat, NEW bs \in SUBSET Shapes, NEW l \in Lines, NEW r \in Replies(val, bs, l)
    PROVE  /\ r \in [n : BOOLEAN, val : Nat, blocks : Seq(Nat), line : Lines]
           /\ Len(r.blocks) \in {1, 2} /\ r.val = val /\ r.line = l
  BY DEF Replies, Shapes

\* The two shapes a reply can have.
LEMMA OneBlock == \A k \in Nat : <<k>> \in Shapes
  BY DEF Shapes

\* Likewise, with a continuation.
LEMMA TwoBlocks == \A j, k \in Nat : <<j, k>> \in Shapes
  BY DEF Shapes

\* A datagram, whole or short, fits in two blocks.
LEMMA ReadShape ==
    ASSUME NEW len \in 1 .. MaxLen
    PROVE  {Whole(len)} \cup Short(len) \in SUBSET Shapes
  <1>1. len \in Nat /\ Block \in Nat /\ 1 + Block \in Nat /\ 1 + len \in Nat
    BY SizeAssumption
  <1>2. CASE len <= Block
    <2>1. Whole(len) \in Shapes
      BY <1>1, <1>2, OneBlock DEF Whole
    <2>2. Short(len) = {<<k>> : k \in 1 .. len}
      BY <1>2 DEF Short
    <2>3. 1 .. len \subseteq Nat
      BY <1>1
    <2>4. \A k \in 1 .. len : <<k>> \in Shapes
      BY <2>3, OneBlock
    <2> QED
      BY <2>1, <2>2, <2>4
  <1>3. CASE ~(len <= Block)
    <2>1. len - Block \in Nat
      BY <1>1, <1>3
    <2>2. Whole(len) \in Shapes
      BY <1>1, <1>3, <2>1, TwoBlocks DEF Whole
    <2>3. Short(len) = {<<1 + Block>>} \cup {<<1 + Block, k>> : k \in 0 .. len - Block - 1}
      BY <1>3 DEF Short
    <2>4. \A k \in 0 .. len - Block - 1 : <<1 + Block, k>> \in Shapes
      BY <1>1, <2>1, TwoBlocks
    <2>5. <<1 + Block>> \in Shapes
      BY <1>1, OneBlock
    <2> QED
      BY <2>2, <2>3, <2>4, <2>5
  <1> QED
    BY <1>2, <1>3

\* Every reply has one block or two.
LEMMA AnswerShape ==
    ASSUME NEW c \in {"connect", "write", "read", "close"}, NEW r \in Answers(c)
    PROVE  /\ r \in [n : BOOLEAN, val : Nat, blocks : Seq(Nat), line : Lines]
           /\ Len(r.blocks) \in {1, 2}
           /\ c = "connect" => r.val \in Pool \cup {0}
           /\ r.line = "refused" => r.val = 0
  <1>1. <<0>> \in Shapes /\ <<1>> \in Shapes /\ <<1 + Block>> \in Shapes
    BY OneBlock, SizeAssumption
  <1>2. {<<0>>} \in SUBSET Shapes /\ {<<1>>} \in SUBSET Shapes
        /\ {<<0>>, <<1>>} \in SUBSET Shapes /\ {<<1 + Block>>} \in SUBSET Shapes
    BY <1>1
  <1>3. "00" \in Lines /\ "none" \in Lines /\ "refused" \in Lines
    BY DEF Lines
  <1>4. CASE c = "connect"
    <2>1. r \in UDP_CONNECT
      BY <1>4 DEF Answers
    <2>2. CASE r \in Replies(0, {<<0>>}, "refused")
      BY <1>2, <1>3, <2>2, ReplyShape
    <2>3. CASE \E id \in Pool : r \in Replies(id, {<<1>>}, "00")
      <3>1. PICK id \in Pool : r \in Replies(id, {<<1>>}, "00")
        BY <2>3
      <3>2. id \in Nat
        BY PoolAssumption
      <3> QED
        BY <1>2, <1>3, <3>1, <3>2, ReplyShape
    <2>4. CASE r \in Replies(0, {<<0>>}, "none")
      BY <1>2, <1>3, <2>4, ReplyShape
    <2>5. CASE r \in Replies(0, {<<1>>}, "00")
      BY <1>2, <1>3, <2>5, ReplyShape
    <2> QED
      BY <2>1, <2>2, <2>3, <2>4, <2>5 DEF UDP_CONNECT
  <1>5. CASE c = "write"
    <2>1. r \in SOCKET_WRITE
      BY <1>5 DEF Answers
    <2>2. CASE r \in Replies(1, {<<1>>}, "00")
      BY <1>2, <1>3, <1>5, <2>2, ReplyShape
    <2>3. CASE r \in Replies(0, {<<0>>, <<1>>}, "00")
      BY <1>2, <1>3, <1>5, <2>3, ReplyShape
    <2> QED
      BY <2>1, <2>2, <2>3 DEF SOCKET_WRITE
  <1>6. CASE c = "close"
    <2>1. r \in Replies(0, {<<0>>}, "00")
      BY <1>6 DEF Answers
    <2> QED
      BY <1>2, <1>3, <1>6, <2>1, ReplyShape
  <1>7. CASE c = "read"
    <2>1. r \in SOCKET_READ
      BY <1>7 DEF Answers
    <2>2. CASE r \in Replies(NoData, {<<1>>}, "00")
      <3>1. NoData \in Nat
        BY DEF NoData
      <3> QED
        BY <1>2, <1>3, <1>7, <2>2, <3>1, ReplyShape
    <2>3. CASE r \in Replies(0, {<<0>>, <<1>>}, "00")
      BY <1>2, <1>3, <1>7, <2>3, ReplyShape
    <2>4. CASE r \in Replies(MaxLen + 1, {<<1 + Block>>}, "00")
      <3>1. MaxLen + 1 \in Nat
        BY SizeAssumption
      <3> QED
        BY <1>2, <1>3, <1>7, <2>4, <3>1, ReplyShape
    <2>5. CASE \E len \in 1 .. MaxLen : r \in Replies(len, {Whole(len)} \cup Short(len), "00")
      <3>1. PICK len \in 1 .. MaxLen : r \in Replies(len, {Whole(len)} \cup Short(len), "00")
        BY <2>5
      <3>2. len \in Nat
        BY SizeAssumption
      <3> QED
        BY <1>3, <1>7, <3>1, <3>2, ReadShape, ReplyShape
    <2> QED
      BY <2>1, <2>2, <2>3, <2>4, <2>5 DEF SOCKET_READ
  <1> QED
    BY <1>4, <1>5, <1>6, <1>7

\* What Return leaves behind, apart from whose socket it was.
LEMMA ReturnTyped ==
    ASSUME C64OK, NEW v \in Verdicts, Return(v)
    PROVE  /\ pc' = "main" /\ verdict' \in Verdicts
           /\ uci_socket_open' \in BOOLEAN /\ uci_socket_id' \in Nat
           /\ uci_socket_open' => uci_socket_open /\ uci_socket_id' = uci_socket_id /\ cmd # "close"
  <1>1. CASE cmd = "close"
    <2>1. pc' = "main" /\ verdict' = v /\ uci_socket_open' = FALSE /\ uci_socket_id' = 0
      BY <1>1 DEF Return
    <2> QED
      BY <2>1
  <1>2. CASE cmd # "close"
    BY <1>2 DEF Return, C64OK, socket
  <1> QED
    BY <1>1, <1>2

\* The blocks that are left once one is staged.
LEMMA BlocksLeft ==
    ASSUME FirmwareOK, Len(blocks) \in {1, 2}
    PROVE  /\ Head(blocks) \in Nat /\ Tail(blocks) \in Seq(Nat)
           /\ Len(Tail(blocks)) = Len(blocks) - 1
           /\ Len(blocks) = 1 => Tail(blocks) = <<>>
  <1>1. blocks \in Seq(Nat) /\ blocks # <<>>
    BY EmptySeq DEF FirmwareOK
  <1>2. Head(blocks) \in Nat /\ Tail(blocks) \in Seq(Nat) /\ Len(Tail(blocks)) = Len(blocks) - 1
    BY <1>1, HeadTailProperties
  <1> QED
    BY <1>2, EmptySeq

\* A call begins.
LEMMA CallStep == UciInv /\ Call => UciInv'
  <1> SUFFICES ASSUME UciInv, Call PROVE UciInv'
    OBVIOUS
  <1> USE DEF UciInv, TypeOK, Call, call, copy, socket, outcome, firmware, queue,
     registers, fpga, net_udp_send, net_poll, net_udp_close
  <1>1. FpgaOK'
    BY DEF FpgaOK
  <1>2. FirmwareOK'
    BY DEF FirmwareOK
  <1>3. C64OK'
    BY DEF C64OK, Verdicts
  <1>4. Handshake'
    BY DEF FpgaOK, C64OK, Handshake, GateSound, Staged
  <1>5. GateSound'
    BY DEF FpgaOK, C64OK, Handshake, GateSound, Staged
  <1>6. OwnCommand'
    BY DEF FpgaOK, C64OK, GateSound, OwnCommand
  <1>7. OpenIsHeld'
    BY DEF FpgaOK, C64OK, Handshake, GateSound, OwnCommand, OpenIsHeld, Released,
       ConnectAnswered
  <1>8. ConnectAnswered'
    BY DEF FpgaOK, FirmwareOK, C64OK, Handshake, GateSound, OpenIsHeld, ConnectAnswered
  <1>9. SocketHeld'
    BY DEF FpgaOK, FirmwareOK, C64OK, GateSound, OwnCommand, OpenIsHeld, Released,
       SocketHeld
  <1> QED
    BY <1>1, <1>2, <1>3, <1>4, <1>5, <1>6, <1>7, <1>8, <1>9

\* The firmware stages a block.
LEMMA FwStageStep == UciInv /\ FwStage => UciInv'
  <1> SUFFICES ASSUME UciInv, FwStage PROVE UciInv'
    OBVIOUS
  <1> USE DEF UciInv, TypeOK, FwStage, call, copy, socket, outcome, firmware, queue,
     registers, fpga
  <1>a. Len(blocks) \in {1, 2}
    BY DEF Handshake
  <1>b. Head(blocks) \in Nat /\ Tail(blocks) \in Seq(Nat) /\ Len(Tail(blocks)) = Len(blocks) - 1
        /\ (Len(blocks) = 1 => Tail(blocks) = <<>>)
    BY <1>a, BlocksLeft
  <1>1. FpgaOK'
    BY <1>b DEF FpgaOK, FirmwareOK, States, Lines
  <1>2. FirmwareOK'
    BY <1>b DEF FirmwareOK
  <1>3. C64OK'
    BY DEF C64OK
  <1>4. Handshake'
    <2>1. ASSUME fw' = "await"
          PROVE  Len(blocks') = 1 /\ state' = "More" /\ ~data_acc'
      <3>1. fw = "stage" /\ Len(blocks) = 2
        BY <1>a, <2>1
      <3>2. ~data_acc
        BY <3>1 DEF Handshake
      <3>3. Len(blocks') = 1
        BY <1>b, <3>1
      <3> QED
        BY <3>1, <3>2, <3>3
    <2>2. fw' = "clear" => blocks' = <<>>
      BY <1>b DEF Handshake
    <2> QED
      BY <1>a, <1>b, <2>1, <2>2 DEF FpgaOK, FirmwareOK, Handshake, GateSound, Staged
  <1>5. GateSound'
    BY DEF FpgaOK, C64OK, Handshake, GateSound, Staged
  <1>6. OwnCommand'
    BY DEF FpgaOK, C64OK, GateSound, OwnCommand
  <1>7. OpenIsHeld'
    BY DEF FpgaOK, C64OK, Handshake, GateSound, OwnCommand, OpenIsHeld, Released,
       ConnectAnswered
  <1>8. ConnectAnswered'
    BY DEF FpgaOK, FirmwareOK, C64OK, Handshake, GateSound, OpenIsHeld, ConnectAnswered
  <1>9. SocketHeld'
    BY DEF FpgaOK, FirmwareOK, C64OK, GateSound, OwnCommand, OpenIsHeld, Released,
       SocketHeld
  <1> QED
    BY <1>1, <1>2, <1>3, <1>4, <1>5, <1>6, <1>7, <1>8, <1>9

\* The firmware clears DATA_ACC.
LEMMA FwClearStep == UciInv /\ FwClear => UciInv'
  <1> SUFFICES ASSUME UciInv, FwClear PROVE UciInv'
    OBVIOUS
  <1> USE DEF UciInv, TypeOK, FwClear, call, copy, socket, outcome, firmware, queue,
     registers, fpga
  <1>1. FpgaOK'
    BY DEF FpgaOK
  <1>2. FirmwareOK'
    BY DEF FirmwareOK
  <1>3. C64OK'
    BY DEF C64OK
  <1>4. Handshake'
    BY DEF FpgaOK, C64OK, Handshake, GateSound, Staged
  <1>5. GateSound'
    BY DEF FpgaOK, C64OK, Handshake, GateSound, Staged
  <1>6. OwnCommand'
    BY DEF FpgaOK, C64OK, GateSound, OwnCommand
  <1>7. OpenIsHeld'
    BY DEF FpgaOK, C64OK, Handshake, GateSound, OwnCommand, OpenIsHeld, Released,
       ConnectAnswered
  <1>8. ConnectAnswered'
    BY DEF FpgaOK, FirmwareOK, C64OK, Handshake, GateSound, OpenIsHeld, ConnectAnswered
  <1>9. SocketHeld'
    BY DEF FpgaOK, FirmwareOK, C64OK, GateSound, OwnCommand, OpenIsHeld, Released,
       SocketHeld
  <1> QED
    BY <1>1, <1>2, <1>3, <1>4, <1>5, <1>6, <1>7, <1>8, <1>9

\* The firmware stages a block that carries nothing.
LEMMA FwEmptyStep == UciInv /\ FwEmpty => UciInv'
  <1> SUFFICES ASSUME UciInv, FwEmpty PROVE UciInv'
    OBVIOUS
  <1> USE DEF UciInv, TypeOK, FwEmpty, call, copy, socket, outcome, firmware, queue,
     registers, fpga
  <1>a. state = "Busy" /\ Len(blocks) = 1
    BY DEF Handshake
  <1>b. ~cmd_busy
    BY DEF FpgaOK, GateSound, Handshake
  <1>1. FpgaOK'
    BY DEF FpgaOK, States
  <1>2. FirmwareOK'
    BY DEF FirmwareOK
  <1>3. C64OK'
    BY DEF C64OK
  <1>4. Handshake'
    BY <1>a, <1>b DEF FpgaOK, C64OK, Handshake, GateSound, Staged
  <1>5. GateSound'
    BY <1>a, <1>b DEF FpgaOK, C64OK, Handshake, GateSound, Staged
  <1>6. OwnCommand'
    BY DEF FpgaOK, C64OK, GateSound, OwnCommand
  <1>7. OpenIsHeld'
    BY DEF FpgaOK, C64OK, Handshake, GateSound, OwnCommand, OpenIsHeld, Released,
       ConnectAnswered
  <1>8. ConnectAnswered'
    BY DEF FpgaOK, FirmwareOK, C64OK, Handshake, GateSound, OpenIsHeld, ConnectAnswered
  <1>9. SocketHeld'
    BY DEF FpgaOK, FirmwareOK, C64OK, GateSound, OwnCommand, OpenIsHeld, Released,
       SocketHeld
  <1> QED
    BY <1>1, <1>2, <1>3, <1>4, <1>5, <1>6, <1>7, <1>8, <1>9

\* A command is written.
LEMMA uci_put_byteStep == UciInv /\ uci_put_byte => UciInv'
  <1> SUFFICES ASSUME UciInv, uci_put_byte PROVE UciInv'
    OBVIOUS
  <1> USE DEF UciInv, TypeOK, uci_put_byte, call, copy, socket, outcome, firmware, queue,
     registers, fpga, Goto
  <1>1. FpgaOK'
    <2>1. [cmd |-> cmd, id |-> uci_socket_id, n |-> ~n] \in Commands
      BY DEF C64OK, Commands
    <2> QED
      BY <2>1 DEF FpgaOK
  <1>2. FirmwareOK'
    BY DEF FirmwareOK
  <1>3. C64OK'
    BY DEF C64OK
  <1>4. Handshake'
    BY DEF FpgaOK, C64OK, Handshake, GateSound, Staged
  <1>5. GateSound'
    BY DEF FpgaOK, C64OK, Handshake, GateSound, Staged
  <1>6. OwnCommand'
    BY DEF FpgaOK, C64OK, GateSound, OwnCommand
  <1>7. OpenIsHeld'
    BY DEF FpgaOK, C64OK, Handshake, GateSound, OwnCommand, OpenIsHeld, Released,
       ConnectAnswered
  <1>8. ConnectAnswered'
    BY DEF FpgaOK, FirmwareOK, C64OK, Handshake, GateSound, OpenIsHeld, ConnectAnswered
  <1>9. SocketHeld'
    BY DEF FpgaOK, FirmwareOK, C64OK, GateSound, OwnCommand, OpenIsHeld, Released,
       SocketHeld
  <1> QED
    BY <1>1, <1>2, <1>3, <1>4, <1>5, <1>6, <1>7, <1>8, <1>9

\* A command is pushed.
LEMMA uci_pushStep == UciInv /\ uci_push => UciInv'
  <1> SUFFICES ASSUME UciInv, uci_push PROVE UciInv'
    OBVIOUS
  <1> USE DEF UciInv, TypeOK, uci_push, call, copy, socket, outcome, firmware, queue,
     registers, fpga, Goto
  <1>1. FpgaOK'
    BY DEF FpgaOK, States
  <1>2. FirmwareOK'
    BY DEF FirmwareOK
  <1>3. C64OK'
    BY DEF C64OK
  <1>4. Handshake'
    BY DEF FpgaOK, C64OK, Handshake, GateSound, Staged
  <1>5. GateSound'
    BY DEF FpgaOK, C64OK, Handshake, GateSound, Staged
  <1>6. OwnCommand'
    BY DEF FpgaOK, C64OK, GateSound, OwnCommand
  <1>7. OpenIsHeld'
    <2>1. Len(cmdbuf) = 1
      BY DEF GateSound
    <2>2. cmdbuf # <<>>
      BY <2>1, EmptySeq
    <2> QED
      BY <2>1, <2>2 DEF FpgaOK, C64OK, GateSound, OwnCommand, OpenIsHeld, Released
  <1>8. ConnectAnswered'
    BY DEF FpgaOK, FirmwareOK, C64OK, Handshake, GateSound, OpenIsHeld, ConnectAnswered
  <1>9. SocketHeld'
    BY DEF FpgaOK, FirmwareOK, C64OK, GateSound, OwnCommand, OpenIsHeld, Released,
       SocketHeld
  <1> QED
    BY <1>1, <1>2, <1>3, <1>4, <1>5, <1>6, <1>7, <1>8, <1>9

\* A pass of a waiting loop goes on, or ends the call with an error.
LEMMA AgainTyped ==
    ASSUME C64OK, NEW label, Again(label)
    PROVE  \/ pc' = label /\ UNCHANGED <<verdict, uci_socket_open, uci_socket_id, expired>>
           \/ /\ pc' = "main" /\ verdict' \in Verdicts /\ expired' = TRUE
              /\ uci_socket_open' \in BOOLEAN /\ uci_socket_id' \in Nat
              /\ uci_socket_open' =>
                   uci_socket_open /\ uci_socket_id' = uci_socket_id /\ cmd # "close"
  <1>1. "WAIT_TIMEOUT" \in Verdicts
    BY DEF Verdicts
  <1>2. CASE pc' = label /\ UNCHANGED outcome
    BY <1>2 DEF outcome, socket
  <1>3. CASE expired' = TRUE /\ Return("WAIT_TIMEOUT")
    BY <1>1, <1>3, ReturnTyped
  <1> QED
    BY <1>2, <1>3 DEF Again

\* The C64 waits for its command to be accepted.
LEMMA uci_wait_not_busyStep == UciInv /\ uci_wait_not_busy => UciInv'
  <1> SUFFICES ASSUME UciInv, uci_wait_not_busy PROVE UciInv'
    OBVIOUS
  <1> USE DEF UciInv, TypeOK, uci_wait_not_busy, call, copy, socket, outcome, firmware,
     queue, registers, fpga, Goto
  <1>1. FpgaOK'
    BY DEF FpgaOK
  <1>2. FirmwareOK'
    BY DEF FirmwareOK
  <1>3. C64OK'
    BY AgainTyped DEF C64OK
  <1>4. Handshake'
    BY AgainTyped DEF FpgaOK, C64OK, Handshake, GateSound, Staged
  <1>5. GateSound'
    BY AgainTyped DEF FpgaOK, C64OK, Handshake, GateSound, Staged
  <1>6. OwnCommand'
    BY AgainTyped DEF FpgaOK, C64OK, GateSound, OwnCommand
  <1>7. OpenIsHeld'
    BY AgainTyped DEF FpgaOK, C64OK, Handshake, GateSound, OwnCommand, OpenIsHeld,
       Released, ConnectAnswered
  <1>8. ConnectAnswered'
    BY AgainTyped DEF FpgaOK, FirmwareOK, C64OK, Handshake, GateSound, OpenIsHeld,
       ConnectAnswered
  <1>9. SocketHeld'
    BY AgainTyped DEF FpgaOK, FirmwareOK, C64OK, GateSound, OwnCommand, OpenIsHeld,
       Released, SocketHeld
  <1> QED
    BY <1>1, <1>2, <1>3, <1>4, <1>5, <1>6, <1>7, <1>8, <1>9

\* The ERROR bit is looked at.
LEMMA uci_check_errStep == UciInv /\ uci_check_err => UciInv'
  <1> SUFFICES ASSUME UciInv, uci_check_err PROVE UciInv'
    OBVIOUS
  <1> USE DEF UciInv, TypeOK, uci_check_err, call, copy, socket, outcome, firmware,
     queue, registers, fpga, Goto, Fail
  <1>1. FpgaOK'
    BY DEF FpgaOK
  <1>2. FirmwareOK'
    BY DEF FirmwareOK
  <1>3. C64OK'
    BY DEF C64OK, GateSound, Verdicts
  <1>4. Handshake'
    BY DEF FpgaOK, C64OK, Handshake, GateSound, Staged
  <1>5. GateSound'
    BY DEF FpgaOK, C64OK, Handshake, GateSound, Staged
  <1>6. OwnCommand'
    BY DEF FpgaOK, C64OK, GateSound, OwnCommand
  <1>7. OpenIsHeld'
    BY DEF FpgaOK, C64OK, Handshake, GateSound, OwnCommand, OpenIsHeld, Released,
       ConnectAnswered
  <1>8. ConnectAnswered'
    BY DEF FpgaOK, FirmwareOK, C64OK, Handshake, GateSound, OpenIsHeld, ConnectAnswered
  <1>9. SocketHeld'
    BY DEF FpgaOK, FirmwareOK, C64OK, GateSound, OwnCommand, OpenIsHeld, Released,
       SocketHeld
  <1> QED
    BY <1>1, <1>2, <1>3, <1>4, <1>5, <1>6, <1>7, <1>8, <1>9

\* The C64 waits for a reply to be staged.
LEMMA uci_wait_reply_stagedStep == UciInv /\ uci_wait_reply_staged => UciInv'
  <1> SUFFICES ASSUME UciInv, uci_wait_reply_staged PROVE UciInv'
    OBVIOUS
  <1> USE DEF UciInv, TypeOK, uci_wait_reply_staged, call, copy, socket, outcome,
     firmware, queue, registers, fpga
  <1>a. \/ pc' = pc /\ UNCHANGED <<verdict, uci_socket_open, uci_socket_id, expired>>
        \/ /\ pc' = "main" /\ verdict' \in Verdicts /\ expired' = TRUE
           /\ uci_socket_open' \in BOOLEAN /\ uci_socket_id' \in Nat
           /\ uci_socket_open' => uci_socket_open /\ uci_socket_id' = uci_socket_id /\ cmd # "close"
        \/ /\ pc' \in {"bytes", "data", "status", "end"} /\ verdict' \in Verdicts
           /\ UNCHANGED <<uci_socket_open, uci_socket_id>> /\ expired' \in BOOLEAN
           /\ pc' = "end" => cmd # "connect"
           /\ pc' \in {"data", "status"} => pc = "staged"
    <2>1. "closed" \in Verdicts /\ "WAIT_TIMEOUT" \in Verdicts
      BY DEF Verdicts
    <2>2. PICK s \in UCI_STATUS : uci_wait_reply_staged!2!(s)
      OBVIOUS
    <2>3. CASE s.state # "Busy"
      BY <2>1, <2>2, <2>3 DEF C64OK
    <2>4. CASE s.state = "Busy" /\ cmd # "read"
      BY <2>2, <2>4, AgainTyped
    <2>5. CASE s.state = "Busy" /\ cmd = "read"
      BY <2>1, <2>2, <2>5, Zenon DEF C64OK, Goto
    <2> QED
      BY <2>3, <2>4, <2>5
  <1>1. FpgaOK'
    BY DEF FpgaOK
  <1>2. FirmwareOK'
    BY DEF FirmwareOK
  <1>3. C64OK'
    BY <1>a DEF C64OK
  <1>4. Handshake'
    BY <1>a DEF FpgaOK, C64OK, Handshake, GateSound, Staged
  <1>5. GateSound'
    BY <1>a DEF FpgaOK, C64OK, Handshake, GateSound, Staged
  <1>6. OwnCommand'
    BY <1>a DEF FpgaOK, C64OK, GateSound, OwnCommand
  <1>7. OpenIsHeld'
    BY <1>a DEF FpgaOK, C64OK, Handshake, GateSound, OwnCommand, OpenIsHeld, Released,
       ConnectAnswered
  <1>8. ConnectAnswered'
    BY <1>a DEF FpgaOK, FirmwareOK, C64OK, Handshake, GateSound, OpenIsHeld,
       ConnectAnswered
  <1>9. SocketHeld'
    BY <1>a DEF FpgaOK, FirmwareOK, C64OK, GateSound, OwnCommand, OpenIsHeld, Released,
       SocketHeld
  <1> QED
    BY <1>1, <1>2, <1>3, <1>4, <1>5, <1>6, <1>7, <1>8, <1>9

\* The status line of UDP_CONNECT.
LEMMA uc_stagedStep == UciInv /\ uc_staged => UciInv'
  <1> SUFFICES ASSUME UciInv, uc_staged PROVE UciInv'
    OBVIOUS
  <1> USE DEF UciInv, TypeOK, uc_staged, call, copy, socket, outcome, firmware, queue,
     registers, fpga, Goto, Fail
  <1>1. FpgaOK'
    BY DEF FpgaOK, Lines
  <1>2. FirmwareOK'
    BY DEF FirmwareOK
  <1>3. C64OK'
    BY DEF C64OK, Verdicts
  <1>4. Handshake'
    BY DEF FpgaOK, C64OK, Handshake, GateSound, Staged
  <1>5. GateSound'
    BY DEF FpgaOK, C64OK, Handshake, GateSound, Staged
  <1>6. OwnCommand'
    BY DEF FpgaOK, C64OK, GateSound, OwnCommand
  <1>7. OpenIsHeld'
    BY DEF FpgaOK, C64OK, Handshake, GateSound, OwnCommand, OpenIsHeld, Released,
       ConnectAnswered
  <1>8. ConnectAnswered'
    BY DEF FpgaOK, FirmwareOK, C64OK, Handshake, GateSound, OpenIsHeld, ConnectAnswered
  <1>9. SocketHeld'
    BY DEF FpgaOK, FirmwareOK, C64OK, GateSound, OwnCommand, OpenIsHeld, Released,
       SocketHeld
  <1> QED
    BY <1>1, <1>2, <1>3, <1>4, <1>5, <1>6, <1>7, <1>8, <1>9

\* The socket id or the written count.
LEMMA uci_read_resp_bytesStep == UciInv /\ uci_read_resp_bytes => UciInv'
  <1> SUFFICES ASSUME UciInv, uci_read_resp_bytes PROVE UciInv'
    OBVIOUS
  <1> USE DEF UciInv, TypeOK, uci_read_resp_bytes, call, copy, socket, outcome, firmware,
     queue, registers, fpga, Goto, UCI_RESP_DATA, judge_count
  <1>a. \A s \in UCI_STATUS : s.data_av => avail > 0
    BY StatusRead
  <1>b. avail' \in Nat /\ next' \in Nat
    BY <1>a DEF FpgaOK, FirmwareOK
  <1>1. FpgaOK'
    BY <1>b DEF FpgaOK
  <1>2. FirmwareOK'
    BY <1>b DEF FirmwareOK
  <1>3. C64OK'
    <2>1. /\ pc' \in {"end", "data"} /\ expired' \in BOOLEAN /\ uci_socket_open' = uci_socket_open
          /\ uci_socket_id' \in {reply.val, 0, uci_socket_id}
          /\ verdict' \in {verdict, "sent", "SHORT_WRITE", "NO_SOCKET"}
      BY DEF C64OK
    <2>2. reply.val \in Nat
      BY DEF FirmwareOK
    <2> QED
      BY <2>1, <2>2 DEF C64OK, Verdicts
  <1>4. Handshake'
    BY DEF FpgaOK, C64OK, Handshake, GateSound, Staged
  <1>5. GateSound'
    BY DEF FpgaOK, C64OK, Handshake, GateSound, Staged
  <1>6. OwnCommand'
    BY DEF FpgaOK, C64OK, GateSound, OwnCommand
  <1>7. OpenIsHeld'
    BY DEF FpgaOK, C64OK, Handshake, GateSound, OwnCommand, OpenIsHeld, Released,
       ConnectAnswered
  <1>8. ConnectAnswered'
    BY DEF FpgaOK, FirmwareOK, C64OK, Handshake, GateSound, OpenIsHeld, ConnectAnswered
  <1>9. SocketHeld'
    BY DEF FpgaOK, FirmwareOK, C64OK, GateSound, OwnCommand, OpenIsHeld, Released,
       SocketHeld
  <1> QED
    BY <1>1, <1>2, <1>3, <1>4, <1>5, <1>6, <1>7, <1>8, <1>9

\* The length of a datagram.
LEMMA hdr_loopStep == UciInv /\ hdr_loop => UciInv'
  <1> SUFFICES ASSUME UciInv, hdr_loop PROVE UciInv'
    OBVIOUS
  <1> USE DEF UciInv, TypeOK, hdr_loop, call, copy, socket, outcome, firmware, queue,
     registers, fpga, Goto, Fail, UCI_RESP_DATA
  <1>a. \A s \in UCI_STATUS : s.data_av => avail > 0
    BY StatusRead
  <1>b. avail' \in Nat /\ next' \in Nat
    BY <1>a DEF FpgaOK, FirmwareOK
  <1>1. FpgaOK'
    BY <1>b DEF FpgaOK
  <1>2. FirmwareOK'
    BY <1>b DEF FirmwareOK
  <1>3. C64OK'
    BY SizeAssumption DEF C64OK, FirmwareOK, Verdicts
  <1>4. Handshake'
    BY DEF FpgaOK, C64OK, Handshake, GateSound, Staged
  <1>5. GateSound'
    BY DEF FpgaOK, C64OK, Handshake, GateSound, Staged
  <1>6. OwnCommand'
    BY DEF FpgaOK, C64OK, GateSound, OwnCommand
  <1>7. OpenIsHeld'
    BY DEF FpgaOK, C64OK, Handshake, GateSound, OwnCommand, OpenIsHeld, Released,
       ConnectAnswered
  <1>8. ConnectAnswered'
    BY DEF FpgaOK, FirmwareOK, C64OK, Handshake, GateSound, OpenIsHeld, ConnectAnswered
  <1>9. SocketHeld'
    BY DEF FpgaOK, FirmwareOK, C64OK, GateSound, OwnCommand, OpenIsHeld, Released,
       SocketHeld
  <1> QED
    BY <1>1, <1>2, <1>3, <1>4, <1>5, <1>6, <1>7, <1>8, <1>9

\* The copy.
LEMMA byte_loopStep == UciInv /\ byte_loop => UciInv'
  <1> SUFFICES ASSUME UciInv, byte_loop PROVE UciInv'
    OBVIOUS
  <1> USE DEF UciInv, TypeOK, byte_loop, call, copy, socket, outcome, firmware, queue,
     registers, fpga, Goto, Fail, UCI_RESP_DATA
  <1>a. \A s \in UCI_STATUS : s.data_av => avail > 0
    BY StatusRead
  <1>b. avail' \in Nat /\ next' \in Nat
    BY <1>a DEF FpgaOK, FirmwareOK
  <1>1. FpgaOK'
    BY <1>b DEF FpgaOK
  <1>2. FirmwareOK'
    BY <1>b DEF FirmwareOK
  <1>3. C64OK'
    <2>1. <<next, reply.n = n>> \in Nat \X BOOLEAN
      BY DEF FirmwareOK
    <2>2. Append(buf, <<next, reply.n = n>>) \in Seq(Nat \X BOOLEAN)
      BY <2>1 DEF C64OK
    <2>3. rem' \in Nat /\ reads' \in Nat
      BY DEF C64OK
    <2>4. buf' = buf \/ buf' = Append(buf, <<next, reply.n = n>>)
      OBVIOUS
    <2>5. buf' \in Seq(Nat \X BOOLEAN)
      BY <2>2, <2>4 DEF C64OK
    <2> QED
      BY <2>3, <2>5 DEF C64OK, Verdicts
  <1>4. Handshake'
    BY DEF FpgaOK, C64OK, Handshake, GateSound, Staged
  <1>5. GateSound'
    BY DEF FpgaOK, C64OK, Handshake, GateSound, Staged
  <1>6. OwnCommand'
    BY DEF FpgaOK, C64OK, GateSound, OwnCommand
  <1>7. OpenIsHeld'
    BY DEF FpgaOK, C64OK, Handshake, GateSound, OwnCommand, OpenIsHeld, Released,
       ConnectAnswered
  <1>8. ConnectAnswered'
    BY DEF FpgaOK, FirmwareOK, C64OK, Handshake, GateSound, OpenIsHeld, ConnectAnswered
  <1>9. SocketHeld'
    BY DEF FpgaOK, FirmwareOK, C64OK, GateSound, OwnCommand, OpenIsHeld, Released,
       SocketHeld
  <1> QED
    BY <1>1, <1>2, <1>3, <1>4, <1>5, <1>6, <1>7, <1>8, <1>9

\* What an accept does, in whatever state it comes, or a step that leaves it out.
LEMMA AckKeeps ==
    ASSUME UciInv, uci_ack \/ UNCHANGED <<state, data_acc, avail, line, next>>, edge' = FALSE,
           UNCHANGED <<cmd_busy, error_busy, cmdbuf, fw, blocks, reply, pool>>
    PROVE  FpgaOK' /\ FirmwareOK' /\ Handshake'
  <1>1. CASE uci_ack
    <2>1. FpgaOK'
      BY <1>1 DEF UciInv, TypeOK, FpgaOK, uci_ack, Staged, States, Lines
    <2>2. FirmwareOK'
      BY <1>1 DEF UciInv, TypeOK, FpgaOK, FirmwareOK, uci_ack
    <2>3. Handshake'
      BY <1>1 DEF UciInv, TypeOK, FpgaOK, Handshake, uci_ack, Staged
    <2> QED
      BY <2>1, <2>2, <2>3
  <1>2. CASE UNCHANGED <<state, data_acc, avail, line, next>>
    BY <1>2 DEF UciInv, TypeOK, FpgaOK, FirmwareOK, Handshake, Staged
  <1> QED
    BY <1>1, <1>2

\* The gate: one read that decides, and an accept of what is stranded.
LEMMA uci_wait_idleStep == UciInv /\ uci_wait_idle => UciInv'
  <1> SUFFICES ASSUME UciInv, uci_wait_idle PROVE UciInv'
    OBVIOUS
  <1> USE DEF UciInv, TypeOK, uci_wait_idle, call, copy, socket, outcome, firmware,
     queue, registers, fpga
  <1>a. \A s \in UCI_STATUS : s.state = "Idle" => state \in {"Idle", "Last"}
    BY StatusRead
  <1>b. \/ /\ pc' = "confirm" /\ state \in {"Idle", "Last"} /\ ~cmd_busy
           /\ UNCHANGED <<verdict, uci_socket_open, uci_socket_id, expired>>
           /\ UNCHANGED <<state, data_acc, avail, line, next>>
        \/ Again("gate") /\ UNCHANGED <<state, data_acc, avail, line, next>>
        \/ Again("gate") /\ uci_ack
    BY <1>a DEF Goto
  <1>c. uci_ack \/ UNCHANGED <<state, data_acc, avail, line, next>>
    BY <1>b
  <1>1. FpgaOK'
    BY <1>c, AckKeeps
  <1>2. FirmwareOK'
    BY <1>c, AckKeeps
  <1>3. C64OK'
    <2>1. CASE ~Again("gate")
      BY <1>b, <2>1 DEF C64OK
    <2>2. CASE Again("gate")
      <3>1. \/ pc' = "gate" /\ UNCHANGED <<verdict, uci_socket_open, uci_socket_id, expired>>
            \/ /\ pc' = "main" /\ verdict' \in Verdicts /\ expired' = TRUE
               /\ uci_socket_open' \in BOOLEAN /\ uci_socket_id' \in Nat
        BY <2>2, AgainTyped
      <3> QED
        BY <3>1 DEF C64OK
    <2> QED
      BY <2>1, <2>2
  <1>4. Handshake'
    BY <1>c, AckKeeps
  <1>5. GateSound'
    BY <1>b, AgainTyped DEF FpgaOK, C64OK, Handshake, GateSound, Staged
  <1>6. OwnCommand'
    BY <1>b, AgainTyped DEF FpgaOK, C64OK, GateSound, OwnCommand
  <1>7. OpenIsHeld'
    BY <1>b, AgainTyped DEF FpgaOK, C64OK, Handshake, GateSound, OwnCommand, OpenIsHeld,
       Released, ConnectAnswered
  <1>8. ConnectAnswered'
    BY <1>b, AgainTyped DEF FpgaOK, FirmwareOK, C64OK, Handshake, GateSound, OpenIsHeld,
       ConnectAnswered
  <1>9. SocketHeld'
    BY <1>b, AgainTyped DEF FpgaOK, FirmwareOK, C64OK, GateSound, OwnCommand, OpenIsHeld,
       Released, SocketHeld
  <1> QED
    BY <1>1, <1>2, <1>3, <1>4, <1>5, <1>6, <1>7, <1>8, <1>9

\* The second read of the gate.
LEMMA wi_idle_seenStep == UciInv /\ wi_idle_seen => UciInv'
  <1> SUFFICES ASSUME UciInv, wi_idle_seen PROVE UciInv'
    OBVIOUS
  <1> USE DEF UciInv, TypeOK, wi_idle_seen, call, copy, socket, outcome, firmware, queue,
     registers, fpga
  <1>a. \A s \in UCI_STATUS : s.state = "Idle" => state = "Idle"
    BY StatusRead DEF GateSound
  <1>b. \/ /\ pc' = "write" /\ state = "Idle" /\ ~cmd_busy /\ error_busy' = FALSE
           /\ UNCHANGED <<verdict, uci_socket_open, uci_socket_id, expired>>
        \/ Again("gate") /\ UNCHANGED error_busy
    BY <1>a DEF Goto
  <1>1. FpgaOK'
    BY <1>b DEF FpgaOK
  <1>2. FirmwareOK'
    BY DEF FirmwareOK
  <1>3. C64OK'
    <2>1. CASE ~Again("gate")
      BY <1>b, <2>1 DEF C64OK
    <2>2. CASE Again("gate")
      <3>1. \/ pc' = "gate" /\ UNCHANGED <<verdict, uci_socket_open, uci_socket_id, expired>>
            \/ /\ pc' = "main" /\ verdict' \in Verdicts /\ expired' = TRUE
               /\ uci_socket_open' \in BOOLEAN /\ uci_socket_id' \in Nat
        BY <2>2, AgainTyped
      <3> QED
        BY <3>1 DEF C64OK
    <2> QED
      BY <2>1, <2>2
  <1>4. Handshake'
    BY <1>b, AgainTyped DEF FpgaOK, C64OK, Handshake, GateSound, Staged
  <1>5. GateSound'
    <2>1. CASE ~Again("gate")
      BY <1>b, <2>1 DEF Handshake, GateSound
    <2>2. CASE Again("gate")
      <3>1. pc' \in {"gate", "main"}
        BY <2>2, AgainTyped
      <3>2. error_busy' = FALSE
        BY <1>b DEF GateSound, FpgaOK
      <3> QED
        BY <3>1, <3>2 DEF GateSound
    <2> QED
      BY <2>1, <2>2
  <1>6. OwnCommand'
    BY <1>b, AgainTyped DEF FpgaOK, C64OK, GateSound, OwnCommand
  <1>7. OpenIsHeld'
    BY <1>b, AgainTyped DEF FpgaOK, C64OK, Handshake, GateSound, OwnCommand, OpenIsHeld,
       Released, ConnectAnswered
  <1>8. ConnectAnswered'
    BY <1>b, AgainTyped DEF FpgaOK, FirmwareOK, C64OK, Handshake, GateSound, OpenIsHeld,
       ConnectAnswered
  <1>9. SocketHeld'
    BY <1>b, AgainTyped DEF FpgaOK, FirmwareOK, C64OK, GateSound, OwnCommand, OpenIsHeld,
       Released, SocketHeld
  <1> QED
    BY <1>1, <1>2, <1>3, <1>4, <1>5, <1>6, <1>7, <1>8, <1>9

\* Two reads that agree, and what they say.
LEMMA uci_settle_statusStep == UciInv /\ uci_settle_status => UciInv'
  <1> SUFFICES ASSUME UciInv, uci_settle_status PROVE UciInv'
    OBVIOUS
  <1> USE DEF UciInv, TypeOK, uci_settle_status, call, copy, socket, outcome, firmware,
     queue, registers, fpga
  <1>a. \A s \in UCI_STATUS : s \in Statuses
    BY StatusRead
  <1>b. \/ UNCHANGED <<state, data_acc, avail, line, next>>
        \/ uci_ack
    BY DEF block_terminal
  <1>c. /\ pc' \in {"bytes", "more", "end", "settle"}
        /\ UNCHANGED <<uci_socket_open, uci_socket_id, expired>>
        /\ verdict' \in {verdict, "SHORT_READ", "WAIT_TIMEOUT"}
    BY DEF block_terminal, Goto, Fail
  <1>d. cmd = "connect" /\ pc' = "end" => verdict' \in {"SHORT_READ", "WAIT_TIMEOUT"}
    BY DEF block_terminal, Goto, Fail
  <1>1. FpgaOK'
    BY <1>b, AckKeeps
  <1>2. FirmwareOK'
    BY <1>b, AckKeeps
  <1>3. C64OK'
    <2>1. prev' \in Statuses \cup {Unread} /\ reads' \in Nat
      <3>1. PICK s \in UCI_STATUS : \/ UNCHANGED <<prev, reads>>
                                    \/ prev' = [s EXCEPT !.stat_av = FALSE] /\ reads' = reads + 1
        OBVIOUS
      <3>2. [s EXCEPT !.stat_av = FALSE] \in Statuses
        BY <1>a DEF Statuses
      <3>3. prev \in Statuses \cup {Unread} /\ reads \in Nat
        BY DEF C64OK
      <3>4. CASE UNCHANGED <<prev, reads>>
        BY <3>3, <3>4
      <3>5. CASE prev' = [s EXCEPT !.stat_av = FALSE] /\ reads' = reads + 1
        <4>1. prev' \in Statuses
          BY <3>2, <3>5
        <4>2. reads' \in Nat
          BY <3>3, <3>5
        <4> QED
          BY <4>1, <4>2
      <3> QED
        BY <3>1, <3>4, <3>5
    <2>2. verdict' \in Verdicts
      BY <1>c DEF C64OK, Verdicts
    <2> QED
      BY <1>c, <2>1, <2>2 DEF C64OK
  <1>4. Handshake'
    BY <1>b, AckKeeps
  <1>5. GateSound'
    BY <1>b, <1>c, <1>d DEF FpgaOK, C64OK, Handshake, GateSound, Staged
  <1>6. OwnCommand'
    BY <1>b, <1>c, <1>d DEF FpgaOK, C64OK, GateSound, OwnCommand
  <1>7. OpenIsHeld'
    BY <1>b, <1>c, <1>d DEF FpgaOK, C64OK, Handshake, GateSound, OwnCommand, OpenIsHeld,
       Released, ConnectAnswered
  <1>8. ConnectAnswered'
    BY <1>b, <1>c, <1>d DEF FpgaOK, FirmwareOK, C64OK, Handshake, GateSound, OpenIsHeld,
       ConnectAnswered
  <1>9. SocketHeld'
    BY <1>b, <1>c, <1>d DEF FpgaOK, FirmwareOK, C64OK, GateSound, OwnCommand, OpenIsHeld,
       Released, SocketHeld
  <1> QED
    BY <1>1, <1>2, <1>3, <1>4, <1>5, <1>6, <1>7, <1>8, <1>9

\* The drains and the accept.
LEMMA uci_drainStep == UciInv /\ uci_drain => UciInv'
  <1> SUFFICES ASSUME UciInv, uci_drain PROVE UciInv'
    OBVIOUS
  <1> USE DEF UciInv, TypeOK, uci_drain, call, copy, socket, outcome, firmware, queue,
     registers, fpga
  <1>a. uci_ack \/ UNCHANGED <<state, data_acc, avail, line, next>>
    OBVIOUS
  <1>b. \/ /\ cmd = "connect" /\ verdict = "none" /\ uci_socket_id # 0
           /\ uci_socket_open' = TRUE /\ cmd' = "write" /\ pc' = "gate"
           /\ UNCHANGED <<uci_socket_id, verdict, op, expired>>
        \/ /\ pc' = "main" /\ verdict' \in Verdicts /\ UNCHANGED <<op, cmd>> /\ expired' \in BOOLEAN
           /\ uci_socket_open' \in BOOLEAN /\ uci_socket_id' \in Nat
           /\ uci_socket_open' => uci_socket_open /\ uci_socket_id' = uci_socket_id /\ cmd # "close"
    <2>1. \A v \in {"NO_SOCKET", "WAIT_TIMEOUT", verdict} : v \in Verdicts
      BY DEF C64OK, Verdicts
    <2>2. expired \in BOOLEAN
      BY DEF C64OK
    <2> QED
      BY <2>1, <2>2, ReturnTyped
  <1>1. FpgaOK'
    BY <1>a, AckKeeps
  <1>2. FirmwareOK'
    BY <1>a, AckKeeps
  <1>3. C64OK'
    BY <1>b DEF C64OK
  <1>4. Handshake'
    BY <1>a, AckKeeps
  <1>5. GateSound'
    BY <1>b DEF FpgaOK, C64OK, Handshake, GateSound, Staged
  <1>6. OwnCommand'
    BY <1>b DEF FpgaOK, C64OK, GateSound, OwnCommand
  <1>7. OpenIsHeld'
    BY <1>b DEF FpgaOK, C64OK, Handshake, GateSound, OwnCommand, OpenIsHeld, Released,
       ConnectAnswered
  <1>8. ConnectAnswered'
    BY <1>b DEF FpgaOK, FirmwareOK, C64OK, Handshake, GateSound, OpenIsHeld,
       ConnectAnswered
  <1>9. SocketHeld'
    BY <1>b DEF FpgaOK, FirmwareOK, C64OK, GateSound, OwnCommand, OpenIsHeld, Released,
       SocketHeld
  <1> QED
    BY <1>1, <1>2, <1>3, <1>4, <1>5, <1>6, <1>7, <1>8, <1>9

\* The firmware takes a command and composes its reply.
LEMMA FwAcceptStep == UciInv /\ FwAccept => UciInv'
  <1> SUFFICES ASSUME UciInv, FwAccept PROVE UciInv'
    OBVIOUS
  <1> USE DEF UciInv, TypeOK, FwAccept, call, copy, socket, outcome, firmware, queue,
     registers, fpga
  <1>a. Len(cmdbuf) = 1 /\ state = "Busy"
    BY DEF GateSound, Handshake
  <1>b. cmdbuf # <<>> /\ cmdbuf[1] \in Commands /\ Head(cmdbuf) = cmdbuf[1]
    <2>1. cmdbuf \in Seq(Commands) /\ cmdbuf # <<>>
      <3>1. cmdbuf \in Seq(Commands)
        BY DEF FpgaOK
      <3> QED
        BY <1>a, <3>1, EmptySeq
    <2>2. cmdbuf[1] \in Commands
      BY <1>a, <2>1
    <2> QED
      BY <2>1, <2>2
  <1>c. cmdbuf[1].cmd \in {"connect", "write", "read", "close"}
    BY <1>b DEF Commands
  <1>d. /\ reply' \in [n : BOOLEAN, val : Nat, blocks : Seq(Nat), line : Lines]
        /\ blocks' \in Seq(Nat) /\ Len(blocks') \in {1, 2}
        /\ cmdbuf[1].cmd = "connect" => reply'.val \in Pool \cup {0}
    BY <1>b, <1>c, AnswerShape
  <1>e. pool' = CASE cmdbuf[1].cmd = "connect" -> pool \cup ({reply'.val} \ {0})
                  [] cmdbuf[1].cmd = "close" -> pool \ {cmdbuf[1].id}
                  [] OTHER -> pool
    BY <1>b
  <1>1. FpgaOK'
    BY EmptySeq DEF FpgaOK
  <1>2. FirmwareOK'
    <2>1. pool \subseteq Pool
      BY DEF FirmwareOK
    <2>2. pool' \subseteq Pool
      <3>1. CASE cmdbuf[1].cmd = "connect"
        BY <1>d, <1>e, <2>1, <3>1
      <3>2. CASE cmdbuf[1].cmd # "connect"
        BY <1>c, <1>e, <2>1, <3>2
      <3> QED
        BY <3>1, <3>2
    <2> QED
      BY <1>d, <2>2 DEF FirmwareOK
  <1>3. C64OK'
    BY DEF C64OK
  <1>4. Handshake'
    BY <1>a, <1>d DEF Handshake, Staged
  <1>5. GateSound'
    BY <1>a DEF GateSound, FpgaOK
  <1>6. OwnCommand'
    BY DEF FpgaOK, C64OK, GateSound, OwnCommand
  <1>7. OpenIsHeld'
    BY <1>a, <1>b, <1>c, <1>e DEF FpgaOK, C64OK, Handshake, GateSound, OwnCommand,
       OpenIsHeld, Released, ConnectAnswered
  <1>8. ConnectAnswered'
    BY <1>a, <1>b, <1>c, <1>e DEF FpgaOK, C64OK, GateSound, OwnCommand, ConnectAnswered
  <1>9. SocketHeld'
    BY DEF FpgaOK, FirmwareOK, C64OK, GateSound, OwnCommand, OpenIsHeld, Released,
       SocketHeld
  <1> QED
    BY <1>1, <1>2, <1>3, <1>4, <1>5, <1>6, <1>7, <1>8, <1>9

\* The interface is idle and empty when the program starts.
LEMMA InitInv == Init => UciInv
  <1> SUFFICES ASSUME Init PROVE UciInv
    OBVIOUS
  <1>1. <<>> \in Seq(Commands) /\ <<>> \in Seq(Nat) /\ <<>> \in Seq(Nat \X BOOLEAN) /\ Len(<<>>) = 0
    BY EmptySeq
  <1>2. FpgaOK
    BY <1>1 DEF Init, FpgaOK, States, Lines
  <1>3. FirmwareOK
    BY <1>1 DEF Init, FirmwareOK, Lines
  <1>4. C64OK
    BY <1>1 DEF Init, C64OK, Verdicts
  <1>5. Handshake /\ GateSound /\ OwnCommand /\ OpenIsHeld /\ ConnectAnswered
    BY <1>1 DEF Init, Handshake, GateSound, OwnCommand, OpenIsHeld, ConnectAnswered, Staged
  <1>6. SocketHeld
    BY <1>1 DEF Init, SocketHeld
  <1> QED
    BY <1>2, <1>3, <1>4, <1>5, <1>6 DEF UciInv, TypeOK

\* A step that changes nothing.
LEMMA StutterInv == UciInv /\ UNCHANGED vars => UciInv'
  <1> SUFFICES ASSUME UciInv, UNCHANGED vars PROVE UciInv'
    OBVIOUS
  <1> USE DEF vars, fpga, firmware, call, copy, socket
  <1>1. FpgaOK' /\ FirmwareOK' /\ C64OK'
    BY DEF UciInv, TypeOK, FpgaOK, FirmwareOK, C64OK
  <1>2. Handshake' /\ GateSound' /\ OwnCommand'
    BY DEF UciInv, Handshake, GateSound, OwnCommand, Staged
  <1>3. OpenIsHeld' /\ ConnectAnswered' /\ SocketHeld'
    BY DEF UciInv, OpenIsHeld, Released, ConnectAnswered, SocketHeld
  <1> QED
    BY <1>1, <1>2, <1>3 DEF UciInv, TypeOK

\* Every step of the firmware or of the C64 keeps the invariant.
LEMMA NextInv == UciInv /\ [Next]_vars => UciInv'
  <1> SUFFICES ASSUME UciInv, [Next]_vars PROVE UciInv'
    OBVIOUS
  <1>1. CASE Firmware
    BY <1>1, FwAcceptStep, FwStageStep, FwClearStep, FwEmptyStep DEF Firmware
  <1>2. CASE Call
    BY <1>2, CallStep
  <1>3. CASE Step
    BY <1>3, uci_wait_idleStep, wi_idle_seenStep, uci_put_byteStep, uci_pushStep,
       uci_wait_not_busyStep, uci_check_errStep, uci_wait_reply_stagedStep, uc_stagedStep,
       uci_read_resp_bytesStep, hdr_loopStep, byte_loopStep, uci_settle_statusStep,
       uci_drainStep DEF Step
  <1>4. CASE UNCHANGED vars
    BY <1>4, StutterInv
  <1> QED
    BY <1>1, <1>2, <1>3, <1>4 DEF Next

\* The inductive invariant holds in every reachable state.
THEOREM UciInvariant == Spec => []UciInv
  BY InitInv, NextInv, PTL DEF Spec

\* The registers, the firmware and the driver keep their types; in particular no
\* byte is ever read from an empty response queue.
THEOREM UciTyped == Spec => []TypeOK
  <1>1. UciInv => TypeOK
    BY DEF UciInv
  <1> QED
    BY <1>1, UciInvariant, PTL

\* The gate of uci_wait_idle: whatever waits expired before, the firmware is handed
\* one whole command at a time, and no push is refused.
THEOREM CommandsAlwaysIntact == Spec => []CommandsIntact
  <1>1. UciInv => CommandsIntact
    BY DEF UciInv, GateSound, CommandsIntact
  <1> QED
    BY <1>1, UciInvariant, PTL

\* Every command of net_udp_send, net_poll and net_udp_close names a socket that
\* the firmware holds, also when an earlier close was late or an open failed.
THEOREM SocketsAlwaysHeld == Spec => []SocketHeld
  <1>1. UciInv => SocketHeld
    BY DEF UciInv
  <1> QED
    BY <1>1, UciInvariant, PTL

-----------------------------------------------------------------------------
(* The response queue *)

\* What a step can do to the response queue and to the reply behind it.
LEMMA QueueEffects ==
    ASSUME UciInv, [Next]_vars
    PROVE  \/ FwAccept \/ FwStage \/ FwClear \/ FwEmpty \/ uci_push
           \/ uci_ack /\ UNCHANGED <<fw, blocks, reply>>
           \/ UCI_RESP_DATA /\ avail > 0 /\ UNCHANGED <<state, line, fw, blocks, reply>>
           \/ UNCHANGED <<state, avail, next, fw, blocks, reply>> /\ line' \in {line, "none"}
  <1> USE DEF firmware, queue, registers, fpga, copy
  <1>a. \A s \in UCI_STATUS : s.data_av => avail > 0
    BY StatusRead DEF UciInv, TypeOK
  <1>1. CASE Firmware
    BY <1>1 DEF Firmware
  <1>2. CASE Call \/ wi_idle_seen \/ uci_put_byte \/ uci_wait_not_busy \/ uci_check_err
    BY <1>2 DEF Call, wi_idle_seen, uci_put_byte, uci_wait_not_busy, uci_check_err
  <1>3. CASE uci_wait_reply_staged
    BY <1>3 DEF uci_wait_reply_staged
  <1>4. CASE uci_wait_idle
    BY <1>4 DEF uci_wait_idle
  <1>5. CASE uci_settle_status
    BY <1>5 DEF uci_settle_status, block_terminal
  <1>6. CASE uci_drain
    BY <1>6 DEF uci_drain
  <1>7. CASE uc_staged
    BY <1>7 DEF uc_staged
  <1>8. CASE uci_read_resp_bytes
    BY <1>8, <1>a DEF uci_read_resp_bytes, Goto
  <1>9. CASE hdr_loop
    BY <1>9, <1>a DEF hdr_loop
  <1>10. CASE byte_loop
    BY <1>10, <1>a DEF byte_loop
  <1>11. CASE UNCHANGED vars
    BY <1>11 DEF vars
  <1> QED
    BY <1>1, <1>2, <1>3, <1>4, <1>5, <1>6, <1>7, <1>8, <1>9, <1>10, <1>11 DEF Next, Step

\* The continuation is what is left once the first of two blocks is staged.
LEMMA TailOfTwo ==
    ASSUME NEW b \in Seq(Nat), Len(b) = 2
    PROVE  b[1] \in Nat /\ b[2] \in Nat /\ Tail(b) = <<b[2]>>
  <1>1. b # <<>>
    <2>1. Len(b) # 0
      OBVIOUS
    <2>2. ASSUME Len(b) # 0 PROVE b # <<>>
      BY <2>2, EmptySeq
    <2> QED
      BY <2>1, <2>2
  <1>2. Tail(b) \in Seq(Nat) /\ Len(Tail(b)) = 1
    BY <1>1, HeadTailProperties
  <1>3. Tail(b)[1] = b[2]
    OBVIOUS
  <1>4. 1 \in 1 .. Len(b) /\ 2 \in 1 .. Len(b)
    OBVIOUS
  <1>5. b[1] \in Nat /\ b[2] \in Nat
    BY <1>4, ElementOfSeq
  <1>6. \A t \in Seq(Nat), x \in Nat : Len(t) = 1 /\ t[1] = x => t = <<x>>
    OBVIOUS
  <1> QED
    BY <1>2, <1>3, <1>5, <1>6

\* The queue stays in step with the reply.
LEMMA QueueNext == UciInv /\ QueueInStep /\ [Next]_vars => QueueInStep'
  <1> SUFFICES ASSUME UciInv, QueueInStep, [Next]_vars PROVE QueueInStep'
    OBVIOUS
  <1>a. /\ state \in States /\ avail \in Nat /\ next \in Nat /\ line \in Lines
        /\ blocks \in Seq(Nat) /\ reply.blocks \in Seq(Nat)
    BY DEF UciInv, TypeOK, FpgaOK, FirmwareOK
  <1>1. CASE FwAccept
    <2>1. Len(cmdbuf) = 1 /\ state = "Busy"
      BY <1>1 DEF UciInv, GateSound, Handshake, FwAccept
    <2>2. Head(cmdbuf) \in Commands
      <3>1. cmdbuf \in Seq(Commands)
        BY DEF UciInv, TypeOK, FpgaOK
      <3>2. cmdbuf # <<>>
        <4>1. Len(cmdbuf) # 0
          BY <2>1
        <4> QED
          BY <3>1, <4>1, EmptySeq
      <3> QED
        BY <3>1, <3>2
    <2>3. Head(cmdbuf).cmd \in {"connect", "write", "read", "close"}
      BY <2>2 DEF Commands
    <2>4. reply'.line = "refused" => reply'.val = 0
      BY <1>1, <2>3, AnswerShape DEF FwAccept
    <2>5. blocks' = reply'.blocks
      BY <1>1 DEF FwAccept
    <2> QED
      BY <1>1, <2>1, <2>4, <2>5 DEF FwAccept, QueueInStep, Staged
  <1>2. CASE FwStage
    <2>1. Len(blocks) \in {1, 2}
      BY <1>2 DEF FwStage, UciInv, Handshake
    <2>2. reply' = reply /\ next' = next
      BY <1>2 DEF FwStage
    <2>3. CASE fw = "stage" /\ Len(blocks) = 1
      <3>1. blocks = reply.blocks /\ next = 0 /\ Head(blocks) = blocks[1]
        BY <1>a, <2>3 DEF QueueInStep
      <3>2. avail' = blocks[1] /\ state' = "Last" /\ line' = reply.line /\ fw' = "idle"
        BY <1>2, <2>3, <3>1 DEF FwStage
      <3>3. blocks[1] \in Nat
        <4>1. 1 \in 1 .. Len(blocks)
          BY <2>3
        <4> QED
          BY <1>a, <4>1, ElementOfSeq
      <3> QED
        BY <1>a, <2>2, <2>3, <3>1, <3>2, <3>3 DEF QueueInStep, Staged, Total
    <2>4. CASE fw = "stage" /\ Len(blocks) = 2
      <3>1. blocks = reply.blocks /\ next = 0 /\ Head(blocks) = blocks[1]
        BY <1>a, <2>4 DEF QueueInStep
      <3>2. avail' = blocks[1] /\ state' = "More" /\ line' = "none" /\ fw' = "await"
        BY <1>2, <2>4, <3>1 DEF FwStage
      <3>3. blocks[1] \in Nat
        BY <1>a, <2>4, TailOfTwo
      <3>4. blocks' = <<blocks[2]>>
        BY <1>2, <1>a, <2>4, TailOfTwo DEF FwStage
      <3> QED
        BY <1>a, <2>2, <2>4, <3>1, <3>2, <3>3, <3>4 DEF QueueInStep, Staged
    <2>5. CASE fw # "stage"
      <3>1. fw = "await" /\ data_acc
        BY <1>2, <2>5 DEF FwStage
      <3>2. Len(blocks) = 1 /\ state = "Busy"
        BY <3>1 DEF UciInv, Handshake
      <3>3. /\ Len(reply.blocks) = 2 /\ blocks = <<reply.blocks[2]>>
            /\ next + avail = reply.blocks[1] /\ avail = 0
        BY <3>1, <3>2 DEF QueueInStep, Staged
      <3>4. avail' = reply.blocks[2] /\ state' = "Last" /\ line' = reply.line /\ fw' = "clear"
        BY <1>2, <3>1, <3>2, <3>3 DEF FwStage
      <3>5. reply.blocks[2] \in Nat
        BY <1>a, <3>3
      <3> QED
        BY <1>a, <2>2, <3>3, <3>4, <3>5 DEF QueueInStep, Staged, Total
    <2> QED
      BY <2>1, <2>3, <2>4, <2>5
  <1>3. CASE FwClear
    <2>1. UNCHANGED <<state, avail, line, blocks, reply, next>> /\ fw' \in {"idle", "await"}
      BY <1>3 DEF FwClear
    <2>2. fw' = "idle"
      BY <1>3 DEF FwClear, UciInv, Handshake
    <2> QED
      BY <2>1, <2>2 DEF QueueInStep, Staged
  <1>4. CASE uci_push
    BY <1>4 DEF uci_push, UciInv, GateSound, QueueInStep, Staged, queue, firmware
  <1>5. CASE uci_ack /\ UNCHANGED <<fw, blocks, reply>>
    <2>1. fw = "stage" => state = "Busy"
      BY DEF UciInv, Handshake
    <2>2. fw = "await" => state \in {"More", "Busy"}
      BY DEF UciInv, Handshake
    <2> QED
      BY <1>5, <1>a, <2>1, <2>2 DEF uci_ack, QueueInStep, Staged, States
  <1>6. CASE UCI_RESP_DATA /\ avail > 0 /\ UNCHANGED <<state, line, fw, blocks, reply>>
    <2>1. fw # "stage" /\ Staged
      BY <1>6, <1>a DEF QueueInStep, UciInv, Handshake, Staged
    <2>2. avail' = avail - 1 /\ next' = next + 1 /\ next' + avail' = next + avail
      BY <1>6, <1>a DEF UCI_RESP_DATA
    <2> QED
      BY <1>6, <2>1, <2>2 DEF QueueInStep, Staged
  <1>7. CASE UNCHANGED <<state, avail, next, fw, blocks, reply>> /\ line' \in {line, "none"}
    BY <1>7 DEF QueueInStep, Staged
  <1>8. CASE FwEmpty
    <2>1. fw = "await" /\ data_acc /\ fw' = fw /\ state' = "More"
          /\ UNCHANGED <<avail, line, blocks, reply, next>>
      BY <1>8 DEF FwEmpty, firmware
    <2>2. state = "Busy"
      BY <2>1 DEF UciInv, Handshake
    <2>3. avail = 0 /\ line = "none"
      BY <2>1, <2>2 DEF QueueInStep, Staged
    <2> QED
      BY <2>1, <2>2, <2>3 DEF QueueInStep, Staged
  <1> QED
    BY <1>1, <1>2, <1>3, <1>4, <1>5, <1>6, <1>7, <1>8, QueueEffects

\* It starts in step.
LEMMA QueueInit == Init => QueueInStep
  BY DEF Init, QueueInStep, Staged

-----------------------------------------------------------------------------
(* Verdicts *)

\* A pass that is not the last one changes nothing; the last one ends the call.
LEMMA AgainVerdict ==
    ASSUME NEW label, Again(label)
    PROVE  \/ pc' = label /\ UNCHANGED outcome
           \/ pc' = "main" /\ verdict' = "WAIT_TIMEOUT" /\ expired' = TRUE
  BY DEF Again, Return

\* A verdict is given when a call ends, and stands until the next call.
LEMMA VerdictNext == UciInv /\ VerdictStands /\ [Next]_vars => VerdictStands'
  <1> SUFFICES ASSUME UciInv, VerdictStands, [Next]_vars PROVE VerdictStands'
    OBVIOUS
  <1> USE DEF VerdictStands, call, copy, registers, fpga, firmware, outcome, Goto, Fail
  <1>a. ~error_busy /\ (cmd_busy => pc \in {"main", "gate", "busy"})
    BY DEF UciInv, GateSound
  <1>b. ASSUME NEW label \in {"gate", "busy", "staged", "more"}, Again(label), pc \notin {"end", "main"},
               label = "more" => cmd = "read", UNCHANGED <<cmd_busy, cmd>>
        PROVE  VerdictStands'
    BY <1>b, AgainVerdict
  <1>1. CASE Firmware
    BY <1>1 DEF Firmware, FwAccept, FwStage, FwClear, FwEmpty
  <1>2. CASE Call
    BY <1>2 DEF Call
  <1>3. CASE uci_wait_idle
    BY <1>3, <1>b DEF uci_wait_idle
  <1>4. CASE wi_idle_seen
    BY <1>4, <1>b DEF wi_idle_seen
  <1>5. CASE uci_put_byte \/ uci_push
    BY <1>5 DEF uci_put_byte, uci_push
  <1>6. CASE uci_wait_not_busy
    BY <1>6, <1>b DEF uci_wait_not_busy
  <1>7. CASE uci_check_err
    BY <1>7, <1>a DEF uci_check_err
  <1>8. CASE uci_wait_reply_staged
    <2>1. pc \in {"staged", "more"} /\ UNCHANGED <<cmd_busy, cmd>> /\ ~cmd_busy /\ verdict = "none"
      BY <1>8, <1>a DEF uci_wait_reply_staged
    <2>2. PICK s \in UCI_STATUS :
            IF s.state # "Busy"
            THEN /\ pc' = IF pc = "more" THEN "bytes"
                          ELSE CASE cmd = "read" -> "data"
                                 [] cmd = "connect" -> "status"
                                 [] OTHER -> "end"
                 /\ verdict' = IF cmd = "close" /\ verdict = "none" THEN "closed" ELSE verdict
            ELSE IF cmd # "read" THEN Again(pc)
            ELSE \/ Goto(pc)
                 \/ pc' = "end" /\ verdict' = "WAIT_TIMEOUT"
      BY <1>8 DEF uci_wait_reply_staged
    <2>3. CASE s.state # "Busy"
      BY <2>1, <2>2, <2>3
    <2>4. CASE s.state = "Busy" /\ cmd # "read"
      BY <2>1, <2>2, <2>4, <1>b
    <2>5. CASE s.state = "Busy" /\ cmd = "read"
      BY <2>1, <2>2, <2>5
    <2> QED
      BY <2>3, <2>4, <2>5
  <1>9. CASE uc_staged
    BY <1>9, <1>a DEF uc_staged
  <1>10. CASE uci_read_resp_bytes
    BY <1>10, <1>a DEF uci_read_resp_bytes
  <1>11. CASE hdr_loop
    BY <1>11, <1>a DEF hdr_loop
  <1>12. CASE byte_loop
    BY <1>12, <1>a DEF byte_loop
  <1>13. CASE uci_settle_status
    BY <1>13, <1>a DEF uci_settle_status, block_terminal
  <1>14. CASE uci_drain
    BY <1>14, <1>a DEF uci_drain, Return
  <1>15. CASE UNCHANGED vars
    BY <1>15 DEF vars
  <1> QED
    BY <1>1, <1>2, <1>3, <1>4, <1>5, <1>6, <1>7, <1>8, <1>9, <1>10, <1>11, <1>12, <1>13,
       <1>14, <1>15 DEF Next, Step

\* The common part of the two strengthenings holds in every reachable state.
LEMMA CallInvariant == Spec => []CallInv
  <1>1. Init => CallInv
    BY InitInv, QueueInit DEF CallInv, VerdictStands, Init
  <1>2. CallInv /\ [Next]_vars => CallInv'
    BY NextInv, QueueNext, VerdictNext DEF CallInv
  <1> QED
    BY <1>1, <1>2, PTL DEF Spec

-----------------------------------------------------------------------------
(* Sockets *)

\* A command taken while the C64 waits for it is its own, and names its socket.
LEMMA PoolAccept ==
    ASSUME CallInv, PoolExact, FwAccept, ~expired'
    PROVE  PoolExact'
  <1>1. /\ UNCHANGED <<pc, cmd, verdict, uci_socket_open, uci_socket_id, expired>>
        /\ ~cmd_busy' /\ cmd_busy
    BY DEF FwAccept, call, socket
  <1>2. pc = "busy"
    BY <1>1 DEF PoolExact
  <1>3. /\ pool = IF uci_socket_open THEN {uci_socket_id} ELSE {}
        /\ ~uci_socket_open => uci_socket_id = 0
    BY <1>1, <1>2 DEF PoolExact, Accepted
  <1>4. Len(cmdbuf) = 1 /\ cmdbuf \in Seq(Commands)
    BY <1>1 DEF CallInv, UciInv, GateSound, TypeOK, FpgaOK
  <1>5. cmdbuf # <<>>
    <2>1. Len(cmdbuf) # 0
      BY <1>4
    <2> QED
      BY <1>4, <2>1, EmptySeq
  <1>6. Head(cmdbuf) = cmdbuf[1] /\ cmdbuf[1].cmd = cmd
    BY <1>2, <1>5 DEF CallInv, UciInv, OwnCommand
  <1>7. /\ uci_socket_open <=> cmd # "connect"
        /\ cmd \in {"connect", "write", "read", "close"}
        /\ cmd # "connect" => cmdbuf[1].id \in pool
    <2>1. 1 \in 1 .. Len(cmdbuf)
      BY <1>4
    <2>2. cmd # "connect" => cmdbuf[1].id \in pool
      BY <1>6, <2>1 DEF CallInv, UciInv, SocketHeld
    <2>3. uci_socket_open \in BOOLEAN /\ cmd \in {"connect", "write", "read", "close"}
      BY DEF CallInv, UciInv, TypeOK, C64OK
    <2>4. uci_socket_open <=> cmd # "connect"
      BY <1>2, <2>3 DEF CallInv, UciInv, OpenIsHeld
    <2> QED
      BY <2>2, <2>3, <2>4
  <1>8. pool' = CASE cmd = "connect" -> pool \cup ({reply'.val} \ {0})
                  [] cmd = "close" -> pool \ {cmdbuf[1].id}
                  [] OTHER -> pool
    BY <1>6 DEF FwAccept
  <1>9. pool' = IF cmd \in {"write", "read"} THEN {uci_socket_id}
                ELSE IF cmd = "close" THEN {} ELSE {reply'.val} \ {0}
    <2>1. CASE cmd = "connect"
      BY <1>3, <1>7, <1>8, <2>1
    <2>2. CASE cmd = "close"
      BY <1>3, <1>7, <1>8, <2>2
    <2>3. CASE cmd \in {"write", "read"}
      BY <1>3, <1>7, <1>8, <2>3
    <2> QED
      BY <1>7, <2>1, <2>2, <2>3
  <1> QED
    BY <1>1, <1>2, <1>3, <1>7, <1>9 DEF PoolExact, Accepted

\* Otherwise only the C64's own view of the socket changes, in step with the pool.
LEMMA PoolNext == CallInv /\ PoolExact /\ [Next]_vars => PoolExact'
  <1> SUFFICES ASSUME CallInv, PoolExact, [Next]_vars, ~expired' PROVE PoolExact'
    BY DEF PoolExact
  <1> USE DEF call, copy, registers, fpga, firmware, socket, outcome, Goto, Fail
  <1>a. /\ cmd_busy \in BOOLEAN /\ uci_socket_open \in BOOLEAN /\ ~error_busy
        /\ cmd \in {"connect", "write", "read", "close"}
    BY DEF CallInv, UciInv, GateSound, TypeOK, FpgaOK, C64OK
  <1>b. /\ cmd_busy => pc \in {"main", "gate", "busy"}
        /\ pc # "main" => (uci_socket_open <=> cmd # "connect")
        /\ pc \notin {"end", "main"} => verdict = "none"
        /\ pc \in {"bytes", "settle", "more"} => cmd = "read"
    BY DEF CallInv, UciInv, GateSound, OpenIsHeld, VerdictStands
  <1>c. ASSUME ~expired, Accepted' = Accepted, pc' # "end", pc # "end", cmd_busy' = cmd_busy,
               cmd_busy => pc' = "busy",
               UNCHANGED <<pool, reply, uci_socket_open, uci_socket_id, cmd>>
        PROVE  PoolExact'
    BY <1>c DEF PoolExact
  <1>d. ASSUME ~expired, Accepted, Accepted', cmd # "connect",
               UNCHANGED <<pool, cmd_busy, uci_socket_open, uci_socket_id, cmd>>,
               ~cmd_busy, uci_socket_open
        PROVE  PoolExact'
    BY <1>d, <1>a DEF PoolExact
  <1>e. ASSUME NEW label, Again(label)
        PROVE  pc' = label /\ ~expired /\ UNCHANGED <<verdict, uci_socket_open, uci_socket_id>>
    BY <1>e, AgainVerdict
  <1>1. CASE FwAccept
    BY <1>1, PoolAccept
  <1>2. CASE FwStage \/ FwClear \/ FwEmpty
    BY <1>2 DEF FwStage, FwClear, FwEmpty, PoolExact, Accepted
  <1>3. CASE Call
    BY <1>3 DEF Call, PoolExact, Accepted
  <1>4. CASE uci_wait_idle
    <2>1. /\ pc = "gate" /\ pc' \in {"gate", "confirm"} /\ ~expired /\ UNCHANGED socket
          /\ UNCHANGED <<pool, reply, cmd, cmd_busy>>
      BY <1>4, <1>e DEF uci_wait_idle
    <2> QED
      BY <2>1 DEF PoolExact, Accepted
  <1>5. CASE wi_idle_seen
    <2>1. /\ pc = "confirm" /\ pc' \in {"gate", "write"} /\ ~expired /\ UNCHANGED socket
          /\ UNCHANGED <<pool, reply, cmd, cmd_busy>>
      BY <1>5, <1>e DEF wi_idle_seen
    <2> QED
      BY <2>1 DEF PoolExact, Accepted
  <1>6. CASE uci_put_byte
    BY <1>6 DEF uci_put_byte, PoolExact, Accepted
  <1>7. CASE uci_push
    <2>1. cmd_busy' /\ pc = "push" /\ pc' = "busy"
      BY <1>7 DEF uci_push, CallInv, UciInv, GateSound
    <2> QED
      BY <1>7, <2>1 DEF uci_push, PoolExact, Accepted
  <1>8. CASE uci_wait_not_busy
    <2>1. CASE cmd_busy
      BY <1>8, <1>c, <1>e, <2>1 DEF uci_wait_not_busy, Accepted
    <2>2. CASE ~cmd_busy
      BY <1>8, <1>c, <2>2 DEF uci_wait_not_busy, Accepted
    <2> QED
      BY <2>1, <2>2
  <1>9. CASE uci_check_err
    BY <1>9, <1>a, <1>b, <1>c DEF uci_check_err, Accepted
  <1>10. CASE uci_wait_reply_staged
    <2>1. /\ pc \in {"staged", "more"} /\ ~expired /\ ~cmd_busy
          /\ UNCHANGED <<pool, reply, cmd, cmd_busy, uci_socket_open, uci_socket_id>>
          /\ pc' \in {"bytes", "data", "status", "end", pc}
          /\ pc' = "end" => cmd # "connect"
      <3>1. /\ pc \in {"staged", "more"} /\ ~cmd_busy /\ UNCHANGED <<pool, reply, cmd, cmd_busy>>
        BY <1>10, <1>b DEF uci_wait_reply_staged
      <3>2. PICK s \in UCI_STATUS :
              IF s.state # "Busy"
              THEN /\ pc' = IF pc = "more" THEN "bytes"
                            ELSE CASE cmd = "read" -> "data"
                                   [] cmd = "connect" -> "status"
                                   [] OTHER -> "end"
                   /\ UNCHANGED <<socket, expired>>
              ELSE IF cmd # "read" THEN Again(pc)
              ELSE \/ Goto(pc)
                   \/ pc' = "end" /\ expired' = TRUE
        BY <1>10 DEF uci_wait_reply_staged
      <3>3. CASE s.state # "Busy"
        BY <3>1, <3>2, <3>3, <1>a
      <3>4. CASE s.state = "Busy"
        BY <3>1, <3>2, <3>4, <1>e
      <3> QED
        BY <3>1, <3>3, <3>4
    <2>2. CASE pc' # "end"
      BY <2>1, <2>2, <1>c DEF Accepted
    <2>3. CASE pc' = "end"
      BY <2>1, <2>3, <1>b, <1>d DEF Accepted
    <2> QED
      BY <2>2, <2>3
  <1>11. CASE uc_staged
    <2>1. /\ pc = "status" /\ ~expired /\ ~cmd_busy
          /\ UNCHANGED <<pool, reply, cmd, cmd_busy, uci_socket_open, uci_socket_id>>
          /\ \/ pc' = "data"
             \/ pc' = "end" /\ line = "refused" /\ verdict' = "OPEN_REFUSED"
      BY <1>11, <1>b DEF uc_staged
    <2>2. CASE pc' = "data"
      BY <2>1, <2>2, <1>c DEF Accepted
    <2>3. CASE pc' = "end" /\ cmd # "connect"
      BY <2>1, <2>3, <1>b, <1>d DEF Accepted
    <2>4. CASE pc' = "end" /\ cmd = "connect"
      <3>1. reply.val = 0
        BY <2>1, <2>4 DEF CallInv, QueueInStep
      <3>2. pool = {} /\ uci_socket_id = 0
        BY <2>1, <2>4, <3>1, <1>b DEF PoolExact, Accepted
      <3> QED
        BY <2>1, <2>4, <3>2, <1>b DEF PoolExact, Accepted
    <2> QED
      BY <2>1, <2>2, <2>3, <2>4
  <1>12. CASE uci_read_resp_bytes
    <2>1. /\ pc = "data" /\ ~expired /\ ~cmd_busy /\ cmd \in {"connect", "write"}
          /\ UNCHANGED <<pool, reply, cmd, cmd_busy, uci_socket_open>>
          /\ \/ pc' = "data" /\ UNCHANGED <<verdict, uci_socket_id>>
             \/ /\ pc' = "end"
                /\ uci_socket_id' = IF cmd = "connect" THEN reply.val ELSE uci_socket_id
                /\ cmd = "connect" => verdict' = verdict
      BY <1>12, <1>b DEF uci_read_resp_bytes
    <2>2. CASE pc' = "data"
      BY <2>1, <2>2, <1>c DEF Accepted
    <2>3. CASE pc' = "end" /\ cmd = "write"
      BY <2>1, <2>3, <1>b, <1>d DEF Accepted
    <2>4. CASE pc' = "end" /\ cmd = "connect"
      <3>1. pool = {reply.val} \ {0} /\ uci_socket_id' = reply.val /\ verdict' = "none"
        BY <2>1, <2>4, <1>b DEF PoolExact, Accepted
      <3> QED
        BY <2>1, <2>4, <3>1 DEF PoolExact, Accepted
    <2> QED
      BY <2>1, <2>2, <2>3, <2>4
  <1>13. CASE hdr_loop
    BY <1>13, <1>b, <1>d DEF hdr_loop, Accepted
  <1>14. CASE byte_loop
    BY <1>14, <1>b, <1>d DEF byte_loop, Accepted
  <1>15. CASE uci_settle_status
    BY <1>15, <1>b, <1>d DEF uci_settle_status, block_terminal, Accepted
  <1>16. CASE uci_drain
    <2>1. pc = "end" /\ ~cmd_busy /\ ~expired /\ UNCHANGED <<pool, cmd_busy>>
      BY <1>16, <1>b DEF uci_drain
    <2>2. CASE cmd = "connect" /\ verdict = "none" /\ uci_socket_id # 0
      <3>1. pc' = "gate" /\ uci_socket_open' = TRUE /\ uci_socket_id' = uci_socket_id
        BY <1>16, <2>2 DEF uci_drain
      <3>2. pool = {uci_socket_id}
        BY <2>1, <2>2 DEF PoolExact, Accepted
      <3> QED
        BY <2>1, <3>1, <3>2 DEF PoolExact, Accepted
    <2>3. CASE ~(cmd = "connect" /\ verdict = "none" /\ uci_socket_id # 0)
      <3>1. /\ pc' = "main" /\ cmd' = cmd
            /\ IF cmd = "close" THEN uci_socket_open' = FALSE /\ uci_socket_id' = 0
               ELSE UNCHANGED <<uci_socket_open, uci_socket_id>>
        BY <1>16, <2>3 DEF uci_drain, Return
      <3>2. CASE cmd = "close"
        BY <2>1, <3>1, <3>2 DEF PoolExact, Accepted
      <3>3. CASE cmd = "connect"
        <4>1. uci_socket_id = 0 /\ ~uci_socket_open
          BY <2>1, <2>3, <3>3, <1>b DEF PoolExact
        <4> QED
          BY <2>1, <3>1, <3>3, <4>1 DEF PoolExact, Accepted
      <3>4. CASE cmd \in {"write", "read"}
        BY <2>1, <3>1, <3>4, <1>b DEF PoolExact, Accepted
      <3> QED
        BY <1>a, <3>2, <3>3, <3>4
    <2> QED
      BY <2>2, <2>3
  <1>17. CASE UNCHANGED vars
    BY <1>17 DEF vars, PoolExact, Accepted
  <1> QED
    BY <1>1, <1>2, <1>3, <1>4, <1>5, <1>6, <1>7, <1>8, <1>9, <1>10, <1>11, <1>12, <1>13,
       <1>14, <1>15, <1>16, <1>17 DEF Next, Firmware, Step

\* Only a wait that expires can leave the firmware with a socket that the C64 does
\* not know of: for every size of the pool, whatever the replies are.
THEOREM SocketsNeverLeak == Spec => []NoSocketLeaks
  <1>1. Init => PoolExact
    BY DEF Init, PoolExact, Accepted
  <1>2. CallInv /\ PoolExact => NoSocketLeaks
    BY DEF PoolExact, Accepted, NoSocketLeaks
  <1> QED
    BY <1>1, <1>2, PoolNext, CallInvariant, PTL DEF Spec

-----------------------------------------------------------------------------
(* The copy of a datagram *)

\* How many units a reply of one block or two has.
LEMMA TotalOf ==
    /\ \A k \in Nat : Total(<<k>>) = k /\ Len(<<k>>) = 1 /\ <<k>>[1] = k
    /\ \A j, k \in Nat : Total(<<j, k>>) = j + k /\ Len(<<j, k>>) = 2 /\ <<j, k>>[1] = j
  BY DEF Total

\* A reply to SOCKET_READ that announces a datagram is whole exactly if it has the
\* header and every unit announced; only a full first block has a continuation.
LEMMA ReadReply ==
    ASSUME NEW r \in SOCKET_READ
    PROVE  /\ r.blocks[1] = 0 => r.val = 0
           /\ r.val \in 1 .. MaxLen =>
                /\ Len(r.blocks) = 2 => r.blocks[1] = 1 + Block /\ r.val > Block
                /\ Total(r.blocks) <= 1 + r.val
                /\ r.blocks = Whole(r.val) <=> Total(r.blocks) = 1 + r.val
  <1>a. MaxLen \in Nat /\ Block \in Nat /\ MaxLen < NoData /\ Block # 0
    BY SizeAssumption
  <1>1. CASE r \in Replies(NoData, {<<1>>}, "00")
    BY <1>a, <1>1, TotalOf DEF Replies, NoData
  <1>2. CASE r \in Replies(0, {<<0>>, <<1>>}, "00")
    BY <1>a, <1>2 DEF Replies
  <1>3. CASE r \in Replies(MaxLen + 1, {<<1 + Block>>}, "00")
    <2>1. r.val = MaxLen + 1 /\ r.blocks = <<1 + Block>>
      BY <1>3 DEF Replies
    <2> QED
      BY <1>a, <2>1, TotalOf
  <1>4. CASE \E len \in 1 .. MaxLen : r \in Replies(len, {Whole(len)} \cup Short(len), "00")
    <2>1. PICK len \in 1 .. MaxLen : r \in Replies(len, {Whole(len)} \cup Short(len), "00")
      BY <1>4
    <2>2. r.val = len /\ r.blocks \in {Whole(len)} \cup Short(len) /\ len \in Nat
      BY <1>a, <2>1 DEF Replies
    <2>3. CASE len <= Block
      <3>1. PICK k \in 1 .. (1 + len) : r.blocks = <<k>>
        BY <1>a, <2>2, <2>3 DEF Whole, Short
      <3>2. Whole(r.val) = <<1 + len>>
        BY <2>2, <2>3 DEF Whole
      <3>3. k \in Nat /\ k >= 1 /\ k <= 1 + len
        BY <2>2, <3>1
      <3>4. Total(r.blocks) = k /\ Len(r.blocks) = 1 /\ r.blocks[1] = k
        BY <3>1, <3>3, TotalOf
      <3>5. r.blocks = Whole(r.val) <=> k = 1 + len
        BY <2>2, <3>1, <3>2, <3>3
      <3> QED
        BY <2>2, <3>3, <3>4, <3>5
    <2>4. CASE ~(len <= Block)
      <3>1. Whole(r.val) = <<1 + Block, len - Block>>
        BY <2>2, <2>4 DEF Whole
      <3>2. CASE r.blocks = <<1 + Block>>
        <4>1. Total(r.blocks) = 1 + Block /\ Len(r.blocks) = 1 /\ r.blocks[1] = 1 + Block
          BY <1>a, <3>2, TotalOf
        <4>2. Len(Whole(r.val)) = 2
          BY <1>a, <2>2, <2>4, <3>1, TotalOf
        <4> QED
          BY <1>a, <2>2, <2>4, <4>1, <4>2
      <3>3. CASE \E k \in 0 .. (len - Block) : r.blocks = <<1 + Block, k>>
        <4>1. PICK k \in 0 .. (len - Block) : r.blocks = <<1 + Block, k>>
          BY <3>3
        <4>2. k \in Nat /\ k <= len - Block
          BY <1>a, <2>2, <2>4, <4>1
        <4>3. Total(r.blocks) = 1 + Block + k /\ r.blocks[1] = 1 + Block
          BY <1>a, <4>1, <4>2, TotalOf
        <4>4. r.blocks = Whole(r.val) <=> k = len - Block
          BY <1>a, <2>2, <2>4, <3>1, <4>1, <4>2
        <4> QED
          BY <1>a, <2>2, <2>4, <4>2, <4>3, <4>4
      <3>4. \/ r.blocks = <<1 + Block>>
            \/ \E k \in 0 .. (len - Block) : r.blocks = <<1 + Block, k>>
        BY <1>a, <2>2, <2>4 DEF Whole, Short
      <3> QED
        BY <3>2, <3>3, <3>4
    <2> QED
      BY <2>3, <2>4
  <1> QED
    BY <1>1, <1>2, <1>3, <1>4 DEF SOCKET_READ

\* A command stays accepted until its call ends, and only the firmware accepts one.
LEMMA AcceptedBefore ==
    ASSUME CallInv, [Next]_vars, ~FwAccept
    PROVE  /\ reply' = reply
           /\ Accepted' => Accepted /\ cmd' = cmd /\ n' = n
  <1> USE DEF call, copy, registers, fpga, firmware, socket, outcome, Goto, Fail, Accepted
  <1>a. ~error_busy /\ (cmd_busy => pc \in {"main", "gate", "busy"}) /\ (pc = "push" => state = "Idle")
    BY DEF CallInv, UciInv, GateSound
  <1>1. CASE FwStage \/ FwClear \/ FwEmpty
    BY <1>1 DEF FwStage, FwClear, FwEmpty
  <1>2. CASE Call \/ uci_put_byte \/ uci_push
    BY <1>2, <1>a DEF Call, uci_put_byte, uci_push
  <1>3. CASE uci_wait_idle
    BY <1>3, <1>a, AgainVerdict DEF uci_wait_idle
  <1>4. CASE wi_idle_seen
    BY <1>4, <1>a, AgainVerdict DEF wi_idle_seen
  <1>5. CASE uci_wait_not_busy
    BY <1>5, <1>a, AgainVerdict DEF uci_wait_not_busy
  <1>6. CASE uci_check_err \/ uci_wait_reply_staged
    BY <1>6, <1>a DEF uci_check_err, uci_wait_reply_staged
  <1>7. CASE uc_staged \/ uci_read_resp_bytes \/ hdr_loop
    BY <1>7, <1>a DEF uc_staged, uci_read_resp_bytes, hdr_loop
  <1>8. CASE byte_loop \/ uci_settle_status
    BY <1>8, <1>a DEF byte_loop, uci_settle_status
  <1>9. CASE uci_drain
    BY <1>9, <1>a DEF uci_drain, Return
  <1>10. CASE UNCHANGED vars
    BY <1>10 DEF vars
  <1> QED
    BY <1>1, <1>2, <1>3, <1>4, <1>5, <1>6, <1>7, <1>8, <1>9, <1>10 DEF Next, Firmware, Step

\* The command that the firmware takes while the C64 waits is the C64's own.
LEMMA AcceptsOwn ==
    ASSUME CallInv, ReadAnswered, FwAccept, cmd = "read", pc = "busy"
    PROVE  reply'.n = n /\ reply' \in SOCKET_READ
  <1>1. Len(cmdbuf) = 1 /\ cmdbuf \in Seq(Commands)
    BY DEF FwAccept, CallInv, UciInv, GateSound, TypeOK, FpgaOK
  <1>2. cmdbuf # <<>>
    <2>1. Len(cmdbuf) # 0
      BY <1>1
    <2> QED
      BY <1>1, <2>1, EmptySeq
  <1>3. Head(cmdbuf) = cmdbuf[1] /\ cmdbuf[1].cmd = "read" /\ cmdbuf[1].n = n
    BY <1>2 DEF CallInv, UciInv, OwnCommand, ReadAnswered
  <1> QED
    BY <1>3 DEF FwAccept, Answers

\* Replies stay matched with commands.
LEMMA AnsweredNext == CallInv /\ ReadAnswered /\ [Next]_vars => ReadAnswered'
  <1> SUFFICES ASSUME CallInv, ReadAnswered, [Next]_vars PROVE ReadAnswered'
    OBVIOUS
  <1>1. CASE FwAccept
    <2>1. cmdbuf' = <<>> /\ cmd_busy /\ UNCHANGED <<pc, cmd, n>>
      BY <1>1 DEF FwAccept, call
    <2>2. pc \in {"main", "gate", "busy"}
      BY <2>1 DEF CallInv, UciInv, GateSound
    <2> QED
      BY <1>1, <2>1, <2>2, AcceptsOwn DEF ReadAnswered, Accepted
  <1>2. CASE ~FwAccept
    <2>1. cmd' = "read" /\ Accepted' => reply'.n = n' /\ reply' \in SOCKET_READ
      BY <1>2, AcceptedBefore DEF ReadAnswered
    <2>2. CASE uci_put_byte
      <3>1. Len(cmdbuf) = 0 /\ cmdbuf \in Seq(Commands)
        BY <2>2 DEF uci_put_byte, CallInv, UciInv, GateSound, TypeOK, FpgaOK
      <3>2. cmdbuf = <<>>
        BY <3>1, EmptySeq
      <3>3. cmdbuf' = <<[cmd |-> cmd, id |-> uci_socket_id, n |-> ~n]>> /\ n' = ~n
        BY <2>2, <3>2 DEF uci_put_byte
      <3>4. cmdbuf'[1].n = n'
        BY <3>3
      <3> QED
        BY <2>1, <3>4 DEF ReadAnswered
    <2>3. CASE ~uci_put_byte
      <3>1. cmdbuf' = cmdbuf /\ n' = n /\ (pc' \in {"push", "busy"} => pc \in {"push", "busy"})
        <4> USE DEF call, copy, registers, fpga, firmware, socket, outcome, Goto, Fail
        <4>1. CASE FwStage \/ FwClear \/ FwEmpty \/ Call \/ uci_push
          BY <4>1 DEF FwStage, FwClear, FwEmpty, Call, uci_push
        <4>2. CASE uci_wait_idle \/ wi_idle_seen \/ uci_wait_not_busy
          BY <4>2, AgainVerdict DEF uci_wait_idle, wi_idle_seen, uci_wait_not_busy
        <4>3. CASE uci_check_err \/ uc_staged \/ uci_read_resp_bytes
          BY <4>3 DEF uci_check_err, uc_staged, uci_read_resp_bytes
        <4>4. CASE uci_wait_reply_staged
          BY <4>4, AgainVerdict DEF uci_wait_reply_staged
        <4>5. CASE hdr_loop \/ byte_loop \/ uci_settle_status
          BY <4>5 DEF hdr_loop, byte_loop, uci_settle_status, block_terminal
        <4>6. CASE uci_drain
          BY <4>6 DEF uci_drain, Return
        <4>7. CASE UNCHANGED vars
          BY <4>7 DEF vars
        <4> QED
          BY <1>2, <2>3, <4>1, <4>2, <4>3, <4>4, <4>5, <4>6, <4>7 DEF Next, Firmware, Step
      <3> QED
        BY <2>1, <3>1 DEF ReadAnswered
    <2> QED
      BY <2>2, <2>3
  <1> QED
    BY <1>1, <1>2

\* What is known of a reply that is being read.
LEMMA ReplyTyped ==
    ASSUME CallInv, ReadAnswered, cmd = "read", Accepted
    PROVE  /\ reply \in SOCKET_READ /\ reply.n = n /\ reply.val \in Nat
           /\ reply.blocks \in Seq(Nat) /\ avail \in Nat /\ next \in Nat
           /\ ~cmd_busy /\ edge \in BOOLEAN /\ state \in States
  BY DEF CallInv, UciInv, TypeOK, FpgaOK, FirmwareOK, GateSound, ReadAnswered, Accepted

\* The header is still ahead, or the call has ended, or it is read.
LEMMA HeaderNext ==
    CallInv /\ ReadAnswered /\ HeaderFirst /\ CopyInStep /\ [Next]_vars => HeaderFirst'
  <1> SUFFICES ASSUME CallInv, ReadAnswered, HeaderFirst, CopyInStep, [Next]_vars,
                      cmd' = "read", Accepted', pc' \in {"busy", "err", "staged", "data"}
               PROVE  /\ buf' = <<>> /\ next' = 0
                      /\ fw' = "stage" \/ (Staged' /\ avail' = reply'.blocks[1])
                      /\ pc' = "data" => Staged' /\ ~edge'
    BY DEF HeaderFirst
  <1> USE DEF call, copy, registers, fpga, firmware, queue, socket, outcome, Goto, Fail
  <1>1. CASE FwAccept
    <2>1. pc = "busy" /\ cmd = "read" /\ buf' = buf /\ next' = 0 /\ fw' = "stage" /\ pc' = pc
      BY <1>1 DEF FwAccept, CallInv, UciInv, GateSound
    <2>2. buf = <<>>
      BY <2>1 DEF CopyInStep
    <2> QED
      BY <2>1, <2>2
  <1>2. CASE ~FwAccept
    <2>1. Accepted /\ cmd = "read" /\ reply' = reply
      BY <1>2, AcceptedBefore
    <2>2. ASSUME pc \in {"busy", "err", "staged", "data"}
          PROVE  /\ buf = <<>> /\ next = 0
                 /\ fw = "stage" \/ (Staged /\ avail = reply.blocks[1])
                 /\ pc = "data" => Staged /\ ~edge
      BY <2>1, <2>2 DEF HeaderFirst
    <2>3. CASE FwStage
      <3>1. pc' = pc /\ buf' = buf /\ next' = next /\ pc \in {"busy", "err", "staged", "data"}
        BY <2>3 DEF FwStage
      <3>2. fw = "stage"
        BY <2>2, <2>3, <3>1 DEF FwStage, CallInv, UciInv, Handshake, Staged
      <3>3. state = "Busy" /\ blocks = reply.blocks
        BY <3>2 DEF CallInv, UciInv, Handshake, QueueInStep
      <3>4. avail' = reply.blocks[1] /\ Staged' /\ pc # "data"
        BY <2>2, <2>3, <3>1, <3>3 DEF FwStage, Staged
      <3> QED
        BY <2>1, <2>2, <3>1, <3>4
    <2>4. CASE FwClear
      <3>1. fw = "clear" /\ UNCHANGED <<pc, buf, next, state, avail, edge>>
        BY <2>4 DEF FwClear
      <3> QED
        BY <2>1, <2>2, <3>1 DEF Staged
    <2>13. ~FwEmpty
      <3> SUFFICES ASSUME FwEmpty PROVE FALSE
        OBVIOUS
      <3>1. fw = "await" /\ data_acc /\ pc \in {"busy", "err", "staged", "data"}
        BY DEF FwEmpty
      <3>2. state = "Busy"
        BY <3>1 DEF CallInv, UciInv, Handshake
      <3> QED
        BY <2>2, <3>1, <3>2 DEF Staged
    <2>5. CASE uci_wait_not_busy \/ uci_check_err
      <3>1. /\ pc \in {"busy", "err"} /\ pc' \in {"busy", "err", "staged"}
            /\ UNCHANGED <<buf, next, state, avail, fw>>
        BY <2>1, <2>5, AgainVerdict DEF uci_wait_not_busy, uci_check_err
      <3> QED
        BY <2>1, <2>2, <3>1 DEF Staged
    <2>6. CASE uci_wait_reply_staged
      <3>1. UNCHANGED <<buf, next, state, avail, fw>> /\ edge' = FALSE
        BY <2>6 DEF uci_wait_reply_staged
      <3>2. pc \in {"staged", "more"}
        BY <2>6 DEF uci_wait_reply_staged
      <3>3. pc = "staged"
        BY <2>1, <2>6, <3>2 DEF uci_wait_reply_staged
      <3>4. pc' = "data" => Staged
        <4> SUFFICES ASSUME pc' = "data", ~Staged PROVE FALSE
          OBVIOUS
        <4>1. fw = "stage"
          BY <2>2, <3>3
        <4>2. state = "Busy" /\ ~edge
          BY <4>1 DEF CallInv, UciInv, Handshake
        <4>3. \A s \in UCI_STATUS : s.state = "Busy"
          BY <4>2 DEF UCI_STATUS, Steady
        <4> QED
          BY <2>1, <2>6, <3>3, <4>3 DEF uci_wait_reply_staged
      <3> QED
        BY <2>1, <2>2, <3>1, <3>3, <3>4 DEF Staged
    <2>7. CASE UNCHANGED vars
      BY <2>1, <2>2, <2>7 DEF vars, Staged
    <2>8. CASE Call \/ uci_put_byte \/ uci_push
      BY <2>8 DEF Call, uci_put_byte, uci_push, Accepted, CallInv, UciInv, GateSound
    <2>9. CASE uci_wait_idle \/ wi_idle_seen
      BY <2>9, AgainVerdict DEF uci_wait_idle, wi_idle_seen
    <2>10. CASE uc_staged \/ uci_read_resp_bytes
      BY <2>1, <2>10 DEF uc_staged, uci_read_resp_bytes, CallInv, VerdictStands
    <2>11. CASE hdr_loop \/ byte_loop \/ uci_settle_status
      BY <2>11 DEF hdr_loop, byte_loop, uci_settle_status, block_terminal
    <2>12. CASE uci_drain
      BY <2>12 DEF uci_drain, Return
    <2> QED
      BY <1>2, <2>3, <2>4, <2>13, <2>5, <2>6, <2>7, <2>8, <2>9, <2>10, <2>11, <2>12
      DEF Next, Firmware, Step
  <1> QED
    BY <1>1, <1>2

\* One more unit in udp_recv_buf.
LEMMA CopyGrows ==
    ASSUME NEW b \in Seq(Nat \X BOOLEAN), b = [i \in 1 .. Len(b) |-> <<i, TRUE>>]
    PROVE  LET c == Append(b, <<1 + Len(b), TRUE>>)
           IN  Len(c) = Len(b) + 1 /\ c = [i \in 1 .. Len(c) |-> <<i, TRUE>>]
  <1> DEFINE k == Len(b)
             c == Append(b, <<1 + k, TRUE>>)
  <1>1. k \in Nat /\ DOMAIN b = 1 .. k
    OBVIOUS
  <1>2. <<1 + k, TRUE>> \in Nat \X BOOLEAN
    <2>1. 1 + k \in Nat
      BY <1>1
    <2> QED
      BY <2>1, Zenon
  <1>3. Len(c) = k + 1 /\ c \in Seq(Nat \X BOOLEAN)
    BY <1>2, AppendProperties
  <1>4. \A i \in 1 .. k + 1 : c[i] = IF i <= k THEN b[i] ELSE <<1 + k, TRUE>>
    BY <1>1, <1>2, AppendProperties
  <1>5. \A i \in 1 .. k : b[i] = <<i, TRUE>>
    OBVIOUS
  <1> HIDE DEF k, c
  <1>6. \A i \in 1 .. k + 1 : c[i] = <<i, TRUE>>
    <2> SUFFICES ASSUME NEW i \in 1 .. k + 1 PROVE c[i] = <<i, TRUE>>
      OBVIOUS
    <2>1. CASE i <= k
      <3>1. i \in 1 .. k
        BY <1>1, <2>1
      <3> QED
        BY <1>4, <1>5, <2>1, <3>1
    <2>2. CASE ~(i <= k)
      <3>1. i = 1 + k
        BY <1>1, <2>2
      <3> QED
        BY <1>4, <2>2, <3>1
    <2> QED
      BY <2>1, <2>2
  <1>7. c \in [1 .. k + 1 -> Nat \X BOOLEAN]
    BY <1>3, LenProperties
  <1>8. c = [i \in 1 .. k + 1 |-> <<i, TRUE>>]
    BY <1>6, <1>7
  <1> QED
    BY <1>3, <1>8 DEF c, k

\* Two reads of UCI_STATUS that agree are not a torn one, unless all they say is
\* that the continuation is not there yet.
LEMMA SettledRead ==
    ASSUME CallInv, CopyInStep, pc = "settle", NEW s \in UCI_STATUS,
           [s EXCEPT !.stat_av = FALSE] = prev
    PROVE  (s.state = "Busy" /\ ~s.data_av) \/ (~edge /\ s = Steady)
  <1>1. CASE ~edge
    BY <1>1 DEF UCI_STATUS
  <1>2. CASE edge
    <2>1. prev.state \in {"none", "Busy"} /\ ~prev.data_av
      BY <1>2 DEF CopyInStep
    <2>2. s \in Statuses
      BY StatusRead DEF CallInv, UciInv, TypeOK
    <2>3. prev.state = s.state /\ prev.data_av = s.data_av
      BY <2>2 DEF Statuses
    <2>4. s.state # "none"
      BY <2>2 DEF Statuses, States
    <2> QED
      BY <2>1, <2>3, <2>4
  <1> QED
    BY <1>1, <1>2

\* The copy stays in step, through any number of settling reads and blocks.
LEMMA CopyNext ==
    CallInv /\ ReadAnswered /\ HeaderFirst /\ CopyInStep /\ [Next]_vars => CopyInStep'
  <1> SUFFICES ASSUME CallInv, ReadAnswered, HeaderFirst, CopyInStep, [Next]_vars
               PROVE  CopyInStep'
    OBVIOUS
  <1> USE DEF call, copy, registers, fpga, firmware, queue, socket, outcome, Goto, Fail
  <1> DEFINE Late == prev.state \in {"none", "Busy"} /\ ~prev.data_av
             Copies == /\ reply.val \in 1 .. MaxLen
                       /\ next = 1 + Len(buf) /\ rem = reply.val - Len(buf)
                       /\ buf = [i \in 1 .. Len(buf) |-> <<i, TRUE>>]
                       /\ Staged \/ fw = "await"
             Settles == rem > 0 /\ (edge \/ state = "Busy" => Late)
  <1>a. pc \in {"bytes", "settle", "more"} => Copies
    BY DEF CopyInStep
  <1>b. pc = "settle" => Settles
    BY DEF CopyInStep
  <1>c. pc \notin {"bytes", "settle", "more", "main"} /\ (pc = "end" => cmd # "read") => buf = <<>>
    BY DEF CopyInStep
  <1>d. ASSUME pc' \notin {"bytes", "settle", "more"}, pc' = "main" \/ (pc' = "end" /\ cmd' = "read")
        PROVE  CopyInStep'
    BY <1>d DEF CopyInStep
  <1>e. ASSUME pc' \notin {"bytes", "settle", "more"}, buf' = <<>>
        PROVE  CopyInStep'
    BY <1>e DEF CopyInStep
  <1>f. ASSUME pc' \in {"bytes", "more"}, Copies'
        PROVE  CopyInStep'
    BY <1>f DEF CopyInStep
  <1>g. ASSUME pc' = "settle", Copies', Settles'
        PROVE  CopyInStep'
    BY <1>g DEF CopyInStep
  <1>h. /\ rem \in Nat /\ buf \in Seq(Nat \X BOOLEAN) /\ Len(buf) \in Nat
        /\ avail \in Nat /\ next \in Nat /\ state \in States
        /\ cmd_busy => pc \in {"main", "gate", "busy"}
    BY DEF CallInv, UciInv, TypeOK, FpgaOK, FirmwareOK, C64OK, GateSound
  <1>1. CASE FwAccept
    <2>1. pc \in {"main", "gate", "busy"} /\ pc' = pc /\ buf' = buf /\ cmd' = cmd
      BY <1>1, <1>h DEF FwAccept
    <2> QED
      BY <2>1, <1>c, <1>d, <1>e
  <1>2. CASE FwStage \/ FwClear \/ FwEmpty
    <2>1. UNCHANGED <<pc, cmd, reply, next, rem, buf, prev>>
      BY <1>2 DEF FwStage, FwClear, FwEmpty
    <2>2. CASE pc \notin {"bytes", "settle", "more"}
      BY <2>1, <2>2 DEF CopyInStep
    <2>3. CASE FwStage /\ pc \in {"bytes", "settle", "more"}
      <3>1. fw = "await" /\ data_acc
        BY <1>a, <2>3 DEF FwStage, CallInv, UciInv, Handshake, Staged
      <3>2. state = "Busy" /\ Len(blocks) = 1
        BY <3>1 DEF CallInv, UciInv, Handshake
      <3>3. Staged'
        BY <2>3, <3>1, <3>2 DEF FwStage, Staged
      <3>4. Copies'
        BY <1>a, <2>1, <2>3, <3>3
      <3>5. pc = "settle" => Settles'
        BY <1>b, <2>1, <3>2
      <3> QED
        BY <1>f, <1>g, <2>1, <2>3, <3>4, <3>5
    <2>4. CASE FwClear /\ pc \in {"bytes", "settle", "more"}
      <3>1. fw = "clear" /\ UNCHANGED <<state, edge>>
        BY <2>4 DEF FwClear
      <3>2. Copies'
        BY <1>a, <2>1, <2>4, <3>1 DEF Staged
      <3>3. pc = "settle" => Settles'
        BY <1>b, <2>1, <3>1
      <3> QED
        BY <1>f, <1>g, <2>1, <2>4, <3>2, <3>3
    <2>5. CASE FwEmpty /\ pc \in {"bytes", "settle", "more"}
      <3>1. fw = "await" /\ data_acc /\ fw' = fw /\ state' = "More"
        BY <2>5 DEF FwEmpty
      <3>2. state = "Busy"
        BY <3>1 DEF CallInv, UciInv, Handshake
      <3>3. Staged'
        BY <3>1 DEF Staged
      <3>4. Copies'
        BY <1>a, <2>1, <2>5, <3>3
      <3>5. pc = "settle" => Settles'
        BY <1>b, <2>1, <3>2
      <3> QED
        BY <1>f, <1>g, <2>1, <2>5, <3>4, <3>5
    <2> QED
      BY <1>2, <2>2, <2>3, <2>4, <2>5
  <1>3. CASE Call
    BY <1>3, <1>e DEF Call
  <1>4. CASE uci_wait_idle
    BY <1>4, <1>c, <1>d, <1>e, AgainVerdict DEF uci_wait_idle
  <1>5. CASE wi_idle_seen
    BY <1>5, <1>c, <1>d, <1>e, AgainVerdict DEF wi_idle_seen
  <1>6. CASE uci_put_byte \/ uci_push
    BY <1>6, <1>c, <1>e DEF uci_put_byte, uci_push
  <1>7. CASE uci_wait_not_busy
    BY <1>7, <1>c, <1>d, <1>e, AgainVerdict DEF uci_wait_not_busy
  <1>8. CASE uci_check_err
    BY <1>8, <1>c, <1>e DEF uci_check_err
  <1>9. CASE uci_wait_reply_staged
    <2>1. UNCHANGED <<cmd, reply, next, rem, buf, prev, state, fw>> /\ pc \in {"staged", "more"}
      BY <1>9 DEF uci_wait_reply_staged
    <2>2. CASE pc = "staged"
      <3>1. pc' \in {"staged", "data", "status", "end", "main"}
        BY <1>9, <2>2, AgainVerdict DEF uci_wait_reply_staged
      <3> QED
        BY <2>1, <2>2, <3>1, <1>c, <1>d, <1>e
    <2>3. CASE pc = "more"
      <3>1. cmd = "read"
        BY <2>3 DEF CallInv, VerdictStands
      <3>2. pc' \in {"bytes", "more", "end"}
        BY <1>9, <2>3, <3>1 DEF uci_wait_reply_staged
      <3>3. Copies'
        BY <1>a, <2>1, <2>3 DEF Staged
      <3> QED
        BY <2>1, <3>1, <3>2, <3>3, <1>d, <1>f
    <2> QED
      BY <2>1, <2>2, <2>3
  <1>10. CASE uc_staged
    BY <1>10, <1>c, <1>e DEF uc_staged
  <1>11. CASE uci_read_resp_bytes
    BY <1>11, <1>c, <1>e DEF uci_read_resp_bytes
  <1>12. CASE hdr_loop
    <2>1. pc = "data" /\ cmd = "read" /\ UNCHANGED <<cmd, reply, buf, state, fw>>
      BY <1>12 DEF hdr_loop
    <2>2. buf = <<>> /\ next = 0 /\ Staged
      BY <2>1 DEF HeaderFirst, Accepted
    <2>3. CASE pc' = "end"
      BY <2>1, <2>3, <1>d
    <2>4. CASE pc' # "end"
      <3>1. pc' = "bytes" /\ next' = next + 1 /\ rem' = reply.val /\ reply.val \in 1 .. MaxLen
        BY <1>12, <2>4, SizeAssumption DEF hdr_loop, UCI_RESP_DATA, CallInv, UciInv, TypeOK, FirmwareOK
      <3>2. Len(buf') = 0 /\ buf' = [i \in 1 .. 0 |-> <<i, TRUE>>]
        BY <2>1, <2>2
      <3>3. Copies'
        BY <2>1, <2>2, <3>1, <3>2, SizeAssumption DEF Staged
      <3> QED
        BY <3>1, <3>3, <1>f
    <2> QED
      BY <2>3, <2>4
  <1>13. CASE byte_loop
    <2>1. pc = "bytes" /\ cmd = "read" /\ Copies /\ UNCHANGED <<cmd, reply, state, fw>>
      BY <1>13, <1>a DEF byte_loop, CallInv, VerdictStands
    <2>2. CASE rem = 0
      BY <1>13, <2>1, <2>2, <1>d DEF byte_loop
    <2>3. CASE rem # 0
      <3>1. PICK s \in UCI_STATUS :
              IF s.data_av
              THEN /\ UCI_RESP_DATA /\ rem' = rem - 1
                   /\ buf' = Append(buf, <<next, reply.n = n>>) /\ pc' = "bytes"
              ELSE /\ prev' = Unread /\ pc' = "settle"
                   /\ UNCHANGED <<avail, next, rem, buf>>
        BY <1>13, <2>3 DEF byte_loop
      <3>2. CASE s.data_av
        <4>1. (reply.n = n) = TRUE
          BY <2>1 DEF ReadAnswered, Accepted
        <4>2. buf' = Append(buf, <<1 + Len(buf), TRUE>>)
          BY <2>1, <3>1, <3>2, <4>1
        <4>3. Len(buf') = Len(buf) + 1 /\ buf' = [i \in 1 .. Len(buf') |-> <<i, TRUE>>]
          BY <1>h, <2>1, <4>2, CopyGrows
        <4>4. next' = next + 1 /\ rem' = rem - 1
          BY <3>1, <3>2 DEF UCI_RESP_DATA
        <4>5. reply.val \in Nat
          BY <2>1, SizeAssumption
        <4>6. next' = 1 + Len(buf') /\ rem' = reply.val - Len(buf')
          <5>1. next = 1 + Len(buf) /\ rem = reply.val - Len(buf)
            BY <2>1
          <5>2. Len(buf') = Len(buf) + 1 /\ Len(buf) \in Nat
            BY <1>h, <4>3
          <5> QED
            BY <4>4, <4>5, <5>1, <5>2
        <4>7. Staged' \/ fw' = "await"
          BY <2>1 DEF Staged
        <4>8. Copies'
          BY <2>1, <4>3, <4>6, <4>7
        <4> QED
          BY <3>1, <3>2, <4>8, <1>f
      <3>3. CASE ~s.data_av
        <4>1. prev' = Unread /\ UNCHANGED <<next, rem, buf>>
          BY <3>1, <3>3
        <4>2. Copies'
          BY <2>1, <4>1 DEF Staged
        <4>3. rem > 0
          BY <1>h, <2>3
        <4>4. Settles'
          BY <4>1, <4>3 DEF Unread
        <4> QED
          BY <3>1, <3>3, <4>2, <4>4, <1>g
      <3> QED
        BY <3>2, <3>3
    <2> QED
      BY <2>2, <2>3
  <1>14. CASE uci_settle_status
    <2>1. /\ pc = "settle" /\ cmd = "read" /\ Copies /\ Settles /\ edge' = FALSE
          /\ UNCHANGED <<cmd, reply, fw, rem, buf>>
      BY <1>14, <1>a, <1>b DEF uci_settle_status, CallInv, VerdictStands
    <2>2. PICK s \in UCI_STATUS :
            LET masked == [s EXCEPT !.stat_av = FALSE]
            IN  IF masked = prev
                THEN block_terminal(masked) /\ UNCHANGED <<prev, reads>>
                ELSE /\ prev' = masked /\ UNCHANGED <<state, data_acc, avail, line, next>>
                     /\ pc' \in {"settle", "end"}
      BY <1>14 DEF uci_settle_status
    <2> DEFINE masked == [s EXCEPT !.stat_av = FALSE]
    <2>3. /\ s \in Statuses /\ masked.state = s.state /\ masked.data_av = s.data_av
      BY StatusRead DEF CallInv, UciInv, TypeOK, Statuses
    <2>4. CASE masked = prev
      <3>1. block_terminal(masked)
        BY <2>2, <2>4
      <3>2. CASE UNCHANGED <<state, next>> /\ pc' \in {"bytes", "more"}
        BY <2>1, <3>2, <1>f DEF Staged
      <3>3. CASE pc' = "end"
        BY <2>1, <3>3, <1>d
      <3>4. CASE pc' = "bytes" /\ uci_ack /\ s.state = "More" /\ ~s.data_av
        <4>1. s = Steady
          BY <2>1, <2>4, <3>4, SettledRead
        <4>2. state = "More" /\ avail = 0
          <5>1. s.state = state /\ (s.data_av <=> Staged /\ avail > 0)
            BY <4>1 DEF Steady
          <5>2. state = "More"
            BY <3>4, <5>1
          <5>3. ~(avail > 0)
            BY <3>4, <5>1, <5>2 DEF Staged
          <5> QED
            BY <1>h, <5>2, <5>3
        <4>3. next' = next /\ fw = "await"
          BY <1>h, <3>4, <4>2 DEF uci_ack, Staged, CallInv, UciInv, Handshake
        <4> QED
          BY <2>1, <3>4, <4>3, <1>f
      <3> QED
        BY <2>3, <3>1, <3>2, <3>3, <3>4 DEF block_terminal
    <2>5. CASE masked # prev
      <3>1. prev' = masked /\ UNCHANGED <<state, next>> /\ pc' \in {"settle", "end"}
        BY <2>2, <2>5
      <3>2. state = "Busy" => masked.state = "Busy" /\ ~masked.data_av
        <4> SUFFICES ASSUME state = "Busy" PROVE masked.state = "Busy" /\ ~masked.data_av
          OBVIOUS
        <4>1. ~edge
          BY DEF CallInv, UciInv, Handshake, Staged
        <4>2. s = Steady
          BY <4>1 DEF UCI_STATUS
        <4>3. s.state = "Busy" /\ s.data_av = FALSE
          BY <4>2 DEF Steady, Staged
        <4> QED
          BY <2>3, <4>3
      <3>3. Copies' /\ Settles'
        BY <2>1, <3>1, <3>2 DEF Staged
      <3> QED
        BY <2>1, <3>1, <3>3, <1>d, <1>g
    <2> QED
      BY <2>4, <2>5
  <1>15. CASE uci_drain
    BY <1>15, <1>c, <1>d, <1>e DEF uci_drain, Return
  <1>16. CASE UNCHANGED vars
    BY <1>16 DEF vars, CopyInStep, Staged
  <1> QED
    BY <1>1, <1>2, <1>3, <1>4, <1>5, <1>6, <1>7, <1>8, <1>9, <1>10, <1>11, <1>12, <1>13,
       <1>14, <1>15, <1>16 DEF Next, Firmware, Step

\* Who gives a verdict on a datagram: net_poll, at the end of the copy or before.
LEMMA VerdictFrom ==
    ASSUME CallInv, [Next]_vars,
           verdict' \in {"delivered", "empty", "LONG_READ", "SHORT_READ"}
    PROVE  \/ hdr_loop \/ byte_loop \/ uci_settle_status
           \/ UNCHANGED <<verdict, reply, buf, op>>
  <1> USE DEF call, copy, registers, fpga, firmware, socket, outcome, Goto, Fail
  <1>a. /\ ~error_busy /\ (cmd_busy => pc \in {"main", "gate", "busy"})
        /\ pc \notin {"end", "main"} => verdict = "none"
        /\ verdict \in {"delivered", "empty", "LONG_READ", "SHORT_READ"} => ~cmd_busy
    BY DEF CallInv, UciInv, GateSound, VerdictStands
  <1>1. CASE Firmware
    BY <1>1, <1>a DEF Firmware, FwAccept, FwStage, FwClear, FwEmpty
  <1>2. CASE Call \/ uci_put_byte \/ uci_push
    BY <1>2, <1>a DEF Call, uci_put_byte, uci_push
  <1>3. CASE uci_wait_idle \/ wi_idle_seen \/ uci_wait_not_busy
    BY <1>3, <1>a, AgainVerdict DEF uci_wait_idle, wi_idle_seen, uci_wait_not_busy
  <1>4. CASE uci_check_err \/ uc_staged \/ uci_read_resp_bytes
    BY <1>4, <1>a DEF uci_check_err, uc_staged, uci_read_resp_bytes, judge_count
  <1>5. CASE uci_wait_reply_staged
    BY <1>5, <1>a, AgainVerdict DEF uci_wait_reply_staged
  <1>6. CASE uci_drain
    BY <1>6, <1>a DEF uci_drain, Return
  <1>7. CASE UNCHANGED vars
    BY <1>7 DEF vars
  <1> QED
    BY <1>1, <1>2, <1>3, <1>4, <1>5, <1>6, <1>7 DEF Next, Step

\* When the copy is complete, so was the reply.
LEMMA DeliveredNext == CopyInv /\ [Next]_vars => DeliveredWhole'
  <1> SUFFICES ASSUME CopyInv, [Next]_vars, verdict' = "delivered"
               PROVE  /\ reply'.blocks = Whole(reply'.val)
                      /\ buf' = [i \in 1 .. reply'.val |-> <<i, TRUE>>]
    BY DEF DeliveredWhole, Whole
  <1>a. CallInv /\ ReadAnswered /\ CopyInStep /\ DeliveredWhole
    BY DEF CopyInv
  <1>1. CASE UNCHANGED <<verdict, reply, buf, op>>
    BY <1>a, <1>1 DEF DeliveredWhole
  <1>2. CASE hdr_loop \/ uci_settle_status
    <2>1. verdict = "none"
      BY <1>2, <1>a DEF hdr_loop, uci_settle_status, CallInv, VerdictStands
    <2> QED
      BY <1>2, <2>1 DEF hdr_loop, uci_settle_status, block_terminal, Goto, Fail, outcome
  <1>3. CASE byte_loop
    <2>1. pc = "bytes" /\ verdict = "none" /\ cmd = "read"
      BY <1>3, <1>a DEF byte_loop, CallInv, VerdictStands
    <2>2. rem = 0 /\ reply' = reply /\ buf' = buf
      BY <1>3, <2>1 DEF byte_loop, Goto, Fail, outcome, copy, firmware
    <2>3. /\ reply \in SOCKET_READ /\ reply.val \in Nat /\ avail \in Nat /\ state \in States
      BY <2>1, <1>a, ReplyTyped DEF Accepted
    <2>4. /\ reply.val \in 1 .. MaxLen
          /\ next = 1 + Len(buf) /\ rem = reply.val - Len(buf)
          /\ buf = [i \in 1 .. Len(buf) |-> <<i, TRUE>>]
          /\ Staged \/ fw = "await"
      BY <2>1, <1>a DEF CopyInStep
    <2>5. Len(buf) \in Nat
      BY <1>a DEF CallInv, UciInv, TypeOK, C64OK
    <2>6. Len(buf) = reply.val /\ next = 1 + reply.val
      BY <2>2, <2>3, <2>4, <2>5
    <2>7. state = "Last"
      <3> SUFFICES ASSUME state # "Last" PROVE FALSE
        OBVIOUS
      <3>1. fw = "await"
        BY <2>4, <1>a DEF Staged, CallInv, UciInv, Handshake
      <3>2. Len(reply.blocks) = 2 /\ next + avail = reply.blocks[1]
        BY <3>1, <1>a DEF CallInv, QueueInStep
      <3>3. reply.blocks[1] = 1 + Block /\ reply.val > Block
        BY <2>3, <2>4, <3>2, ReadReply
      <3> QED
        BY <2>3, <2>6, <3>2, <3>3, SizeAssumption
    <2>8. next + avail = Total(reply.blocks)
      BY <2>7, <1>a DEF CallInv, QueueInStep
    <2>9. /\ Total(reply.blocks) <= 1 + reply.val
          /\ reply.blocks = Whole(reply.val) <=> Total(reply.blocks) = 1 + reply.val
      BY <2>3, <2>4, ReadReply
    <2>10. Total(reply.blocks) = 1 + reply.val
      BY <2>3, <2>6, <2>8, <2>9
    <2>11. buf = [i \in 1 .. reply.val |-> <<i, TRUE>>]
      BY <2>4, <2>6
    <2> QED
      BY <2>2, <2>9, <2>10, <2>11
  <1> QED
    BY <1>a, <1>1, <1>2, <1>3, VerdictFrom

\* When net_poll gives up on a reply, nothing whole was there.
LEMMA DropsNext == CopyInv /\ [Next]_vars => NeverDropsWhole'
  <1> SUFFICES ASSUME CopyInv, [Next]_vars, op' = "poll",
                      verdict' \in {"empty", "LONG_READ", "SHORT_READ"},
                      reply'.val \in 1 .. MaxLen, reply'.blocks = Whole(reply'.val)
               PROVE  FALSE
    BY DEF NeverDropsWhole, Whole
  <1>a. CallInv /\ ReadAnswered /\ HeaderFirst /\ CopyInStep /\ NeverDropsWhole
    BY DEF CopyInv
  <1>1. CASE UNCHANGED <<verdict, reply, buf, op>>
    BY <1>a, <1>1 DEF NeverDropsWhole
  <1>2. CASE hdr_loop
    <2>1. pc = "data" /\ cmd = "read" /\ verdict = "none" /\ reply' = reply
      BY <1>2, <1>a DEF hdr_loop, CallInv, VerdictStands, firmware
    <2>2. Staged /\ ~edge /\ avail = reply.blocks[1]
      BY <2>1, <1>a DEF HeaderFirst, Accepted, CallInv, UciInv, Handshake, Staged
    <2>3. reply \in SOCKET_READ /\ avail \in Nat
      BY <2>1, <1>a, ReplyTyped DEF Accepted
    <2>4. avail > 0
      BY <2>1, <2>2, <2>3, ReadReply
    <2>5. \A s \in UCI_STATUS : s.data_av
      <3>1. UCI_STATUS = {Steady}
        BY <2>2 DEF UCI_STATUS
      <3>2. Steady.data_av = (Staged /\ avail > 0)
        BY DEF Steady
      <3>3. Steady.data_av
        BY <2>2, <2>4, <3>2
      <3> QED
        BY <3>1, <3>3
    <2>6. reply.val # NoData
      BY <2>1, SizeAssumption
    <2>7. reply.val # 0 /\ ~(reply.val > MaxLen)
      BY <2>1, SizeAssumption
    <2>8. PICK s \in UCI_STATUS :
            LET len == IF s.data_av THEN reply.val ELSE 0
            IN  IF len \in {0, NoData} THEN Fail("empty")
                ELSE IF len > MaxLen THEN Fail("LONG_READ")
                ELSE Goto("bytes")
      BY <1>2 DEF hdr_loop
    <2>9. Goto("bytes")
      BY <2>5, <2>6, <2>7, <2>8
    <2> QED
      BY <2>1, <2>9 DEF Goto, outcome
  <1>3. CASE byte_loop
    <2>1. verdict = "none"
      BY <1>3, <1>a DEF byte_loop, CallInv, VerdictStands
    <2> QED
      BY <1>3, <2>1 DEF byte_loop, Goto, Fail, outcome
  <1>4. CASE uci_settle_status
    <2>1. pc = "settle" /\ cmd = "read" /\ verdict = "none" /\ reply' = reply
      BY <1>4, <1>a DEF uci_settle_status, CallInv, VerdictStands, firmware
    <2>2. /\ reply \in SOCKET_READ /\ reply.val \in Nat /\ avail \in Nat /\ state \in States
      BY <2>1, <1>a, ReplyTyped DEF Accepted
    <2>3. PICK s \in UCI_STATUS :
            LET masked == [s EXCEPT !.stat_av = FALSE]
            IN  masked = prev /\ ~masked.data_av /\ masked.state \notin {"More", "Busy"}
      BY <1>4, <2>1 DEF uci_settle_status, block_terminal, Goto, Fail, outcome
    <2>4. s \in Statuses
      BY <1>a, StatusRead DEF CallInv, UciInv, TypeOK
    <2>5. ~s.data_av /\ s.state \notin {"More", "Busy"}
      BY <2>3, <2>4 DEF Statuses
    <2>6. s = Steady
      BY <1>a, <2>1, <2>3, <2>5, SettledRead
    <2>7. s.state = state /\ (s.data_av <=> Staged /\ avail > 0)
      BY <2>6 DEF Steady
    <2>8. /\ next = 1 + Len(buf) /\ rem = reply.val - Len(buf)
          /\ Staged \/ fw = "await"
          /\ rem > 0
      BY <2>1, <1>a DEF CopyInStep
    <2>9. state = "Last"
      BY <2>5, <2>7, <2>8, <1>a DEF Staged, CallInv, UciInv, Handshake
    <2>10. avail = 0
      BY <2>2, <2>5, <2>7, <2>9 DEF Staged
    <2>11. next + avail = Total(reply.blocks)
      BY <2>9, <1>a DEF CallInv, QueueInStep
    <2>12. Total(reply.blocks) = 1 + reply.val
      BY <2>1, <2>2, ReadReply
    <2>13. Len(buf) \in Nat
      BY <1>a DEF CallInv, UciInv, TypeOK, C64OK
    <2> QED
      BY <2>2, <2>8, <2>10, <2>11, <2>12, <2>13
  <1> QED
    BY <1>a, <1>1, <1>2, <1>3, <1>4, VerdictFrom

\* The invariant of the copy holds in every reachable state.
THEOREM CopyInvariant == Spec => []CopyInv
  <1>1. Init => CopyInv
    <2>1. Init => CallInv
      BY InitInv, QueueInit DEF CallInv, VerdictStands, Init
    <2>2. Init => ReadAnswered /\ HeaderFirst /\ CopyInStep /\ DeliveredWhole /\ NeverDropsWhole
      BY DEF Init, ReadAnswered, HeaderFirst, CopyInStep, DeliveredWhole, NeverDropsWhole, Accepted
    <2> QED
      BY <2>1, <2>2 DEF CopyInv
  <1>2. CopyInv /\ [Next]_vars => CopyInv'
    <2> SUFFICES ASSUME CopyInv, [Next]_vars PROVE CopyInv'
      OBVIOUS
    <2>1. CallInv'
      BY NextInv, QueueNext, VerdictNext DEF CopyInv, CallInv
    <2>2. ReadAnswered' /\ HeaderFirst' /\ CopyInStep'
      BY AnsweredNext, HeaderNext, CopyNext DEF CopyInv
    <2> QED
      BY <2>1, <2>2, DeliveredNext, DropsNext DEF CopyInv
  <1> QED
    BY <1>1, <1>2, PTL DEF Spec

\* Issues #70, #128 and #130 for every length of a datagram and every size of a
\* block: what net_poll delivers is the whole datagram of its own SOCKET_READ.
THEOREM DeliveredAlwaysWhole == Spec => []DeliveredWhole
  <1>1. CopyInv => DeliveredWhole
    BY DEF CopyInv
  <1> QED
    BY <1>1, CopyInvariant, PTL

\* No torn read of UCI_STATUS costs a datagram that the firmware handed over whole,
\* for every length of a datagram and every number of settling reads.
THEOREM WholeNeverDropped == Spec => []NeverDropsWhole
  <1>1. CopyInv => NeverDropsWhole
    BY DEF CopyInv
  <1> QED
    BY <1>1, CopyInvariant, PTL

-----------------------------------------------------------------------------
(* Calls *)

\* A call gives up in a wait.
GivesUp ==
    /\ pc \notin {"main", "end"} /\ pc' = "main" /\ verdict' = "WAIT_TIMEOUT"
    /\ IF cmd = "close" THEN uci_socket_open' = FALSE /\ uci_socket_id' = 0 ELSE UNCHANGED socket
    /\ UNCHANGED <<cmd_busy, cmdbuf, pool, reply, op, cmd>>

\* A step inside a call, or of the firmware, that changes neither the order nor
\* its answer nor the socket.
Quiet ==
    /\ UNCHANGED <<cmd_busy, cmdbuf, pool, reply, op, cmd, uci_socket_open>>
    /\ pc = "main" \/ pc' = "main" => UNCHANGED <<pc, verdict, buf, uci_socket_id>>
    /\ uci_socket_open \/ pc # "data" => UNCHANGED uci_socket_id
    /\ Accepted' <=> Accepted
    /\ pc' \in {"push", "busy"} => pc' = pc
    /\ cmd_busy => (pc = "busy" <=> pc' = "busy")

\* A pass of a wait is quiet, or the last one.
LEMMA AgainEffect ==
    ASSUME CallInv, NEW label, Again(label), pc \in {"gate", "confirm", "busy", "staged"},
           label = pc \/ (label = "gate" /\ pc = "confirm"),
           UNCHANGED <<cmd_busy, cmdbuf, pool, reply, op, cmd>>
    PROVE  GivesUp \/ Quiet
  <1>1. cmd_busy => pc \in {"main", "gate", "busy"}
    BY DEF CallInv, UciInv, GateSound
  <1> QED
    BY <1>1 DEF Again, Return, GivesUp, Quiet, Accepted, outcome, socket

\* What a step is, seen from outside the backend.
LEMMA StepEffects ==
    ASSUME CallInv, [Next]_vars
    PROVE  FwAccept \/ Call \/ uci_put_byte \/ uci_push \/ uci_drain \/ GivesUp \/ Quiet
  <1> USE DEF call, copy, registers, fpga, firmware, socket, outcome, Goto, Fail
  <1>a. /\ ~error_busy /\ (cmd_busy => pc \in {"main", "gate", "busy"})
        /\ pc # "main" => (uci_socket_open <=> cmd # "connect")
        /\ pc \in {"bytes", "settle", "more"} => cmd = "read"
    BY DEF CallInv, UciInv, GateSound, OpenIsHeld, VerdictStands
  <1>1. CASE FwStage \/ FwClear \/ FwEmpty
    BY <1>1 DEF FwStage, FwClear, FwEmpty, Quiet, Accepted
  <1>2. CASE uci_wait_idle
    BY <1>2, <1>a, AgainEffect DEF uci_wait_idle, Quiet, Accepted
  <1>3. CASE wi_idle_seen
    BY <1>3, <1>a, AgainEffect DEF wi_idle_seen, Quiet, Accepted
  <1>4. CASE uci_wait_not_busy
    BY <1>4, <1>a, AgainEffect DEF uci_wait_not_busy, Quiet, Accepted
  <1>5. CASE uci_check_err
    BY <1>5, <1>a DEF uci_check_err, Quiet, Accepted
  <1>6. CASE uci_wait_reply_staged
    BY <1>6, <1>a, AgainEffect DEF uci_wait_reply_staged, Quiet, Accepted
  <1>7. CASE uc_staged
    BY <1>7, <1>a DEF uc_staged, Quiet, Accepted
  <1>8. CASE uci_read_resp_bytes
    BY <1>8, <1>a DEF uci_read_resp_bytes, Quiet, Accepted
  <1>9. CASE hdr_loop
    BY <1>9, <1>a DEF hdr_loop, Quiet, Accepted
  <1>10. CASE byte_loop
    BY <1>10, <1>a DEF byte_loop, Quiet, Accepted
  <1>11. CASE uci_settle_status
    BY <1>11, <1>a DEF uci_settle_status, block_terminal, Quiet, Accepted
  <1>12. CASE UNCHANGED vars
    BY <1>12 DEF vars, Quiet, Accepted
  <1> QED
    BY <1>1, <1>2, <1>3, <1>4, <1>5, <1>6, <1>7, <1>8, <1>9, <1>10, <1>11, <1>12
       DEF Next, Firmware, Step

\* The command the firmware is about to take: the only one, for a socket it holds.
LEMMA TakesOne ==
    ASSUME CallInv, cmd_busy
    PROVE  /\ Len(cmdbuf) = 1 /\ cmdbuf # <<>> /\ Head(cmdbuf) = cmdbuf[1]
           /\ cmdbuf[1] \in Commands
           /\ cmdbuf[1].cmd # "connect" => cmdbuf[1].id \in pool
           /\ pc \in {"main", "gate", "busy"}
           /\ pc = "busy" => cmdbuf[1].cmd = cmd
  <1>1. Len(cmdbuf) = 1 /\ cmdbuf \in Seq(Commands) /\ pc \in {"main", "gate", "busy"}
    BY DEF CallInv, UciInv, GateSound, TypeOK, FpgaOK
  <1>2. cmdbuf # <<>>
    <2>1. Len(cmdbuf) # 0
      BY <1>1
    <2> QED
      BY <1>1, <2>1, EmptySeq
  <1>3. Head(cmdbuf) = cmdbuf[1] /\ cmdbuf[1] \in Commands /\ 1 \in 1 .. Len(cmdbuf)
    BY <1>1, <1>2
  <1>4. cmdbuf[1].cmd # "connect" => cmdbuf[1].id \in pool
    BY <1>3 DEF CallInv, UciInv, SocketHeld
  <1>5. pc = "busy" => cmdbuf[1].cmd = cmd
    BY <1>2 DEF CallInv, UciInv, OwnCommand
  <1> QED
    BY <1>1, <1>2, <1>3, <1>4, <1>5

\* The command that is being written.
LEMMA WritesOne ==
    ASSUME CallInv, uci_put_byte
    PROVE  cmdbuf' = <<[cmd |-> cmd, id |-> uci_socket_id, n |-> ~n]>> /\ ~cmd_busy /\ pc = "write"
  <1>1. Len(cmdbuf) = 0 /\ cmdbuf \in Seq(Commands) /\ ~cmd_busy /\ pc = "write"
    BY DEF uci_put_byte, CallInv, UciInv, GateSound, TypeOK, FpgaOK
  <1>2. cmdbuf = <<>>
    BY <1>1, EmptySeq
  <1> QED
    BY <1>1, <1>2 DEF uci_put_byte

\* The order stays that of the call.
LEMMA OrderNext == CallInv /\ OrderInStep /\ [Next]_vars => OrderInStep'
  <1> SUFFICES ASSUME CallInv, OrderInStep, [Next]_vars PROVE OrderInStep'
    OBVIOUS
  <1> USE DEF call, copy, registers, fpga, firmware, socket, outcome, Goto
  <1>a. /\ cmd_busy => pc \in {"main", "gate", "busy"}
        /\ pc # "main" => (uci_socket_open <=> cmd # "connect")
        /\ pc = "push" => state = "Idle"
        /\ cmd \in {"connect", "write", "read", "close"}
    BY DEF CallInv, UciInv, GateSound, OpenIsHeld, TypeOK, C64OK
  <1>1. CASE FwAccept
    <2>1. /\ cmdbuf' = <<>> /\ cmd_busy /\ UNCHANGED <<pc, op, cmd, uci_socket_id>>
      BY <1>1 DEF FwAccept
    <2>2. ASSUME pc = "busy", cmd = "close" PROVE uci_socket_id \notin pool'
      <3>1. cmdbuf # <<>> /\ Head(cmdbuf) = cmdbuf[1] /\ cmdbuf[1].cmd = "close"
        BY <2>1, <2>2, TakesOne
      <3>2. cmdbuf[1].id = uci_socket_id
        BY <2>2, <3>1 DEF OrderInStep
      <3>3. pool' = pool \ {cmdbuf[1].id}
        BY <1>1, <3>1 DEF FwAccept
      <3> QED  BY <3>2, <3>3
    <2> QED  BY <2>1, <2>2, <1>a DEF OrderInStep, Accepted
  <1>2. CASE Call
    BY <1>2, <1>a DEF Call, net_udp_send, net_poll, net_udp_close, OrderInStep, Accepted
  <1>3. CASE uci_put_byte
    <2>1. cmdbuf'[1].id = uci_socket_id /\ UNCHANGED <<op, cmd, uci_socket_id>> /\ pc' = "push"
      BY <1>3, WritesOne DEF uci_put_byte
    <2> QED  BY <1>3, <2>1 DEF uci_put_byte, OrderInStep, Accepted
  <1>4. CASE uci_push
    BY <1>4, <1>a DEF uci_push, OrderInStep, Accepted
  <1>5. CASE uci_drain
    BY <1>5, <1>a DEF uci_drain, Return, OrderInStep, Accepted
  <1>6. CASE GivesUp
    BY <1>6 DEF GivesUp, OrderInStep, Accepted
  <1>7. CASE Quiet
    <2>1. cmd = "close" => UNCHANGED uci_socket_id \/ pc = "main"
      BY <1>7, <1>a DEF Quiet
    <2>2. pc' \in {"push", "busy"} /\ cmdbuf # <<>> => UNCHANGED uci_socket_id
      BY <1>7, <1>a DEF Quiet
    <2> QED  BY <1>7, <2>1, <2>2 DEF Quiet, OrderInStep, Accepted
  <1> QED
    BY <1>1, <1>2, <1>3, <1>4, <1>5, <1>6, <1>7, StepEffects

\* A verdict is true of the reply when it is given.
LEMMA TruthfulNext == CallInv /\ ReadAnswered /\ CopyInStep /\ EndTruthful /\ [Next]_vars => EndTruthful'
  <1> SUFFICES ASSUME CallInv, ReadAnswered, CopyInStep, EndTruthful, [Next]_vars, pc' \in {"end", "staged"}
               PROVE  EndTruthful'
    BY DEF EndTruthful
  <1> USE DEF call, copy, registers, fpga, firmware, socket, outcome, Goto, Fail, EndTruthful
  <1>a. /\ ~error_busy /\ (cmd_busy => pc \in {"main", "gate", "busy"})
        /\ pc \notin {"end", "main"} => verdict = "none"
        /\ pc \in {"bytes", "settle", "more"} => cmd = "read"
        /\ pc = "status" => cmd = "connect"
        /\ cmd \in {"connect", "write", "read", "close"}
    BY DEF CallInv, UciInv, GateSound, VerdictStands, TypeOK, C64OK
  <1>1. CASE Firmware
    BY <1>1, <1>a DEF Firmware, FwAccept, FwStage, FwClear, FwEmpty
  <1>2. CASE Call \/ uci_put_byte \/ uci_push
    BY <1>2 DEF Call, uci_put_byte, uci_push
  <1>3. CASE uci_wait_idle \/ wi_idle_seen \/ uci_wait_not_busy
    BY <1>3, AgainVerdict DEF uci_wait_idle, wi_idle_seen, uci_wait_not_busy
  <1>4. CASE uci_check_err
    BY <1>4, <1>a DEF uci_check_err
  <1>5. CASE uci_wait_reply_staged
    <2>1. /\ pc \in {"staged", "more"} /\ cmd' = cmd
          /\ \/ cmd = "read" /\ UNCHANGED pc
             \/ cmd \notin {"read", "connect"} /\ pc = "staged"
                /\ verdict' = IF cmd = "close" THEN "closed" ELSE "none"
             \/ cmd # "read" /\ Again(pc)
             \/ cmd = "read" /\ verdict' = "WAIT_TIMEOUT"
      BY <1>5, <1>a DEF uci_wait_reply_staged
    <2>2. cmd # "write"
      BY <2>1, <1>a
    <2> QED
      BY <2>1, <2>2, <1>a, AgainVerdict
  <1>6. CASE uc_staged
    <2>1. line = "refused" /\ verdict' = "OPEN_REFUSED" /\ reply' = reply /\ cmd' = "connect"
      BY <1>6, <1>a DEF uc_staged
    <2>2. reply.val = 0
      BY <2>1 DEF CallInv, QueueInStep
    <2> QED  BY <2>1, <2>2
  <1>7. CASE uci_read_resp_bytes
    BY <1>7, <1>a DEF uci_read_resp_bytes, judge_count
  <1>8. CASE hdr_loop
    BY <1>8, <1>a DEF hdr_loop
  <1>9. CASE byte_loop
    BY <1>9, <1>a DEF byte_loop, CopyInStep
  <1>10. CASE uci_settle_status
    BY <1>10, <1>a DEF uci_settle_status, block_terminal
  <1>11. CASE uci_drain
    BY <1>11 DEF uci_drain, Return
  <1>12. CASE UNCHANGED vars
    BY <1>12 DEF vars
  <1> QED
    BY <1>1, <1>2, <1>3, <1>4, <1>5, <1>6, <1>7, <1>8, <1>9, <1>10, <1>11, <1>12 DEF Next, Step

\* What ties the calls of the backend to the orders and answers of Udp.
THEOREM ServiceInvariant == Spec => []ServiceInv
  <1>1. Init => OrderInStep /\ EndTruthful
    BY DEF Init, OrderInStep, EndTruthful, Accepted
  <1>2. CopyInv /\ OrderInStep /\ EndTruthful /\ [Next]_vars => OrderInStep' /\ EndTruthful'
    BY OrderNext, TruthfulNext DEF CopyInv
  <1> QED
    BY <1>1, <1>2, CopyInvariant, PTL DEF Spec, ServiceInv

-----------------------------------------------------------------------------
(* The refinement of Udp *)

\* The backend starts where Udp does.
LEMMA ServiceInit == Init => Service!Init
  BY DEF Init, Service!Init, Service!NoOrder, Service!NoAnswer, Accepted

\* A step that changes neither the order nor its answer is not seen.
LEMMA ServiceQuiet ==
    ASSUME ServiceInv, Quiet PROVE UNCHANGED Service!udp
  <1> USE DEF Quiet
  <1>1. (IF uci_socket_open THEN uci_socket_id ELSE 0)' = IF uci_socket_open THEN uci_socket_id ELSE 0
    OBVIOUS
  <1>2. (IF cmd_busy
         THEN [do |-> cmdbuf[1].cmd, id |-> IF cmdbuf[1].cmd = "connect" THEN 0 ELSE cmdbuf[1].id,
               mine |-> pc = "busy"]
         ELSE [do |-> "none", id |-> 0, mine |-> FALSE])'
        = IF cmd_busy
          THEN [do |-> cmdbuf[1].cmd, id |-> IF cmdbuf[1].cmd = "connect" THEN 0 ELSE cmdbuf[1].id,
                mine |-> pc = "busy"]
          ELSE [do |-> "none", id |-> 0, mine |-> FALSE]
    <2>1. cmd_busy => (pc = "busy")' = (pc = "busy")
      OBVIOUS
    <2> QED  BY <2>1
  <1>3. (IF Accepted
         THEN [do |-> cmd, val |-> IF cmd = "read" /\ ~Datagram(reply.val) THEN 0 ELSE reply.val]
         ELSE [do |-> "none", val |-> 0])'
        = IF Accepted
          THEN [do |-> cmd, val |-> IF cmd = "read" /\ ~Datagram(reply.val) THEN 0 ELSE reply.val]
          ELSE [do |-> "none", val |-> 0]
    BY DEF Datagram
  <1>4. /\ (IF pc = "main" THEN "main" ELSE op)' = IF pc = "main" THEN "main" ELSE op
        /\ (IF pc = "main" THEN verdict ELSE "none")' = IF pc = "main" THEN verdict ELSE "none"
        /\ (IF pc = "main" /\ verdict = "delivered" THEN buf ELSE <<>>)'
           = IF pc = "main" /\ verdict = "delivered" THEN buf ELSE <<>>
    OBVIOUS
  <1> QED
    BY <1>1, <1>2, <1>3, <1>4 DEF Service!udp

\* A call begins.
LEMMA ServiceBegin ==
    ASSUME ServiceInv, Call PROVE Service!Next
  <1> USE DEF call, copy, registers, fpga, firmware, socket
  <1>1. op' \in {"send", "poll", "close"} /\ (op' # "send" => uci_socket_open)
    BY DEF Call, net_udp_send, net_poll, net_udp_close
  <1>2. uci_socket_open => uci_socket_id \in pool /\ uci_socket_id # 0
    BY PoolAssumption DEF Call, ServiceInv, CopyInv, CallInv, UciInv, OpenIsHeld, Released, TypeOK, FirmwareOK
  <1>3. PICK c \in {"send", "poll", "close"} : c = op'
    BY <1>1
  <1>4. Service!Begin(c)
    BY <1>1, <1>2, <1>3 DEF Service!Begin, Call, Accepted
  <1> QED
    BY <1>4 DEF Service!Next

\* A command is pushed.
LEMMA ServiceHand ==
    ASSUME ServiceInv, uci_push PROVE Service!Hand
  <1> USE DEF call, copy, registers, fpga, firmware, socket, outcome, Goto
  <1>1. /\ pc = "push" /\ pc' = "busy" /\ state = "Idle" /\ ~cmd_busy /\ cmd_busy'
        /\ UNCHANGED <<cmdbuf, op, cmd, uci_socket_open, uci_socket_id, pool, reply>>
    BY DEF uci_push, ServiceInv, CopyInv, CallInv, UciInv, GateSound
  <1>2. Len(cmdbuf) = 1 /\ cmdbuf \in Seq(Commands)
    BY <1>1 DEF ServiceInv, CopyInv, CallInv, UciInv, GateSound, TypeOK, FpgaOK
  <1>3. cmdbuf # <<>>
    <2>1. Len(cmdbuf) # 0
      BY <1>2
    <2> QED
      BY <1>2, <2>1, EmptySeq
  <1>4. cmdbuf[1].cmd = cmd /\ cmdbuf[1].id = uci_socket_id
    BY <1>1, <1>3 DEF ServiceInv, CopyInv, CallInv, UciInv, OwnCommand, OrderInStep
  <1>5. cmd # "connect" => uci_socket_id \in pool /\ uci_socket_id # 0
    <2>1. 1 \in 1 .. Len(cmdbuf)
      BY <1>2
    <2> QED
      BY <1>4, <2>1, PoolAssumption
         DEF ServiceInv, CopyInv, CallInv, UciInv, SocketHeld, TypeOK, FirmwareOK
  <1>6. uci_socket_open <=> cmd # "connect"
    BY <1>1 DEF ServiceInv, CopyInv, CallInv, UciInv, OpenIsHeld
  <1>7. \/ op = "send" /\ cmd \in {"connect", "write"}
        \/ op = "poll" /\ cmd = "read"
        \/ op = "close" /\ cmd = "close"
    BY <1>1 DEF ServiceInv, OrderInStep
  <1>8. Service!Wanted = cmd
    BY <1>1, <1>5, <1>6, <1>7 DEF Service!Wanted
  <1> QED
    BY <1>1, <1>4, <1>5, <1>6, <1>7, <1>8
       DEF Service!Hand, Service!NoOrder, Service!NoAnswer, Accepted

\* A command is written, which is not seen until it is pushed.
LEMMA ServiceWrite ==
    ASSUME ServiceInv, uci_put_byte PROVE UNCHANGED Service!udp
  <1>1. /\ ~cmd_busy /\ pc = "write" /\ pc' = "push"
        /\ UNCHANGED <<cmd_busy, op, verdict, uci_socket_open, uci_socket_id, pool>>
    BY WritesOne DEF ServiceInv, CopyInv, uci_put_byte, Goto, outcome, socket, firmware
  <1> QED
    BY <1>1 DEF Service!udp, Accepted

\* An answer of the firmware is one that Udp allows.
LEMMA ServiceAnswer ==
    ASSUME CallInv, NEW c \in {"connect", "write", "read", "close"}, NEW r \in Answers(c)
    PROVE  (IF c = "read" /\ ~(r.val \in 1 .. MaxLen /\ r.blocks = Whole(r.val)) THEN 0 ELSE r.val)
             \in Service!Answers(c)
  <1>1. CASE c = "connect"
    BY <1>1 DEF Answers, UDP_CONNECT, Replies, Service!Answers
  <1>2. CASE c = "write"
    BY <1>2 DEF Answers, SOCKET_WRITE, Replies, Service!Answers
  <1>3. CASE c = "read"
    <2>1. 0 \in 0 .. MaxLen /\ \A v \in 1 .. MaxLen : v \in 0 .. MaxLen
      BY SizeAssumption
    <2>2. Service!Answers(c) = 0 .. MaxLen
      BY <1>3 DEF Service!Answers
    <2> QED  BY <1>3, <2>1, <2>2
  <1>4. CASE c = "close"
    BY <1>4 DEF Answers, Replies, Service!Answers
  <1> QED
    BY <1>1, <1>2, <1>3, <1>4

\* A command is accepted, and carried out.
LEMMA ServiceCarryOut ==
    ASSUME ServiceInv, FwAccept PROVE Service!CarryOut
  <1> DEFINE c == cmdbuf[1]
             v == IF c.cmd = "read" /\ ~Datagram(reply.val)' THEN 0 ELSE reply'.val
  <1>a. CallInv /\ cmd_busy
    BY DEF ServiceInv, CopyInv, FwAccept
  <1>1. /\ Head(cmdbuf) = c /\ c \in Commands /\ (c.cmd # "connect" => c.id \in pool)
        /\ pc \in {"main", "gate", "busy"} /\ (pc = "busy" => c.cmd = cmd)
    BY <1>a, TakesOne
  <1>2. c.cmd \in {"connect", "write", "read", "close"}
    BY <1>1 DEF Commands
  <1>3. /\ ~cmd_busy' /\ reply' \in Answers(c.cmd)
        /\ pool' = CASE c.cmd = "connect" -> pool \cup ({reply'.val} \ {0})
                     [] c.cmd = "close" -> pool \ {c.id}
                     [] OTHER -> pool
        /\ UNCHANGED <<pc, op, cmd, verdict, buf, uci_socket_open, uci_socket_id>>
    BY <1>1 DEF FwAccept, call, copy, socket
  <1>4. v \in Service!Answers(c.cmd)
    BY <1>a, <1>2, <1>3, ServiceAnswer DEF Datagram
  <1>5. pool' = CASE c.cmd = "connect" -> pool \cup ({v} \ {0})
                  [] c.cmd = "close" -> pool \ {c.id}
                  [] OTHER -> pool
    BY <1>3
  <1>6. (IF Accepted
         THEN [do |-> cmd, val |-> IF cmd = "read" /\ ~Datagram(reply.val) THEN 0 ELSE reply.val]
         ELSE [do |-> "none", val |-> 0])'
        = IF pc = "busy" THEN [do |-> c.cmd, val |-> v] ELSE [do |-> "none", val |-> 0]
    BY <1>1, <1>3 DEF Accepted
  <1>7. ~Accepted
    BY <1>a, <1>1 DEF Accepted
  <1>8. c.cmd # "none"
    BY <1>2
  <1> QED
    BY <1>a, <1>1, <1>2, <1>3, <1>4, <1>5, <1>6, <1>7, <1>8 DEF Service!CarryOut, Service!NoOrder

Orders == [do : {"none", "connect", "write", "read", "close"}, id : Nat, mine : BOOLEAN]

\* An order that is left behind is otherwise what it was.
LEMMA Disowned ==
    ASSUME NEW o, o \in Orders, NEW p, p = [o EXCEPT !.mine = FALSE]
    PROVE  p = [do |-> o.do, id |-> o.id, mine |-> FALSE]
  <1>1. p \in Orders
    BY DEF Orders
  <1>2. p.do = o.do /\ p.id = o.id /\ p.mine = FALSE
    BY DEF Orders
  <1> QED
    BY <1>1, <1>2 DEF Orders

\* A call ends, and leaves behind an order that is no longer its own.
LEMMA ServiceReturn ==
    ASSUME ServiceInv, NEW r, Service!Truthful(r),
           pc # "main", pc' = "main", verdict' = r,
           IF cmd = "close" THEN uci_socket_open' = FALSE /\ uci_socket_id' = 0 ELSE UNCHANGED socket,
           r = "delivered" => cmd = "read" /\ Accepted /\ Datagram(reply.val)
                              /\ buf' = Service!Payload(reply.val),
           UNCHANGED <<cmd_busy, cmdbuf, pool>>
    PROVE  Service!Return(r)
  <1>1. /\ op \in {"send", "poll", "close"} /\ (op = "close" <=> cmd = "close")
    BY DEF ServiceInv, OrderInStep
  <1>2. (IF cmd_busy
         THEN [do |-> cmdbuf[1].cmd, id |-> IF cmdbuf[1].cmd = "connect" THEN 0 ELSE cmdbuf[1].id,
               mine |-> pc = "busy"]
         ELSE [do |-> "none", id |-> 0, mine |-> FALSE])'
        = [IF cmd_busy
           THEN [do |-> cmdbuf[1].cmd, id |-> IF cmdbuf[1].cmd = "connect" THEN 0 ELSE cmdbuf[1].id,
                 mine |-> pc = "busy"]
           ELSE [do |-> "none", id |-> 0, mine |-> FALSE] EXCEPT !.mine = FALSE]
    <2> DEFINE order == IF cmd_busy
                        THEN [do |-> cmdbuf[1].cmd,
                              id |-> IF cmdbuf[1].cmd = "connect" THEN 0 ELSE cmdbuf[1].id,
                              mine |-> pc = "busy"]
                        ELSE [do |-> "none", id |-> 0, mine |-> FALSE]
    <2>1. PICK p : p = [order EXCEPT !.mine = FALSE]
      OBVIOUS
    <2>2. cmd_busy => cmdbuf[1] \in Commands
      BY TakesOne DEF ServiceInv, CopyInv
    <2>3. order \in Orders
      BY <2>2 DEF Orders, Commands
    <2>4. order' = [do |-> order.do, id |-> order.id, mine |-> FALSE]
      OBVIOUS
    <2>5. p = [do |-> order.do, id |-> order.id, mine |-> FALSE]
      BY <2>1, <2>3, Disowned
    <2> QED  BY <2>1, <2>4, <2>5
  <1>3. (IF uci_socket_open THEN uci_socket_id ELSE 0)'
        = IF op = "close" THEN 0 ELSE IF uci_socket_open THEN uci_socket_id ELSE 0
    BY <1>1 DEF socket
  <1>4. (IF pc = "main" /\ verdict = "delivered" THEN buf ELSE <<>>)'
        = IF r = "delivered" THEN Service!Payload(reply.val) ELSE <<>>
    OBVIOUS
  <1>5. r = "delivered" =>
          (IF Accepted
           THEN [do |-> cmd, val |-> IF cmd = "read" /\ ~Datagram(reply.val) THEN 0 ELSE reply.val]
           ELSE [do |-> "none", val |-> 0]).val = reply.val
    OBVIOUS
  <1>6. ~Accepted'
    BY DEF Accepted
  <1> QED
    BY <1>1, <1>2, <1>3, <1>4, <1>5, <1>6 DEF Service!Return, Service!NoAnswer

\* A call that gives up in a wait reports nothing but that.
LEMMA ServiceGivesUp ==
    ASSUME ServiceInv, GivesUp PROVE Service!Return("WAIT_TIMEOUT")
  <1>1. Service!Truthful("WAIT_TIMEOUT")
    BY DEF Service!Truthful
  <1> QED
    BY <1>1, ServiceReturn DEF GivesUp

\* The end of a call: the socket is taken over, or the verdict is reported.
LEMMA ServiceDrain ==
    ASSUME ServiceInv, uci_drain PROVE Service!Next
  <1> USE DEF call, copy, registers, fpga, firmware, socket
  <1>a. CallInv /\ pc = "end" /\ Accepted /\ ~cmd_busy
    BY DEF ServiceInv, CopyInv, CallInv, UciInv, GateSound, uci_drain, Accepted
  <1>b. /\ uci_socket_open <=> cmd # "connect"
        /\ cmd = "connect" /\ verdict = "none" => uci_socket_id \in pool \cup {0}
    BY <1>a DEF CallInv, UciInv, OpenIsHeld, ConnectAnswered
  <1>c. \/ op = "send" /\ cmd \in {"connect", "write"}
        \/ op = "poll" /\ cmd = "read"
        \/ op = "close" /\ cmd = "close"
    BY <1>a DEF ServiceInv, OrderInStep
  <1>d. UNCHANGED <<cmd_busy, cmdbuf, pool, reply, buf>>
    BY DEF uci_drain
  <1>1. CASE cmd = "connect" /\ verdict = "none" /\ uci_socket_id # 0
    <2>1. /\ uci_socket_open' = TRUE /\ cmd' = "write" /\ pc' = "gate"
          /\ UNCHANGED <<uci_socket_id, verdict, op>>
      BY <1>1 DEF uci_drain
    <2>2. uci_socket_id = reply.val
      BY <1>a, <1>1 DEF ServiceInv, EndTruthful
    <2>3. Service!Take
      BY <1>a, <1>b, <1>c, <1>d, <1>1, <2>1, <2>2 DEF Service!Take, Service!NoAnswer, Accepted
    <2> QED  BY <2>3 DEF Service!Next
  <1>2. CASE ~(cmd = "connect" /\ verdict = "none" /\ uci_socket_id # 0)
    <2>1. PICK r : /\ pc' = "main" /\ verdict' = r
                   /\ IF cmd = "close" THEN uci_socket_open' = FALSE /\ uci_socket_id' = 0
                      ELSE UNCHANGED socket
                   /\ \/ r = IF cmd = "connect" /\ verdict = "none" THEN "NO_SOCKET" ELSE verdict
                      \/ r = "WAIT_TIMEOUT" /\ cmd \in {"write", "close"}
      BY <1>2 DEF uci_drain, Return
    <2>2. CASE r = "WAIT_TIMEOUT"
      <3>1. Service!Truthful(r)
        BY <2>2 DEF Service!Truthful
      <3>2. Service!Return(r)
        BY <1>a, <1>d, <2>1, <2>2, <3>1, ServiceReturn
      <3> QED  BY <2>2, <3>2 DEF Service!Next, Service!Results
    <2>3. CASE cmd = "connect" /\ r # "WAIT_TIMEOUT"
      <3>1. r = "NO_SOCKET" \/ (r = "OPEN_REFUSED" /\ reply.val = 0)
        BY <1>a, <1>2, <2>1, <2>3 DEF ServiceInv, EndTruthful
      <3>2. Service!Truthful(r)
        BY <1>a, <1>b, <2>3, <3>1 DEF Service!Truthful
      <3>3. Service!Return(r)
        BY <1>a, <1>d, <2>1, <3>1, <3>2, ServiceReturn
      <3> QED  BY <3>1, <3>3 DEF Service!Next, Service!Results
    <2>4. CASE cmd = "write" /\ r # "WAIT_TIMEOUT"
      <3>1. r = "SHORT_WRITE" \/ (r = "sent" /\ reply.val = 1)
        BY <1>a, <2>1, <2>4 DEF ServiceInv, EndTruthful
      <3>2. Service!Truthful(r)
        BY <1>a, <2>4, <3>1 DEF Service!Truthful
      <3>3. Service!Return(r)
        BY <1>a, <1>d, <2>1, <3>1, <3>2, ServiceReturn
      <3> QED  BY <3>1, <3>3 DEF Service!Next, Service!Results
    <2>5. CASE cmd = "close" /\ r # "WAIT_TIMEOUT"
      <3>1. r = "closed" /\ uci_socket_id \notin pool
        BY <1>a, <2>1, <2>5 DEF ServiceInv, EndTruthful, OrderInStep
      <3>2. Service!Truthful(r)
        BY <1>a, <1>b, <2>5, <3>1 DEF Service!Truthful
      <3>3. Service!Return(r)
        BY <1>a, <1>d, <2>1, <3>1, <3>2, ServiceReturn
      <3> QED  BY <3>1, <3>3 DEF Service!Next, Service!Results
    <2>6. CASE cmd = "read" /\ r = "delivered"
      <3>1. /\ verdict = "delivered" /\ reply.val \in 1 .. MaxLen /\ reply.blocks = Whole(reply.val)
            /\ buf = [i \in 1 .. reply.val |-> <<i, TRUE>>]
        BY <1>a, <2>1, <2>6 DEF ServiceInv, CopyInv, EndTruthful, DeliveredWhole
      <3>2. Datagram(reply.val) /\ buf' = Service!Payload(reply.val) /\ reply.val # 0
        BY <1>d, <3>1 DEF Datagram, Service!Payload
      <3>3. Service!Truthful(r)
        BY <1>a, <2>6, <3>2 DEF Service!Truthful
      <3>4. Service!Return(r)
        BY <1>a, <1>d, <2>1, <2>6, <3>2, <3>3, ServiceReturn
      <3> QED  BY <2>6, <3>4 DEF Service!Next, Service!Results
    <2>7. CASE cmd = "read" /\ r \in {"empty", "LONG_READ", "SHORT_READ"}
      <3>1. verdict = r /\ ~Datagram(reply.val)
        BY <1>c, <2>1, <2>7 DEF ServiceInv, CopyInv, NeverDropsWhole, Datagram
      <3>2. Service!Truthful(r)
        BY <1>a, <2>7, <3>1 DEF Service!Truthful
      <3>3. Service!Return(r)
        BY <1>a, <1>d, <2>1, <2>7, <3>2, ServiceReturn
      <3> QED  BY <2>7, <3>3 DEF Service!Next, Service!Results
    <2> QED
      BY <1>a, <1>c, <2>1, <2>2, <2>3, <2>4, <2>5, <2>6, <2>7 DEF ServiceInv, EndTruthful
  <1> QED
    BY <1>1, <1>2

\* Every step of the backend is a step of Udp or a stutter.
LEMMA ServiceNext == ServiceInv /\ [Next]_vars => [Service!Next]_(Service!udp)
  <1> SUFFICES ASSUME ServiceInv, [Next]_vars
               PROVE  Service!Next \/ UNCHANGED Service!udp
    OBVIOUS
  <1>1. CASE FwAccept
    BY <1>1, ServiceCarryOut DEF Service!Next
  <1>2. CASE Call \/ uci_drain
    BY <1>2, ServiceBegin, ServiceDrain
  <1>3. CASE uci_push
    BY <1>3, ServiceHand DEF Service!Next
  <1>4. CASE uci_put_byte \/ Quiet
    BY <1>4, ServiceWrite, ServiceQuiet
  <1>5. CASE GivesUp
    BY <1>5, ServiceGivesUp DEF Service!Next, Service!Results
  <1> QED
    BY <1>1, <1>2, <1>3, <1>4, <1>5, StepEffects DEF ServiceInv, CopyInv

\* What net.s tells its caller is true: the backend implements Udp, for every pool
\* of sockets, every length of a datagram and size of a block, every number of
\* settling reads, and wherever the waits expire.
THEOREM BackendTruthful == Spec => ImplementsUdp
  BY ServiceInit, ServiceNext, ServiceInvariant, PTL DEF Spec, ImplementsUdp, Service!Spec
=============================================================================
