-------------------------------- MODULE Uci --------------------------------
(***************************************************************************)
(* The UCI backend (net/uci/net.s over net/uci/uci_cmd.s): one call of     *)
(* net_udp_send, net_poll or net_udp_close at a time, register access by   *)
(* register access, while the firmware of the Ultimate accepts commands    *)
(* and stages replies in blocks, on its own time or never.                 *)
(*                                                                         *)
(* UCI_STATUS is not latched for the 6510.  A read on the edge at which a  *)
(* block is staged may see each bit of STATE old or new, and the queue     *)
(* bits still low; the fence after every access is far longer than that,   *)
(* so at most one read is spoiled by an edge.                              *)
(*                                                                         *)
(* Every wait is bounded by the CIA clock: a pass of its loop that does    *)
(* not find what it waits for may be the last one.                         *)
(***************************************************************************)
EXTENDS Integers, Sequences

CONSTANTS
    MaxLen,       \* UCI_READ_CHUNK_MAX, in units of payload
    Block,        \* payload that fits in one reply block
    Pool,         \* the firmware's socket ids (MEMP_NUM_UDP_PCB of them)
    SettleReads   \* UCI_STATUS_SETTLE_READS

NoData == 65535   \* the length that says that nothing is pending

ASSUME SizeAssumption ==
    /\ MaxLen \in Nat /\ Block \in Nat \ {0} /\ Block <= MaxLen /\ MaxLen <= 2 * Block
    /\ MaxLen < NoData /\ SettleReads \in Nat \ {0}
ASSUME PoolAssumption == Pool \subseteq Nat \ {0}

VARIABLES
    \* the FPGA
    state,          \* STATE: Idle 00, Busy 01, Last 10, More 11
    cmd_busy,       \* CMD_BUSY: a pushed command is not accepted yet
    data_acc,       \* DATA_ACC: the accept of a More block is not served yet
    error_busy,     \* ERROR: a push was refused
    cmdbuf,         \* the commands written since the pointer was rewound
    avail,          \* units left in the response queue
    line,           \* the status line
    edge,           \* a block has been staged and STATUS not been read since
    \* the firmware
    fw, blocks,     \* what it does, and the sizes of the blocks to stage
    reply,          \* the reply it last composed
    next,           \* index in it of the unit at the head of the queue
    pool,           \* open sockets
    \* the C64
    pc, op, cmd,
    n,              \* parity of the command written last
    prev, reads,    \* uci_settle_prev and X in uci_settle_status
    rem,            \* uci_poll_rem
    buf,            \* which units of which reply are in udp_recv_buf
    verdict,        \* how the last call ended: net_last_error or success
    uci_socket_open, uci_socket_id,
    expired         \* history: a wait has expired

fpga == <<state, cmd_busy, data_acc, error_busy, cmdbuf, avail, line, edge>>
queue == <<avail, line, next>>
firmware == <<fw, blocks, reply, pool>>
socket == <<uci_socket_open, uci_socket_id>>
call == <<op, cmd, n>>
copy == <<prev, reads, rem, buf>>
vars == <<fpga, firmware, next, pc, call, copy, verdict, socket, expired>>

States == {"Idle", "Busy", "Last", "More"}
Lines == {"none", "00", "refused"}
Commands == [cmd : {"connect", "write", "read", "close"}, id : Nat, n : BOOLEAN]
Statuses == [state : States, data_av : BOOLEAN, stat_av : BOOLEAN]
Unread == [state |-> "none", data_av |-> FALSE, stat_av |-> FALSE]   \* $FF

Verdicts == {"none", "sent", "delivered", "empty", "closed",
             "WAIT_TIMEOUT", "CMD_FAILED", "OPEN_REFUSED", "NO_SOCKET",
             "SHORT_WRITE", "LONG_READ", "SHORT_READ"}

FpgaOK ==
    /\ state \in States /\ cmd_busy \in BOOLEAN /\ data_acc \in BOOLEAN
    /\ error_busy \in BOOLEAN /\ cmdbuf \in Seq(Commands)
    /\ avail \in Nat /\ line \in Lines /\ edge \in BOOLEAN
FirmwareOK ==
    /\ fw \in {"idle", "stage", "clear", "await"} /\ blocks \in Seq(Nat)
    /\ reply \in [n : BOOLEAN, val : Nat, blocks : Seq(Nat), line : Lines]
    /\ next \in Nat /\ pool \subseteq Pool
C64OK ==
    /\ pc \in {"main", "gate", "confirm", "write", "push", "busy", "err", "staged",
               "status", "data", "bytes", "settle", "more", "end"}
    /\ op \in {"send", "poll", "close"} /\ cmd \in {"connect", "write", "read", "close"}
    /\ n \in BOOLEAN /\ prev \in Statuses \cup {Unread} /\ reads \in Nat
    /\ rem \in Nat /\ buf \in Seq(Nat \X BOOLEAN) /\ verdict \in Verdicts
    /\ uci_socket_open \in BOOLEAN /\ uci_socket_id \in Nat /\ expired \in BOOLEAN
TypeOK == FpgaOK /\ FirmwareOK /\ C64OK

Init ==
    /\ state = "Idle" /\ cmd_busy = FALSE /\ data_acc = FALSE /\ error_busy = FALSE
    /\ cmdbuf = <<>> /\ avail = 0 /\ line = "none" /\ edge = FALSE
    /\ fw = "idle" /\ blocks = <<>> /\ next = 0 /\ pool = {}
    /\ reply = [n |-> FALSE, val |-> 0, blocks |-> <<>>, line |-> "none"]
    /\ pc = "main" /\ op = "close" /\ cmd = "close" /\ n = FALSE
    /\ prev = Unread /\ reads = 0 /\ rem = 0 /\ buf = <<>> /\ verdict = "none"
    /\ uci_socket_open = FALSE /\ uci_socket_id = 0 /\ expired = FALSE

-----------------------------------------------------------------------------
(* The registers, as uci_regs.inc and the comments of uci_cmd.s have them. *)

Staged == state \in {"Last", "More"}
Steady == [state |-> state,
           data_av |-> Staged /\ avail > 0,
           stat_av |-> Staged /\ line # "none"]

\* The values of STATE that a read on the edge from Busy may see.
Torn == IF state = "Last" THEN States ELSE {"Busy", state}

\* What a read of UCI_STATUS may return.
UCI_STATUS ==
    IF edge
    THEN [state : Torn, data_av : {FALSE, Steady.data_av}, stat_av : {FALSE, Steady.stat_av}]
    ELSE {Steady}

\* NEXT_DATA accepts a staged block and empties the queues; it does nothing in
\* any other state.
uci_ack ==
    /\ state' = IF state = "More" THEN "Busy" ELSE IF state = "Last" THEN "Idle" ELSE state
    /\ data_acc' = IF Staged THEN state = "More" ELSE data_acc
    /\ avail' = IF Staged THEN 0 ELSE avail
    /\ next' = IF Staged THEN next + avail ELSE next
    /\ line' = IF Staged THEN "none" ELSE line

-----------------------------------------------------------------------------
(* The firmware.                                                           *)

\* What a datagram of length len looks like: a header unit with its length, then
\* the payload, in one block or two; or a reply that ends early.
Whole(len) == IF len <= Block THEN <<1 + len>> ELSE <<1 + Block, len - Block>>
Short(len) ==
    IF len <= Block THEN {<<k>> : k \in 1 .. len}
    ELSE {<<1 + Block>>} \cup {<<1 + Block, k>> : k \in 0 .. len - Block - 1}

Replies(val, bs, l) == [n : BOOLEAN, val : {val}, blocks : bs, line : {l}]

SOCKET_READ ==
    Replies(NoData, {<<1>>}, "00") \cup Replies(0, {<<0>>, <<1>>}, "00")
    \cup Replies(MaxLen + 1, {<<1 + Block>>}, "00")
    \cup UNION {Replies(len, {Whole(len)} \cup Short(len), "00") : len \in 1 .. MaxLen}

\* The written count: all of the datagram, not all of it, or none at all.
SOCKET_WRITE == Replies(1, {<<1>>}, "00") \cup Replies(0, {<<0>>, <<1>>}, "00")

\* A free socket, a refusal when there is none, or no socket at all (issue #58).
UDP_CONNECT ==
    (IF pool = Pool THEN Replies(0, {<<0>>}, "refused")
     ELSE UNION {Replies(id, {<<1>>}, "00") : id \in Pool \ pool})
    \cup Replies(0, {<<0>>}, "none") \cup Replies(0, {<<1>>}, "00")

Answers(c) ==
    CASE c = "connect" -> UDP_CONNECT
      [] c = "write"   -> SOCKET_WRITE
      [] c = "read"    -> SOCKET_READ
      [] c = "close"   -> Replies(0, {<<0>>}, "00")

\* parse_command, then HANDSHAKE_ACCEPT_COMMAND, which rewinds the pointer.
FwAccept ==
    /\ fw = "idle" /\ cmd_busy
    /\ cmd_busy' = FALSE /\ cmdbuf' = <<>>
    /\ LET c == Head(cmdbuf)
       IN  \E r \in Answers(c.cmd) :
             /\ r.n = c.n
             /\ reply' = r /\ blocks' = r.blocks
             /\ pool' = CASE c.cmd = "connect" -> pool \cup ({r.val} \ {0})
                          [] c.cmd = "close" -> pool \ {c.id}
                          [] OTHER -> pool
    /\ fw' = "stage" /\ next' = 0
    /\ UNCHANGED <<state, data_acc, error_busy, avail, line, edge>>
    /\ UNCHANGED <<pc, call, copy, verdict, socket, expired>>

\* copy_result and VALIDATE_LAST or VALIDATE_MORE.
FwStage ==
    /\ fw = "stage" \/ (fw = "await" /\ data_acc)
    /\ avail' = Head(blocks) /\ blocks' = Tail(blocks)
    /\ state' = IF Len(blocks) = 1 THEN "Last" ELSE "More"
    /\ line' = IF Len(blocks) = 1 THEN reply.line ELSE "none"
    /\ edge' = TRUE
    /\ fw' = IF fw = "await" THEN "clear" ELSE IF Len(blocks) = 1 THEN "idle" ELSE "await"
    /\ UNCHANGED <<cmd_busy, data_acc, error_busy, cmdbuf, reply, next, pool>>
    /\ UNCHANGED <<pc, call, copy, verdict, socket, expired>>

\* DATA_ACC is cleared only after the block that serves it has been staged.
FwClear ==
    /\ fw = "clear"
    /\ data_acc' = FALSE
    /\ fw' = IF blocks = <<>> THEN "idle" ELSE "await"
    /\ UNCHANGED <<state, cmd_busy, error_busy, cmdbuf, avail, line, edge, blocks, reply, pool>>
    /\ UNCHANGED <<next, pc, call, copy, verdict, socket, expired>>

\* A Data More block that carries nothing, in place of the one that is due.  The
\* C64 has to read it twice before it accepts it, so that its DATA_ACC is gone.
FwEmpty ==
    /\ fw = "await" /\ data_acc
    /\ state' = "More" /\ data_acc' = FALSE /\ edge' = TRUE
    /\ UNCHANGED <<cmd_busy, error_busy, cmdbuf, avail, line, firmware, next>>
    /\ UNCHANGED <<pc, call, copy, verdict, socket, expired>>

Firmware == FwAccept \/ FwStage \/ FwClear \/ FwEmpty
-----------------------------------------------------------------------------
(* The C64.  Every read of UCI_STATUS is one step.                         *)

registers == <<state, cmd_busy, data_acc, error_busy, cmdbuf, queue>>
outcome == <<verdict, socket, expired>>

\* Mutant: a close that fails keeps its socket.
Return_keeps(v) ==
    /\ pc' = "main" /\ verdict' = v
    /\ IF v = "closed" THEN uci_socket_open' = FALSE /\ uci_socket_id' = 0
       ELSE UNCHANGED socket

\* The call is over; net_udp_close forgets its socket however it ends.
Return(v) ==
    /\ pc' = "main" /\ verdict' = v
    /\ IF cmd = "close" THEN uci_socket_open' = FALSE /\ uci_socket_id' = 0
       ELSE UNCHANGED socket

\* Mutant: the waits are not bounded (issue #45).
Again_forever(label) == pc' = label /\ UNCHANGED outcome

\* A pass of a waiting loop found nothing: another one, or the budget is spent.
Again(label) ==
    \/ pc' = label /\ UNCHANGED outcome
    \/ expired' = TRUE /\ Return("WAIT_TIMEOUT")

\* An error exit of net_poll, or any other that drains and accepts before it
\* returns v.
Fail(v) == pc' = "end" /\ verdict' = v /\ UNCHANGED <<socket, expired>>

Goto(label) == pc' = label /\ UNCHANGED outcome

\* A too long or empty datagram is refused before any register is touched.
net_udp_send ==
    /\ op' = "send"
    /\ cmd' = IF uci_socket_open THEN "write" ELSE "connect"

net_poll == uci_socket_open /\ op' = "poll" /\ cmd' = "read"

net_udp_close == uci_socket_open /\ op' = "close" /\ cmd' = "close"

Call ==
    /\ pc = "main" /\ pc' = "gate"
    /\ net_udp_send \/ net_poll \/ net_udp_close
    /\ verdict' = "none" /\ buf' = <<>> /\ rem' = 0
    /\ UNCHANGED <<fpga, firmware, next, n, prev, reads, socket, expired>>

\* The gate before every command: one read that decides.
uci_wait_idle ==
    /\ pc = "gate" /\ edge' = FALSE
    /\ \E s \in UCI_STATUS :
         IF s.state = "Idle" /\ ~cmd_busy
         THEN Goto("confirm") /\ UNCHANGED <<state, data_acc, queue>>
         ELSE /\ Again("gate")
              /\ IF s.state \in {"Last", "More"} /\ ~data_acc /\ ~cmd_busy
                 THEN uci_ack
                 ELSE UNCHANGED <<state, data_acc, queue>>
    /\ UNCHANGED <<cmd_busy, error_busy, cmdbuf, firmware, call, copy>>

\* Mutant: one idle read is enough.
wi_idle_seen_once ==
    /\ pc = "confirm" /\ Goto("write") /\ error_busy' = FALSE
    /\ UNCHANGED <<state, cmd_busy, data_acc, cmdbuf, edge, queue, firmware, call, copy>>

\* The second read, without which an idle is not believed.  An ERROR that was
\* latched before is cleared.
wi_idle_seen ==
    /\ pc = "confirm" /\ edge' = FALSE
    /\ \E s \in UCI_STATUS :
         IF s.state = "Idle" /\ ~cmd_busy
         THEN Goto("write") /\ error_busy' = FALSE
         ELSE Again("gate") /\ UNCHANGED error_busy
    /\ UNCHANGED <<state, cmd_busy, data_acc, cmdbuf, queue, firmware, call, copy>>

\* The bytes of the command, which advance the pointer in any state.
uci_put_byte ==
    /\ pc = "write" /\ Goto("push")
    /\ n' = ~n
    /\ cmdbuf' = Append(cmdbuf, [cmd |-> cmd, id |-> uci_socket_id, n |-> ~n])
    /\ UNCHANGED <<state, cmd_busy, data_acc, error_busy, edge, queue, firmware, op, cmd, copy>>

\* PUSH_CMD is dropped, with ERROR, unless the interface is idle.
uci_push ==
    /\ pc = "push" /\ Goto("busy")
    /\ IF state = "Idle"
       THEN state' = "Busy" /\ cmd_busy' = TRUE /\ UNCHANGED error_busy
       ELSE error_busy' = TRUE /\ UNCHANGED <<state, cmd_busy>>
    /\ UNCHANGED <<data_acc, cmdbuf, edge, queue, firmware, call, copy>>

uci_wait_not_busy ==
    /\ pc = "busy" /\ edge' = FALSE
    /\ IF cmd_busy THEN Again("busy") ELSE Goto("err")
    /\ UNCHANGED <<registers, firmware, call, copy>>

\* net_udp_close keeps the verdict for later; net_udp_send does not wait for the
\* reply to be staged.
uci_check_err ==
    /\ pc = "err" /\ edge' = FALSE
    /\ error_busy' = FALSE
    /\ IF error_busy /\ cmd # "close" THEN Fail("CMD_FAILED")
       ELSE /\ pc' = IF cmd = "write" THEN "data" ELSE "staged"
            /\ verdict' = IF error_busy THEN "CMD_FAILED" ELSE verdict
            /\ UNCHANGED <<socket, expired>>
    /\ UNCHANGED <<state, cmd_busy, data_acc, cmdbuf, queue, firmware, call, copy>>

\* The wait for STATE to leave 01, before a reply and before a continuation.
\* Of the callers only net_poll drains and accepts when it expires.
uci_wait_reply_staged ==
    /\ pc \in {"staged", "more"} /\ edge' = FALSE
    /\ \E s \in UCI_STATUS :
         IF s.state # "Busy"
         THEN /\ pc' = IF pc = "more" THEN "bytes"
                       ELSE CASE cmd = "read" -> "data"
                              [] cmd = "connect" -> "status"
                              [] OTHER -> "end"
              /\ verdict' = IF cmd = "close" /\ verdict = "none" THEN "closed" ELSE verdict
              /\ UNCHANGED <<socket, expired>>
         ELSE IF cmd # "read" THEN Again(pc)
         ELSE \/ Goto(pc)
              \/ pc' = "end" /\ verdict' = "WAIT_TIMEOUT" /\ expired' = TRUE /\ UNCHANGED socket
    /\ UNCHANGED <<registers, firmware, call, copy>>

\* uci_udp_connect reads the status line first: a refusal has no socket id.
uc_staged ==
    /\ pc = "status" /\ edge' = FALSE
    /\ \E s \in UCI_STATUS :
         IF s.stat_av
         THEN line' = "none" /\ IF line = "refused" THEN Fail("OPEN_REFUSED") ELSE Goto("data")
         ELSE UNCHANGED line /\ Goto("data")
    /\ UNCHANGED <<state, cmd_busy, data_acc, error_busy, cmdbuf, avail, next>>
    /\ UNCHANGED <<firmware, call, copy>>

\* The unit at the head of the response queue is read.
UCI_RESP_DATA == avail' = avail - 1 /\ next' = next + 1

\* Mutant: a written count is taken for success, whatever it is (issue #58).
judge_count_any(count) == "sent"

\* The written count must be that of the whole datagram.
judge_count(count) == IF count = 1 THEN "sent" ELSE "SHORT_WRITE"

\* The socket id, or the written count, for which the C64 waits.
uci_read_resp_bytes ==
    /\ pc = "data" /\ cmd \in {"connect", "write"} /\ edge' = FALSE
    /\ \E s \in UCI_STATUS :
         \/ /\ s.data_av /\ UCI_RESP_DATA
            /\ pc' = "end" /\ UNCHANGED <<uci_socket_open, expired>>
            /\ uci_socket_id' = IF cmd = "connect" THEN reply.val ELSE uci_socket_id
            /\ verdict' = IF cmd = "connect" THEN verdict
                          ELSE judge_count(reply.val)
         \/ ~s.data_av /\ Goto("data") /\ UNCHANGED <<avail, next>>
         \/ /\ ~s.data_av /\ pc' = "end" /\ expired' = TRUE
            /\ uci_socket_id' = IF cmd = "connect" THEN 0 ELSE uci_socket_id
            /\ verdict' = IF cmd = "connect" THEN "NO_SOCKET" ELSE "SHORT_WRITE"
            /\ UNCHANGED <<uci_socket_open, avail, next>>
    /\ UNCHANGED <<state, cmd_busy, data_acc, error_busy, cmdbuf, line, firmware, call, copy>>

\* The length of the datagram, which is checked before it becomes a copy count.
hdr_loop ==
    /\ pc = "data" /\ cmd = "read" /\ edge' = FALSE
    /\ \E s \in UCI_STATUS :
         LET len == IF s.data_av THEN reply.val ELSE 0
         IN  /\ IF s.data_av THEN UCI_RESP_DATA ELSE UNCHANGED <<avail, next>>
             /\ rem' = IF len \in 1 .. MaxLen THEN len ELSE 0
             /\ IF len \in {0, NoData} THEN Fail("empty")
                ELSE IF len > MaxLen THEN Fail("LONG_READ")
                ELSE Goto("bytes")
    /\ UNCHANGED <<state, cmd_busy, data_acc, error_busy, cmdbuf, line>>
    /\ UNCHANGED <<firmware, call, prev, reads, buf>>

\* The copy into udp_recv_buf, until the datagram or the block is exhausted.
byte_loop ==
    /\ pc = "bytes"
    /\ IF rem = 0 THEN Fail("delivered") /\ UNCHANGED <<edge, avail, next, copy>>
       ELSE /\ edge' = FALSE
            /\ \E s \in UCI_STATUS :
                 IF s.data_av
                 THEN /\ UCI_RESP_DATA /\ rem' = rem - 1
                      /\ buf' = Append(buf, <<next, reply.n = n>>)
                      /\ Goto("bytes") /\ UNCHANGED <<prev, reads>>
                 ELSE /\ prev' = Unread /\ reads' = 0
                      /\ Goto("settle") /\ UNCHANGED <<avail, next, rem, buf>>
    /\ UNCHANGED <<state, cmd_busy, data_acc, error_busy, cmdbuf, line, firmware, call>>

\* Mutant: a reply that ends early is delivered (issue #128).
block_terminal_delivers(s) ==
    IF s.data_av THEN Goto("bytes") /\ UNCHANGED <<state, data_acc, queue>>
    ELSE IF s.state = "More" THEN Goto("bytes") /\ uci_ack
    ELSE /\ UNCHANGED <<state, data_acc, queue>>
         /\ IF s.state = "Busy" THEN Goto("more") ELSE Fail("delivered")

\* What two agreeing reads say about the block that ended.
block_terminal(s) ==
    IF s.data_av THEN Goto("bytes") /\ UNCHANGED <<state, data_acc, queue>>
    ELSE IF s.state = "More" THEN Goto("bytes") /\ uci_ack
    ELSE /\ UNCHANGED <<state, data_acc, queue>>
         /\ IF s.state = "Busy" THEN Goto("more") ELSE Fail("SHORT_READ")

\* Mutant: the first read decides.
uci_settle_status_once ==
    /\ pc = "settle" /\ edge' = FALSE
    /\ \E s \in UCI_STATUS : block_terminal(s)
    /\ UNCHANGED <<cmd_busy, error_busy, cmdbuf, firmware, call, copy>>

\* UCI_STATUS is read until two reads in a row agree on DATA_AV and STATE.
uci_settle_status ==
    /\ pc = "settle" /\ edge' = FALSE
    /\ \E s \in UCI_STATUS :
         LET masked == [s EXCEPT !.stat_av = FALSE]
         IN  IF masked = prev
             THEN block_terminal(masked) /\ UNCHANGED <<prev, reads>>
             ELSE /\ prev' = masked /\ reads' = reads + 1
                  /\ UNCHANGED <<state, data_acc, queue>>
                  /\ IF reads' = SettleReads THEN Fail("WAIT_TIMEOUT") ELSE Goto("settle")
    /\ UNCHANGED <<cmd_busy, error_busy, cmdbuf, firmware, call, rem, buf>>

\* The drains and the accept.  A drain that runs out of time is ignored, except
\* by net_udp_send and net_udp_close, which then leave the accept to the gate.
uci_drain ==
    /\ pc = "end"
    /\ \/ /\ uci_ack
          /\ IF cmd = "connect" /\ verdict = "none" /\ uci_socket_id # 0
             THEN /\ uci_socket_open' = TRUE /\ cmd' = "write" /\ pc' = "gate"
                  /\ UNCHANGED <<uci_socket_id, verdict, op>>
             ELSE /\ Return(IF cmd = "connect" /\ verdict = "none" THEN "NO_SOCKET" ELSE verdict)
                  /\ UNCHANGED <<op, cmd>>
          /\ UNCHANGED expired
       \/ /\ cmd \in {"write", "close"} /\ (Steady.data_av \/ Steady.stat_av)
          /\ expired' = TRUE /\ Return("WAIT_TIMEOUT")
          /\ UNCHANGED <<state, data_acc, queue, op, cmd>>
    /\ edge' = FALSE
    /\ UNCHANGED <<cmd_busy, error_busy, cmdbuf, firmware, n, copy>>

Step ==
    \/ uci_wait_idle \/ wi_idle_seen \/ uci_put_byte \/ uci_push \/ uci_wait_not_busy
    \/ uci_check_err \/ uci_wait_reply_staged \/ uc_staged \/ uci_read_resp_bytes
    \/ hdr_loop \/ byte_loop \/ uci_settle_status \/ uci_drain

Next == Firmware \/ Call \/ Step

\* The gate has one budget for all the blocks of a stranded reply it accepts.
GateExpires == uci_wait_idle /\ pc' = "main"

\* The 6510 does not stop in the middle of a call.  Of the firmware nothing is
\* assumed: it may never answer.
Spec == Init /\ [][Next]_vars /\ WF_vars(Step) /\ WF_vars(GateExpires)

-----------------------------------------------------------------------------
(* Properties.                                                             *)

\* A datagram that net_poll delivers is, unit for unit, the one the firmware read
\* for this very SOCKET_READ, and as long as announced: no block is skipped, none
\* of a late reply to an earlier command is mixed in (issues #70, #128, #130).
DeliveredWhole ==
    verdict = "delivered" =>
        /\ reply.blocks = Whole(reply.val)
        /\ buf = [i \in 1 .. reply.val |-> <<i, TRUE>>]

\* net_poll calls a reply empty or short only if it is, and no torn read of
\* UCI_STATUS makes it throw away a datagram that the firmware hands over whole.
NeverDropsWhole ==
    op = "poll" /\ verdict \in {"empty", "LONG_READ", "SHORT_READ"} =>
        ~(reply.val \in 1 .. MaxLen /\ reply.blocks = Whole(reply.val))

\* Whatever waits expired and whatever replies came late, the firmware is never
\* handed anything but one command, written from the start of its buffer, and no
\* push is refused.
CommandsIntact == ~error_busy /\ (cmd_busy => Len(cmdbuf) = 1)

\* No command names a socket that the firmware does not hold open: a handle is
\* never used after a close that was late, nor a phantom one (issue #58).
SocketHeld == \A i \in 1 .. Len(cmdbuf) : cmdbuf[i].cmd # "connect" => cmdbuf[i].id \in pool

\* The firmware holds no other socket between two calls, unless a wait has once
\* expired: only a timeout can walk through the pool.
NoSocketLeaks ==
    ~expired /\ pc = "main" => pool = IF uci_socket_open THEN {uci_socket_id} ELSE {}

\* Every call returns, whatever the firmware does (issue #45), with the one
\* exception that net.s names itself: the cycle of net_poll that accepts Data
\* More blocks "has NO outer bound" if they carry no bytes, for ever
\* (net/uci/net.s:1598-1611).
SpinsOnEmptyBlocks ==
    /\ <>[](op = "poll" /\ pc \in {"bytes", "settle", "more"})
    /\ []<><<FwEmpty>>_vars
CallReturns == (pc # "main" ~> pc = "main") \/ SpinsOnEmptyBlocks

\* The firmware has taken the command that the C64 waits for, and no other since.
Accepted ==
    \/ pc = "busy" /\ ~cmd_busy
    \/ pc \in {"err", "staged", "status", "data", "bytes", "settle", "more", "end"}

\* A datagram of this length is in the reply, whole.
Datagram(len) == len \in 1 .. MaxLen /\ reply.blocks = Whole(len)

Service == INSTANCE Udp WITH
    doing <- IF pc = "main" THEN "main" ELSE op,
    socket <- IF uci_socket_open THEN uci_socket_id ELSE 0,
    held <- pool,
    order <- IF cmd_busy
             THEN [do |-> cmdbuf[1].cmd, id |-> IF cmdbuf[1].cmd = "connect" THEN 0 ELSE cmdbuf[1].id,
                   mine |-> pc = "busy"]
             ELSE [do |-> "none", id |-> 0, mine |-> FALSE],
    done <- IF Accepted
            THEN [do |-> cmd, val |-> IF cmd = "read" /\ ~Datagram(reply.val) THEN 0 ELSE reply.val]
            ELSE [do |-> "none", val |-> 0],
    result <- IF pc = "main" THEN verdict ELSE "none",
    got <- IF pc = "main" /\ verdict = "delivered" THEN buf ELSE <<>>

\* net.s over uci_cmd.s implements Udp: whatever waits expire, whatever reads are
\* torn and whatever replies come late, a result that a call reports is true of
\* what the firmware did with the order of that call (a datagram reported as
\* sent was written, one not reported as such may have been), and the socket
\* taken over is one that was opened for it.
ImplementsUdp == Service!Spec

-----------------------------------------------------------------------------
(* The inductive strengthening of CommandsIntact and SocketHeld.            *)

\* Who may move next, read off the registers: no step of the firmware changes an
\* interface that is idle, or whose last block is staged.
Handshake ==
    /\ cmd_busy => state = "Busy" /\ fw \in {"idle", "clear"}
    /\ state \in {"Idle", "Last"} => fw \in {"idle", "clear"}
    /\ state = "More" => fw = "await" /\ ~data_acc
    /\ data_acc => fw \in {"await", "clear"}
    /\ fw = "await" => state \in {"More", "Busy"} /\ Len(blocks) = 1
    /\ fw = "stage" => state = "Busy" /\ Len(blocks) \in {1, 2}
    /\ fw = "clear" => blocks = <<>>
    /\ edge => Staged

\* The second read of the gate cannot be torn; when it says idle, it is, and a
\* command is written into an empty buffer.
GateSound ==
    /\ pc = "confirm" => state \in {"Idle", "Last"} /\ ~edge
    /\ pc \in {"write", "push"} => state = "Idle"
    /\ cmd_busy => pc \in {"main", "gate", "busy"}
    /\ Len(cmdbuf) = IF cmd_busy \/ pc = "push" THEN 1 ELSE 0
    /\ ~error_busy

\* While the C64 waits for a command to be accepted, it is its own.
OwnCommand == pc \in {"push", "busy"} /\ cmdbuf # <<>> => cmdbuf[1].cmd = cmd

\* A socket leaves the pool only once net_udp_close has named it, or after the
\* C64 has forgotten it.
Released == cmd = "close" /\ pc \notin {"main", "gate", "confirm", "write"}
OpenIsHeld ==
    /\ uci_socket_open /\ ~Released => uci_socket_id \in pool
    /\ pc # "main" => (uci_socket_open <=> cmd # "connect")
    /\ cmd_busy /\ cmdbuf[1].cmd = "close" /\ uci_socket_open => cmd = "close" /\ pc = "busy"

\* The id that uci_udp_connect is about to take is one that is held for it.
ConnectAnswered ==
    /\ cmd = "connect" /\ ((pc = "busy" /\ ~cmd_busy) \/ pc \in {"err", "staged", "status", "data"})
         => reply.val \in pool \cup {0}
    /\ cmd = "connect" /\ pc = "end" /\ verdict = "none" => uci_socket_id \in pool \cup {0}

UciInv ==
    TypeOK /\ Handshake /\ GateSound /\ OwnCommand /\ OpenIsHeld /\ ConnectAnswered /\ SocketHeld

-----------------------------------------------------------------------------
(* The inductive strengthening of NoSocketLeaks, DeliveredWhole and         *)
(* NeverDropsWhole, on top of UciInv.                                       *)

Total(bs) == IF Len(bs) = 1 THEN bs[1] ELSE bs[1] + bs[2]

\* The response queue holds what is not yet read of the block in front, and the
\* blocks of the reply that are not staged follow it.
QueueInStep ==
    /\ ~Staged => avail = 0 /\ line = "none"
    /\ line \in {"none", reply.line}
    /\ reply.line = "refused" => reply.val = 0
    /\ fw = "stage" => blocks = reply.blocks /\ next = 0
    /\ fw = "await" => /\ Len(reply.blocks) = 2 /\ blocks = <<reply.blocks[2]>>
                       /\ next + avail = reply.blocks[1]
    /\ state = "Last" => next + avail = Total(reply.blocks)

\* A call has no verdict until it ends; one on a datagram stands until the next
\* call, and no command runs meanwhile.
VerdictStands ==
    /\ pc \notin {"end", "main"} => verdict = "none"
    /\ verdict \in {"delivered", "empty", "LONG_READ", "SHORT_READ"} => ~cmd_busy
    /\ pc \in {"bytes", "settle", "more"} => cmd = "read"
    /\ pc = "status" => cmd = "connect"

CallInv == UciInv /\ QueueInStep /\ VerdictStands

\* What the firmware holds open while a call runs, as long as no wait has expired.
PoolExact ==
    ~expired =>
        /\ cmd_busy => pc = "busy"
        /\ pool = IF ~Accepted \/ cmd \in {"write", "read"}
                  THEN IF uci_socket_open THEN {uci_socket_id} ELSE {}
                  ELSE IF cmd = "close" THEN {}
                  ELSE {IF pc = "end" THEN uci_socket_id ELSE reply.val} \ {0}
        /\ ~uci_socket_open /\ (pc = "end" => verdict # "none") => uci_socket_id = 0

\* The reply that net_poll reads answers the command it wrote.
ReadAnswered ==
    /\ pc \in {"push", "busy"} /\ cmdbuf # <<>> => cmdbuf[1].n = n
    /\ cmd = "read" /\ Accepted => reply.n = n /\ reply \in SOCKET_READ

\* Until the header is read nothing of the reply has been, and it is looked for
\* only in a block that is staged and past its edge.
HeaderFirst ==
    cmd = "read" /\ Accepted /\ pc \in {"busy", "err", "staged", "data"} =>
        /\ buf = <<>> /\ next = 0
        /\ fw = "stage" \/ (Staged /\ avail = reply.blocks[1])
        /\ pc = "data" => Staged /\ ~edge

\* The copy has the units up to the head of the queue; while a continuation is
\* due or its edge not read, no two reads have agreed that the reply is over.
CopyInStep ==
    /\ pc \in {"bytes", "settle", "more"} =>
         /\ reply.val \in 1 .. MaxLen
         /\ next = 1 + Len(buf) /\ rem = reply.val - Len(buf)
         /\ buf = [i \in 1 .. Len(buf) |-> <<i, TRUE>>]
         /\ Staged \/ fw = "await"
    /\ pc = "settle" =>
         /\ rem > 0
         /\ edge \/ state = "Busy" => prev.state \in {"none", "Busy"} /\ ~prev.data_av
    /\ pc \notin {"bytes", "settle", "more", "main"} /\ (pc = "end" => cmd # "read") => buf = <<>>

CopyInv ==
    /\ CallInv /\ ReadAnswered /\ HeaderFirst /\ CopyInStep
    /\ DeliveredWhole /\ NeverDropsWhole

-----------------------------------------------------------------------------
(* The inductive strengthening of ImplementsUdp, on top of CopyInv.         *)

\* The command belongs to the call, and names its socket.
OrderInStep ==
    /\ pc # "main" => \/ op = "send" /\ cmd \in {"connect", "write"}
                      \/ op = "poll" /\ cmd = "read"
                      \/ op = "close" /\ cmd = "close"
    /\ pc \in {"push", "busy"} /\ cmdbuf # <<>> => cmdbuf[1].id = uci_socket_id
    /\ cmd = "close" /\ Accepted => uci_socket_id \notin pool

\* What the call is about to report is true of the reply.
EndTruthful ==
    /\ pc = "staged" => cmd # "write"
    /\ pc = "end" /\ cmd = "connect" => \/ verdict = "none" /\ uci_socket_id = reply.val
                                        \/ verdict = "OPEN_REFUSED" /\ reply.val = 0
                                        \/ verdict = "NO_SOCKET"
    /\ pc = "end" /\ cmd = "write" => verdict = "SHORT_WRITE" \/ (verdict = "sent" /\ reply.val = 1)
    /\ pc = "end" /\ cmd = "read" =>
         \/ verdict \in {"empty", "LONG_READ", "SHORT_READ", "WAIT_TIMEOUT"}
         \/ verdict = "delivered" /\ reply.val \in 1 .. MaxLen
    /\ pc = "end" /\ cmd = "close" => verdict = "closed"

ServiceInv == CopyInv /\ OrderInStep /\ EndTruthful
=============================================================================
