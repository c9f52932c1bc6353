-------------------------------- MODULE Udp --------------------------------
(***************************************************************************)
(* What a caller of the UCI backend (net/uci/net.s) may rely on, without   *)
(* registers, blocks and waits: a call hands the firmware one order at a   *)
(* time, for a socket that is open there, and what the call reports is     *)
(* true of what the firmware did with that very order.  A call may give up *)
(* at any time; the order it leaves behind is carried out later, or never. *)
(***************************************************************************)
EXTENDS Naturals

CONSTANTS
    Pool,     \* the firmware's socket ids
    MaxLen    \* the longest datagram

VARIABLES
    doing,    \* the call in progress, or "main"
    socket,   \* the socket of the C64, or 0
    held,     \* the sockets open in the firmware
    order,    \* the order the firmware has not carried out yet
    done,     \* what it answers to the order of the call in progress
    result,   \* how the last call ended
    got       \* the datagram that call delivered

udp == <<doing, socket, held, order, done, result, got>>

NoOrder == [do |-> "none", id |-> 0, mine |-> FALSE]
NoAnswer == [do |-> "none", val |-> 0]

Results == {"sent", "delivered", "empty", "closed", "WAIT_TIMEOUT", "OPEN_REFUSED",
            "NO_SOCKET", "SHORT_WRITE", "LONG_READ", "SHORT_READ"}

\* A datagram: its units, each marked as one of the reply to this call.
Payload(len) == [i \in 1 .. len |-> <<i, TRUE>>]

Init ==
    /\ doing = "main" /\ socket = 0 /\ held = {}
    /\ order = NoOrder /\ done = NoAnswer
    /\ result = "none" /\ got = <<>>

\* A socket opens with the first send; nothing is read or closed without one.
Begin(call) ==
    /\ doing = "main"
    /\ call # "send" => socket # 0
    /\ doing' = call
    /\ result' = "none" /\ got' = <<>>
    /\ UNCHANGED <<socket, held, order, done>>

Wanted == CASE doing = "poll" -> "read"
            [] doing = "close" -> "close"
            [] OTHER -> IF socket = 0 THEN "connect" ELSE "write"

\* An order waits until the one before it, of whichever call, is carried out.
Hand ==
    /\ doing # "main" /\ order = NoOrder /\ done = NoAnswer
    /\ socket \in held \cup {0}
    /\ order' = [do |-> Wanted, id |-> socket, mine |-> TRUE]
    /\ UNCHANGED <<doing, socket, held, done, result, got>>

\* The socket opened, 1 for a datagram that was written, the length of one that
\* is handed over whole; 0 otherwise.
Answers(do) == CASE do = "connect" -> (Pool \ held) \cup {0}
                 [] do = "write" -> {0, 1}
                 [] do = "read" -> 0 .. MaxLen
                 [] do = "close" -> {0}

CarryOut ==
    /\ order # NoOrder
    /\ order.do # "connect" => order.id \in held
    /\ \E v \in Answers(order.do) :
         /\ done' = IF order.mine THEN [do |-> order.do, val |-> v] ELSE done
         /\ held' = CASE order.do = "connect" -> held \cup ({v} \ {0})
                      [] order.do = "close" -> held \ {order.id}
                      [] OTHER -> held
    /\ order' = NoOrder
    /\ UNCHANGED <<doing, socket, result, got>>

\* The send goes on with the socket that was opened for it.
Take ==
    /\ socket = 0 /\ done.do = "connect" /\ done.val \in held
    /\ socket' = done.val
    /\ done' = NoAnswer
    /\ UNCHANGED <<doing, held, order, result, got>>

\* WAIT_TIMEOUT says nothing: what was ordered may or may not have been done.
Truthful(r) ==
    /\ r = "sent" => done = [do |-> "write", val |-> 1]
    /\ r = "SHORT_WRITE" => done.do = "write"
    /\ r = "delivered" => done.do = "read" /\ done.val # 0
    /\ r \in {"empty", "LONG_READ", "SHORT_READ"} => done = [do |-> "read", val |-> 0]
    /\ r = "OPEN_REFUSED" => done = [do |-> "connect", val |-> 0]
    /\ r = "NO_SOCKET" => socket = 0
    /\ r = "closed" => done.do = "close" /\ socket \notin held

\* net_udp_close forgets its socket however it ends.
Return(r) ==
    /\ doing # "main"
    /\ Truthful(r)
    /\ doing' = "main" /\ result' = r
    /\ got' = IF r = "delivered" THEN Payload(done.val) ELSE <<>>
    /\ socket' = IF doing = "close" THEN 0 ELSE socket
    /\ order' = [order EXCEPT !.mine = FALSE]
    /\ done' = NoAnswer
    /\ UNCHANGED held

Next ==
    \/ \E call \in {"send", "poll", "close"} : Begin(call)
    \/ Hand \/ CarryOut \/ Take
    \/ \E r \in Results : Return(r)

Spec == Init /\ [][Next]_udp

=============================================================================
