----------------------------- MODULE Responder ------------------------------
(***************************************************************************)
(* The bench responder (tools/wg_responder): a receive loop that answers   *)
(* initiations and decrypts what the C64 sends, and a thread that encrypts *)
(* the lines typed on stdin.  Both use one WireGuardResponder; the lock of *)
(* _Session covers the typed lines and the address, not the commit of a    *)
(* new handshake, whose assignments are steps of their own here.           *)
(*                                                                         *)
(* Every handshake the responder completes has a key of its own, numbered  *)
(* in order.  Datagrams stay on the wire for ever: they may be delivered   *)
(* late, repeatedly, in any order or never.  Refused datagrams change      *)
(* nothing and have no action.                                             *)
(***************************************************************************)
EXTENDS Naturals, Sequences

CONSTANTS
    Addrs,      \* addresses the C64 may send from
    NoAddr,
    MaxInit,    \* bound: initiations the C64 sends
    MaxKeys,    \* bound: handshakes the responder completes
    MaxLines,   \* bound: lines encrypted under one key
    MaxSent     \* bound: datagrams the C64 sends under one key

ASSUME AddrAssumption == NoAddr \notin Addrs
ASSUME BoundAssumption == {MaxInit, MaxKeys, MaxLines, MaxSent} \subseteq Nat

VARIABLES
    \* WireGuardResponder
    noise,          \* _noise: the key in use, 0 for none
    nonce_out,      \* key -> the nonce of its sending CipherState
    nonce_in,       \* key -> the nonce of its receiving CipherState
    c64_sender_idx,
    greatest,       \* the greatest timestamp accepted
    send_counter,
    keys,           \* how many handshakes have been completed
    \* run_server
    pc, hs, state,  \* where the loop stands, the handshake it is committing
    \* _Session
    peer_addr, active, lock,
    \* the stdin thread
    tpc, pkt,       \* where it stands, the datagram it is building
    \* the C64 and the wire
    inits,          \* the initiations sent: inits[i] is the address of the i-th
    c64_key,        \* the key of the C64's session, 0 for none
    c64_sent,       \* key -> Type 4 datagrams the C64 has sent under it
    type2,          \* responses sent: [key, init]
    type4,          \* datagrams sent to the C64
    heard,          \* key -> counters of the datagrams decrypted, in order
    overlapped      \* history: keys some encryption overlapped the commit of

responder == <<noise, nonce_out, nonce_in, c64_sender_idx, greatest, send_counter, keys>>
loop == <<pc, hs, state>>
session == <<peer_addr, active, lock>>
thread == <<tpc, pkt>>
wire == <<inits, c64_key, c64_sent, type2, type4>>
vars == <<responder, loop, session, thread, wire, heard, overlapped>>

Keys == 1..MaxKeys
Handshake == [key : Keys, init : 1..MaxInit, addr : Addrs]
NoHandshake == [key |-> 0, init |-> 0, addr |-> NoAddr]
Packet == [key : 0..MaxKeys, nonce : Nat, idx : 0..MaxInit, ctr : Nat]
NoPacket == [key |-> 0, nonce |-> 0, idx |-> 0, ctr |-> 0]

TypeOK ==
    /\ noise \in 0..MaxKeys
    /\ nonce_out \in [Keys -> Nat] /\ nonce_in \in [Keys -> Nat]
    /\ c64_sender_idx \in 0..MaxInit /\ greatest \in 0..MaxInit
    /\ send_counter \in Nat
    /\ keys \in 0..MaxKeys
    /\ pc \in {"recv", "noise", "idx", "counter", "type2", "session", "unlock"}
    /\ hs \in Handshake \cup {NoHandshake}
    /\ state \in {"WAIT_TYPE1", "ACTIVE"}
    /\ peer_addr \in Addrs \cup {NoAddr} /\ active \in BOOLEAN
    /\ lock \in {"free", "loop", "stdin"}
    /\ tpc \in {"read", "check", "encrypt", "count", "store", "send"}
    /\ pkt \in Packet
    /\ inits \in Seq(Addrs) /\ Len(inits) <= MaxInit
    /\ c64_key \in 0..MaxKeys /\ c64_sent \in [Keys -> Nat]
    /\ type2 \subseteq [key : Keys, init : 1..MaxInit]
    /\ type4 \subseteq [key : Keys, nonce : Nat, idx : 0..MaxInit, ctr : Nat, to : Addrs]
    /\ heard \in [Keys -> Seq(Nat)]
    /\ overlapped \subseteq Keys

Init ==
    /\ noise = 0 /\ c64_sender_idx = 0 /\ greatest = 0 /\ send_counter = 0 /\ keys = 0
    /\ nonce_out = [k \in Keys |-> 0] /\ nonce_in = [k \in Keys |-> 0]
    /\ pc = "recv" /\ hs = NoHandshake /\ state = "WAIT_TYPE1"
    /\ peer_addr = NoAddr /\ active = FALSE /\ lock = "free"
    /\ tpc = "read" /\ pkt = NoPacket
    /\ inits = <<>> /\ c64_key = 0 /\ c64_sent = [k \in Keys |-> 0]
    /\ type2 = {} /\ type4 = {}
    /\ heard = [k \in Keys |-> <<>>]
    /\ overlapped = {}

-----------------------------------------------------------------------------
(* The receive loop.                                                       *)

\* Encryption and commit at the same time: the keys on both sides of the
\* change are marked.
Overlap(k) == overlapped' = IF tpc = "read" THEN overlapped
                            ELSE overlapped \cup ({k, noise} \ {0})

\* The i-th initiation arrives, for the first time or again.  It is checked
\* against the greatest timestamp accepted, and answered in a local.
handle_initiation(i) ==
    /\ pc = "recv" /\ i \in DOMAIN inits
    /\ i > greatest
    /\ keys < MaxKeys
    /\ keys' = keys + 1
    /\ hs' = [key |-> keys + 1, init |-> i, addr |-> inits[i]]
    /\ pc' = "noise"
    /\ Overlap(keys + 1)
    /\ UNCHANGED <<noise, nonce_out, nonce_in, c64_sender_idx, greatest, send_counter,
                   state, session, thread, wire, heard>>

\* The commit, assignment by assignment.
CommitNoise ==
    /\ pc = "noise"
    /\ noise' = hs.key
    /\ pc' = "idx"
    /\ Overlap(hs.key)
    /\ UNCHANGED <<nonce_out, nonce_in, c64_sender_idx, greatest, send_counter, keys,
                   hs, state, session, thread, wire, heard>>

CommitIdx ==
    /\ pc = "idx"
    /\ c64_sender_idx' = hs.init
    /\ greatest' = hs.init
    /\ pc' = "counter"
    /\ Overlap(hs.key)
    /\ UNCHANGED <<noise, nonce_out, nonce_in, send_counter, keys,
                   hs, state, session, thread, wire, heard>>

CommitCounter ==
    /\ pc = "counter"
    /\ send_counter' = 0
    /\ pc' = "type2"
    /\ Overlap(hs.key)
    /\ UNCHANGED <<noise, nonce_out, nonce_in, c64_sender_idx, greatest, keys,
                   hs, state, session, thread, wire, heard>>

\* The response is built and sent.
SendType2 ==
    /\ pc = "type2"
    /\ type2' = type2 \cup {[key |-> hs.key, init |-> c64_sender_idx]}
    /\ state' = "ACTIVE"
    /\ pc' = "session"
    /\ Overlap(hs.key)
    /\ UNCHANGED <<responder, hs, session, thread, inits, c64_key, c64_sent, type4, heard>>

\* The session learns the address, under the lock.
LearnPeer ==
    /\ pc = "session" /\ lock = "free"
    /\ lock' = "loop"
    /\ peer_addr' = hs.addr
    /\ active' = TRUE
    /\ pc' = "unlock"
    /\ Overlap(hs.key)
    /\ UNCHANGED <<responder, hs, state, thread, wire, heard>>

Unlock ==
    /\ pc = "unlock"
    /\ lock' = "free"
    /\ pc' = "recv" /\ hs' = NoHandshake
    /\ UNCHANGED <<responder, state, peer_addr, active, thread, wire, heard, overlapped>>

\* Mutant: a datagram that does not authenticate uses up a nonce.
decrypt_transport_advances(k, n) ==
    /\ pc = "recv" /\ state = "ACTIVE" /\ noise # 0
    /\ n < c64_sent[k]
    /\ nonce_in' = [nonce_in EXCEPT ![noise] = @ + 1]
    /\ heard' = IF k = noise /\ n = nonce_in[noise]
                THEN [heard EXCEPT ![k] = Append(@, n)] ELSE heard
    /\ UNCHANGED <<noise, nonce_out, c64_sender_idx, greatest, send_counter, keys,
                   loop, session, thread, wire, overlapped>>

\* Datagram n of key k arrives.  The counter and the index in its header are
\* not looked at: it authenticates under the present key and the next nonce,
\* or not at all.
decrypt_transport(k, n) ==
    /\ pc = "recv" /\ state = "ACTIVE"
    /\ n < c64_sent[k]
    /\ k = noise /\ n = nonce_in[k]
    /\ nonce_in' = [nonce_in EXCEPT ![k] = @ + 1]
    /\ heard' = [heard EXCEPT ![k] = Append(@, n)]
    /\ UNCHANGED <<noise, nonce_out, c64_sender_idx, greatest, send_counter, keys,
                   loop, session, thread, wire, overlapped>>

-----------------------------------------------------------------------------
(* The stdin thread: send_text and encrypt_transport.                      *)

\* A line was read: take the lock.  The keys in use count as overlapped when
\* the loop is in the middle of a commit.
TakeLock ==
    /\ tpc = "read" /\ lock = "free"
    /\ lock' = "stdin"
    /\ tpc' = "check"
    /\ overlapped' = IF pc \in {"recv", "unlock"} THEN overlapped
                     ELSE overlapped \cup ({hs.key, noise} \ {0})
    /\ UNCHANGED <<responder, loop, peer_addr, active, pkt, wire, heard>>

\* No session: the line is refused.
Refuse ==
    /\ tpc = "check" /\ ~active
    /\ lock' = "free"
    /\ tpc' = "read"
    /\ UNCHANGED <<responder, loop, peer_addr, active, pkt, wire, heard, overlapped>>

\* Mutant: the datagram is encrypted under the counter of its header.
Encrypt_counter ==
    /\ tpc = "check" /\ active
    /\ nonce_out[noise] < MaxLines
    /\ pkt' = [NoPacket EXCEPT !.key = noise, !.nonce = send_counter]
    /\ nonce_out' = [nonce_out EXCEPT ![noise] = @ + 1]
    /\ tpc' = "count"
    /\ UNCHANGED <<noise, nonce_in, c64_sender_idx, greatest, send_counter, keys,
                   loop, session, wire, heard, overlapped>>

\* self._noise.encrypt(plaintext): the CipherState counts for itself.
Encrypt ==
    /\ tpc = "check" /\ active
    /\ nonce_out[noise] < MaxLines
    /\ pkt' = [NoPacket EXCEPT !.key = noise, !.nonce = nonce_out[noise]]
    /\ nonce_out' = [nonce_out EXCEPT ![noise] = @ + 1]
    /\ tpc' = "count"
    /\ UNCHANGED <<noise, nonce_in, c64_sender_idx, greatest, send_counter, keys,
                   loop, session, wire, heard, overlapped>>

\* The index and the counter of the header are read, then the counter stored.
ReadCounter ==
    /\ tpc = "count"
    /\ pkt' = [pkt EXCEPT !.idx = c64_sender_idx, !.ctr = send_counter]
    /\ tpc' = "store"
    /\ UNCHANGED <<responder, loop, session, wire, heard, overlapped>>

StoreCounter ==
    /\ tpc = "store"
    /\ send_counter' = pkt.ctr + 1
    /\ tpc' = "send"
    /\ UNCHANGED <<noise, nonce_out, nonce_in, c64_sender_idx, greatest, keys,
                   loop, session, pkt, wire, heard, overlapped>>

\* sendto, which may raise; the lock is released either way.
SendType4 ==
    /\ tpc = "send"
    /\ \/ type4' = type4 \cup {[key |-> pkt.key, nonce |-> pkt.nonce, idx |-> pkt.idx,
                                ctr |-> pkt.ctr, to |-> peer_addr]}
       \/ UNCHANGED type4
    /\ lock' = "free"
    /\ tpc' = "read" /\ pkt' = NoPacket
    /\ UNCHANGED <<responder, loop, peer_addr, active, inits, c64_key, c64_sent, type2,
                   heard, overlapped>>

\* /quit ends the process wherever the loop is; the tool is started again with
\* nothing remembered.
Quit ==
    /\ tpc = "read"
    /\ noise' = 0 /\ c64_sender_idx' = 0 /\ greatest' = 0 /\ send_counter' = 0
    /\ pc' = "recv" /\ hs' = NoHandshake /\ state' = "WAIT_TYPE1"
    /\ peer_addr' = NoAddr /\ active' = FALSE /\ lock' = "free"
    /\ UNCHANGED <<nonce_out, nonce_in, keys, thread, wire, heard, overlapped>>

-----------------------------------------------------------------------------
(* The C64 (external here; see Tunnel).                                    *)

C64Initiates(a) ==
    /\ Len(inits) < MaxInit
    /\ inits' = Append(inits, a)
    /\ c64_key' = 0
    /\ UNCHANGED <<responder, loop, session, thread, c64_sent, type2, type4, heard, overlapped>>

\* It takes the response to its last initiation, once.
C64Accepts(r) ==
    /\ r \in type2 /\ r.init = Len(inits) /\ c64_key = 0
    /\ c64_sent[r.key] = 0
    /\ c64_key' = r.key
    /\ UNCHANGED <<responder, loop, session, thread, inits, c64_sent, type2, type4,
                   heard, overlapped>>

C64Sends ==
    /\ c64_key # 0 /\ c64_sent[c64_key] < MaxSent
    /\ c64_sent' = [c64_sent EXCEPT ![c64_key] = @ + 1]
    /\ UNCHANGED <<responder, loop, session, thread, inits, c64_key, type2, type4,
                   heard, overlapped>>

-----------------------------------------------------------------------------
Loop ==
    \/ \E i \in 1..MaxInit : handle_initiation(i)
    \/ CommitNoise \/ CommitIdx \/ CommitCounter \/ SendType2 \/ LearnPeer \/ Unlock
    \/ \E k \in Keys, n \in 0..MaxSent : decrypt_transport(k, n)

Thread == TakeLock \/ Refuse \/ Encrypt \/ ReadCounter \/ StoreCounter \/ SendType4 \/ Quit

C64 == (\E a \in Addrs : C64Initiates(a)) \/ (\E r \in type2 : C64Accepts(r)) \/ C64Sends

Next == Loop \/ Thread \/ C64

Spec == Init /\ [][Next]_vars

-----------------------------------------------------------------------------
(* Properties.                                                             *)

\* No two datagrams to the C64 are encrypted under one key and one nonce,
\* whatever the two threads do to each other's counters (encrypt_transport,
\* responder.py:258).
OneNonceEach ==
    /\ \A d, e \in type4 : d.key = e.key /\ d.nonce = e.nonce => d = e
    /\ tpc \in {"count", "store", "send"} =>
         \A d \in type4 : d.key = pkt.key => d.nonce # pkt.nonce

\* Unless an encryption overlapped the commit of its key, a datagram carries
\* its nonce in its header, names the C64's index and goes where the
\* initiation came from: the C64 can open it (send_text, server.py:196).
HeaderFits ==
    \A d \in type4 : d.key \notin overlapped =>
        /\ d.ctr = d.nonce
        /\ d.idx \in DOMAIN inits /\ d.to = inits[d.idx]

\* What is printed of a session is a gapless beginning of what the C64 sent in
\* it, in order and without repetition: nothing after a lost datagram is ever
\* heard (decrypt_transport, responder.py:247).
HeardInOrder ==
    \A k \in Keys : \A j \in DOMAIN heard[k] : heard[k][j] = j - 1

=============================================================================
