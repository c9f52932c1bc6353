-------------------------- MODULE ResponderProofs ---------------------------
(***************************************************************************)
(* The invariants of Responder, for any number of handshakes, lines and    *)
(* datagrams.  Heard: the receiving CipherState's nonce is the length of   *)
(* what was heard.  Nonces: the sending CipherState has used exactly the   *)
(* nonces below its counter.  Headers: outside a commit the header counter *)
(* and the nonce of the key in use run together, and a key for which they  *)
(* could come apart is in `overlapped`.                                    *)
(***************************************************************************)
EXTENDS Responder, TLAPS

-----------------------------------------------------------------------------
(* What is heard.                                                          *)

Heard ==
    /\ nonce_in \in [Keys -> Nat] /\ heard \in [Keys -> Seq(Nat)]
    /\ \A k \in Keys : Len(heard[k]) = nonce_in[k]
    /\ HeardInOrder

LEMMA InitHeard == Init => Heard
  BY DEF Init, Heard, HeardInOrder

LEMMA DecryptHeard ==
  ASSUME Heard, NEW k \in Keys, NEW n \in Nat, decrypt_transport(k, n) PROVE Heard'
  <1>1. /\ nonce_in' = [nonce_in EXCEPT ![k] = @ + 1]
        /\ heard' = [heard EXCEPT ![k] = Append(@, n)]
        /\ n = Len(heard[k]) /\ heard[k] \in Seq(Nat)
    BY DEF decrypt_transport, Heard
  <1>2. nonce_in' \in [Keys -> Nat] /\ heard' \in [Keys -> Seq(Nat)]
    BY <1>1 DEF Heard
  <1>3. \A q \in Keys : Len(heard'[q]) = nonce_in'[q]
    BY <1>1 DEF Heard
  <1>4. ASSUME NEW q \in Keys, NEW j \in DOMAIN heard'[q] PROVE heard'[q][j] = j - 1
    <2>1. CASE q # k BY <1>1, <1>4, <2>1 DEF Heard, HeardInOrder
    <2>2. CASE q = k
      <3>1. heard'[q] = Append(heard[k], n) BY <1>1, <2>2 DEF Heard
      <3>2. j \in 1..(Len(heard[k]) + 1) BY <1>1, <1>4, <3>1
      <3>3. CASE j = Len(heard[k]) + 1 BY <1>1, <3>1, <3>3
      <3>4. CASE j \in DOMAIN heard[k]
        BY <1>1, <2>2, <3>1, <3>4 DEF Heard, HeardInOrder
      <3> QED BY <1>1, <3>2, <3>3, <3>4
    <2> QED BY <2>1, <2>2
  <1> QED BY <1>2, <1>3, <1>4 DEF Heard, HeardInOrder

LEMMA NextHeard == ASSUME Heard, [Next]_vars PROVE Heard'
  <1>1. ASSUME NEW k \in Keys, NEW n \in 0..MaxSent, decrypt_transport(k, n) PROVE Heard'
    BY <1>1, DecryptHeard, BoundAssumption
  <1>2. CASE UNCHANGED <<nonce_in, heard>> BY <1>2 DEF Heard, HeardInOrder
  <1> QED
    BY <1>1, <1>2 DEF Next, Loop, Thread, C64, handle_initiation, CommitNoise, CommitIdx,
       CommitCounter, SendType2, LearnPeer, Unlock, TakeLock, Refuse, Encrypt, ReadCounter,
       StoreCounter, SendType4, Quit, C64Initiates, C64Accepts, C64Sends, vars, responder

\* What the responder prints of a session is a gapless beginning of what the
\* C64 sent in it, whatever is lost, repeated or reordered
\* (decrypt_transport, responder.py:247).
THEOREM HeardAlwaysInOrder == Spec => []HeardInOrder
  <1>1. Heard => HeardInOrder BY DEF Heard
  <1> QED BY InitHeard, NextHeard, <1>1, PTL DEF Spec

-----------------------------------------------------------------------------
(* Nonces.                                                                 *)

Building == tpc \in {"count", "store", "send"}

\* The handshake being committed and the key in use.
Committed ==
    /\ noise \in 0..MaxKeys /\ keys \in 0..MaxKeys /\ noise <= keys
    /\ pc # "recv" => hs.key \in Keys /\ hs.key = keys /\ hs.init \in 1..MaxInit
    /\ c64_sender_idx \in 0..MaxInit
    /\ pc \in {"idx", "counter", "type2", "session", "unlock"} => noise = hs.key
    /\ active => noise # 0

\* A CipherState has used every nonce below its counter, each once.
Nonces ==
    /\ nonce_out \in [Keys -> Nat]
    /\ pkt \in Packet /\ send_counter \in Nat
    /\ \A d \in type4 : d.key \in Keys /\ d.nonce \in Nat /\ d.nonce < nonce_out[d.key]
    /\ Building => pkt.key \in Keys /\ pkt.nonce < nonce_out[pkt.key]
    /\ OneNonceEach

LEMMA InitNonces == Init => Committed /\ Nonces
  BY BoundAssumption DEF Init, Committed, Nonces, OneNonceEach, Building, Keys, Packet, NoPacket

LEMMA NextCommitted == ASSUME Committed, [Next]_vars PROVE Committed'
  <1> USE BoundAssumption DEF Committed, Keys
  <1>1. ASSUME NEW i \in 1..MaxInit, handle_initiation(i) PROVE Committed'
    BY <1>1 DEF handle_initiation, session
  <1>2. CASE CommitNoise BY <1>2 DEF CommitNoise, session
  <1>3. CASE CommitIdx BY <1>3 DEF CommitIdx, session
  <1>4. CASE CommitCounter BY <1>4 DEF CommitCounter, session
  <1>5. CASE SendType2 BY <1>5 DEF SendType2, session, responder
  <1>6. CASE LearnPeer BY <1>6 DEF LearnPeer, responder
  <1>7. CASE Unlock BY <1>7 DEF Unlock, responder
  <1>8. CASE Quit BY <1>8 DEF Quit
  <1>9. CASE UNCHANGED <<noise, keys, c64_sender_idx, pc, hs, active>> BY <1>9
  <1> QED
    BY <1>1, <1>2, <1>3, <1>4, <1>5, <1>6, <1>7, <1>8, <1>9 DEF Next, Loop, Thread, C64,
       decrypt_transport, TakeLock, Refuse, Encrypt, ReadCounter, StoreCounter, SendType4,
       C64Initiates, C64Accepts, C64Sends, vars, responder, loop, session

LEMMA NextNonces == ASSUME Committed, Nonces, [Next]_vars PROVE Nonces'
  <1>1. CASE Encrypt
    <2>1. noise \in Keys BY <1>1 DEF Encrypt, Committed, Keys
    <2>2. /\ nonce_out' = [nonce_out EXCEPT ![noise] = @ + 1]
          /\ pkt' = [NoPacket EXCEPT !.key = noise, !.nonce = nonce_out[noise]]
          /\ type4' = type4 /\ nonce_out[noise] \in Nat /\ send_counter' = send_counter
      BY <1>1, <2>1 DEF Encrypt, wire, Nonces
    <2>3. pkt' \in Packet /\ pkt'.key = noise /\ pkt'.nonce = nonce_out[noise]
      <3>1. pkt' = [key |-> noise, nonce |-> nonce_out[noise], idx |-> 0, ctr |-> 0]
        BY <2>2 DEF NoPacket
      <3>2. noise \in 0..MaxKeys /\ 0 \in 0..MaxInit
        BY <2>1, BoundAssumption DEF Keys
      <3>3. nonce_out[noise] \in Nat /\ 0 \in Nat BY <2>2
      <3>4. pkt' \in Packet BY <3>1, <3>2, <3>3 DEF Packet
      <3>5. pkt'.key = noise /\ pkt'.nonce = nonce_out[noise] BY <3>1
      <3> QED BY <3>4, <3>5
    <2>4. /\ nonce_out' \in [Keys -> Nat]
          /\ \A k \in Keys : nonce_out[k] <= nonce_out'[k]
          /\ nonce_out'[noise] = nonce_out[noise] + 1
      BY <2>1, <2>2 DEF Nonces
    <2>5. \A d \in type4 : d.key \in Keys /\ d.nonce \in Nat /\ d.nonce < nonce_out'[d.key]
      BY <2>4 DEF Nonces
    <2>6. \A d \in type4 : d.key = pkt'.key => d.nonce # pkt'.nonce
      BY <2>1, <2>3 DEF Nonces
    <2>7. \A d, e \in type4 : d.key = e.key /\ d.nonce = e.nonce => d = e
      BY DEF Nonces, OneNonceEach
    <2>8. pkt'.nonce < nonce_out'[pkt'.key] BY <2>1, <2>2, <2>3, <2>4
    <2> QED BY <2>1, <2>2, <2>3, <2>4, <2>5, <2>6, <2>7, <2>8 DEF Nonces, OneNonceEach, Building
  <1>2. CASE ReadCounter
    <2>1. /\ pkt' = [pkt EXCEPT !.idx = c64_sender_idx, !.ctr = send_counter]
          /\ type4' = type4 /\ nonce_out' = nonce_out /\ send_counter' = send_counter
          /\ tpc = "count"
      BY <1>2 DEF ReadCounter, wire, responder
    <2>2. pkt' \in Packet /\ pkt'.key = pkt.key /\ pkt'.nonce = pkt.nonce
      BY <2>1 DEF Nonces, Packet, Committed
    <2> QED BY <2>1, <2>2 DEF Nonces, OneNonceEach, Building
  <1>3. CASE StoreCounter
    <2>1. pkt.ctr \in Nat BY DEF Nonces, Packet
    <2> QED BY <1>3, <2>1 DEF StoreCounter, wire, Nonces, OneNonceEach, Building
  <1>4. CASE SendType4
    <2> DEFINE new == [key |-> pkt.key, nonce |-> pkt.nonce, idx |-> pkt.idx,
                       ctr |-> pkt.ctr, to |-> peer_addr]
    <2>1. /\ type4' \subseteq type4 \cup {new}
          /\ pkt' = NoPacket /\ nonce_out' = nonce_out /\ send_counter' = send_counter
          /\ tpc = "send" /\ tpc' = "read"
      BY <1>4 DEF SendType4, responder
    <2>2. NoPacket \in Packet BY BoundAssumption DEF NoPacket, Packet
    <2>3. /\ new.key = pkt.key /\ new.nonce = pkt.nonce
          /\ pkt.key \in Keys /\ pkt.nonce \in Nat /\ pkt.nonce < nonce_out[pkt.key]
      BY <2>1 DEF Nonces, Building, Packet
    <2>4. \A d \in type4 : d.key = new.key => d.nonce # new.nonce
      BY <2>1, <2>3 DEF Nonces, OneNonceEach
    <2> HIDE DEF new
    <2>5. \A d, e \in type4' : d.key = e.key /\ d.nonce = e.nonce => d = e
      BY <2>1, <2>4 DEF Nonces, OneNonceEach
    <2>6. \A d \in type4' : d.key \in Keys /\ d.nonce \in Nat /\ d.nonce < nonce_out[d.key]
      BY <2>1, <2>3 DEF Nonces
    <2> QED BY <2>1, <2>2, <2>5, <2>6 DEF Nonces, OneNonceEach, Building
  <1>5. CASE /\ UNCHANGED <<nonce_out, pkt, type4>>
             /\ send_counter' \in {send_counter, 0}
             /\ Building' => Building
    BY <1>5 DEF Nonces, OneNonceEach, Building
  <1> QED
    BY <1>1, <1>2, <1>3, <1>4, <1>5 DEF Next, Loop, Thread, C64, handle_initiation,
       CommitNoise, CommitIdx, CommitCounter, SendType2, LearnPeer, Unlock,
       decrypt_transport, TakeLock, Refuse, Quit, C64Initiates, C64Accepts, C64Sends,
       vars, responder, loop, session, thread, wire, Building

\* No two datagrams to the C64 share a key and a nonce, for any interleaving
\* of the stdin thread and the receive loop (encrypt_transport,
\* responder.py:258).
THEOREM NoncesNeverRepeat == Spec => []OneNonceEach
  <1>1. Committed /\ Nonces /\ [Next]_vars => (Committed /\ Nonces)'
    BY NextCommitted, NextNonces
  <1>2. Nonces => OneNonceEach BY DEF Nonces
  <1> QED BY InitNonces, <1>1, <1>2, PTL DEF Spec

-----------------------------------------------------------------------------
(* Headers.                                                                *)

Committing == pc \in {"noise", "idx", "counter", "type2", "session"}

\* Who holds the lock, and where the handshake being committed came from.
Places ==
    /\ pc \in {"recv", "noise", "idx", "counter", "type2", "session", "unlock"}
    /\ tpc \in {"read", "check", "encrypt", "count", "store", "send"}
    /\ tpc # "read" => lock = "stdin"
    /\ pc = "unlock" => lock = "loop"
    /\ Building => active
    /\ inits \in Seq(Addrs)
    /\ pc # "recv" => hs.init \in DOMAIN inits /\ hs.addr = inits[hs.init]
    /\ pc \in {"counter", "type2", "session", "unlock"} => c64_sender_idx = hs.init

\* What the thread may rely on between two commits.
Aligned ==
    /\ c64_sender_idx \in DOMAIN inits
    /\ active => peer_addr = inits[c64_sender_idx]
    /\ ~Building => send_counter = nonce_out[noise]
    /\ Building => pkt.key = noise /\ nonce_out[noise] = pkt.nonce + 1
    /\ tpc \in {"count", "store"} => send_counter = pkt.nonce
    /\ tpc \in {"store", "send"} => pkt.ctr = pkt.nonce /\ pkt.idx = c64_sender_idx
    /\ tpc = "send" => send_counter = pkt.nonce + 1

\* Either a key is overlapped or the thread stays away from its commit.
Headers ==
    /\ ~Committing /\ noise # 0 /\ noise \notin overlapped => Aligned
    /\ Committing /\ tpc # "read" =>
         hs.key \in overlapped /\ (noise # 0 => noise \in overlapped)
    /\ Committing /\ hs.key \notin overlapped =>
         /\ nonce_out[hs.key] = 0
         /\ pc \in {"type2", "session"} => send_counter = 0
    /\ Building => pkt.key = noise \/ pkt.key \in overlapped
    /\ \A k \in Keys : k > keys => nonce_out[k] = 0
    /\ HeaderFits

LEMMA InitHeaders == Init => Places /\ Headers
  BY BoundAssumption
  DEF Init, Places, Headers, HeaderFits, Aligned, Building, Committing, Keys, NoHandshake

LEMMA NextPlaces == ASSUME Committed, Places, [Next]_vars PROVE Places'
  <1> USE DEF Places, Building
  <1>1. ASSUME NEW i \in 1..MaxInit, handle_initiation(i) PROVE Places'
    BY <1>1 DEF handle_initiation, session, thread, wire
  <1>2. CASE CommitNoise BY <1>2 DEF CommitNoise, session, thread, wire
  <1>3. CASE CommitIdx BY <1>3 DEF CommitIdx, session, thread, wire
  <1>4. CASE CommitCounter BY <1>4 DEF CommitCounter, session, thread, wire
  <1>5. CASE SendType2 BY <1>5 DEF SendType2, session, thread, responder
  <1>6. CASE LearnPeer BY <1>6 DEF LearnPeer, responder, thread, wire
  <1>7. CASE Unlock BY <1>7 DEF Unlock, responder, thread, wire
  <1>8. CASE TakeLock BY <1>8 DEF TakeLock, responder, loop, wire
  <1>9. CASE Refuse BY <1>9 DEF Refuse, responder, loop, wire
  <1>10. CASE Encrypt BY <1>10 DEF Encrypt, loop, session, wire
  <1>11. CASE ReadCounter BY <1>11 DEF ReadCounter, responder, loop, session, wire
  <1>12. CASE StoreCounter BY <1>12 DEF StoreCounter, loop, session, wire
  <1>13. CASE SendType4 BY <1>13 DEF SendType4, responder, loop
  <1>14. CASE Quit BY <1>14 DEF Quit, thread, wire
  <1>15. ASSUME NEW a \in Addrs, C64Initiates(a) PROVE Places'
    <2>1. /\ inits' = Append(inits, a)
          /\ UNCHANGED <<pc, tpc, lock, active, hs, c64_sender_idx>>
      BY <1>15 DEF C64Initiates, responder, loop, session, thread
    <2>2. inits' \in Seq(Addrs) BY <2>1
    <2>3. \A i \in DOMAIN inits : i \in DOMAIN inits' /\ inits'[i] = inits[i] BY <2>1
    <2> QED BY <2>1, <2>2, <2>3
  <1>16. CASE UNCHANGED <<pc, tpc, lock, active, inits, hs, c64_sender_idx>> BY <1>16
  <1> QED
    BY <1>1, <1>2, <1>3, <1>4, <1>5, <1>6, <1>7, <1>8, <1>9, <1>10, <1>11, <1>12, <1>13,
       <1>14, <1>15, <1>16 DEF Next, Loop, Thread, C64, decrypt_transport, C64Accepts,
       C64Sends, vars, responder, loop, session, thread, wire

\* A datagram whose header fits goes on fitting: the list of initiations and
\* the set of overlapped keys only grow.
LEMMA FitsStays ==
  ASSUME HeaderFits, inits \in Seq(Addrs), type4' \subseteq type4,
         overlapped \subseteq overlapped',
         \A i \in DOMAIN inits : i \in DOMAIN inits' /\ inits'[i] = inits[i]
  PROVE  HeaderFits'
  BY DEF HeaderFits

\* The steps of a commit.
LEMMA CommitHeaders ==
  ASSUME Committed, Nonces, Places, Headers, Committing,
         CommitNoise \/ CommitIdx \/ CommitCounter \/ SendType2 \/ LearnPeer
  PROVE  Headers'
  <1>1. /\ UNCHANGED <<nonce_out, tpc, pkt, inits, type4, keys, hs>>
        /\ overlapped' = IF tpc = "read" THEN overlapped
                         ELSE overlapped \cup ({hs.key, noise} \ {0})
        /\ tpc = "read" \/ pc # "session"
    BY DEF CommitNoise, CommitIdx, CommitCounter, SendType2, LearnPeer, Overlap, session,
           thread, wire, responder, Places
  <1>2. overlapped \subseteq overlapped' BY <1>1
  <1>3. HeaderFits' BY <1>1, <1>2, FitsStays DEF Headers, Places
  <1>4. \A k \in Keys : k > keys' => nonce_out'[k] = 0 BY <1>1 DEF Headers
  <1>5. noise' \in {noise, hs.key} BY DEF CommitNoise, CommitIdx, CommitCounter,
           SendType2, LearnPeer, responder
  <1>6. (Building => pkt.key = noise \/ pkt.key \in overlapped)'
    <2>1. Building => pkt.key # 0 /\ tpc # "read"
      BY BoundAssumption DEF Building, Nonces, Keys
    <2> QED BY <1>1, <1>2, <1>5, <2>1 DEF Headers, Building
  <1>7. tpc # "read" => hs.key \in overlapped' /\ (noise' # 0 => noise' \in overlapped')
    BY <1>1, <1>2, <1>5 DEF Headers
  <1>8. ASSUME hs.key \notin overlapped'
        PROVE  /\ nonce_out[hs.key] = 0
               /\ pc' \in {"type2", "session", "unlock"} => send_counter' = 0
    <2>1. /\ nonce_out[hs.key] = 0
          /\ pc \in {"type2", "session"} => send_counter = 0
      BY <1>2, <1>8 DEF Headers
    <2>2. CASE CommitNoise \/ CommitIdx BY <2>1, <2>2 DEF CommitNoise, CommitIdx
    <2>3. CASE CommitCounter BY <2>1, <2>3 DEF CommitCounter
    <2>4. CASE SendType2 \/ LearnPeer BY <2>1, <2>4 DEF SendType2, LearnPeer, responder
    <2> QED BY <2>2, <2>3, <2>4
  <1>9. (~Committing /\ noise # 0 /\ noise \notin overlapped => Aligned)'
    <2> SUFFICES ASSUME ~Committing', noise' \notin overlapped' PROVE Aligned'
      OBVIOUS
    <2>1. LearnPeer
      BY DEF CommitNoise, CommitIdx, CommitCounter, SendType2, Committing
    <2>2. /\ tpc' = "read" /\ noise' = hs.key /\ c64_sender_idx' = hs.init
          /\ peer_addr' = hs.addr /\ pc' = "unlock" /\ inits' = inits
          /\ nonce_out' = nonce_out
      BY <1>1, <2>1 DEF LearnPeer, responder, Committed, Places
    <2>3. hs.init \in DOMAIN inits /\ hs.addr = inits[hs.init] /\ send_counter' = nonce_out[hs.key]
      BY <1>8, <2>1, <2>2 DEF LearnPeer, Places
    <2> QED BY <2>2, <2>3 DEF Aligned, Building
  <1> QED BY <1>1, <1>3, <1>4, <1>6, <1>7, <1>8, <1>9 DEF Headers

\* A new handshake starts.
LEMMA InitiationHeaders ==
  ASSUME Committed, Nonces, Places, Headers, NEW i \in 1..MaxInit, handle_initiation(i)
  PROVE  Headers'
  <1>1. /\ UNCHANGED <<nonce_out, noise, tpc, pkt, inits, type4>>
        /\ overlapped' = IF tpc = "read" THEN overlapped
                         ELSE overlapped \cup ({keys + 1, noise} \ {0})
        /\ keys' = keys + 1 /\ hs'.key = keys + 1 /\ pc' = "noise" /\ keys < MaxKeys
    BY DEF handle_initiation, Overlap, thread, wire
  <1>2. overlapped \subseteq overlapped' BY <1>1
  <1>3. HeaderFits' BY <1>1, <1>2, FitsStays DEF Headers, Places
  <1>4. keys + 1 \in Keys /\ nonce_out[keys + 1] = 0 /\ keys + 1 # 0
    BY <1>1, BoundAssumption DEF Headers, Committed, Keys
  <1>5. \A k \in Keys : k > keys' => nonce_out'[k] = 0
    BY <1>1, BoundAssumption DEF Headers, Committed, Keys
  <1> QED BY <1>1, <1>2, <1>3, <1>4, <1>5 DEF Headers, Building, Committing

\* The steps of the thread that leave the responder's key alone.
LEMMA ThreadHeaders ==
  ASSUME Committed, Nonces, Places, Headers,
         TakeLock \/ Refuse \/ Encrypt \/ ReadCounter \/ StoreCounter
  PROVE  Headers'
  <1>1. /\ UNCHANGED <<noise, pc, hs, keys, inits, type4, c64_sender_idx, peer_addr, active>>
        /\ overlapped \subseteq overlapped'
    BY DEF TakeLock, Refuse, Encrypt, ReadCounter, StoreCounter, responder, loop, session, wire
  <1>2. HeaderFits' BY <1>1, FitsStays DEF Headers, Places
  <1>3. CASE TakeLock
    <2>1. /\ overlapped' = IF pc \in {"recv", "unlock"} THEN overlapped
                           ELSE overlapped \cup ({hs.key, noise} \ {0})
          /\ UNCHANGED <<nonce_out, send_counter, pkt>>
          /\ ~Building /\ ~Building' /\ tpc' = "check"
      BY <1>3 DEF TakeLock, responder, Building
    <2>2. Committing => hs.key # 0 BY BoundAssumption DEF Committing, Committed, Keys
    <2>3. Committing' = Committing /\ (Committing <=> pc \notin {"recv", "unlock"})
      BY <1>1 DEF Committing, Places
    <2>4. Aligned => Aligned' BY <1>1, <2>1 DEF Aligned, Building
    <2> QED BY <1>1, <1>2, <2>1, <2>2, <2>3, <2>4 DEF Headers
  <1>4. CASE Refuse
    <2>1. UNCHANGED <<overlapped, nonce_out, send_counter, pkt>> /\ tpc' = "read" /\ tpc = "check"
      BY <1>4 DEF Refuse, responder
    <2> QED BY <1>1, <1>2, <2>1 DEF Headers, Aligned, Building, Committing
  <1>5. CASE Encrypt
    <2>1. noise \in Keys /\ noise # 0 BY <1>5, BoundAssumption DEF Encrypt, Committed, Keys
    <2>2. /\ nonce_out' = [nonce_out EXCEPT ![noise] = @ + 1]
          /\ pkt'.key = noise /\ pkt'.nonce = nonce_out[noise] /\ nonce_out[noise] \in Nat
          /\ UNCHANGED <<overlapped, send_counter>>
          /\ tpc = "check" /\ tpc' = "count"
      BY <1>5, <2>1 DEF Encrypt, Nonces, NoPacket
    <2>3. nonce_out'[noise] = nonce_out[noise] + 1 BY <2>1, <2>2 DEF Nonces
    <2>4. \A k \in Keys : k > keys => nonce_out'[k] = 0
      BY <2>1, <2>2, BoundAssumption DEF Headers, Nonces, Committed, Keys
    <2>5. Aligned => Aligned' BY <1>1, <2>2, <2>3 DEF Aligned, Building
    <2>6. Committing => hs.key \in overlapped /\ noise \in overlapped
      BY <2>1, <2>2 DEF Headers
    <2> QED BY <1>1, <1>2, <2>1, <2>2, <2>4, <2>5, <2>6 DEF Headers, Committing
  <1>6. CASE ReadCounter
    <2>1. /\ pkt' = [pkt EXCEPT !.idx = c64_sender_idx, !.ctr = send_counter]
          /\ UNCHANGED <<overlapped, nonce_out, send_counter>>
          /\ tpc = "count" /\ tpc' = "store"
      BY <1>6 DEF ReadCounter, responder
    <2>2. /\ pkt'.key = pkt.key /\ pkt'.nonce = pkt.nonce
          /\ pkt'.idx = c64_sender_idx /\ pkt'.ctr = send_counter
      BY <2>1 DEF Nonces, Packet
    <2>3. Aligned => Aligned' BY <1>1, <2>1, <2>2 DEF Aligned, Building
    <2> QED BY <1>1, <1>2, <2>1, <2>2, <2>3 DEF Headers, Committing, Building
  <1>7. CASE StoreCounter
    <2>1. /\ send_counter' = pkt.ctr + 1
          /\ UNCHANGED <<overlapped, nonce_out, pkt>>
          /\ tpc = "store" /\ tpc' = "send"
      BY <1>7 DEF StoreCounter
    <2>2. Aligned => Aligned' BY <1>1, <2>1 DEF Aligned, Building
    <2>3. Committing => hs.key \in overlapped BY <2>1 DEF Headers
    <2> QED BY <1>1, <1>2, <2>1, <2>2, <2>3 DEF Headers, Committing, Building
  <1> QED BY <1>3, <1>4, <1>5, <1>6, <1>7

\* The datagram goes out.
LEMMA SendHeaders ==
  ASSUME Committed, Nonces, Places, Headers, SendType4 PROVE Headers'
  <1> DEFINE new == [key |-> pkt.key, nonce |-> pkt.nonce, idx |-> pkt.idx,
                     ctr |-> pkt.ctr, to |-> peer_addr]
  <1>1. /\ UNCHANGED <<noise, nonce_out, send_counter, keys, c64_sender_idx, pc, hs,
                       peer_addr, active, inits, overlapped>>
        /\ type4' \subseteq type4 \cup {new}
        /\ tpc = "send" /\ tpc' = "read"
    BY DEF SendType4, responder, loop
  <1>2. pkt.key # 0 /\ active
    BY <1>1, BoundAssumption DEF Nonces, Building, Places, Keys
  <1>3. pkt.key \notin overlapped => ~Committing /\ Aligned /\ pkt.key = noise
    BY <1>1, <1>2 DEF Headers, Building
  <1>4. pkt.key \notin overlapped =>
          /\ new.ctr = new.nonce
          /\ new.idx \in DOMAIN inits /\ new.to = inits[new.idx]
    BY <1>1, <1>2, <1>3 DEF Aligned
  <1>5. new.key = pkt.key OBVIOUS
  <1> HIDE DEF new
  <1>6. HeaderFits' BY <1>1, <1>4, <1>5 DEF HeaderFits, Headers
  <1>7. Aligned => Aligned' BY <1>1 DEF Aligned, Building
  <1> QED BY <1>1, <1>6, <1>7 DEF Headers, Committing, Building

LEMMA NextHeaders ==
  ASSUME Committed, Nonces, Places, Headers, [Next]_vars PROVE Headers'
  <1>1. ASSUME NEW i \in 1..MaxInit, handle_initiation(i) PROVE Headers'
    BY <1>1, InitiationHeaders
  <1>2. CASE CommitNoise \/ CommitIdx \/ CommitCounter \/ SendType2 \/ LearnPeer
    <2>1. Committing
      BY <1>2 DEF CommitNoise, CommitIdx, CommitCounter, SendType2, LearnPeer, Committing
    <2> QED BY <1>2, <2>1, CommitHeaders
  <1>3. CASE Unlock
    <2>1. /\ UNCHANGED <<noise, nonce_out, send_counter, keys, c64_sender_idx, peer_addr,
                         active, inits, overlapped, tpc, pkt, type4>>
          /\ ~Committing /\ ~Committing'
      BY <1>3 DEF Unlock, responder, thread, wire, Committing
    <2> QED BY <2>1 DEF Headers, HeaderFits, Aligned, Building
  <1>4. CASE TakeLock \/ Refuse \/ Encrypt \/ ReadCounter \/ StoreCounter
    BY <1>4, ThreadHeaders
  <1>5. CASE SendType4 BY <1>5, SendHeaders
  <1>6. CASE Quit
    <2>1. /\ UNCHANGED <<nonce_out, keys, inits, overlapped, tpc, pkt, type4>>
          /\ noise' = 0 /\ ~Committing' /\ tpc = "read"
      BY <1>6 DEF Quit, thread, wire, Committing
    <2> QED BY <2>1 DEF Headers, HeaderFits, Building
  <1>7. ASSUME NEW a \in Addrs, C64Initiates(a) PROVE Headers'
    <2>1. /\ inits' = Append(inits, a)
          /\ UNCHANGED <<responder, loop, session, thread, type4, overlapped>>
      BY <1>7 DEF C64Initiates
    <2>2. \A i \in DOMAIN inits : i \in DOMAIN inits' /\ inits'[i] = inits[i]
      BY <2>1 DEF Places
    <2>3. HeaderFits' BY <2>1, <2>2, FitsStays DEF Headers, Places
    <2>4. Aligned => Aligned'
      BY <2>1, <2>2 DEF Aligned, Building, responder, session, thread
    <2> QED BY <2>1, <2>3, <2>4 DEF Headers, Committing, Building, responder, loop, session, thread
  <1>8. CASE UNCHANGED <<noise, nonce_out, send_counter, keys, c64_sender_idx, pc, hs,
                         peer_addr, active, inits, overlapped, tpc, pkt, type4>>
    BY <1>8 DEF Headers, HeaderFits, Aligned, Building, Committing
  <1> QED
    BY <1>1, <1>2, <1>3, <1>4, <1>5, <1>6, <1>7, <1>8 DEF Next, Loop, Thread, C64,
       decrypt_transport, C64Accepts, C64Sends, vars, responder, loop, session, thread, wire

\* Unless an encryption overlapped the commit of its key, a datagram carries
\* its nonce in its header, names the C64's index and goes where the
\* initiation came from (send_text, server.py:196).
THEOREM HeadersAlwaysFit == Spec => []HeaderFits
  <1> DEFINE IInv == Committed /\ Nonces /\ Places /\ Headers
  <1>1. Init => IInv BY InitNonces, InitHeaders
  <1>2. IInv /\ [Next]_vars => IInv'
    BY NextCommitted, NextNonces, NextPlaces, NextHeaders
  <1>3. IInv => HeaderFits BY DEF Headers
  <1> HIDE DEF IInv
  <1> QED BY <1>1, <1>2, <1>3, PTL DEF Spec

=============================================================================
