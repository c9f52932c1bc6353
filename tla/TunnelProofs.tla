---------------------------- MODULE TunnelProofs ----------------------------
(* Proofs about Tunnel, for any number of peers, initiations and sends and   *)
(* for both backends.                                                        *)
EXTENDS Tunnel, TLAPS

USE PeerAssumption, SocketAssumption, BoundAssumption

\* What net_udp_send may do: a datagram goes to the staged destination or, if
\* the send fails, perhaps nowhere, and the socket it leaves is unpinned or pinned
\* to that destination, provided that it was before.
LEMMA SendOutcome ==
  ASSUME NEW dest \in Places, NEW s \in Sockets, s \in Places => s = dest,
         NEW o \in net_udp_send(dest, s)
  PROVE  /\ o.to # Closed => o.to = dest
         /\ ~o.failed => o.to # Closed
         /\ o.sock \in Sockets
         /\ o.sock \in Places => o.sock = dest
  <1>1. CASE connected
    <2>1. PICK t \in {s, dest} : /\ o.sock = t /\ o.to \in {Closed, t}
                                 /\ ~o.failed => o.to # Closed
      <3>1. o \in UciSend(dest, s)
        BY <1>1 DEF net_udp_send
      <3> DEFINE opened == IF s = Closed THEN uci_udp_connect(dest) ELSE {s}
      <3>2. PICK q \in opened :
              \/ q # Closed /\ o = [failed |-> FALSE, to |-> q, sock |-> q]
              \/ o = [failed |-> TRUE, to |-> q, sock |-> q]
              \/ o = [failed |-> TRUE, to |-> Closed, sock |-> q]
        BY <3>1, Zenon DEF UciSend
      <3>3. q \in {s, dest}
        BY DEF uci_udp_connect
      <3> HIDE DEF opened
      <3>4. o.sock = q /\ o.to \in {Closed, q} /\ (~o.failed => o.to # Closed)
        BY <3>2, SMT
      <3> QED  BY <3>3, <3>4
    <2>2. Sockets = {Closed} \cup Places
      BY <1>1 DEF Sockets
    <2>3. t = s => s = Closed \/ s = dest
      BY <2>2
    <2> QED  BY <2>1, <2>2, <2>3
  <1>2. CASE ~connected
    <2>1. o.sock \in {s, Listening} /\ o.to \in {Closed, dest} /\ (~o.failed => o.to = dest)
      <3>1. o \in Ip65Send(dest, s)
        BY <1>2 DEF net_udp_send
      <3> DEFINE reclaimed == IF s = Closed /\ listened THEN Listening ELSE s
      <3>2. \/ o = [failed |-> FALSE, to |-> dest, sock |-> reclaimed]
            \/ o = [failed |-> TRUE, to |-> Closed, sock |-> reclaimed]
            \/ o = [failed |-> TRUE, to |-> Closed, sock |-> s]
        BY <3>1, Zenon DEF Ip65Send
      <3>3. reclaimed \in {s, Listening}
        OBVIOUS
      <3> HIDE DEF reclaimed
      <3>4. o.sock \in {s, Listening} /\ o.to \in {Closed, dest} /\ (~o.failed => o.to = dest)
        BY <3>2, <3>3, SMT
      <3> QED  BY <3>4
    <2>2. Sockets = {Closed, Listening}
      BY <1>2 DEF Sockets
    <2> QED  BY <2>1, <2>2 DEF Places
  <1> QED  BY <1>1, <1>2

\* A datagram that leaves, leaves a socket behind that is pinned to where it went
\* (UCI), or the listener claimed (ip65, once it knows its port).
LEMMA SendListens ==
  ASSUME NEW dest \in Places, NEW s \in Sockets, s \in Places => s = dest,
         connected \/ listened,
         NEW o \in net_udp_send(dest, s), o.to # Closed
  PROVE  o.sock = IF connected THEN dest ELSE Listening
  <1>1. CASE connected
    <2>1. o \in UciSend(dest, s)
      BY <1>1 DEF net_udp_send
    <2>2. PICK q \in IF s = Closed THEN uci_udp_connect(dest) ELSE {s} :
            \/ o = [failed |-> FALSE, to |-> q, sock |-> q]
            \/ o = [failed |-> TRUE, to |-> q, sock |-> q]
            \/ o = [failed |-> TRUE, to |-> Closed, sock |-> q]
      BY <2>1, Zenon DEF UciSend
    <2>3. o.sock = o.to
      BY <2>2, SMT
    <2> QED  BY <1>1, <2>3, SendOutcome
  <1>2. CASE ~connected
    <2>1. o \in Ip65Send(dest, s)
      BY <1>2 DEF net_udp_send
    <2> DEFINE reclaimed == IF s = Closed /\ listened THEN Listening ELSE s
    <2>2. \/ o = [failed |-> FALSE, to |-> dest, sock |-> reclaimed]
          \/ o = [failed |-> TRUE, to |-> Closed, sock |-> reclaimed]
          \/ o = [failed |-> TRUE, to |-> Closed, sock |-> s]
      BY <2>1, Zenon DEF Ip65Send
    <2>3. reclaimed = Listening
      BY <1>2 DEF Sockets
    <2> HIDE DEF reclaimed
    <2>4. o.sock = reclaimed
      BY <2>2, SMT
    <2> QED  BY <1>2, <2>3, <2>4
  <1> QED  BY <1>1, <1>2

\* The initial state satisfies the invariant.
LEMMA TunnelInvInit == Init => TunnelInv
  <1> SUFFICES ASSUME Init PROVE TunnelInv
    OBVIOUS
  <1>1. TypeOK
    <2>1. cfg \in Configs /\ hs \in Handshakes /\ wg_peer \in Places /\ tp_key \in Keys
      BY DEF Init, Configs, Handshakes, Places, Names, Keys, NoKey
    <2>2. sock \in Sockets
      BY DEF Init, Sockets
    <2>3. /\ greatest \in [Peers -> Nat] /\ send_counter \in [Peers -> Nat]
          /\ session \in [Peers -> Keys] /\ at \in [Peers -> Endpoints]
      BY DEF Init, Keys, NoKey
    <2> QED  BY <2>1, <2>2, <2>3 DEF Init, TypeOK
  <1>2. InitsBehind /\ PeersBehind /\ HeldIsGreatest /\ AnsweredOnce /\ NonceFresh /\ CookieForPeer /\ CookieNext
    BY DEF Init, NoKey, InitsBehind, PeersBehind, HeldIsGreatest, AnsweredOnce, NonceFresh,
           CookieForPeer, CookieNext
  <1>3. KeysBehind /\ ActiveIsLatest /\ PinnedToPeer /\ TranscriptFresh
    BY DEF Init, KeysBehind, NoKey, ActiveIsLatest, PinnedToPeer, TranscriptFresh, Places
  <1> QED  BY <1>1, <1>2, <1>3 DEF TunnelInv

\* An initiation, whether H or a cookie reply started it and whether its send
\* failed, keeps the invariant.
LEMMA InitiateInv ==
  ASSUME TunnelInv, NEW cookie \in Cookies \cup {NoCookie},
         cookie # NoCookie => cookie.n = hs.n /\ cookie.p = cfg.pub,
         session_initiate(cookie), UNCHANGED <<setup, peers, fromPeers>>
  PROVE  TunnelInv'
  <1> DEFINE new == [n |-> hs.n + 1, id |-> cfg.id, pub |-> cfg.pub, psk |-> cfg.psk, open |-> TRUE]
             init(d) == [n |-> hs.n + 1, id |-> cfg.id, pub |-> cfg.pub, dest |-> d, cookie |-> cookie]
  <1>1. TypeOK /\ InitsBehind /\ PeersBehind /\ HeldIsGreatest /\ AnsweredOnce /\ KeysBehind /\ ActiveIsLatest
        /\ NonceFresh /\ PinnedToPeer /\ TranscriptFresh /\ CookieForPeer /\ CookieNext
    BY DEF TunnelInv
  <1>2. config_load \in Sockets /\ cfg.ep \in Places
        /\ (config_load \in Places => config_load = cfg.ep)
    BY <1>1 DEF config_load, net_udp_close, TypeOK, PinnedToPeer, Configs, Sockets, Places
  <1>3. PICK o \in net_udp_send(cfg.ep, config_load) :
          /\ inits' = IF o.to = Closed THEN inits ELSE inits \cup {init(o.to)}
          /\ \/ /\ ~o.failed
                /\ wg_state' = "HS_SENT"
                /\ hs_timer_armed' = TRUE
                /\ sock' = o.sock
             \/ /\ o.failed
                /\ session_send_failed
    BY DEF session_initiate, hs_create_initiation
  <1>4. /\ o.to # Closed => o.to = cfg.ep
        /\ o.sock \in Sockets
        /\ o.sock \in Places => o.sock = cfg.ep
    BY <1>2, <1>3, SendOutcome
  <1>5. \/ wg_state' = "HS_SENT" /\ hs_timer_armed' = TRUE /\ sock' = o.sock
        \/ wg_state' = "IDLE" /\ hs_timer_armed' = FALSE /\ sock' = Closed
    BY <1>3 DEF session_send_failed, session_reset, net_udp_close
  <1>6. /\ hs' = new /\ wg_peer' = cfg.ep
        /\ UNCHANGED <<tp_key, tp_send_counter, sent, cfg, loads, net_initialized, connected, listened>>
        /\ UNCHANGED <<greatest, session, send_counter, answers, at, roams>>
        /\ UNCHANGED <<resps, cookies, data>>
    BY DEF session_initiate, setup, peers, fromPeers
  <1>7. hs.n \in Nat /\ hs' \in Handshakes /\ hs'.n = hs.n + 1 /\ hs'.pub = cfg.pub /\ hs'.open
    BY <1>1, <1>6 DEF TypeOK, Handshakes, Configs
  <1>8. inits' \subseteq inits \cup {init(cfg.ep)}
    BY <1>3, <1>4
  <1>9. TypeOK'
    <2>1. init(cfg.ep) \in [n : Nat, id : BOOLEAN, pub : Names, dest : Places,
                            cookie : Cookies \cup {NoCookie}]
      BY <1>1, <1>2, <1>7 DEF TypeOK, Configs
    <2>2. sock' \in Sockets
      BY <1>4, <1>5 DEF Sockets
    <2> QED  BY <1>1, <1>2, <1>5, <1>6, <1>7, <1>8, <2>1, <2>2 DEF TypeOK, Sockets
  <1>10. InitsBehind' /\ CookieForPeer' /\ CookieNext'
    <2>1. ASSUME NEW m \in inits' PROVE m.n <= hs'.n /\ (m.cookie # NoCookie => m.cookie.p = m.pub /\ m.n = m.cookie.n + 1)
      <3>1. CASE m \in inits
        BY <3>1, <1>1, <1>7 DEF InitsBehind, CookieForPeer, CookieNext, TypeOK
      <3>2. CASE m = init(cfg.ep)
        BY <3>2, <1>7
      <3> QED  BY <3>1, <3>2, <1>8
    <2> QED  BY <2>1 DEF InitsBehind, CookieForPeer, CookieNext
  <1>11. PeersBehind' /\ HeldIsGreatest' /\ AnsweredOnce'
    BY <1>1, <1>6, <1>7 DEF PeersBehind, HeldIsGreatest, AnsweredOnce, TypeOK
  <1>12. KeysBehind' /\ NonceFresh'
    <2>1. tp_key[1] \in Nat /\ \A m \in sent : m.key[1] \in Nat
      BY <1>1 DEF TypeOK, Keys
    <2> QED  BY <1>1, <1>6, <1>7, <2>1 DEF KeysBehind, NonceFresh
  <1>13. ActiveIsLatest' /\ TranscriptFresh' /\ PinnedToPeer'
    BY <1>4, <1>5, <1>6, <1>7 DEF ActiveIsLatest, TranscriptFresh, PinnedToPeer, Places
  <1> QED  BY <1>9, <1>10, <1>11, <1>12, <1>13 DEF TunnelInv

\* A Type 4, whichever key or timer sent it and whether its send failed, keeps
\* the invariant: its counter is spent before the datagram leaves.
LEMMA SendInv ==
  ASSUME TunnelInv, transport_send, UNCHANGED <<setup, peers, fromPeers>>
  PROVE  TunnelInv'
  <1> DEFINE new == [key |-> tp_key, counter |-> tp_send_counter]
  <1>1. TypeOK /\ InitsBehind /\ PeersBehind /\ HeldIsGreatest /\ AnsweredOnce /\ KeysBehind /\ ActiveIsLatest
        /\ NonceFresh /\ PinnedToPeer /\ TranscriptFresh /\ CookieForPeer /\ CookieNext
    BY DEF TunnelInv
  <1>2. wg_peer \in Places /\ sock \in Sockets /\ (sock \in Places => sock = wg_peer)
    BY <1>1 DEF TypeOK, PinnedToPeer
  <1>3. PICK o \in net_udp_send(wg_peer, sock) :
          sock' = o.sock /\ sent' = IF o.to = Closed THEN sent ELSE sent \cup {new}
    BY DEF transport_send
  <1>4. sock' \in Sockets /\ (sock' \in Places => sock' = wg_peer) /\ sent' \subseteq sent \cup {new}
    BY <1>2, <1>3, SendOutcome
  <1>5. /\ tp_send_counter' = tp_send_counter + 1
        /\ UNCHANGED <<wg_state, hs_timer_armed, hs, wg_peer, tp_key, inits>>
        /\ UNCHANGED <<cfg, loads, net_initialized, connected, listened>>
        /\ UNCHANGED <<greatest, session, send_counter, answers, at, roams>>
        /\ UNCHANGED <<resps, cookies, data>>
    BY DEF transport_send, transport_encrypt, setup, peers, fromPeers
  <1>6. TypeOK'
    <2>1. new \in [key : Keys, counter : Nat] /\ tp_send_counter' \in Nat
      BY <1>1, <1>5 DEF TypeOK
    <2> QED  BY <1>1, <1>4, <1>5, <2>1 DEF TypeOK, Sockets
  <1>7. KeysBehind' /\ NonceFresh'
    <2>1. tp_send_counter \in Nat /\ \A m \in sent : m.counter \in Nat
      BY <1>1 DEF TypeOK
    <2>2. ASSUME NEW m \in sent'
          PROVE  /\ m.key[1] <= hs.n
                 /\ wg_state = "HS_SENT" => m.key[1] < hs.n
                 /\ m.key = tp_key => m.counter < tp_send_counter'
      <3>1. CASE m \in sent
        BY <3>1, <1>1, <1>5, <2>1 DEF KeysBehind, NonceFresh
      <3>2. CASE m = new
        BY <3>2, <1>1, <1>5, <2>1 DEF KeysBehind
      <3> QED  BY <3>1, <3>2, <1>4
    <2> QED  BY <1>1, <1>5, <2>2 DEF KeysBehind, NonceFresh
  <1>8. InitsBehind' /\ PeersBehind' /\ HeldIsGreatest' /\ AnsweredOnce' /\ ActiveIsLatest' /\ TranscriptFresh'
        /\ CookieForPeer' /\ CookieNext'
    BY <1>1, <1>5 DEF InitsBehind, PeersBehind, HeldIsGreatest, AnsweredOnce, ActiveIsLatest, TranscriptFresh,
                      CookieForPeer, CookieNext
  <1>9. PinnedToPeer'
    BY <1>4, <1>5 DEF PinnedToPeer
  <1> QED  BY <1>6, <1>7, <1>8, <1>9 DEF TunnelInv

\* session_reset keeps the invariant: keys and counters outlive the session.
LEMMA ResetInv ==
  ASSUME TunnelInv, session_reset,
         UNCHANGED <<wg_peer, tp_key, tp_send_counter, setup, peers, fromC64, fromPeers>>,
         hs' \in Handshakes, hs'.n = hs.n
  PROVE  TunnelInv'
  <1>1. TypeOK /\ InitsBehind /\ PeersBehind /\ HeldIsGreatest /\ AnsweredOnce /\ KeysBehind /\ ActiveIsLatest
        /\ NonceFresh /\ PinnedToPeer /\ TranscriptFresh /\ CookieForPeer /\ CookieNext
    BY DEF TunnelInv
  <1>2. wg_state' = "IDLE" /\ hs_timer_armed' = FALSE /\ sock' = Closed
    BY DEF session_reset, net_udp_close
  <1>3. TypeOK'
    <2>1. sock' \in Sockets
      BY <1>2 DEF Sockets
    <2> QED  BY <1>1, <1>2, <2>1 DEF TypeOK, Sockets, setup, peers, fromC64, fromPeers
  <1>4. InitsBehind' /\ PeersBehind' /\ HeldIsGreatest' /\ AnsweredOnce' /\ NonceFresh' /\ CookieForPeer' /\ CookieNext'
    BY <1>1 DEF InitsBehind, PeersBehind, HeldIsGreatest, AnsweredOnce, NonceFresh, CookieForPeer, CookieNext, peers,
                fromC64, fromPeers
  <1>5. KeysBehind' /\ ActiveIsLatest' /\ TranscriptFresh' /\ PinnedToPeer'
    BY <1>1, <1>2 DEF KeysBehind, ActiveIsLatest, TranscriptFresh, PinnedToPeer, Places, fromC64
  <1> QED  BY <1>3, <1>4, <1>5 DEF TunnelInv

\* Every step keeps the invariant.
LEMMA TunnelInvNext == TunnelInv /\ [Next]_vars => TunnelInv'
  <1> SUFFICES ASSUME TunnelInv, [Next]_vars PROVE TunnelInv'
    OBVIOUS
  <1>1. TypeOK /\ InitsBehind /\ PeersBehind /\ HeldIsGreatest /\ AnsweredOnce /\ KeysBehind /\ ActiveIsLatest
        /\ NonceFresh /\ PinnedToPeer /\ TranscriptFresh /\ CookieForPeer /\ CookieNext
    BY DEF TunnelInv
  <1>2. hs \in Handshakes /\ hs.n \in Nat
    BY <1>1 DEF TypeOK, Handshakes
  <1>3. CASE type2
    <2>1. PICK m \in resps :
            /\ wg_state = "HS_SENT"
            /\ hs' = [hs EXCEPT !.open = FALSE]
            /\ \/ /\ hs_process_response(m)
                  /\ tp_key' = <<m.n, m.r>>
                  /\ tp_send_counter' = 0
                  /\ wg_state' = "ACTIVE"
                  /\ hs_timer_armed' = FALSE
                  /\ UNCHANGED sock
               \/ /\ ~hs_process_response(m)
                  /\ hs_fail
                  /\ UNCHANGED <<tp_key, tp_send_counter>>
            /\ UNCHANGED <<wg_peer, setup, peers, fromC64, fromPeers>>
      BY <1>3 DEF type2
    <2>2. hs' \in Handshakes /\ hs'.n = hs.n /\ hs'.pub = hs.pub
      BY <1>2, <2>1 DEF Handshakes
    <2>3. CASE ~hs_process_response(m)
      BY <2>1, <2>2, <2>3, ResetInv DEF hs_fail
    <2>4. CASE hs_process_response(m)
      <3>1. /\ m.n = hs.n /\ m.p = hs.pub /\ m.p \in Peers /\ m.n \in Nat /\ m.r \in Nat
            /\ tp_key' = <<m.n, m.r>> /\ tp_send_counter' = 0
            /\ wg_state' = "ACTIVE" /\ hs_timer_armed' = FALSE
            /\ UNCHANGED <<sock, wg_peer, cfg, loads, net_initialized, connected, listened>>
            /\ UNCHANGED <<greatest, session, send_counter, answers, at, roams>>
            /\ UNCHANGED <<inits, sent, resps, cookies, data>>
        BY <1>1, <2>1, <2>4 DEF hs_process_response, TypeOK, setup, peers, fromC64, fromPeers
      <3>2. greatest[m.p] = hs.n /\ session[m.p] = tp_key'
        <4>1. greatest[m.p] \in Nat /\ m.n <= greatest[m.p] /\ greatest[m.p] <= hs.n
          BY <1>1, <3>1 DEF TypeOK, PeersBehind, AnsweredOnce
        <4>2. m.n = greatest[m.p]
          BY <1>2, <3>1, <4>1
        <4> QED  BY <1>1, <3>1, <4>2 DEF AnsweredOnce
      <3>3. TypeOK'
        <4>1. tp_key' \in Keys
          BY <3>1 DEF Keys
        <4> QED  BY <1>1, <2>2, <3>1, <4>1 DEF TypeOK, Sockets
      <3>4. tp_key'[1] = hs.n /\ \A k \in sent : k.key # tp_key'
        <4>1. tp_key'[1] = hs.n
          BY <3>1
        <4>2. \A k \in sent : k.key[1] \in Nat /\ k.key[1] < hs.n
          BY <1>1, <2>1 DEF KeysBehind, TypeOK, Keys
        <4> QED  BY <1>2, <4>1, <4>2
      <3>5. KeysBehind' /\ NonceFresh'
        BY <1>1, <1>2, <2>2, <3>1, <3>4 DEF KeysBehind, NonceFresh
      <3>6. ActiveIsLatest'
        BY <2>2, <3>1, <3>2 DEF ActiveIsLatest
      <3>7. InitsBehind' /\ PeersBehind' /\ HeldIsGreatest' /\ AnsweredOnce' /\ CookieForPeer' /\ CookieNext' /\ PinnedToPeer'
            /\ TranscriptFresh'
        BY <1>1, <2>2, <3>1 DEF InitsBehind, PeersBehind, HeldIsGreatest, AnsweredOnce, CookieForPeer, CookieNext,
                                PinnedToPeer, TranscriptFresh
      <3> QED  BY <3>3, <3>5, <3>6, <3>7 DEF TunnelInv
    <2> QED  BY <2>3, <2>4
  <1>4. CASE type3
    <2>1. PICK m \in cookies : m.n = hs.n /\ m.p = cfg.pub /\ session_initiate(m)
                               /\ UNCHANGED <<setup, peers, fromPeers>>
      BY <1>4 DEF type3, cookie_handle_type3
    <2>2. m \in Cookies \cup {NoCookie}
      BY <1>1 DEF TypeOK
    <2> QED  BY <2>1, <2>2, InitiateInv
  <1>5. CASE type4
    <2>1. PICK m \in data :
            /\ Hears(m.src) /\ wg_peer' = m.src
            /\ sock' = IF m.src = wg_peer THEN sock ELSE Closed
            /\ UNCHANGED <<wg_state, hs_timer_armed, hs, tp_key, tp_send_counter, setup, peers,
                           fromC64, fromPeers>>
      BY <1>5 DEF type4, endpoint_update, net_udp_close
    <2>2. m.src \in Places
      BY <1>1 DEF TypeOK, Places
    <2>3. TypeOK'
      <3>1. sock' \in Sockets
        BY <1>1, <2>1 DEF TypeOK, Sockets
      <3> QED  BY <1>1, <2>1, <2>2, <3>1 DEF TypeOK, Sockets, setup, peers, fromC64, fromPeers
    <2>4. PinnedToPeer'
      BY <1>1, <2>1 DEF PinnedToPeer, Places
    <2>5. InitsBehind' /\ PeersBehind' /\ HeldIsGreatest' /\ AnsweredOnce' /\ KeysBehind' /\ ActiveIsLatest'
          /\ NonceFresh' /\ TranscriptFresh' /\ CookieForPeer' /\ CookieNext'
      BY <1>1, <2>1 DEF InitsBehind, PeersBehind, HeldIsGreatest, AnsweredOnce, KeysBehind, ActiveIsLatest,
                        NonceFresh, TranscriptFresh, CookieForPeer, CookieNext, peers, fromC64, fromPeers
    <2> QED  BY <2>3, <2>4, <2>5 DEF TunnelInv
  <1>6. CASE timer_check_handshake \/ timer_expire
    BY <1>2, <1>6, ResetInv DEF timer_check_handshake, timer_expire
  <1>7. CASE timer_keepalive \/ do_send_test \/ do_ping
    BY <1>7, SendInv DEF timer_keepalive, do_send_test, do_ping
  <1>8. CASE do_net_init
    <2>1. sock' \in {Closed, Listening} /\ sock' \in Sockets
          /\ net_initialized' \in BOOLEAN /\ listened' \in BOOLEAN
      BY <1>1, <1>8 DEF do_net_init, net_udp_listen, net_udp_close, Sockets, TypeOK
    <2>2. UNCHANGED <<wg_state, hs_timer_armed, hs, wg_peer, tp_key, tp_send_counter, cfg, loads,
                      connected, peers, fromC64, fromPeers>>
      BY <1>8 DEF do_net_init
    <2>3. TypeOK'
      BY <1>1, <2>1, <2>2 DEF TypeOK, Sockets, peers, fromC64, fromPeers
    <2>4. PinnedToPeer'
      BY <2>1 DEF PinnedToPeer, Places
    <2>5. InitsBehind' /\ PeersBehind' /\ HeldIsGreatest' /\ AnsweredOnce' /\ KeysBehind' /\ ActiveIsLatest'
          /\ NonceFresh' /\ TranscriptFresh' /\ CookieForPeer' /\ CookieNext'
      BY <1>1, <2>2 DEF InitsBehind, PeersBehind, HeldIsGreatest, AnsweredOnce, KeysBehind, ActiveIsLatest,
                        NonceFresh, TranscriptFresh, CookieForPeer, CookieNext, peers, fromC64, fromPeers
    <2> QED  BY <2>3, <2>4, <2>5 DEF TunnelInv
  <1>9. CASE do_load_config
    <2>1. cfg' \in Configs /\ loads' \in Nat
      <3> DEFINE file(p) == [id |-> TRUE, pub |-> p, ep |-> Home[p], psk |-> TRUE]
      <3>1. PICK p \in Peers :
              \/ cfg' = file(p)
              \/ cfg' = [cfg EXCEPT !.id = FALSE]
              \/ cfg' = [cfg EXCEPT !.id = TRUE, !.pub = Nobody]
              \/ cfg' = [file(p) EXCEPT !.psk = FALSE]
        BY <1>9, Zenon DEF do_load_config, config_read_file
      <3>2. cfg \in Configs /\ Home[p] \in Places /\ {p, Nobody} \subseteq Names
        BY <1>1 DEF TypeOK, Places, Names
      <3>3. file(p) \in Configs
        BY <3>2 DEF Configs
      <3>4. [file(p) EXCEPT !.psk = FALSE] \in Configs
        BY <3>2 DEF Configs
      <3>5. /\ [cfg EXCEPT !.id = FALSE] \in Configs
            /\ [cfg EXCEPT !.id = TRUE, !.pub = Nobody] \in Configs
        BY <3>2 DEF Configs
      <3>6. loads' \in Nat
        BY <1>1, <1>9 DEF do_load_config, TypeOK
      <3> HIDE DEF file
      <3> QED  BY <3>1, <3>3, <3>4, <3>5, <3>6
    <2>2. UNCHANGED <<c64, net_initialized, connected, listened, peers, fromC64, fromPeers>>
      BY <1>9 DEF do_load_config
    <2>3. TypeOK'
      BY <1>1, <2>1, <2>2 DEF TypeOK, Sockets, c64, peers, fromC64, fromPeers
    <2>4. InitsBehind' /\ PeersBehind' /\ HeldIsGreatest' /\ AnsweredOnce' /\ KeysBehind' /\ ActiveIsLatest'
          /\ NonceFresh' /\ TranscriptFresh' /\ CookieForPeer' /\ CookieNext' /\ PinnedToPeer'
      BY <1>1, <2>2 DEF InitsBehind, PeersBehind, HeldIsGreatest, AnsweredOnce, KeysBehind, ActiveIsLatest,
                        NonceFresh, TranscriptFresh, CookieForPeer, CookieNext, PinnedToPeer, c64, peers,
                        fromC64, fromPeers
    <2> QED  BY <2>3, <2>4 DEF TunnelInv
  <1>10. CASE do_handshake
    BY <1>10, InitiateInv DEF do_handshake
  <1>11. CASE handle_initiation
    <2>1. PICK p \in Peers, m \in inits :
            /\ m.n > greatest[p]
            /\ answers' = answers + 1
            /\ greatest' = [greatest EXCEPT ![p] = m.n]
            /\ session' = [session EXCEPT ![p] = <<m.n, answers'>>]
            /\ send_counter' = [send_counter EXCEPT ![p] = 0]
            /\ resps' = resps \cup {[n |-> m.n, r |-> answers', p |-> p, src |-> at[p]]}
            /\ UNCHANGED <<c64, setup, at, roams, fromC64, cookies, data>>
      BY <1>11 DEF handle_initiation, Fresher
    <2>2. m.n \in Nat /\ m.n <= hs.n /\ answers' \in Nat /\ greatest[p] \in Nat
          /\ DOMAIN greatest = Peers /\ DOMAIN session = Peers
      BY <1>1, <2>1 DEF TypeOK, InitsBehind
    <2>3. TypeOK'
      <3>1. <<m.n, answers'>> \in Keys
        BY <2>2 DEF Keys
      <3>2. greatest' \in [Peers -> Nat] /\ session' \in [Peers -> Keys]
            /\ send_counter' \in [Peers -> Nat]
        BY <1>1, <2>1, <2>2, <3>1 DEF TypeOK
      <3>3. resps' \subseteq [n : Nat, r : Nat, p : Peers, src : Endpoints]
        BY <1>1, <2>1, <2>2 DEF TypeOK
      <3> QED  BY <1>1, <2>1, <2>2, <3>2, <3>3 DEF TypeOK, Sockets, c64, setup, fromC64
    <2>4. PeersBehind' /\ HeldIsGreatest'
      BY <1>1, <2>1, <2>2 DEF PeersBehind, HeldIsGreatest, c64
    <2>5. AnsweredOnce'
      <3>1. ASSUME NEW q \in resps'
            PROVE  q.n <= greatest'[q.p] /\ (q.n = greatest'[q.p] => session'[q.p] = <<q.n, q.r>>)
        <4>1. CASE q \in resps
          <5>1. q.p \in Peers /\ q.n \in Nat /\ greatest[q.p] \in Nat /\ q.n <= greatest[q.p]
                /\ (q.n = greatest[q.p] => session[q.p] = <<q.n, q.r>>)
            BY <1>1, <4>1 DEF TypeOK, AnsweredOnce
          <5> QED  BY <2>1, <2>2, <5>1
        <4>2. CASE q = [n |-> m.n, r |-> answers', p |-> p, src |-> at[p]]
          BY <2>1, <2>2, <4>2
        <4> QED  BY <2>1, <4>1, <4>2
      <3> QED  BY <3>1 DEF AnsweredOnce
    <2>6. ActiveIsLatest'
      <3>1. wg_state = "ACTIVE" => p # hs.pub
        BY <1>1, <1>2, <2>1, <2>2 DEF ActiveIsLatest
      <3> QED  BY <1>1, <2>1, <2>2, <3>1 DEF ActiveIsLatest, c64
    <2>7. InitsBehind' /\ KeysBehind' /\ NonceFresh' /\ TranscriptFresh' /\ CookieForPeer' /\ CookieNext'
          /\ PinnedToPeer'
      BY <1>1, <2>1 DEF InitsBehind, KeysBehind, NonceFresh, TranscriptFresh, CookieForPeer, CookieNext,
                        PinnedToPeer, c64, fromC64
    <2> QED  BY <2>3, <2>4, <2>5, <2>6, <2>7 DEF TunnelInv
  <1>12. CASE CookieReply
    <2>1. PICK p \in Peers, m \in inits :
            /\ cookies' = cookies \cup {[n |-> m.n, p |-> p, src |-> at[p]]}
            /\ UNCHANGED <<c64, setup, peers, fromC64, resps, data>>
      BY <1>12 DEF CookieReply
    <2>2. TypeOK'
      <3>1. cookies' \subseteq Cookies
        BY <1>1, <2>1 DEF TypeOK, Cookies
      <3> QED  BY <1>1, <2>1, <3>1 DEF TypeOK, Sockets, c64, setup, peers, fromC64
    <2>3. InitsBehind' /\ PeersBehind' /\ HeldIsGreatest' /\ AnsweredOnce' /\ KeysBehind' /\ ActiveIsLatest'
          /\ NonceFresh' /\ TranscriptFresh' /\ CookieForPeer' /\ CookieNext' /\ PinnedToPeer'
      BY <1>1, <2>1 DEF InitsBehind, PeersBehind, HeldIsGreatest, AnsweredOnce, KeysBehind, ActiveIsLatest,
                        NonceFresh, TranscriptFresh, CookieForPeer, CookieNext, PinnedToPeer, c64, peers, fromC64
    <2> QED  BY <2>2, <2>3 DEF TunnelInv
  <1>13. CASE encrypt_transport
    <2>1. PICK p \in Peers :
            /\ data' = data \cup {[key |-> session[p], counter |-> send_counter[p], src |-> at[p]]}
            /\ send_counter' = [send_counter EXCEPT ![p] = @ + 1]
            /\ UNCHANGED <<c64, setup, greatest, session, answers, at, roams, fromC64, resps, cookies>>
      BY <1>13 DEF encrypt_transport
    <2>2. TypeOK'
      <3>1. data' \subseteq [key : Keys, counter : Nat, src : Endpoints]
        BY <1>1, <2>1 DEF TypeOK
      <3>2. send_counter' \in [Peers -> Nat]
        BY <1>1, <2>1 DEF TypeOK
      <3> QED  BY <1>1, <2>1, <3>1, <3>2 DEF TypeOK, Sockets, c64, setup, fromC64
    <2>3. InitsBehind' /\ PeersBehind' /\ HeldIsGreatest' /\ AnsweredOnce' /\ KeysBehind' /\ ActiveIsLatest'
          /\ NonceFresh' /\ TranscriptFresh' /\ CookieForPeer' /\ CookieNext' /\ PinnedToPeer'
      BY <1>1, <2>1 DEF InitsBehind, PeersBehind, HeldIsGreatest, AnsweredOnce, KeysBehind, ActiveIsLatest,
                        NonceFresh, TranscriptFresh, CookieForPeer, CookieNext, PinnedToPeer, c64, fromC64
    <2> QED  BY <2>2, <2>3 DEF TunnelInv
  <1>14. CASE Roam
    <2>1. /\ at' \in [Peers -> Endpoints] /\ roams' \in Nat
          /\ UNCHANGED <<c64, setup, greatest, session, send_counter, answers, fromC64, fromPeers>>
      BY <1>1, <1>14 DEF Roam, TypeOK
    <2>2. TypeOK'
      BY <1>1, <2>1 DEF TypeOK, Sockets, c64, setup, fromC64, fromPeers
    <2>3. InitsBehind' /\ PeersBehind' /\ HeldIsGreatest' /\ AnsweredOnce' /\ KeysBehind' /\ ActiveIsLatest'
          /\ NonceFresh' /\ TranscriptFresh' /\ CookieForPeer' /\ CookieNext' /\ PinnedToPeer'
      BY <1>1, <2>1 DEF InitsBehind, PeersBehind, HeldIsGreatest, AnsweredOnce, KeysBehind, ActiveIsLatest,
                        NonceFresh, TranscriptFresh, CookieForPeer, CookieNext, PinnedToPeer, c64, fromC64, fromPeers
    <2> QED  BY <2>2, <2>3 DEF TunnelInv
  <1>15. CASE UNCHANGED vars
    BY <1>1, <1>15 DEF TunnelInv, TypeOK, Sockets, InitsBehind, PeersBehind, HeldIsGreatest, AnsweredOnce, KeysBehind,
       ActiveIsLatest, NonceFresh, TranscriptFresh, CookieForPeer, CookieNext, PinnedToPeer, vars, c64, setup,
       peers, fromC64, fromPeers
  <1> QED  BY <1>3, <1>4, <1>5, <1>6, <1>7, <1>8, <1>9, <1>10, <1>11, <1>12, <1>13, <1>14, <1>15
           DEF Next

\* The invariant holds throughout.
THEOREM TunnelInductive == Spec => []TunnelInv
  BY TunnelInvInit, TunnelInvNext, PTL DEF Spec

\* Type correctness of the session model.
THEOREM TunnelTyped == Spec => []TypeOK
  BY TunnelInductive, PTL DEF TunnelInv

\* No Type 4 ever repeats a nonce under its key: transport_encrypt spends the
\* counter before net_udp_send can fail, session_reset keeps key and counter
\* together, and transport_init zeroes the counter only under a fresh key.
THEOREM NonceNeverReused == Spec => []NonceFresh
  BY TunnelInductive, PTL DEF TunnelInv

\* ACTIVE means that the peer holds the same keys.
THEOREM ActiveAgrees == Spec => []SessionAgreement
  <1>1. TunnelInv => SessionAgreement
    BY DEF TunnelInv, ActiveIsLatest, SessionAgreement
  <1> QED  BY <1>1, TunnelInductive, PTL

\* A UCI socket is never left pinned to a previous peer.
THEOREM NeverPinnedElsewhere == Spec => []PinnedToPeer
  BY TunnelInductive, PTL DEF TunnelInv

\* A rejected response is never followed by another try on a spent transcript.
THEOREM TranscriptNeverReused == Spec => []TranscriptFresh
  BY TunnelInductive, PTL DEF TunnelInv

\* A cookie is never used towards another peer than the one that issued it.
THEOREM CookieNeverMisdirected == Spec => []CookieForPeer
  BY TunnelInductive, PTL DEF TunnelInv

\* However often a cookie reply is delivered, it starts one initiation.
THEOREM CookieNeverAnsweredTwice == Spec => []CookieAnsweredOnce
  <1>1. TunnelInv => CookieAnsweredOnce
    BY DEF TunnelInv, CookieNext, CookieAnsweredOnce
  <1> QED  BY <1>1, TunnelInductive, PTL

\* No datagram ends a live session, on either backend, and with connected sockets
\* (UCI) none closes the socket: Type 2 and Type 3 are gated on HS_SENT, and an
\* accepted Type 4 came from the endpoint the socket is pinned to.
THEOREM DatagramsKeepSession == Spec => ReceiveKeepsSession
  <1>1. ASSUME TunnelInv, session_handle_packet, wg_state = "ACTIVE"
        PROVE  wg_state' = "ACTIVE" /\ (connected => sock' = sock)
    <2>1. type4
      BY <1>1 DEF session_handle_packet, type2, type3
    <2>2. PICK m \in data : Hears(m.src) /\ endpoint_update(m.src) /\ wg_state' = wg_state
      BY <2>1 DEF type4
    <2>3. ASSUME connected PROVE sock' = sock
      <3>1. sock = m.src /\ m.src \in Endpoints
        BY <1>1, <2>2, <2>3 DEF Hears, UciHears, TunnelInv, TypeOK
      <3>2. sock = wg_peer
        BY <1>1, <3>1 DEF TunnelInv, PinnedToPeer, Places
      <3> QED  BY <2>2, <3>1, <3>2 DEF endpoint_update
    <2> QED  BY <1>1, <2>2, <2>3
  <1>2. TunnelInv => [session_handle_packet /\ wg_state = "ACTIVE"
                        => wg_state' = "ACTIVE" /\ (connected => sock' = sock)]_vars
    BY <1>1
  <1> QED  BY <1>2, TunnelInductive, PTL DEF ReceiveKeepsSession

\* net_init is what sets net_initialized, and on ip65 it has set the port by then.
LEMMA PortAlwaysKnown == Spec => []PortKnown
  <1>1. Init => PortKnown
    BY DEF Init, PortKnown
  <1>2. ASSUME PortKnown, [Next]_vars PROVE PortKnown'
    <2>1. CASE do_net_init
      BY <1>2, <2>1 DEF do_net_init, PortKnown
    <2>2. CASE UNCHANGED <<net_initialized, connected, listened>>
      BY <1>2, <2>2 DEF PortKnown
    <2>3. do_net_init \/ UNCHANGED <<net_initialized, connected, listened>>
      BY <1>2 DEF Next, type2, type3, type4, timer_check_handshake, timer_expire, timer_keepalive,
                  do_load_config, do_handshake, do_send_test, do_ping, handle_initiation, CookieReply,
                  encrypt_transport, Roam, setup, vars
    <2> QED  BY <2>1, <2>2, <2>3
  <1> QED  BY <1>1, <1>2, PTL DEF Spec

\* A Type 4 that leaves, whichever key or timer sent it, leaves the peer heard.
LEMMA SendHears ==
  ASSUME TunnelInv, PortKnown, net_initialized, transport_send, UNCHANGED setup, sent' # sent
  PROVE  Hears(wg_peer)'
  <1>1. TypeOK /\ PinnedToPeer
    BY DEF TunnelInv
  <1>2. PICK o \in net_udp_send(wg_peer, sock) :
          sock' = o.sock /\ (o.to = Closed => sent' = sent)
    BY DEF transport_send
  <1>3. sock' = IF connected THEN wg_peer ELSE Listening
    BY <1>1, <1>2, SendListens DEF TypeOK, PinnedToPeer, PortKnown
  <1>4. UNCHANGED <<wg_peer, net_initialized, connected>>
    BY DEF transport_send, setup
  <1> QED  BY <1>3, <1>4 DEF Hears, UciHears, Ip65Hears

\* So does an initiation whose send did not fail.
LEMMA InitiateHears ==
  ASSUME TunnelInv, PortKnown, net_initialized, NEW cookie, session_initiate(cookie),
         UNCHANGED setup, wg_state' = "HS_SENT"
  PROVE  Hears(wg_peer)'
  <1>1. config_load \in Sockets /\ cfg.ep \in Places
        /\ (config_load \in Places => config_load = cfg.ep)
    BY DEF config_load, net_udp_close, TunnelInv, TypeOK, PinnedToPeer, Configs, Sockets, Places
  <1>2. PICK o \in net_udp_send(cfg.ep, config_load) :
          \/ ~o.failed /\ sock' = o.sock
          \/ o.failed /\ session_send_failed
    BY DEF session_initiate
  <1>3. ~o.failed /\ sock' = o.sock
    BY <1>2 DEF session_send_failed, session_reset
  <1>4. o.to # Closed
    BY <1>1, <1>2, <1>3, SendOutcome
  <1>5. sock' = IF connected THEN cfg.ep ELSE Listening
    BY <1>1, <1>2, <1>3, <1>4, SendListens DEF PortKnown
  <1>6. wg_peer' = cfg.ep /\ UNCHANGED <<net_initialized, connected>>
    BY DEF session_initiate, setup
  <1> QED  BY <1>5, <1>6 DEF Hears, UciHears, Ip65Hears

\* Whatever closed the socket or the listener, the next datagram that leaves the C64
\* for its peer makes the peer heard again, on either backend.
THEOREM SendsReopen == Spec => SendReopens
  <1> DEFINE Leaves == sent' # sent \/ (inits' # inits /\ wg_state' = "HS_SENT")
  <1>1. ASSUME TunnelInv, PortKnown, Next, net_initialized, Leaves
        PROVE  Hears(wg_peer)'
    <2>1. CASE timer_keepalive \/ do_send_test \/ do_ping
      <3>1. transport_send /\ UNCHANGED setup /\ sent' # sent
        BY <1>1, <2>1 DEF timer_keepalive, do_send_test, do_ping, transport_send
      <3> QED  BY <1>1, <3>1, SendHears
    <2>2. CASE type3 \/ do_handshake
      <3>1. PICK c : session_initiate(c) /\ UNCHANGED setup
        BY <2>2 DEF type3, do_handshake
      <3>2. wg_state' = "HS_SENT"
        BY <1>1, <3>1 DEF session_initiate
      <3> QED  BY <1>1, <3>1, <3>2, InitiateHears
    <2>3. CASE ~(timer_keepalive \/ do_send_test \/ do_ping \/ type3 \/ do_handshake)
      <3>1. UNCHANGED fromC64
        BY <1>1, <2>3 DEF Next, type2, type4, timer_check_handshake, timer_expire, do_net_init,
             do_load_config, handle_initiation, CookieReply, encrypt_transport, Roam
      <3> QED  BY <1>1, <3>1 DEF fromC64
    <2> QED  BY <2>1, <2>2, <2>3
  <1>2. ASSUME TunnelInv, PortKnown, [Next]_vars
        PROVE  [net_initialized /\ Leaves => Hears(wg_peer)']_vars
    BY <1>1, <1>2
  <1> QED  BY <1>2, TunnelInductive, PortAlwaysKnown, PTL DEF Spec, SendReopens
-----------------------------------------------------------------------------
(* Each step is a step of Session or leaves its variables alone.            *)

\* The initial state is one of Session.
LEMMA AgreedInit == Init => Agreed!Init
  BY DEF Init, Agreed!Init, NoKey

\* An initiation is an offer, whether or not its send failed.
LEMMA AgreedInitiate ==
  ASSUME TunnelInv, NEW cookie, session_initiate(cookie), UNCHANGED peers
  PROVE  \E p \in Peers \cup {Nobody} : Agreed!Offer(p)
  <1> DEFINE init(d) == [n |-> hs.n + 1, id |-> cfg.id, pub |-> cfg.pub, dest |-> d, cookie |-> cookie]
             offers(S) == {<<m.n, m.pub>> : m \in S}
  <1>1. TypeOK /\ PinnedToPeer
    BY DEF TunnelInv
  <1>2. config_load \in Sockets /\ cfg.ep \in Places /\ cfg.pub \in Names
        /\ (config_load \in Places => config_load = cfg.ep)
    BY <1>1 DEF config_load, net_udp_close, TypeOK, PinnedToPeer, Configs, Sockets, Places
  <1>3. PICK o \in net_udp_send(cfg.ep, config_load) :
          /\ inits' = IF o.to = Closed THEN inits ELSE inits \cup {init(o.to)}
          /\ \/ ~o.failed /\ wg_state' = "HS_SENT"
             \/ o.failed /\ session_send_failed
    BY DEF session_initiate, hs_create_initiation
  <1>4. ~o.failed => o.to # Closed
    BY <1>2, <1>3, SendOutcome
  <1>5. \A d : init(d).n = hs.n + 1 /\ init(d).pub = cfg.pub
    OBVIOUS
  <1>6. \A d : offers(inits \cup {init(d)}) = offers(inits) \cup {<<hs.n + 1, cfg.pub>>}
    <2> HIDE DEF init
    <2> QED  BY <1>5
  <1>7. \/ /\ wg_state' = "HS_SENT"
           /\ offers(inits') = offers(inits) \cup {<<hs.n + 1, cfg.pub>>}
        \/ /\ wg_state' = "IDLE"
           /\ offers(inits') \in {offers(inits), offers(inits) \cup {<<hs.n + 1, cfg.pub>>}}
    <2>1. o.to = Closed => offers(inits') = offers(inits)
      BY <1>3
    <2>2. o.to # Closed => offers(inits') = offers(inits) \cup {<<hs.n + 1, cfg.pub>>}
      BY <1>3, <1>6
    <2>3. (wg_state' = "HS_SENT" /\ o.to # Closed) \/ wg_state' = "IDLE"
      BY <1>3, <1>4 DEF session_send_failed, session_reset
    <2> HIDE DEF offers
    <2> QED  BY <2>1, <2>2, <2>3
  <1>8. /\ hs'.n = hs.n + 1 /\ hs'.pub = cfg.pub
        /\ UNCHANGED <<tp_key, sent, session, answers>>
    BY DEF session_initiate, peers
  <1>9. PICK p \in Peers \cup {Nobody} : p = cfg.pub
    BY <1>2 DEF Names
  <1>10. Agreed!Offer(p)
    BY <1>7, <1>8, <1>9 DEF Agreed!Offer
  <1> QED  BY <1>10

\* A Type 4 spends a counter that was not spent under its key, or, if it did not
\* reach the wire, nothing of the agreement changes.
LEMMA AgreedSend ==
  ASSUME TunnelInv, transport_send, UNCHANGED peers
  PROVE  Agreed!Spend \/ UNCHANGED Agreed!agreement
  <1> DEFINE new == [key |-> tp_key, counter |-> tp_send_counter]
  <1>1. /\ UNCHANGED <<wg_state, hs, tp_key, inits, session, answers>>
        /\ sent' \in {sent, sent \cup {new}}
    BY DEF transport_send, peers
  <1>2. tp_send_counter \in 0 .. RejectAt - 1
    BY DEF transport_send, transport_encrypt, TunnelInv, TypeOK
  <1>3. new \notin sent
    <2>1. new \in sent => new.counter < tp_send_counter
      BY DEF TunnelInv, NonceFresh
    <2> QED  BY <1>2, <2>1
  <1>4. CASE sent' = sent
    BY <1>1, <1>4 DEF Agreed!agreement
  <1>5. CASE sent' = sent \cup {new}
    BY <1>1, <1>2, <1>3, <1>5 DEF Agreed!Spend
  <1> QED  BY <1>1, <1>4, <1>5

\* A reset ends the session, or the wait for a response.
LEMMA AgreedReset ==
  ASSUME session_reset, hs'.n = hs.n, UNCHANGED <<tp_key, peers, fromC64>>
  PROVE  Agreed!End
  BY DEF session_reset, peers, fromC64, Agreed!End

\* An accepted response takes the key that the peer of the handshake derived.
LEMMA AgreedResponse ==
  ASSUME TunnelInv, NEW m \in resps, wg_state = "HS_SENT", hs_process_response(m),
         tp_key' = <<m.n, m.r>>, wg_state' = "ACTIVE", hs'.n = hs.n,
         UNCHANGED <<peers, fromC64>>
  PROVE  Agreed!Take
  <1>1. TypeOK /\ PeersBehind /\ AnsweredOnce /\ KeysBehind
    BY DEF TunnelInv
  <1>2. m.n = hs.n /\ m.p = hs.pub /\ hs.pub \in Peers /\ m.n \in Nat
    BY <1>1 DEF hs_process_response, TypeOK
  <1>3. session[hs.pub] = <<m.n, m.r>>
    <2>1. greatest[m.p] \in Nat /\ m.n <= greatest[m.p] /\ greatest[m.p] <= hs.n
      BY <1>1, <1>2 DEF TypeOK, PeersBehind, AnsweredOnce
    <2>2. m.n = greatest[m.p]
      BY <1>2, <2>1
    <2> QED  BY <1>1, <1>2, <2>2 DEF AnsweredOnce
  <1>4. session[hs.pub][1] = hs.n
    BY <1>2, <1>3
  <1>5. \A q \in sent : q.key # session[hs.pub]
    <2>1. \A q \in sent : q.key[1] \in Nat /\ q.key[1] < hs.n
      BY <1>1 DEF KeysBehind, TypeOK, Keys
    <2> QED  BY <1>2, <1>4, <2>1
  <1> QED  BY <1>2, <1>3, <1>4, <1>5 DEF Agreed!Take, peers, fromC64

\* An answered initiation is an answer to an offer that the peer had not seen,
\* and not to one whose session is in use.
LEMMA AgreedAnswer ==
  ASSUME TunnelInv, handle_initiation
  PROVE  \E p \in Peers : Agreed!Answer(p)
  <1>1. TypeOK /\ InitsBehind /\ PeersBehind /\ ActiveIsLatest /\ HeldIsGreatest
    BY DEF TunnelInv
  <1>2. PICK p \in Peers, m \in inits :
          /\ m.pub = p
          /\ m.n > greatest[p]
          /\ answers' = answers + 1
          /\ session' = [session EXCEPT ![p] = <<m.n, answers'>>]
          /\ UNCHANGED <<c64, fromC64>>
    BY DEF handle_initiation, Fresher
  <1>3. m.n \in Nat /\ m.n <= hs.n /\ hs.n \in Nat /\ greatest[p] \in Nat /\ session[p][1] = greatest[p]
    BY <1>1 DEF TypeOK, InitsBehind, HeldIsGreatest, Handshakes
  <1>4. m.n \in session[p][1] + 1 .. hs.n
    BY <1>2, <1>3
  <1>5. <<m.n, p>> \in {<<i.n, i.pub>> : i \in inits}
    BY <1>2
  <1>6. ~(wg_state = "ACTIVE" /\ session[p] = tp_key)
    <2> SUFFICES ASSUME wg_state = "ACTIVE", session[p] = tp_key PROVE FALSE
      OBVIOUS
    <2>1. hs.pub \in Peers /\ session[hs.pub] = tp_key /\ greatest[hs.pub] = hs.n
      BY <1>1 DEF ActiveIsLatest
    <2>2. greatest[p] = greatest[hs.pub]
      BY <1>1, <2>1 DEF HeldIsGreatest
    <2> QED  BY <1>2, <1>3, <2>1, <2>2
  <1>7. Agreed!Answer(p)
    BY <1>2, <1>4, <1>5, <1>6 DEF Agreed!Answer, c64, fromC64
  <1> QED  BY <1>7

\* Every step of Tunnel is a step of Session or a stutter.
LEMMA AgreedNext == TunnelInv /\ [Next]_vars => [Agreed!Next]_(Agreed!agreement)
  <1> SUFFICES ASSUME TunnelInv, [Next]_vars
               PROVE  Agreed!Next \/ UNCHANGED Agreed!agreement
    OBVIOUS
  <1>1. CASE type2
    <2>1. PICK m \in resps :
            /\ wg_state = "HS_SENT"
            /\ hs' = [hs EXCEPT !.open = FALSE]
            /\ \/ /\ hs_process_response(m)
                  /\ tp_key' = <<m.n, m.r>>
                  /\ wg_state' = "ACTIVE"
               \/ hs_fail /\ UNCHANGED tp_key
            /\ UNCHANGED <<peers, fromC64>>
      BY <1>1 DEF type2
    <2>2. hs'.n = hs.n
      BY <2>1 DEF TunnelInv, TypeOK, Handshakes
    <2> QED  BY <2>1, <2>2, AgreedResponse, AgreedReset DEF hs_fail, Agreed!Next
  <1>2. CASE type3 \/ do_handshake
    <2>1. PICK c : session_initiate(c) /\ UNCHANGED peers
      BY <1>2 DEF type3, do_handshake
    <2> QED  BY <2>1, AgreedInitiate DEF Agreed!Next
  <1>3. CASE timer_check_handshake \/ timer_expire
    BY <1>3, AgreedReset DEF timer_check_handshake, timer_expire, Agreed!Next
  <1>4. CASE timer_keepalive \/ do_send_test \/ do_ping
    BY <1>4, AgreedSend DEF timer_keepalive, do_send_test, do_ping, Agreed!Next
  <1>5. CASE handle_initiation
    BY <1>5, AgreedAnswer DEF Agreed!Next
  <1>6. CASE type4 \/ do_net_init \/ do_load_config \/ CookieReply \/ encrypt_transport \/ Roam
             \/ UNCHANGED vars
    <2>1. UNCHANGED <<wg_state, hs, tp_key, sent, inits, session, answers>>
      BY <1>6 DEF type4, do_net_init, do_load_config, CookieReply, encrypt_transport, Roam, vars,
                  c64, peers, fromC64
    <2> QED  BY <2>1 DEF Agreed!agreement
  <1> QED  BY <1>1, <1>2, <1>3, <1>4, <1>5, <1>6 DEF Next

\* session.s and responder.py implement Session, for any number of peers, offers
\* and counters, over either backend and with any loss, duplication, delay or
\* reordering of datagrams.
THEOREM KeyAgreement == Spec => ImplementsSession
  BY AgreedInit, AgreedNext, TunnelInductive, PTL DEF Spec, ImplementsSession, Agreed!Spec
=============================================================================
