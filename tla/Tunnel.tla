------------------------------- MODULE Tunnel -------------------------------
(***************************************************************************)
(* The WireGuard session of the C64 (session.s, with the parts of boot.s,  *)
(* config.s, cookie.s, handshake.s, transport.s and timer.s that change    *)
(* its state) against its peers (tools/wg_responder/responder.py) over a   *)
(* network that loses, duplicates, delays and reorders datagrams.          *)
(*                                                                         *)
(* Every datagram ever sent stays in a set, from which it may be received  *)
(* any number of times, or never.  One action is one call made by the main *)
(* loop: a handled datagram, a timer_check that found something due, or a  *)
(* key.  Deadlines are the business of Timer: here they may be due at any  *)
(* time.  Which Type 4 the replay window accepts is the business of        *)
(* ReplayWindow: here it may refuse any of them.                           *)
(*                                                                         *)
(* Initiations are numbered in the order they are created.  The number     *)
(* stands for everything fresh in one: ephemeral key, sender index, MAC1   *)
(* and the TAI64N timestamp, which is strictly increasing within a run     *)
(* (Tai64n).  Responses are numbered in the same way, for their ephemeral  *)
(* keys: <<n, r>> is the pair of transport keys that initiation n and      *)
(* response r to it agree on.                                              *)
(***************************************************************************)
EXTENDS Integers, FiniteSets

CONSTANTS
    Peers,        \* the peers a WG.CFG may name
    Nobody,       \* what a key buffer names before, or after half of, a load
    Endpoints,    \* IP and port pairs
    NoEndpoint,   \* 0.0.0.0:0, where nobody listens
    Home,         \* [Peers -> Endpoints]: what the WG.CFG of a peer says
    Closed,       \* no socket, no listener
    Listening,    \* the ip65 listener slot is claimed
    RejectAt,     \* send counters from here on are refused (2^60 in the code)
    MaxInits,     \* bound: initiations, by backend
    MaxLoads,     \* bound: key L, by backend
    MaxData,      \* bound: Type 4 a peer sends under one key
    MaxRoams      \* bound: moves of a peer to another endpoint

ASSUME PeerAssumption ==
    /\ Nobody \notin Peers
    /\ NoEndpoint \notin Endpoints
    /\ Home \in [Peers -> Endpoints]
ASSUME SocketAssumption ==
    /\ {Closed, Listening} \cap (Endpoints \cup {NoEndpoint}) = {}
    /\ Closed # Listening
ASSUME BoundAssumption ==
    /\ {RejectAt, MaxData, MaxRoams} \subseteq Nat
    /\ {MaxInits, MaxLoads} \subseteq [BOOLEAN -> Nat]

VARIABLES
    \* the C64
    wg_state, hs_timer_armed,
    cfg,              \* cfg_*: what the last WG.CFG staged
    hs,               \* hs_*: the handshake in progress, or the last one
    wg_peer,          \* wg_peer_ip, wg_peer_port
    tp_key,           \* hs_transport_send and hs_transport_recv
    tp_send_counter,
    sock,             \* uci_socket_open and its pin, or ip65_listening
    net_initialized,
    connected,        \* the backend the image was linked with: UCI, where a socket is
                      \* pinned to one endpoint; or ip65, where a listener hears all
    listened,         \* ip65_listen_port is set
    loads,            \* number of L keys served
    \* the peers
    greatest,         \* _greatest_timestamp
    session,          \* _noise, once its handshake is complete
    send_counter,     \* _send_counter
    answers,          \* number of Type 2 created
    at,               \* the endpoint the peer is at
    roams,
    \* the datagrams
    inits, resps, cookies, sent, data

Places == Endpoints \cup {NoEndpoint}
Names == Peers \cup {Nobody}
Keys == Nat \X Nat
NoKey == <<0, 0>>   \* the zeros the buffers start with
Sockets == {Closed} \cup (IF connected THEN Places ELSE {Listening})

c64 == <<wg_state, hs_timer_armed, hs, wg_peer, tp_key, tp_send_counter, sock>>
setup == <<cfg, loads, net_initialized, connected, listened>>
peers == <<greatest, session, send_counter, answers, at, roams>>
fromC64 == <<inits, sent>>
fromPeers == <<resps, cookies, data>>
vars == <<c64, setup, peers, fromC64, fromPeers>>

Configs == [id : BOOLEAN, pub : Names, ep : Places, psk : BOOLEAN]
Handshakes == [n : Nat, id : BOOLEAN, pub : Names, psk : BOOLEAN, open : BOOLEAN]
Cookies == [n : Nat, p : Peers, src : Endpoints]
NoCookie == [n |-> 0, p |-> Nobody, src |-> NoEndpoint]

TypeOK ==
    /\ wg_state \in {"IDLE", "HS_SENT", "ACTIVE"}
    /\ hs_timer_armed \in BOOLEAN
    /\ cfg \in Configs
    /\ hs \in Handshakes
    /\ wg_peer \in Places
    /\ tp_key \in Keys
    /\ tp_send_counter \in Nat
    /\ sock \in Sockets
    /\ {net_initialized, connected, listened} \subseteq BOOLEAN
    /\ loads \in Nat /\ roams \in Nat
    /\ greatest \in [Peers -> Nat]
    /\ session \in [Peers -> Keys]
    /\ send_counter \in [Peers -> Nat]
    /\ answers \in Nat
    /\ at \in [Peers -> Endpoints]
    /\ inits \subseteq [n : Nat, id : BOOLEAN, pub : Names, dest : Places,
                        cookie : Cookies \cup {NoCookie}]
    /\ resps \subseteq [n : Nat, r : Nat, p : Peers, src : Endpoints]
    /\ cookies \subseteq Cookies
    /\ sent \subseteq [key : Keys, counter : Nat]
    /\ data \subseteq [key : Keys, counter : Nat, src : Endpoints]

Init ==
    /\ wg_state = "IDLE" /\ hs_timer_armed = FALSE
    /\ cfg = [id |-> FALSE, pub |-> Nobody, ep |-> NoEndpoint, psk |-> FALSE]
    /\ hs = [n |-> 0, id |-> FALSE, pub |-> Nobody, psk |-> FALSE, open |-> FALSE]
    /\ wg_peer = NoEndpoint
    /\ tp_key = NoKey /\ tp_send_counter = 0
    /\ connected \in BOOLEAN
    /\ sock = Closed /\ net_initialized = FALSE /\ listened = FALSE
    /\ loads = 0 /\ roams = 0
    /\ greatest = [p \in Peers |-> 0]
    /\ session = [p \in Peers |-> NoKey]
    /\ send_counter = [p \in Peers |-> 0]
    /\ answers = 0
    /\ at = Home
    /\ inits = {} /\ resps = {} /\ cookies = {} /\ sent = {} /\ data = {}

-----------------------------------------------------------------------------
(* The backends, as session.s and transport.s use them.                    *)

\* A socket pinned to dest; none if the firmware refuses, answers without an id
\* or does not answer in time.
uci_udp_connect(dest) == {dest, Closed}

\* Either backend forgets its socket, whatever the firmware or the blob answers.
net_udp_close == Closed

\* The outcomes of net_udp_send to dest when the socket is s: the carry, where
\* the datagram went (Closed: nowhere) and the socket left.  UCI writes to the
\* endpoint its socket is pinned to, whatever dest says, and a wait that times
\* out after the write leaves the datagram on the wire.
UciSend(dest, s) ==
    LET opened == IF s = Closed THEN uci_udp_connect(dest) ELSE {s}
    IN  {[failed |-> FALSE, to |-> q, sock |-> q] : q \in opened \ {Closed}}
        \cup {[failed |-> TRUE, to |-> q, sock |-> q] : q \in opened}
        \cup {[failed |-> TRUE, to |-> Closed, sock |-> q] : q \in opened}

\* Mutant: a listener that was closed stays closed.
Ip65Send_deaf(dest, s) ==
    {[failed |-> FALSE, to |-> dest, sock |-> s], [failed |-> TRUE, to |-> Closed, sock |-> s]}

\* ip65 reads the destination per send, and first reclaims a listener slot that
\* a close released.
Ip65Send(dest, s) ==
    LET reclaimed == IF s = Closed /\ listened THEN Listening ELSE s
    IN  {[failed |-> FALSE, to |-> dest, sock |-> reclaimed],
         [failed |-> TRUE, to |-> Closed, sock |-> reclaimed],
         [failed |-> TRUE, to |-> Closed, sock |-> s]}

net_udp_send(dest, s) == IF connected THEN UciSend(dest, s) ELSE Ip65Send(dest, s)

\* The socket that net_udp_listen leaves: UCI defers it to the first send.
net_udp_listen == IF connected THEN Closed ELSE Listening

\* net_poll reads an open socket only, whose pin filters the source.
UciHears(src) == sock = src

\* The callback for the claimed port, whatever the source.
Ip65Hears == sock = Listening

\* A datagram from src reaches the main loop.
Hears(src) == net_initialized /\ IF connected THEN UciHears(src) ELSE Ip65Hears

-----------------------------------------------------------------------------
(* Routines of the C64.                                                    *)

session_reset ==
    /\ wg_state' = "IDLE"
    /\ hs_timer_armed' = FALSE
    /\ sock' = net_udp_close

\* Mutant: the state is left as it was, as before issue #84.
session_send_failed_keeps == UNCHANGED <<wg_state, hs_timer_armed>> /\ sock' = net_udp_close

session_send_failed == session_reset

\* Mutant: the socket stays pinned to the previous peer (issue #65).
config_load_keeps == sock

\* The socket once config_load has copied cfg over hs and wg_peer.
config_load == IF cfg.ep = wg_peer THEN sock ELSE net_udp_close

\* The Type 1 that goes out to dest: made with the keys config_load copied, with
\* a MAC2 if there is a cookie.
hs_create_initiation(cookie, dest) ==
    [n |-> hs.n + 1, id |-> cfg.id, pub |-> cfg.pub, dest |-> dest, cookie |-> cookie]

\* Creates and sends initiation hs.n + 1, with a MAC2 if a cookie is at hand.
session_initiate(cookie) ==
    /\ hs.n < MaxInits[connected]
    /\ hs' = [n |-> hs.n + 1, id |-> cfg.id, pub |-> cfg.pub, psk |-> cfg.psk,
              open |-> TRUE]
    /\ wg_peer' = cfg.ep
    /\ \E o \in net_udp_send(cfg.ep, config_load) :
          /\ inits' = IF o.to = Closed THEN inits
                      ELSE inits \cup {hs_create_initiation(cookie, o.to)}
          /\ \/ /\ ~o.failed
                /\ wg_state' = "HS_SENT"
                /\ hs_timer_armed' = TRUE
                /\ sock' = o.sock
             \/ /\ o.failed
                /\ session_send_failed
    /\ UNCHANGED <<tp_key, tp_send_counter, sent>>

\* Mutant: the counter advances only once the datagram is known to be sent.
transport_send_late ==
    /\ tp_send_counter < RejectAt
    /\ \E o \in net_udp_send(wg_peer, sock) :
          /\ tp_send_counter' = IF o.failed THEN tp_send_counter ELSE tp_send_counter + 1
          /\ sock' = o.sock
          /\ sent' = IF o.to = Closed THEN sent
                     ELSE sent \cup {[key |-> tp_key, counter |-> tp_send_counter]}
    /\ UNCHANGED <<wg_state, hs_timer_armed, hs, wg_peer, tp_key, inits>>

\* An exhausted counter is refused before anything changes; otherwise the
\* counter advances as soon as the packet is built.
transport_encrypt ==
    /\ tp_send_counter < RejectAt
    /\ tp_send_counter' = tp_send_counter + 1

\* A payload over the MTU is refused like an exhausted counter.
transport_send ==
    /\ transport_encrypt
    /\ \E o \in net_udp_send(wg_peer, sock) :
          /\ sock' = o.sock
          /\ sent' = IF o.to = Closed THEN sent
                     ELSE sent \cup {[key |-> tp_key, counter |-> tp_send_counter]}
    /\ UNCHANGED <<wg_state, hs_timer_armed, hs, wg_peer, tp_key, inits>>

\* The transcript hs_c, hs_h absorbs any response before its tag is checked.
hs_process_response(m) == m.n = hs.n /\ m.p = hs.pub /\ hs.psk /\ hs.open

\* Mutant: the cookie key is derived from the peer of the handshake.
cookie_handle_type3_hs(m) == m.n = hs.n /\ m.p = hs.pub

\* Mutant: neither the receiver index nor the MAC1 is checked.
cookie_handle_type3_any(m) == m.p = cfg.pub

\* The reply must carry the index and MAC1 of the current initiation, and be
\* sealed under the key of the peer that cfg names now.
cookie_handle_type3(m) == m.n = hs.n /\ m.p = cfg.pub

\* The peer is followed to where an authentic Type 4 came from.
endpoint_update(src) ==
    /\ wg_peer' = src
    /\ sock' = IF src = wg_peer THEN sock ELSE net_udp_close

-----------------------------------------------------------------------------
(* session_handle_packet: one action per type.                             *)

\* Mutant: the handshake goes on after a rejected response.
hs_fail_stays == UNCHANGED <<wg_state, hs_timer_armed, sock>>

hs_fail == session_reset

type2 ==
    \E m \in resps :
        /\ Hears(m.src)
        /\ wg_state = "HS_SENT"
        /\ hs' = [hs EXCEPT !.open = FALSE]
        /\ \/ /\ hs_process_response(m)
              /\ tp_key' = <<m.n, m.r>>
              /\ tp_send_counter' = 0
              /\ wg_state' = "ACTIVE"
              /\ hs_timer_armed' = FALSE
              /\ UNCHANGED sock
           \/ /\ ~hs_process_response(m)
              /\ hs_fail
              /\ UNCHANGED <<tp_key, tp_send_counter>>
        /\ UNCHANGED <<wg_peer, setup, peers, fromC64, fromPeers>>

\* Mutant: no state gate, as before issue #94.
type3_ungated ==
    \E m \in cookies :
        /\ Hears(m.src)
        /\ cookie_handle_type3(m)
        /\ session_initiate(m)
        /\ UNCHANGED <<setup, peers, fromPeers>>

type3 ==
    \E m \in cookies :
        /\ Hears(m.src)
        /\ wg_state = "HS_SENT"
        /\ cookie_handle_type3(m)
        /\ session_initiate(m)
        /\ UNCHANGED <<setup, peers, fromPeers>>

\* Accepted; a refused Type 4 changes nothing.
type4 ==
    \E m \in data :
        /\ Hears(m.src)
        /\ wg_state = "ACTIVE"
        /\ m.key = tp_key
        /\ endpoint_update(m.src)
        /\ UNCHANGED <<wg_state, hs_timer_armed, hs, tp_key, tp_send_counter,
                       setup, peers, fromC64, fromPeers>>

session_handle_packet == type2 \/ type3 \/ type4

-----------------------------------------------------------------------------
(* timer_check, when a deadline is due.                                    *)

timer_check_handshake ==
    /\ wg_state = "HS_SENT" /\ hs_timer_armed
    /\ session_reset
    /\ UNCHANGED <<hs, wg_peer, tp_key, tp_send_counter, setup, peers, fromC64, fromPeers>>

timer_expire ==
    /\ wg_state = "ACTIVE"
    /\ session_reset
    /\ UNCHANGED <<hs, wg_peer, tp_key, tp_send_counter, setup, peers, fromC64, fromPeers>>

timer_keepalive ==
    /\ wg_state = "ACTIVE"
    /\ transport_send
    /\ UNCHANGED <<setup, peers, fromPeers>>

-----------------------------------------------------------------------------
(* The keys of the main loop.                                              *)

\* I.  An adapter that is not there changes nothing; otherwise net_init drops
\* the socket, then DHCP or the listener may still fail.
do_net_init ==
    /\ \/ sock' = net_udp_close /\ UNCHANGED <<net_initialized, listened>>
       \/ /\ net_initialized' = TRUE
          /\ sock' = net_udp_listen
          /\ listened' = (listened \/ ~connected)
    /\ UNCHANGED <<wg_state, hs_timer_armed, hs, wg_peer, tp_key, tp_send_counter,
                   cfg, loads, connected, peers, fromC64, fromPeers>>

\* What reading the WG.CFG of peer p leaves in cfg_*.  A line that is not hex
\* ends it with what the lines above have already overwritten.
config_read_file(p) ==
    LET file == [id |-> TRUE, pub |-> p, ep |-> Home[p], psk |-> TRUE]
    IN  {file,
         [cfg EXCEPT !.id = FALSE],
         [cfg EXCEPT !.id = TRUE, !.pub = Nobody],
         [file EXCEPT !.psk = FALSE]}

\* L
do_load_config ==
    /\ loads < MaxLoads[connected]
    /\ loads' = loads + 1
    /\ \E p \in Peers : cfg' \in config_read_file(p)
    /\ UNCHANGED <<c64, net_initialized, connected, listened, peers, fromC64, fromPeers>>

\* H, in any state.
do_handshake == session_initiate(NoCookie) /\ UNCHANGED <<setup, peers, fromPeers>>

\* S, in any state.
do_send_test == transport_send /\ UNCHANGED <<setup, peers, fromPeers>>

\* P, and M, which serves nothing else while it waits for the line.
do_ping ==
    /\ wg_state = "ACTIVE"
    /\ transport_send
    /\ UNCHANGED <<setup, peers, fromPeers>>

-----------------------------------------------------------------------------
(* The peers.                                                              *)

\* Mutant: an initiation that was already answered is answered again.
Fresher_again(p, m) == m.n >= greatest[p]

\* The greatest-seen rule on timestamps.
Fresher(p, m) == m.n > greatest[p]

\* A rejected initiation changes nothing.
handle_initiation ==
    \E p \in Peers, m \in inits :
        /\ m.dest = at[p]
        /\ m.pub = p /\ m.id
        /\ Fresher(p, m)
        /\ greatest' = [greatest EXCEPT ![p] = m.n]
        /\ answers' = answers + 1
        /\ session' = [session EXCEPT ![p] = <<m.n, answers'>>]
        /\ send_counter' = [send_counter EXCEPT ![p] = 0]
        /\ resps' = resps \cup {[n |-> m.n, r |-> answers', p |-> p, src |-> at[p]]}
        /\ UNCHANGED <<c64, setup, at, roams, fromC64, cookies, data>>

\* A peer under load answers with a cookie reply and keeps no state.
CookieReply ==
    \E p \in Peers, m \in inits :
        /\ m.dest = at[p]
        /\ m.pub = p
        /\ cookies' = cookies \cup {[n |-> m.n, p |-> p, src |-> at[p]]}
        /\ UNCHANGED <<c64, setup, peers, fromC64, resps, data>>

encrypt_transport ==
    \E p \in Peers :
        /\ session[p] # NoKey
        /\ send_counter[p] < MaxData
        /\ data' = data \cup {[key |-> session[p], counter |-> send_counter[p], src |-> at[p]]}
        /\ send_counter' = [send_counter EXCEPT ![p] = @ + 1]
        /\ UNCHANGED <<c64, setup, greatest, session, answers, at, roams, fromC64, resps, cookies>>

Roam ==
    /\ roams < MaxRoams
    /\ roams' = roams + 1
    /\ \E p \in Peers : \E e \in Endpoints \ {at[p]} : at' = [at EXCEPT ![p] = e]
    /\ UNCHANGED <<c64, setup, greatest, session, send_counter, answers, fromC64, fromPeers>>

Next ==
    \/ type2 \/ type3 \/ type4
    \/ timer_check_handshake \/ timer_expire \/ timer_keepalive
    \/ do_net_init \/ do_load_config \/ do_handshake \/ do_send_test \/ do_ping
    \/ handle_initiation \/ CookieReply \/ encrypt_transport \/ Roam

Spec == Init /\ [][Next]_vars
-----------------------------------------------------------------------------
(* Properties.                                                             *)

\* The next Type 4 never repeats a nonce: whatever sends failed, sessions were
\* reset or handshakes overtook each other, no Type 4 that reached the wire under
\* the present transport key carries a counter at or above tp_send_counter.
NonceFresh == \A m \in sent : m.key = tp_key => m.counter < tp_send_counter

\* While wg_state is ACTIVE, the peer named at the start of the handshake holds
\* the same transport keys.  A late, duplicated or overtaken Type 1 or Type 2, or
\* an initiation that was sent although net_udp_send reported a failure, never
\* leaves the C64 in a session that its peer has replaced.
SessionAgreement ==
    wg_state = "ACTIVE" => hs.pub \in Peers /\ session[hs.pub] = tp_key

\* A connected UCI socket is pinned to the endpoint that session_stage_dest
\* stages: no reload of WG.CFG, roam, reset or failed send leaves the next
\* datagram going to a previous peer (issue #65).
PinnedToPeer == sock \in Places => sock = wg_peer

\* While a response is awaited the transcript has absorbed none yet, so the
\* genuine one can still be accepted, and the deadline of issue #84 runs.
TranscriptFresh == wg_state = "HS_SENT" => hs.open /\ hs_timer_armed

\* A MAC2 is keyed with a cookie of the very peer the initiation is for, also
\* when WG.CFG is reloaded between an initiation and the cookie reply to it.
CookieForPeer == \A m \in inits : m.cookie # NoCookie => m.cookie.p = m.pub

\* A cookie reply, however often it is delivered, starts one initiation only.
CookieAnsweredOnce ==
    \A a, b \in inits :
        a.cookie # NoCookie /\ b.cookie # NoCookie /\ a.cookie.n = b.cookie.n => a.n = b.n

\* No datagram ends a live session: whatever is delivered, and however late,
\* handling it in ACTIVE leaves wg_state ACTIVE (issue #94).  With connected
\* sockets it leaves the socket alone as well, wherever the peer has moved to.
\* The ip65 listener does hear a peer that has moved, and endpoint_update closes
\* it: the session is deaf then, whatever session.s:571 says of nothing being lost,
\* and SendReopens says until when.
ReceiveKeepsSession ==
    [][session_handle_packet /\ wg_state = "ACTIVE"
          => wg_state' = "ACTIVE" /\ (connected => sock' = sock)]_vars

\* Whatever took the socket or the listener away, a roam, a new WG.CFG, a reset or
\* key I, the next Type 4 or initiation that leaves brings it back: the C64 hears
\* the endpoint it then holds for its peer (net_udp_send of either backend).
SendReopens ==
    [][net_initialized /\ (sent' # sent \/ (inits' # inits /\ wg_state' = "HS_SENT"))
          => Hears(wg_peer)']_vars

Agreed == INSTANCE Session WITH
    Counters <- 0 .. RejectAt - 1,
    offered <- hs.n,
    offers <- {<<m.n, m.pub>> : m \in inits},
    awaited <- IF wg_state = "HS_SENT" THEN hs.pub ELSE Nobody,
    live <- wg_state = "ACTIVE",
    key <- tp_key,
    spent <- sent,
    held <- session

\* session.s and responder.py implement Session: whatever datagrams are lost,
\* duplicated, delayed or reordered, whatever sends fail and whatever cookies and
\* configurations come in between, a key is taken only from the peer asked last,
\* once, and unused; a peer answers an offer once and never replaces the key of
\* a session in use; and no counter is spent twice under a key.
ImplementsSession == Agreed!Spec

-----------------------------------------------------------------------------
(* The inductive strengthening of NonceFresh and SessionAgreement: initiation *)
(* numbers order everything.  No initiation, answered initiation or used key  *)
(* is ahead of hs.n; while a response is awaited no key of the present        *)
(* initiation has been used; and the last initiation a peer answered, and no  *)
(* other, is the one its session comes from.  A cookie reply is answered by   *)
(* the initiation right after the one it is for.                              *)
InitsBehind == \A m \in inits : m.n <= hs.n
PeersBehind == \A p \in Peers : greatest[p] <= hs.n
AnsweredOnce ==
    \A m \in resps :
        /\ m.n <= greatest[m.p]
        /\ m.n = greatest[m.p] => session[m.p] = <<m.n, m.r>>
KeysBehind ==
    /\ tp_key[1] <= hs.n
    /\ \A m \in sent : m.key[1] <= hs.n
    /\ wg_state = "HS_SENT" => tp_key[1] < hs.n /\ \A m \in sent : m.key[1] < hs.n
ActiveIsLatest ==
    wg_state = "ACTIVE" =>
        /\ hs.pub \in Peers
        /\ session[hs.pub] = tp_key
        /\ greatest[hs.pub] = hs.n
CookieNext == \A m \in inits : m.cookie # NoCookie => m.n = m.cookie.n + 1
HeldIsGreatest == \A p \in Peers : session[p][1] = greatest[p]

\* What SendReopens rests on: an ip65 that net_init brought up has a port to claim again.
PortKnown == net_initialized => connected \/ listened

TunnelInv ==
    /\ TypeOK
    /\ InitsBehind /\ PeersBehind /\ AnsweredOnce /\ KeysBehind /\ ActiveIsLatest
    /\ NonceFresh /\ PinnedToPeer /\ TranscriptFresh /\ CookieForPeer /\ CookieNext
    /\ HeldIsGreatest
=============================================================================
