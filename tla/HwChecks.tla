------------------------------ MODULE HwChecks ------------------------------
(***************************************************************************)
(* The verdicts of the ip65 / RR-Net hardware run                          *)
(* (tools/ip65_hw_checks.py), as functions of a capture and of what was    *)
(* read from the C64.                                                      *)
(*                                                                         *)
(* Text is a sequence of letters: a letter is a number and the block of    *)
(* the character set it is written in.  A frame keeps its source, when it  *)
(* was captured, its IP identifier, fragment offset and total length, and  *)
(* its body, padding included.                                             *)
(***************************************************************************)
EXTENDS Naturals, Sequences, FiniteSets, FiniteSetsExt, SequencesExt

CONSTANT PARTIAL_RUN_MIN    \* the shortest run of a plaintext that is reported

ASSUME PartialAssumption == PARTIAL_RUN_MIN \in Nat \ {0}

\* A check says "pass", "fail" or "inconclusive".
Verdict(ok) == IF ok THEN "pass" ELSE "fail"

-----------------------------------------------------------------------------
(* The rig's published constants.                                          *)

\* A helper is [kind, value]: what it publishes for a name, or why it cannot.
HelperKinds == {"absent", "installed", "partial", "unreadable"}

\* "raise" is RigConstError.
rig_const(helper, pinned) ==
    CASE helper.kind = "absent" -> pinned
      [] helper.kind = "installed" -> helper.value
      [] OTHER -> "raise"

\* The helper's word, unless ifconfig really contradicts it.
resolve_host_mac(published, observed) ==
    IF observed \in {"none", "redacted", published} THEN published ELSE "problem"

-----------------------------------------------------------------------------
(* The capture.                                                            *)

Frame(src, msg, ctr, body) ==
    [src |-> src, ts |-> "run", ether |-> "ip", arp |-> "none", msg |-> msg, ctr |-> ctr,
     id |-> src, off |-> 0, more |-> FALSE, total |-> Len(body), body |-> body]

\* A capture that was clipped is refused; "refused" is PcapError.
parse_pcap(file, clipped) == IF clipped /\ file # <<>> THEN "refused" ELSE "parsed"

Fragmented(f) == f.more \/ f.off > 0
payload(f) == SubSeq(f.body, 1, f.total)
padding(f) == SubSeq(f.body, f.total + 1, Len(f.body))

Zero == <<0, "zero">>

\* A piece is laid over what is there, after zeros if it leaves a gap.
Place(buf, f) ==
    LET filled == buf \o [i \in 1..(f.off - Len(buf)) |-> Zero]
    IN  SubSeq(filled, 1, f.off) \o payload(f)
          \o SubSeq(filled, f.off + Len(payload(f)) + 1, Len(filled))

\* The frames that make one datagram with the i-th.  Unfragmented datagrams are
\* never grouped.
Group(frames, i) ==
    IF Fragmented(frames[i])
    THEN {j \in DOMAIN frames : /\ frames[j].ether = "ip" /\ Fragmented(frames[j])
                                /\ frames[j].id = frames[i].id}
    ELSE {i}

\* The members of a set of positions of the capture, first to last.
InOrder(frames, g) == SelectSeq([i \in DOMAIN frames |-> i], LAMBDA i : i \in g)

Datagram(frames, g) ==
    LET inOrder == InOrder(frames, g)
        pieces == SortSeq([n \in DOMAIN inOrder |-> frames[inOrder[n]]],
                          LAMBDA f, h : f.off < h.off)
        heads == {j \in g : frames[j].off = 0}
    IN  [at |-> Min(g),
         srcs |-> {frames[j].src : j \in g},
         msg |-> IF heads = {} THEN "none" ELSE frames[Max(heads)].msg,
         ctr |-> IF heads = {} THEN 0 ELSE frames[Max(heads)].ctr,
         data |-> FoldLeft(Place, <<>>, pieces)]

reassemble(frames) ==
    {Datagram(frames, Group(frames, i)) : i \in {j \in DOMAIN frames : frames[j].ether = "ip"}}

-----------------------------------------------------------------------------
(* The plaintext search.                                                   *)

Recode(s, from, to) == [i \in DOMAIN s |-> IF s[i][2] = from THEN <<s[i][1], to>> ELSE s[i]]
petscii_form(s) == Recode(s, "lower", "upper")
petscii_shifted_form(s) == Recode(petscii_form(s), "upper", "shifted")

Within(pat, hay) ==
    \E i \in 1..(Len(hay) - Len(pat) + 1) : SubSeq(hay, i, i + Len(pat) - 1) = pat

_search_forms(hay, needle) ==
    \E pat \in {needle, petscii_form(needle), petscii_shifted_form(needle), Reverse(needle)} :
        Within(pat, hay)

\* Some run of the needle, long enough to report, is in hay.
_longest_run(hay, needle) ==
    \E i \in 1..(Len(needle) - PARTIAL_RUN_MIN + 1) :
        Within(SubSeq(needle, i, i + PARTIAL_RUN_MIN - 1), hay)

\* Mutant: what follows the IP total length is not looked at.
find_plaintext_trimmed(frames, needle) ==
    \/ \E d \in reassemble(frames) :
         _search_forms(d.data, needle) \/ _longest_run(d.data, needle)
    \/ \E i \in DOMAIN frames : frames[i].ether # "ip" /\ _search_forms(frames[i].body, needle)

\* In a datagram, whole or in part; in the padding; in a frame that is not IP.
find_plaintext(frames, needle) ==
    \/ \E d \in reassemble(frames) :
         _search_forms(d.data, needle) \/ _longest_run(d.data, needle)
    \/ \E i \in DOMAIN frames :
         _search_forms(IF frames[i].ether = "ip" THEN padding(frames[i]) ELSE frames[i].body,
                       needle)

\* c64_mac is "none" when it was never read; type4 asks for tunnel traffic too.
check_plaintext_absent(frames, needle, c64_mac, type4) ==
    LET dgs == reassemble(frames)
        c64_dgs == {d \in dgs : c64_mac \in d.srcs}
    IN  CASE needle = <<>> -> "fail"
          [] frames = <<>> \/ dgs = {} -> "inconclusive"
          [] find_plaintext(frames, needle) -> "fail"
          [] c64_mac = "none" \/ c64_dgs = {} -> "inconclusive"
          [] type4 /\ ~ \E d \in c64_dgs : d.msg = "type4" -> "inconclusive"
          [] OTHER -> "pass"

-----------------------------------------------------------------------------
(* Who sent it.                                                            *)

split_by_source(frames, macs) == {i \in DOMAIN frames : frames[i].src \in macs}

check_c64_originated(frames, c64_mac, host_mac) ==
    Verdict(/\ c64_mac # host_mac
            /\ split_by_source(frames, {c64_mac, host_mac}) = DOMAIN frames
            /\ split_by_source(frames, {c64_mac}) # {})

\* Addresses no station can have, and ip65's own build-time default.
NotAStation == {"zero", "broadcast", "multicast", "default"}

check_mac_on_wire(frames, c64_mac, host_mac) ==
    Verdict(/\ c64_mac \notin NotAStation \cup {host_mac}
            /\ split_by_source(frames, {c64_mac}) # {})

check_arp_exchange(frames, c64_mac) ==
    Verdict(\E i \in DOMAIN frames : frames[i].arp \in {"answers c64", "asks host"}
                                     /\ frames[i].src = c64_mac)

\* Mutant: the capture is dated by the run, not by the tap.
check_capture_bracket_run(frames, started_at) ==
    Verdict(frames # <<>> /\ \A i \in DOMAIN frames : frames[i].ts = "run")

\* The tap was started before the run ("lead-in") or by it ("run"); frames of
\* an earlier session are dated "old".
check_capture_bracket(frames, started_at) ==
    LET inside == IF started_at = "run" THEN {"run"} ELSE {"lead-in", "run"}
    IN  Verdict(frames # <<>> /\ \A i \in DOMAIN frames : frames[i].ts \in inside)

-----------------------------------------------------------------------------
(* Pings.  An echo frame is [icmp, src, key, data]; its key is the pair of *)
(* identifier and sequence number.                                         *)

Keys(echoes) == {e.key : e \in echoes}

\* A reply is paired with the first request of this C64 under its key, once,
\* and only if the host sent it.
pair_echoes(frames, c64_mac, host_mac) ==
    LET asks(audit, f) ==
            IF f.src # c64_mac \/ f.key \in Keys(audit.requests) THEN audit
            ELSE [audit EXCEPT !.requests = @ \cup {f}]
        answers(audit, f) ==
            IF \/ f.key \notin Keys(audit.requests) \/ f.key \in Keys(audit.pairs)
               \/ f.src # host_mac
            THEN [audit EXCEPT !.unmatched = @ \cup {f}]
            ELSE [audit EXCEPT !.pairs = @ \cup
                    {[key |-> f.key,
                      matches |-> \E q \in audit.requests : q.key = f.key /\ q.data = f.data]}]
    IN  FoldLeft(LAMBDA audit, f : IF f.icmp = "request" THEN asks(audit, f) ELSE answers(audit, f),
                 [requests |-> {}, pairs |-> {}, unmatched |-> {}], frames)

check_echo_replies_matched(frames, c64_mac, host_mac) ==
    LET audit == pair_echoes(frames, c64_mac, host_mac)
    IN  Verdict(/\ audit.unmatched = {}
                /\ audit.pairs # {}
                /\ \A p \in audit.pairs : p.matches)

-----------------------------------------------------------------------------
(* What was read from the C64 and from the responder.                      *)

check_handshake_complete(wg_state, responder_complete, frames, c64_mac) ==
    Verdict(/\ wg_state = "ACTIVE"
            /\ responder_complete
            /\ c64_mac = "none" \/ split_by_source(frames, {c64_mac}) # {})

check_transport_c64_to_mac(received, expected) ==
    Verdict(expected # "none" /\ expected \in received)

\* The length the C64 recorded must agree before its buffer is compared.
check_transport_mac_to_c64(c64_plaintext, c64_len, expected) ==
    Verdict(/\ "none" \notin {c64_plaintext, c64_len, expected}
            /\ c64_len = expected
            /\ c64_plaintext = expected)

\* Addresses that are no lease of this rig, each refused for its own reason.
NotALease == {"none", "zero", "default", "loopback", "multicast", "link-local", "host",
              "other subnet", "pool"}

check_dhcp_lease(cfg_ip) == Verdict(cfg_ip \notin NotALease)

\* No field but the netmask, whose default is also this rig's, may still hold
\* the constant of the build.
check_ip65_config_written(cfg_ip, cfg_netmask, cfg_gateway, cfg_mac) ==
    Verdict(/\ "none" \notin {cfg_ip, cfg_netmask, cfg_gateway, cfg_mac}
            /\ "default" \notin {cfg_ip, cfg_gateway, cfg_mac})

\* Errors the adapter emits, and the ones it never does.
NET_ERRORS == {"NONE", "TIMEBASE_STOPPED", "IP65_INIT", "IP65_DHCP", "IP65_UDP_LISTEN",
               "IP65_WAIT_TIMEOUT", "IP65_UDP_UNBIND"}
NET_ERRORS_RESERVED == {"IP65_UDP_SEND"}
NET_ERRORS_FOREIGN == {"IP65_DNS", "IP65_CONNECT", "IP65_SEND"}

decode_net_last_error(value) == Verdict(value = "NONE")

\* send_attempts is of the last send only, so its value decides nothing here.
check_net_counters(recv_dropped, send_attempts) ==
    Verdict(recv_dropped = "0" /\ send_attempts # "none")

\* Zeros may be an absent card or one that is not mapped.
check_cs8900a_identified(product_id) ==
    CASE product_id = "$630E" -> "pass"
      [] product_id \in {"none", "$0000"} -> "inconclusive"
      [] OTHER -> "fail"

check_bench_health(ping_ok, slow, product_id) ==
    IF ~ping_ok \/ slow THEN "fail"
    ELSE IF product_id = "none" THEN "pass"
    ELSE check_cs8900a_identified(product_id)

=============================================================================
