------------------------------- MODULE HwRun --------------------------------
(***************************************************************************)
(* One run of the ip65 hardware suite (tools/test_ip65_rrnet_hw.py): the   *)
(* capture is started, the C64 is brought up, shakes hands and exchanges   *)
(* data with the host's responder, a sentinel goes out in the clear, and   *)
(* what the tap wrote is judged by HwChecks.  Meanwhile the tap may die, a *)
(* third station may speak and the plaintext may get onto the cable.       *)
(*                                                                         *)
(* The history variables say what really happened; the exit code is what   *)
(* the run says happened.                                                  *)
(***************************************************************************)
EXTENDS HwChecks

CONSTANT MaxStray   \* bound: frames from outside the script of the run

VARIABLES
    pc,             \* the stage of the suite
    host_mac,       \* the host's address as the suite knows it
    tap,            \* "none", "on" or "dead"
    started_at,     \* what the suite believes of the tap's start
    grown,          \* the file has grown since the run began
    clipped,        \* the tap clips frames
    file,           \* the capture
    run,            \* what the suite has read: c64_mac, wg_state, peer, sends, sentinel
    results,        \* pairs <<label, status>>; of the checks that are not of the
                    \* wire, "device", only failures are kept: the rest decide nothing
    exit,
    \* history
    faulty,         \* something did not go as it should
    leaked,         \* the plaintext was on the cable: "no", "watched", "late"
    third,          \* so was a third station
    reused,         \* the C64 has sent two datagrams under one counter
    strays

machine == <<host_mac, started_at, clipped, run, results, exit>>
vars == <<pc, host_mac, tap, started_at, grown, clipped, file, run, results, exit,
          faulty, leaked, third, reused, strays>>

Letters(from, block) == [i \in 1..4 |-> <<from + i, block>>]
Secret == Letters(0, "upper")
Sentinel == Letters(4, "upper")
Cipher(p, n) == << <<10 * p + n, "cipher">> >>

WIRE_CHECKS == {"bracket", "originated", "mac on wire", "handshake", "control", "absence",
                "variance", "arp", "nonces"}

TypeOK ==
    /\ pc \in {"rig", "capture", "bench", "boot", "handshake", "send", "reply", "diag",
               "repeat", "sentinel", "wire", "done"}
    /\ host_mac \in {"none", "mac", "oldmac"}
    /\ tap \in {"none", "on", "dead"} /\ started_at \in {"none", "lead-in", "run"}
    /\ {grown, clipped, faulty, reused} \subseteq BOOLEAN
    /\ run.c64_mac \in {"none", "c64", "default"}
    /\ run.wg_state \in {"none", "IDLE", "HS_SENT", "ACTIVE"}
    /\ run.next_ctr \in 0..3 /\ run.repeated \in 0..2
    /\ exit \in {"none", "PASS", "FAIL", "NOTHING_RAN", "INCONCLUSIVE"}
    /\ \A r \in results : r[2] \in {"PASS", "FAIL", "SKIP"}
    /\ {leaked, third} \subseteq {"no", "watched", "late"}
    /\ strays \in 0..MaxStray

Init ==
    /\ pc = "rig" /\ host_mac = "none"
    /\ tap = "none" /\ started_at = "none" /\ grown = FALSE /\ clipped = FALSE
    /\ file = <<>>
    /\ run = [c64_mac |-> "none", wg_state |-> "none", peer |-> FALSE,
              type4_in |-> FALSE, heard |-> FALSE, next_ctr |-> 0,
              repeated |-> 0, sentinel |-> FALSE]
    /\ results = {} /\ exit = "none"
    /\ faulty = FALSE /\ leaked = "no" /\ third = "no" /\ reused = FALSE /\ strays = 0

-----------------------------------------------------------------------------
(* Recording results, and frames.                                          *)

check(ok, label) == <<label, IF ok THEN "PASS" ELSE "FAIL">>

\* Inconclusive is neither a pass nor a failure.
verdict(v, label) == <<label, CASE v = "pass" -> "PASS" [] v = "fail" -> "FAIL"
                                [] OTHER -> "SKIP">>

Record(rs) == results' = results \cup {r \in rs : r[1] # "device" \/ r[2] = "FAIL"}

\* What is on the cable is in the file while the tap lives.
OnCable(frames) ==
    /\ file' = IF tap = "on" THEN file \o frames ELSE file
    /\ grown' = (grown \/ (tap = "on" /\ frames # <<>>))

Arp(src, what, body) == [Frame(src, "none", 0, body) EXCEPT !.ether = "arp", !.arp = what]

-----------------------------------------------------------------------------
(* The stages.                                                             *)

\* The host's address, from the helper and from ifconfig.
Rig(helper, observed) ==
    LET published == rig_const(helper, "mac")
        mac == resolve_host_mac(published, observed)
    IN  /\ pc = "rig"
        /\ faulty' = (helper.kind \in {"partial", "unreadable"} \/ "oldmac" \in {published, observed})
        /\ IF published = "raise" THEN exit' = "FAIL" /\ pc' = "done" /\ UNCHANGED host_mac
           ELSE IF mac = "problem" THEN exit' = "NOTHING_RAN" /\ pc' = "done" /\ UNCHANGED host_mac
           ELSE host_mac' = mac /\ pc' = "capture" /\ UNCHANGED exit
        /\ UNCHANGED <<tap, started_at, grown, clipped, file, run, results, leaked, third, reused, strays>>

\* The frame a capture in progress, or an old one, already holds.
Earlier(ts) == << [Frame("c64", "type4", 0, Cipher(9, 0)) EXCEPT !.ts = ts] >>

\* auto: tcpdump is started here on an empty file, or exits at once.
StartCapture(ok) ==
    /\ pc = "capture"
    /\ IF ok THEN tap' = "on" /\ started_at' = "run" /\ pc' = "bench" /\ UNCHANGED exit
             ELSE exit' = "NOTHING_RAN" /\ pc' = "done" /\ UNCHANGED <<tap, started_at>>
    /\ faulty' = (faulty \/ ~ok)
    /\ UNCHANGED <<host_mac, grown, clipped, file, run, results, leaked, third, reused, strays>>

\* external: a file that someone else's tcpdump writes, or wrote.  Its start is
\* looked up by its process; failing that it is taken to be the run's.
ExternalCapture(alive, found, clips, before) ==
    /\ pc = "capture"
    /\ tap' = IF alive THEN "on" ELSE "dead"
    /\ started_at' = IF alive /\ found THEN "lead-in" ELSE "run"
    /\ clipped' = clips
    /\ file' = IF ~before THEN <<>> ELSE Earlier(IF alive THEN "lead-in" ELSE "old")
    /\ pc' = "bench"
    /\ faulty' = (faulty \/ ~alive \/ ~found \/ clips)
    /\ UNCHANGED <<host_mac, grown, run, results, exit, leaked, third, reused, strays>>

\* --capture off: the wire checks will all be skipped.
NoCapture ==
    /\ pc = "capture"
    /\ pc' = "bench" /\ faulty' = TRUE
    /\ UNCHANGED <<machine, tap, grown, file, leaked, third, reused, strays>>

Aborted == Record({check(FALSE, "device")})

\* The stock ping at each clock; the run goes on if one of them answered.
Bench(pings, slow, product_id) ==
    /\ pc = "bench"
    /\ LET at(mhz) == {check(mhz \in pings, "device"),
                       verdict(check_cs8900a_identified(product_id), "device"),
                       verdict(check_bench_health(mhz \in pings, slow, product_id), "device")}
       IN  IF pings = {} THEN Aborted /\ pc' = "wire"
           ELSE Record(at(1) \cup at(48)) /\ pc' = "boot"
    /\ OnCable(IF pings = {} THEN <<>> ELSE <<Frame("c64", "icmp", 0, <<>>)>>)
    /\ faulty' = (faulty \/ pings # {1, 48} \/ slow \/ product_id # "$630E")
    /\ UNCHANGED <<host_mac, tap, started_at, clipped, run, exit, leaked, third, reused, strays>>

\* Load, boot, net_init: without a lease the run is aborted.
stage_boot_and_dhcp(up, cfg_ip, cfg_mac) ==
    /\ pc = "boot"
    /\ IF up
       THEN /\ Record({verdict(check_dhcp_lease(cfg_ip), "device"),
                       check(cfg_mac = "c64", "device")})
            /\ run' = [run EXCEPT !.c64_mac = cfg_mac]
            /\ pc' = "handshake"
            /\ OnCable(<<Frame(cfg_mac, "dhcp", 0, <<>>), Frame("mac", "dhcp", 0, <<>>)>>)
       ELSE Aborted /\ pc' = "wire" /\ OnCable(<<>>) /\ UNCHANGED run
    /\ faulty' = (faulty \/ ~up \/ cfg_ip # "pinned" \/ cfg_mac # "c64")
    /\ UNCHANGED <<host_mac, tap, started_at, clipped, exit, leaked, third, reused, strays>>

\* H is pressed until an initiation leaves (ARP first), then wg_state is
\* watched.  The responder has its own view.
stage_handshake(sent, state, peer) ==
    /\ pc = "handshake"
    /\ sent \/ (state = "IDLE" /\ ~peer)
    /\ run' = [run EXCEPT !.wg_state = IF sent THEN state ELSE @, !.peer = peer]
    /\ Record({check(sent /\ state = "ACTIVE" /\ peer, "device")})
    /\ pc' = IF sent /\ state = "ACTIVE" THEN "send" ELSE "wire"
    /\ OnCable(<<Arp(run.c64_mac, "asks host", <<>>)>>
               \o (IF sent THEN <<Frame(run.c64_mac, "type1", 0, <<>>)>> ELSE <<>>)
               \o (IF peer THEN <<Frame("mac", "type2", 0, <<>>)>> ELSE <<>>))
    /\ faulty' = (faulty \/ ~sent \/ state # "ACTIVE" \/ ~peer)
    /\ UNCHANGED <<host_mac, tap, started_at, clipped, exit, leaked, third, reused, strays>>

\* The C64 sends payload p: not at all, under the next counter, or by mistake
\* under the one before.
C64Sends(p, how) ==
    LET ctr == IF how = "again" THEN run.next_ctr - 1 ELSE run.next_ctr
    IN  /\ how = "again" => run.next_ctr > 0
        /\ OnCable(IF how = "silent" THEN <<>>
                   ELSE <<Frame(run.c64_mac, "type4", ctr, Cipher(p, ctr))>>)
        /\ reused' = (reused \/ how = "again")

Advance(how) == IF how = "next" THEN run.next_ctr + 1 ELSE run.next_ctr

\* The responder counts a type-4 as it comes in, and only then decrypts it: one
\* it cannot decrypt has been counted all the same.
Arrives(how, arrived, decrypted) ==
    /\ arrived => how # "silent"
    /\ decrypted => arrived

\* C64 to host: what the responder decrypts is compared with what was staged.
SendToHost(how, arrived, received) ==
    /\ pc = "send"
    /\ C64Sends(1, how)
    /\ Arrives(how, arrived, received # {})
    /\ run' = [run EXCEPT !.next_ctr = Advance(how), !.type4_in = arrived,
                          !.heard = (received # {})]
    /\ Record({IF received = {} THEN check(FALSE, "device")
               ELSE verdict(check_transport_c64_to_mac(received, "staged"), "device")})
    /\ pc' = "reply"
    /\ faulty' = (faulty \/ how # "next" \/ "staged" \notin received)
    /\ UNCHANGED <<host_mac, tap, started_at, clipped, exit, leaked, third, strays>>

\* Host to C64, read back from the C64's own buffer.
Reply(text, len) ==
    /\ pc = "reply"
    /\ Record({verdict(check_transport_mac_to_c64(text, len, "reply"), "device")})
    /\ pc' = "diag"
    /\ OnCable(<<Frame("mac", "type4", 0, Cipher(2, 0))>>)
    /\ faulty' = (faulty \/ text # "reply" \/ len # "reply")
    /\ UNCHANGED <<host_mac, tap, started_at, clipped, run, exit, leaked, third, reused, strays>>

\* ip65's error byte and its two counters.
Diagnose(error, dropped, attempts) ==
    /\ pc = "diag"
    /\ Record({verdict(decode_net_last_error(error), "device"),
               verdict(check_net_counters(dropped, attempts), "device")})
    /\ pc' = "repeat"
    /\ faulty' = (faulty \/ error # "NONE" \/ dropped # "0" \/ attempts = "none")
    /\ UNCHANGED <<host_mac, tap, started_at, grown, clipped, file, run, exit, leaked, third, reused, strays>>

\* The same payload twice; the first failure ends it.
Repeat(how, arrived, received) ==
    /\ pc = "repeat"
    /\ C64Sends(3, how)
    /\ Arrives(how, arrived, received)
    /\ LET n == run.repeated + (IF received THEN 1 ELSE 0)
       IN  /\ run' = [run EXCEPT !.next_ctr = Advance(how), !.repeated = n,
                                 !.type4_in = @ \/ arrived, !.heard = @ \/ received]
           /\ pc' = IF received /\ n < 2 THEN "repeat" ELSE "sentinel"
    /\ Record({check(received, "device")})
    /\ faulty' = (faulty \/ how # "next" \/ ~received)
    /\ UNCHANGED <<host_mac, tap, started_at, clipped, exit, leaked, third, strays>>

\* The control goes out last, and only once a type-4 has come in.
send_cleartext_control(ok) ==
    /\ pc = "sentinel"
    /\ LET sent == run.type4_in /\ ok
       IN  /\ run' = [run EXCEPT !.sentinel = sent]
           /\ OnCable(IF sent THEN <<Frame("mac", "none", 0, Sentinel)>> ELSE <<>>)
    /\ pc' = "wire"
    /\ faulty' = (faulty \/ ~ok \/ ~run.type4_in)
    /\ UNCHANGED <<host_mac, tap, started_at, clipped, results, exit, leaked, third, reused, strays>>

-----------------------------------------------------------------------------
(* The wire stage and the exit code.                                       *)

\* The C64's tunnel datagrams in a capture, in the order of their first frames.
Type4(frames) ==
    LET dgs == {d \in reassemble(frames) : d.msg = "type4" /\ run.c64_mac \in d.srcs}
        ats == InOrder(frames, {d.at : d \in dgs})
    IN  [n \in DOMAIN ats |-> CHOOSE d \in dgs : d.at = ats[n]]

\* The verdicts over the frames of this run; all is the whole file.
Judge(all) ==
    LET frames == SelectSeq(all, LAMBDA f : f.ts = "run")
        known == run.c64_mac # "none"
        originated == check_c64_originated(frames, run.c64_mac, host_mac)
        t4 == Type4(frames)
        control == run.sentinel /\ find_plaintext(frames, Sentinel)
        skip(label) == <<label, "SKIP">>
    IN  {verdict(check_capture_bracket(all, started_at), "bracket"),
         IF known THEN verdict(originated, "originated") ELSE skip("originated"),
         IF known THEN verdict(check_mac_on_wire(frames, run.c64_mac, host_mac), "mac on wire")
                  ELSE skip("mac on wire"),
         IF known THEN verdict(check_arp_exchange(frames, run.c64_mac), "arp") ELSE skip("arp"),
         verdict(check_handshake_complete(run.wg_state, run.peer, frames, run.c64_mac), "handshake"),
         IF run.sentinel THEN check(control, "control") ELSE skip("control"),
         IF known /\ run.repeated = 2
           THEN check(t4 # <<>> /\ \A i, j \in DOMAIN t4 : t4[i].data = t4[j].data => i = j, "variance")
           ELSE skip("variance"),
         IF known /\ Len(t4) > 1
           THEN check(\A i \in 2..Len(t4) : t4[i - 1].ctr < t4[i].ctr, "nonces")
           ELSE skip("nonces"),
         IF (known /\ originated # "pass") \/ ~control THEN skip("absence")
         ELSE verdict(check_plaintext_absent(frames, Secret, run.c64_mac, TRUE), "absence")}

\* Mutant: a check that was not performed does not hold the exit code back.
summarise_lenient(res) ==
    IF \E r \in res : r[2] = "FAIL" THEN "FAIL" ELSE "PASS"

summarise(res) ==
    IF \E r \in res : r[2] = "FAIL" THEN "FAIL"
    ELSE IF \E r \in res : r[2] = "SKIP" /\ r[1] \in WIRE_CHECKS THEN "INCONCLUSIVE"
    ELSE "PASS"

\* The capture is stopped; a file that did not grow, cannot be decoded or holds
\* nothing of this run is no evidence.
stage_wire ==
    /\ pc = "wire"
    /\ results' = results \cup
         IF /\ grown
            /\ parse_pcap(file, clipped) = "parsed"
            /\ \E i \in DOMAIN file : file[i].ts = "run"
         THEN Judge(file)
         ELSE {<<label, "SKIP">> : label \in WIRE_CHECKS}
    /\ exit' = summarise(results')
    /\ tap' = IF tap = "none" THEN "none" ELSE "dead"
    /\ pc' = "done"
    /\ UNCHANGED <<host_mac, started_at, grown, clipped, file, run, faulty, leaked, third, reused, strays>>

-----------------------------------------------------------------------------
(* What happens meanwhile.                                                 *)

Live == pc \notin {"rig", "capture", "done"} /\ strays < MaxStray

\* The payload exists from the transport stage on.
Staged == Live /\ pc \in {"reply", "diag", "repeat", "sentinel", "wire"}

LeakShapes == {"exact", "shifted", "reversed", "partial", "torn", "pad", "arp"}

\* A plaintext on the cable: displaced, in the other character block, backwards,
\* in part, across two fragments, in the padding, in a frame that is not IP.
LeakFrames(shape) ==
    LET udp(body) == Frame("c64", "none", 0, body)
        torn == [Frame("mac", "none", 0, SubSeq(Secret, 1, 2)) EXCEPT !.more = TRUE]
    IN  CASE shape = "exact" -> <<udp(<<Zero>> \o Secret)>>
          [] shape = "shifted" -> <<udp(Letters(0, "shifted"))>>
          [] shape = "reversed" -> <<udp(Reverse(Secret))>>
          [] shape = "partial" -> <<udp(SubSeq(Secret, 2, 1 + PARTIAL_RUN_MIN))>>
          [] shape = "torn" -> <<torn, [torn EXCEPT !.body = SubSeq(Secret, 3, 4),
                                                    !.off = 2, !.more = FALSE]>>
          [] shape = "pad" -> <<[udp(<<Zero>> \o Secret) EXCEPT !.total = 1]>>
          [] shape = "arp" -> <<Arp("c64", "none", Secret)>>

\* Before the sentinel, or after it.
When(seen) == IF pc # "wire" THEN "watched" ELSE IF seen = "no" THEN "late" ELSE seen

Leak(shape) ==
    /\ Staged
    /\ OnCable(LeakFrames(shape))
    /\ leaked' = When(leaked)
    /\ faulty' = TRUE /\ strays' = strays + 1
    /\ UNCHANGED <<pc, machine, tap, third, reused>>

\* Two datagrams that would spell the plaintext only if they were joined.
Junction ==
    /\ Staged
    /\ OnCable(<<Frame("c64", "none", 0, SubSeq(Secret, 1, 2)),
                 Frame("c64", "none", 0, SubSeq(Secret, 3, 4))>>)
    /\ strays' = strays + 1
    /\ UNCHANGED <<pc, machine, tap, faulty, leaked, third, reused>>

ThirdStation ==
    /\ Live
    /\ OnCable(<<Frame("third", "none", 0, <<>>)>>)
    /\ third' = When(third)
    /\ faulty' = TRUE /\ strays' = strays + 1
    /\ UNCHANGED <<pc, machine, tap, leaked, reused>>

TapDies ==
    /\ tap = "on" /\ pc \notin {"capture", "done"}
    /\ tap' = "dead" /\ faulty' = TRUE
    /\ UNCHANGED <<pc, machine, grown, file, leaked, third, reused, strays>>

-----------------------------------------------------------------------------
Stage ==
    \/ \E h \in [kind : HelperKinds, value : {"mac", "oldmac"}],
          o \in {"none", "redacted", "mac", "oldmac"} : Rig(h, o)
    \/ \E ok \in BOOLEAN : StartCapture(ok)
    \/ \E alive, found, clips, before \in BOOLEAN : ExternalCapture(alive, found, clips, before)
    \/ NoCapture
    \/ \E pings \in SUBSET {1, 48}, slow \in BOOLEAN, id \in {"none", "$630E", "$0A0A", "$0000", "other"} :
         Bench(pings, slow, id)
    \/ \E up \in BOOLEAN, ip \in NotALease \cup {"pinned"}, mac \in {"c64", "default"} :
         stage_boot_and_dhcp(up, ip, mac)
    \/ \E sent, peer \in BOOLEAN, state \in {"IDLE", "HS_SENT", "ACTIVE"} :
         stage_handshake(sent, state, peer)
    \/ \E how \in {"silent", "next", "again"}, arrived \in BOOLEAN,
          got \in SUBSET {"staged", "other"} : SendToHost(how, arrived, got)
    \/ \E text, len \in {"none", "reply", "other"} : Reply(text, len)
    \/ \E e \in NET_ERRORS \cup NET_ERRORS_RESERVED \cup NET_ERRORS_FOREIGN \cup {"none"},
          d \in {"none", "0", "some"}, a \in {"none", "1", "more"} : Diagnose(e, d, a)
    \/ \E how \in {"silent", "next", "again"}, arrived, got \in BOOLEAN : Repeat(how, arrived, got)
    \/ \E ok \in BOOLEAN : send_cleartext_control(ok)
    \/ stage_wire

Meanwhile == (\E shape \in LeakShapes : Leak(shape)) \/ Junction \/ ThirdStation \/ TapDies

Next == Stage \/ Meanwhile

Spec == Init /\ [][Next]_vars

-----------------------------------------------------------------------------
(* Properties.                                                             *)

\* A run that exits 0 has put no plaintext on the cable up to the sentinel, in
\* any of the shapes the search names, and no third station had a part in it
\* (check_plaintext_absent, ip65_hw_checks.py:742).  The sentinel goes last, so
\* finding it dates the end of what the tap saw.
PassMeansNoLeak == exit = "PASS" => "watched" \notin {leaked, third}

\* A run that exits 0 was watched: every wire check was made over frames of
\* this run, both ends completed the handshake, the C64 was heard, and none of
\* its counters was used twice (summarise, test_ip65_rrnet_hw.py:2846).
PassMeansWatched ==
    exit = "PASS" =>
        /\ started_at # "none" /\ grown
        /\ run.wg_state = "ACTIVE" /\ run.peer /\ run.heard
        /\ ~reused
        /\ \A label \in WIRE_CHECKS : <<label, "PASS">> \in results

\* A run in which nothing went wrong exits 0: no check cries wolf, whichever
\* way the capture was started and whatever it already held
\* (check_capture_bracket, ip65_hw_checks.py:1551).
HealthyRunPasses == pc = "done" /\ ~faulty => exit = "PASS"

=============================================================================
