------------------------------ MODULE MCHwRun -------------------------------
(***************************************************************************)
(* HwRun with one frame from outside the script of the run, in every shape *)
(* of leak; and the two checks no stage of the run uses, against what they *)
(* are for, on every small input.                                          *)
(***************************************************************************)
EXTENDS HwRun

Echo(icmp, srcs) == [icmp : {icmp}, src : srcs, key : {1, 2}, data : {"a", "b"}]
Captures == UNION {[1..n -> Echo("request", {"c64", "mac"}) \cup Echo("reply", {"mac", "third"})] :
                     n \in 0..4}

\* Every reply of the capture is the host's answer, the only one, to a request
\* the C64 had made before, with that request's data; and there is one.
AllAnswered(frames) ==
    LET replies == {i \in DOMAIN frames : frames[i].icmp = "reply"}
        asked(i) == {j \in 1..(i - 1) : /\ frames[j].icmp = "request" /\ frames[j].src = "c64"
                                        /\ frames[j].key = frames[i].key}
    IN  /\ replies # {}
        /\ \A i \in replies : /\ frames[i].src = "mac" /\ asked(i) # {}
                              /\ frames[Min(asked(i))].data = frames[i].data
        /\ \A i, j \in replies : frames[i].key = frames[j].key => i = j

\* A backlog of stale replies, a reply from elsewhere or one that repeats
\* another never scores (pair_echoes, ip65_hw_checks.py:1221).
ASSUME EchoesPaired ==
    \A frames \in Captures :
        (check_echo_replies_matched(frames, "c64", "mac") = "pass") <=> AllAnswered(frames)

\* A configuration that passes is one the lease check accepts too, of a machine
\* whose card was asked for its address (check_ip65_config_written,
\* ip65_hw_checks.py:1101).
ASSUME ConfigWritten ==
    \A ip, mask, gateway, mac \in {"none", "default", "pinned"} :
        check_ip65_config_written(ip, mask, gateway, mac) = "pass"
            => check_dhcp_lease(ip) = "pass" /\ mac # "default"

=============================================================================
