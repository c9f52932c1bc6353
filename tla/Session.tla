------------------------------ MODULE Session ------------------------------
(***************************************************************************)
(* What the C64 and its peers agree on (session.s against responder.py),   *)
(* without datagrams, sockets, timers, cookies or configuration files: the *)
(* C64 makes numbered offers, a peer answers an offer with a new key, and  *)
(* the C64 takes the key of its latest offer, once.  Under a key no        *)
(* counter is spent twice, and a peer does not replace a key in use.       *)
(***************************************************************************)
EXTENDS Naturals

CONSTANTS
    Peers, Nobody,
    Counters    \* the counters a Type 4 may carry

VARIABLES
    offered,    \* number of offers made
    offers,     \* <<number, peer>> of the offers that got out
    awaited,    \* the peer whose answer to the latest offer is awaited
    live,       \* a session is in use
    key,        \* the key taken last: <<number of its offer, number of the answer>>
    spent,      \* keys and counters used towards the peers
    held,       \* peer -> the key it derived last
    answers     \* number of keys derived

agreement == <<offered, offers, awaited, live, key, spent, held, answers>>

Init ==
    /\ offered = 0 /\ offers = {} /\ awaited = Nobody
    /\ live = FALSE /\ key = <<0, 0>> /\ spent = {}
    /\ held = [p \in Peers |-> <<0, 0>>]
    /\ answers = 0

\* A new offer ends the session in use.  One that is reported as not sent may
\* have got out all the same, and is not waited for.
Offer(p) ==
    /\ offered' = offered + 1
    /\ \/ awaited' = p /\ offers' = offers \cup {<<offered', p>>}
       \/ awaited' = Nobody /\ offers' \in {offers, offers \cup {<<offered', p>>}}
    /\ live' = FALSE
    /\ UNCHANGED <<key, spent, held, answers>>

\* A peer answers an offer made to it, in order and once.
Answer(p) ==
    /\ ~(live /\ held[p] = key)
    /\ answers' = answers + 1
    /\ \E n \in held[p][1] + 1 .. offered :
          /\ <<n, p>> \in offers
          /\ held' = [held EXCEPT ![p] = <<n, answers'>>]
    /\ UNCHANGED <<offered, offers, awaited, live, key, spent>>

\* The C64 takes the key of the peer it asked, and nothing was sent under it.
Take ==
    /\ awaited \in Peers
    /\ held[awaited][1] = offered
    /\ \A m \in spent : m.key # held[awaited]
    /\ key' = held[awaited]
    /\ live' = TRUE
    /\ awaited' = Nobody
    /\ UNCHANGED <<offered, offers, spent, held, answers>>

\* A Type 4 leaves the C64; the test key S sends one in any state.
Spend ==
    /\ \E c \in Counters :
          /\ [key |-> key, counter |-> c] \notin spent
          /\ spent' = spent \cup {[key |-> key, counter |-> c]}
    /\ UNCHANGED <<offered, offers, awaited, live, key, held, answers>>

\* A deadline, or a response that is not accepted.
End ==
    /\ live' = FALSE
    /\ awaited' = Nobody
    /\ UNCHANGED <<offered, offers, key, spent, held, answers>>

Next ==
    \/ \E p \in Peers \cup {Nobody} : Offer(p)
    \/ \E p \in Peers : Answer(p)
    \/ Take \/ Spend \/ End

Spec == Init /\ [][Next]_agreement

=============================================================================
