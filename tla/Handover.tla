------------------------------ MODULE Handover ------------------------------
(***************************************************************************)
(* What the tools that share one Ultimate 64 promise each other            *)
(* (tools/device_session.py): only the holder of the lock touches the      *)
(* device, and a tool that used it and then calls its run a success handed *)
(* over every part it had promised to leave idle.                          *)
(***************************************************************************)
CONSTANTS Lanes, Parts, NoLane

VARIABLES
    promise,  \* lane -> the parts it leaves idle
    holder,
    dirty,    \* parts of the device that are not idle
    used,     \* lanes that have touched the device
    kept,     \* lanes that kept their promise when they gave the device up
    says      \* lane -> how it reports its run

hvars == <<promise, holder, dirty, used, kept, says>>

Init ==
    /\ promise \in [Lanes -> SUBSET Parts]
    /\ holder = NoLane
    /\ dirty \in SUBSET Parts
    /\ used = {}
    /\ kept = {}
    /\ says = [l \in Lanes |-> "none"]

Take(l) ==
    /\ holder = NoLane
    /\ holder' = l
    /\ UNCHANGED <<promise, dirty, used, kept, says>>

Use(l) ==
    /\ holder = l
    /\ dirty' \in SUBSET Parts
    /\ used' = used \cup {l}
    /\ UNCHANGED <<promise, holder, kept, says>>

\* A lane may give the device up and report in one step: a process that ends
\* loses its lock.
GiveOrSay(l) ==
    /\ \/ UNCHANGED <<holder, kept>>
       \/ /\ holder = l /\ holder' = NoLane
          /\ kept' = IF dirty \cap promise[l] = {} THEN kept \cup {l} ELSE kept
    /\ \/ UNCHANGED says
       \/ /\ says[l] = "none" /\ holder' # l
          /\ \/ says' = [says EXCEPT ![l] = "bad"]
             \/ /\ l \in used => l \in kept'
                /\ says' = [says EXCEPT ![l] = "good"]
    /\ UNCHANGED <<promise, dirty, used>>

Next == \E l \in Lanes : Take(l) \/ Use(l) \/ GiveOrSay(l)

Spec == Init /\ [][Next]_hvars

=============================================================================
