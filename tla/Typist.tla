------------------------------- MODULE Typist -------------------------------
(***************************************************************************)
(* The host at the C64's keyboard (tools/wg_c64_input.py).  Keys are       *)
(* written by DMA into the KERNAL's queue, their number last, and a queue  *)
(* that is empty again is the only sign that the C64 took them.  Two tools *)
(* type: the dialogue of wg_demo sends lines and renews the session, the   *)
(* chat of wg_chat renews the session under a thread that sends what is    *)
(* typed on the host, while somebody sits at the C64.                      *)
(*                                                                         *)
(* The C64 is its main loop, the prompt of key M and the handshake of key  *)
(* H, each with the times at which it does not look at the queue.  Waits   *)
(* may end at any reading that is not the one waited for.                  *)
(***************************************************************************)
EXTENDS Naturals, Sequences

CONSTANTS
    Letters,    \* keys other than M, H, RETURN and DELETE
    Texts,      \* lines to be sent
    KbdMax,     \* KBD_MAX
    InputMax,   \* C64_INPUT_MAX, MSG_TEXT_MAX
    MaxPresses  \* bound: keys pressed at the C64 in one call of the host

Keys == {"M", "H", "cr", "del"} \cup Letters

ASSUME SizeAssumption == {KbdMax, InputMax} \subseteq Nat \ {0} /\ MaxPresses \in Nat
ASSUME TextAssumption == Texts \subseteq Seq(Keys \ {"cr", "del"}) \ {<<>>}

VARIABLES
    \* the C64
    buffer, count,      \* KBD_BUFFER, KBD_COUNT
    c64,                \* what it is at
    wg_state,
    line, len,          \* the text of ip_packet_buf, msg_input_len
    \* the host
    chat,               \* whether the tool is wg_chat, with somebody at the C64
    pc, op,             \* where it stands in which of its calls
    text,               \* the line of a turn
    todo,               \* what is left to type, as it goes into the queue
    phase,              \* the part of a turn being typed
    rekeying,           \* rekeying.is_set()
    sender,             \* the thread of the chat
    \* history, of the present call
    presses,            \* how many keys were pressed at the C64
    taken,              \* keys the C64 took
    ran, sent,          \* in a turn: keys taken as commands of the menu, lines sent
    renewed,            \* a session was established
    dropped,            \* a session was dropped by timer_check
    lost                \* how many lines the thread sent while the session was renewed

keyboard == <<buffer, count>>
input == <<line, len>>
host == <<pc, op, text, todo, phase, rekeying>>
history == <<presses, taken, ran, sent, renewed, dropped>>
vars == <<keyboard, c64, wg_state, input, chat, host, sender, history, lost>>

\* text.upper()[:C64_INPUT_MAX].
Clip(t) == SubSeq(t, 1, IF Len(t) < InputMax THEN Len(t) ELSE InputMax)

\* At most KBD_MAX keys at a time.
Chunks(t) ==
    [i \in 1 .. (Len(t) + KbdMax - 1) \div KbdMax |->
        SubSeq(t, (i - 1) * KbdMax + 1, IF i * KbdMax < Len(t) THEN i * KbdMax ELSE Len(t))]

Init ==
    /\ buffer \in [1 .. KbdMax -> {"cr"}] /\ count = 0
    /\ c64 = "loop" /\ wg_state = "ACTIVE"
    /\ line = <<>> /\ len = 0
    /\ chat \in BOOLEAN /\ pc = "top" /\ op = "none" /\ text = <<>> /\ todo = <<>> /\ phase = "key"
    /\ rekeying = FALSE /\ sender = "stdin"
    /\ presses = 0 /\ taken = {} /\ ran = <<>> /\ sent = <<>>
    /\ renewed = FALSE /\ dropped = FALSE /\ lost = 0

-----------------------------------------------------------------------------
(* The C64 *)

\* What the histories of a turn record.
Noted(s, x) == IF op \in {"send_message", "send_message_dma"} THEN Append(s, x) ELSE s

\* GETIN: the first key of the queue, the others move up.
getin ==
    /\ count > 0
    /\ count' = count - 1
    /\ buffer' = [i \in 1 .. KbdMax |-> IF i < count THEN buffer[i + 1] ELSE buffer[i]]
    /\ taken' = taken \cup {buffer[1]}

\* A key in the main loop.  What the letters I, S, P, L do is not told apart here.
main_loop ==
    /\ c64 = "loop" /\ getin
    /\ ran' = Noted(ran, buffer[1])
    /\ c64' = CASE buffer[1] = "H" -> "initiate"
                [] buffer[1] = "M" /\ wg_state = "ACTIVE" -> "printing"
                [] OTHER -> "loop"
    /\ UNCHANGED <<wg_state, input, host, sender, presses, sent, renewed, dropped, lost>>

\* session_initiate computes before it sends, and only then changes the state.
session_initiate ==
    /\ c64 = "initiate"
    /\ c64' = "loop" /\ wg_state' \in {"HS_SENT", "IDLE"}
    /\ UNCHANGED <<keyboard, input, host, sender, history, lost>>

\* A response, to be computed on, or a cookie reply, to be answered.
session_handle_packet ==
    /\ c64 = "loop" /\ wg_state = "HS_SENT"
    /\ c64' \in {"response", "initiate"}
    /\ UNCHANGED <<keyboard, wg_state, input, host, sender, history, lost>>

hs_process_response ==
    /\ c64 = "response"
    /\ c64' = "loop" /\ wg_state' \in {"ACTIVE", "IDLE"}
    /\ renewed' = (renewed \/ wg_state' = "ACTIVE")
    /\ UNCHANGED <<keyboard, input, host, sender, presses, taken, ran, sent, dropped, lost>>

\* A session that is too old, or a handshake nobody answers.
timer_check ==
    /\ c64 = "loop" /\ wg_state # "IDLE"
    /\ wg_state' = "IDLE"
    /\ dropped' = (dropped \/ wg_state = "ACTIVE")
    /\ UNCHANGED <<keyboard, c64, input, host, sender, presses, taken, ran, sent, renewed, lost>>

\* The prompt is printed, and the line is empty.
do_message_input ==
    /\ c64 = "printing"
    /\ c64' = "prompt" /\ len' = 0
    /\ UNCHANGED <<keyboard, wg_state, line, host, sender, history, lost>>

\* A key in the prompt: RETURN sends the line, DELETE takes back a key of it, and
\* what no longer fits is ignored.
read_input_line ==
    /\ c64 = "prompt" /\ getin
    /\ CASE buffer[1] = "cr" ->
              /\ c64' = "loop" /\ sent' = Noted(sent, SubSeq(line, 1, len))
              /\ UNCHANGED input
         [] buffer[1] = "del" ->
              /\ len' = IF len = 0 THEN 0 ELSE len - 1
              /\ UNCHANGED <<line, c64, sent>>
         [] OTHER ->
              /\ IF len < InputMax
                 THEN line' = Append(SubSeq(line, 1, len), buffer[1]) /\ len' = len + 1
                 ELSE UNCHANGED input
              /\ UNCHANGED <<c64, sent>>
    /\ UNCHANGED <<wg_state, host, sender, presses, ran, renewed, dropped, lost>>

\* Somebody at the C64 presses a key: the interrupt's scan appends it.
SCNKEY ==
    /\ chat /\ count < KbdMax /\ presses < MaxPresses
    /\ \E k \in Keys : buffer' = [buffer EXCEPT ![count + 1] = k]
    /\ count' = count + 1 /\ presses' = presses + 1
    /\ UNCHANGED <<c64, wg_state, input, host, sender, taken, ran, sent, renewed, dropped, lost>>

C64 == \/ main_loop \/ session_initiate \/ session_handle_packet \/ hs_process_response
       \/ timer_check \/ do_message_input \/ read_input_line \/ SCNKEY

-----------------------------------------------------------------------------
(* The host *)

\* A call begins.
Begin(o, t, k) ==
    /\ op' = o /\ text' = t /\ todo' = <<<<k>>>> /\ phase' = "key"
    /\ pc' = "wait"
    /\ presses' = 0 /\ taken' = {} /\ ran' = <<>> /\ sent' = <<>>
    /\ renewed' = FALSE /\ dropped' = FALSE
    /\ lost' = 0

\* A session that is gone, or older than REKEY_AFTER_S, is renewed.
StartRekey ==
    /\ pc = "top"
    /\ Begin("rekey", <<>>, "H")
    /\ rekeying' = TRUE
    /\ UNCHANGED <<keyboard, c64, wg_state, input, sender>>

\* The dialogue types its lines; send_message_dma puts one that fits in place.
StartLine ==
    /\ ~chat
    /\ pc = "top" /\ wg_state = "ACTIVE"
    /\ \/ \E t \in Texts : Begin("send_message", Clip(t), "M")
       \/ \E t \in Texts : Len(t) <= InputMax /\ Begin("send_message_dma", t, "M")
    /\ UNCHANGED <<keyboard, c64, wg_state, input, rekeying, sender>>

Goto(label) == pc' = label /\ UNCHANGED <<op, text, todo, phase, rekeying>>

\* The call returns False, the tool ends.
Fail == pc' = "exit" /\ rekeying' = FALSE /\ UNCHANGED <<op, text, todo, phase>>

\* Mutant: the last key is not waited for.
Drained_last == count <= 1

\* What a reading of KBD_COUNT is taken for.
Drained == count = 0

\* Mutant: rekey waits for ACTIVE at once.
AfterKey_skips == IF op = "rekey" THEN "come" ELSE "sleep"

\* The first of the two waits of rekey, or the pause before the line of a turn.
AfterKey == IF op = "rekey" THEN "leave" ELSE "sleep"

\* _wait_drained, before and after each write.
_wait_drained ==
    /\ pc = "wait"
    /\ \/ /\ Drained /\ todo # <<>>
          /\ Goto("bytes")
       \/ /\ Drained /\ todo = <<>>
          /\ CASE phase = "key" -> Goto(AfterKey)
               [] phase = "line" -> /\ todo' = <<<<"cr">>>> /\ phase' = "return"
                                    /\ UNCHANGED <<pc, op, text, rekeying>>
               [] phase = "return" -> Goto("said")
       \/ ~Drained /\ Fail
    /\ UNCHANGED <<keyboard, c64, wg_state, input, sender, history, lost>>

\* The keys first ...
write_bytes ==
    /\ pc = "bytes"
    /\ buffer' = [i \in 1 .. KbdMax |-> IF i <= Len(Head(todo)) THEN Head(todo)[i] ELSE buffer[i]]
    /\ Goto("count")
    /\ UNCHANGED <<count, c64, wg_state, input, sender, history, lost>>

\* ... and their number last.
write_count ==
    /\ pc = "count"
    /\ count' = Len(Head(todo))
    /\ todo' = Tail(todo) /\ pc' = "wait"
    /\ UNCHANGED <<buffer, c64, wg_state, input, op, text, phase, rekeying, sender, history, lost>>

\* Long enough for the prompt, as the code assumes.
sleep ==
    /\ pc = "sleep" /\ c64 # "printing"
    /\ IF op = "send_message"
       THEN todo' = Chunks(text) /\ phase' = "line" /\ pc' = "wait"
       ELSE pc' = "text" /\ UNCHANGED <<todo, phase>>
    /\ UNCHANGED <<keyboard, c64, wg_state, input, op, text, rekeying, sender, history, lost>>

\* send_message_dma: the text goes where read_input_line stores it ...
StageText ==
    /\ pc = "text"
    /\ line' = text \o SubSeq(line, Len(text) + 1, Len(line))
    /\ Goto("len")
    /\ UNCHANGED <<keyboard, c64, wg_state, len, sender, history, lost>>

\* ... then its length, and RETURN.
StageLen ==
    /\ pc = "len"
    /\ len' = Len(text)
    /\ todo' = <<<<"cr">>>> /\ phase' = "return" /\ pc' = "wait"
    /\ UNCHANGED <<keyboard, c64, wg_state, line, op, text, rekeying, sender, history, lost>>

wait_while_state ==
    /\ pc = "leave"
    /\ IF wg_state # "ACTIVE" THEN Goto("come") ELSE Fail
    /\ UNCHANGED <<keyboard, c64, wg_state, input, sender, history, lost>>

wait_for_state ==
    /\ pc = "come"
    /\ IF wg_state = "ACTIVE" THEN Goto("rekeyed") ELSE Fail
    /\ UNCHANGED <<keyboard, c64, wg_state, input, sender, history, lost>>

\* Back in the loop of the tool.
Resume ==
    /\ pc \in {"rekeyed", "said"}
    /\ pc' = "top" /\ rekeying' = FALSE
    /\ UNCHANGED <<keyboard, c64, wg_state, input, op, text, todo, phase, sender, history, lost>>

\* /quit at the top, Ctrl-C anywhere.
Stop ==
    /\ pc # "exit" /\ Fail
    /\ UNCHANGED <<keyboard, c64, wg_state, input, sender, history, lost>>

\* Mutant: the flag is not looked at.
Refused_never == FALSE

\* The thread refuses a line while the session is renewed.
Refused == rekeying

\* The thread of the chat reads a line.
SenderReads ==
    /\ chat /\ sender = "stdin" /\ ~Refused /\ pc # "exit"
    /\ sender' = "send"
    /\ UNCHANGED <<keyboard, c64, wg_state, input, host, history, lost>>

\* encrypt_transport and send_raw.
SenderSends ==
    /\ sender = "send" /\ pc # "exit"
    /\ sender' = "stdin" /\ lost' = IF rekeying THEN lost + 1 ELSE lost
    /\ UNCHANGED <<keyboard, c64, wg_state, input, host, history>>

Host == \/ StartRekey \/ StartLine \/ _wait_drained \/ write_bytes \/ write_count \/ sleep
        \/ StageText \/ StageLen \/ wait_while_state \/ wait_for_state \/ Resume \/ Stop
        \/ SenderReads \/ SenderSends

Next == (C64 \/ Host) /\ UNCHANGED chat

Spec == Init /\ [][Next]_vars

-----------------------------------------------------------------------------
(* Properties *)

\* send_message and send_message_dma: the C64 sends the line of the turn, whole and
\* once, before the call returns True, sends nothing else, and takes no letter of it
\* for a command of its menu, unless timer_check dropped the session under the turn.
LinesWhole ==
    op \in {"send_message", "send_message_dma"} /\ ~dropped =>
        /\ sent \in {<<>>, <<text>>}
        /\ ran \in {<<>>, <<"M">>}
        /\ pc = "said" => sent = <<text>>

\* rekey returns True only when the session that wg_state shows was established
\* after the call began, however stale the ACTIVE was that it found; and, with nobody
\* else at the keyboard, when the C64 is not in the middle of another handshake, deaf
\* to keys and datagrams, also when letters of an earlier line had started one.
RekeyIsNew == pc = "rekeyed" => renewed /\ (~chat => c64 # "initiate")

\* The chat's thread tests rekeying and sends later, so a line may go out to a C64
\* that is computing (wg_chat.py:113): one in each rekey, not every line after it.
OneLineLost == lost <= 1

=============================================================================
