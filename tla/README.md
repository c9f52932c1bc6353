# TLA+ models of c64-wireguard

A WireGuard client for the Commodore 64: 6502 assembly under `src/`, a Python
responder and host tools under `tools/`. This directory holds TLA+ modules
that model its protocol core and the host tools that judge it, TLC
configurations that check them on small instances, and TLAPS proofs of the main properties for all instances.

Paths below are relative to the repository root.

## 1. The system

### Components

| Component | Source | State | Operations |
|---|---|---|---|
| Session state machine | `src/wg/session.s` | `wg_state`, `wg_peer_*`, handshake buffers | `session_initiate`, `session_handle_packet` (types 2, 3, 4), `session_reset`, `session_send_failed`, `endpoint_update` |
| Handshake | `src/wg/handshake.s` | transcript `hs_c`, `hs_h`, ephemeral, index | `hs_create_initiation`, `hs_process_response`, PSK mixing |
| Cookie reply | `src/wg/cookie.s` | `cookie_buf`, `cookie_valid` | `cookie_handle_type3`, `hs_set_mac2` |
| Transport | `src/wg/transport.s` | send and receive counters, `rw_bitmap`, `rw_counter_max` | `transport_init`, `transport_encrypt`, `transport_decrypt`, `transport_send` |
| Timers | `src/wg/timer.s` | two jiffy snapshots, `hs_timer_armed`, `rekey_pending` | `timer_check` and helpers |
| Timestamps | `src/wg/tai64n.s` | base time, anchor, sequence, last value | `tai64n_sync`, `tai64n_now`, `tai64n_increment` |
| Configuration | `src/wg/config.s`, `src/wg/disk_config.s` | `cfg_*` | `config_read_file` (key L), `config_load` (every initiation) |
| Main loop | `src/boot.s` | `net_initialized`, typed line | poll, timer, key; keys I S H P M L Q |
| UCI backend | `src/net/uci/` | `uci_socket_open`, its id, register protocol | `net_init`, `net_udp_send`, `net_udp_close`, `net_poll` |
| ip65 backend | `src/net/ip65/net.s` | `ip65_listening`, port, ARP pump | the same interface |
| Inner packets | `src/wg/ip_build.s` | packet buffer | ICMP echo, UDP, checksum |
| Entropy, hashing | `src/crypto/` | pools, hash state | straight-line computation |
| Responder | `tools/wg_responder/` | Noise session, greatest timestamp, counters; the server's address, lock and two threads | `handle_initiation`, `encrypt_transport`, `decrypt_transport`, `run_server`, `_stdin_loop`, `send_text` |
| Regression gate | `tools/run_regression.py` | lists of suites, processes, results, the build tree | build, `launch`, `reap`, `restore_default_build`, exit code |
| Device session | `tools/device_session.py`, with `wg_chat.py` and `wg_demo.py` | the device lock, recorded teardown failures | `locked_client`, `teardown_device`, `reset_and_verify`, `restore_idle`, `exit_code_after_teardown` |
| Chat input | `tools/wg_c64_input.py`, `wg_demo.py`, `wg_chat.py` | the KERNAL's keyboard queue, by DMA; the chat's flag and thread | `press_key`, `type_text`, `send_message`, `send_message_dma`, `rekey`, the two loops |
| Firmware check | `tools/u64_firmware.py` | none | `fetch_info`, `describe_build` |
| Hardware checks | `tools/ip65_hw_checks.py` | none: verdicts on a capture and on bytes read | decoder, reassembly, plaintext search, one function per verdict |
| Hardware run | `tools/test_ip65_rrnet_hw.py` | the tap, what was read, the list of results | the stages, `stage_wire`, `summarise` |

The C64 runs one thread: the main loop polls the backend, hands a datagram to
`session_handle_packet`, runs `timer_check`, then serves a key. Handlers call
each other directly; the only interrupt is the KERNAL's jiffy clock, which the
timers and the timestamps read byte by byte while it runs. Everything else that is
concurrent is outside: the peer, the network, the firmware behind the UCI registers,
the user, and a host that writes into the C64's memory.

On the host the responder is one process with two threads over one Noise
session. The tools that drive a C64 are processes that share one device
through a lock; each leaves it to the next one. The gate starts the test suites
as processes over one build tree. What a live test claims is decided by its exit
code, which for the hardware run rests on a capture somebody else may have
started.

### What is hard

* Datagrams are lost, repeated, late or reordered; a response may belong to an
  initiation that was overtaken, a cookie reply to a handshake that is over.
* A send may report failure although the datagram left.
* The user may reload the configuration or start a handshake between any two
  datagrams; a bad file leaves half a configuration.
* A UCI socket is pinned to one endpoint at its first send; an ip65 listener is
  not. Both are closed in order to be reopened by the next send.
* The jiffy clock returns to zero every 24 h; the timers subtract 16 bits.
* The clock is read one byte at a time with its interrupt on. A carry between two
  reads makes the time that has gone by 256 or 65536 jiffies too long, never too
  short. `net_jiffy16` of the ip65 backend reads until the bytes agree
  (`net/ip65/net.s:724-741`); `timer.s` and `tai64n.s` do not.
* Two writes by DMA make one key press, next to a C64 that scans its keyboard and
  reads the queue; a queue that is empty again says that some key was taken, not
  which, and not by whom.
* A typed line holds the main loop, and with it every timer.
* Timestamps must increase for as long as a peer remembers them, across
  midnight, new base times and LOADs of the program.
* The firmware behind the UCI registers answers late or never, its status
  register is not latched for the 6510, and a reply may arrive in blocks; a wait
  that expires leaves its reply behind for the next command to meet.
* The replay window takes two clearing paths and compares counters in pieces.
* The responder's stdin thread encrypts under a lock that the commit of a new
  handshake does not take; its receiving nonce is implicit.
* A suite of the gate may hang, and killing it leaves its `make` behind, writing
  to the tree.
* Any REST call of a teardown may raise with or without its effect, a reset may be
  accepted and not take, and the next tool is already waiting for the lock.
* A capture may be old, clipped, started by somebody else or cut short; a search
  that finds nothing in it proves nothing by itself.

`PROJECT.json` lists these, one hazard per place, with the properties that
would catch it going wrong.

### What makes each component correct

* Replay window: nothing accepted twice, nothing fresh in reach refused.
* Timers: a deadline runs exactly while it should, is never late, is early by no
  more than a torn reading, and every transient state ends.
* Session: ACTIVE means that the peer holds the same keys; no nonce is used
  twice; datagrams go to the configured peer; no datagram takes an active
  session down; whatever closed the receive path, a send opens it again; a cookie goes
  to its issuer, once.
* UCI driver: a datagram is delivered whole or not at all, commands reach the
  firmware intact and name sockets it holds, no socket leaks, every call returns
  and reports what the firmware really did.
* Timestamps: strictly increasing, never behind the clock, ahead of it by a bounded
  lead, accepted after a LOAD.
* Chat input: a line is sent whole and once, and a rekey that reports success has
  seen a new session.
* Responder: one nonce per datagram and key; what is printed is a beginning of
  what was sent; a header fits its ciphertext.
* Gate: it ends, and 0 means that every suite passed undisturbed over the right
  build.
* Device session: a run that calls itself good has left the device as it promised,
  and the lock comes back on every path.
* Hardware run: 0 means watched and no leak; a healthy run passes.

## 2. Modules

| Module | Models | Proofs | Runs |
|---|---|---|---|
| `ReplayWindow` | receive side of `transport.s` | `ReplayWindowProofs` | `MCReplayWindow*.cfg` |
| `Jiffies` | what reading the jiffy clock byte by byte can yield | | with `Timer`, `Tai64n` |
| `Timer` | `timer.s` under the main loop of `boot.s` | `TimerProofs` | `MCTimer*.cfg` |
| `Session` | what the C64 and its peers agree on (abstract) | | |
| `Tunnel` | `session.s` with the parts of `boot.s`, `config.s`, `cookie.s`, `handshake.s`, `transport.s`, `timer.s` and both backends that change its state; the peers; the network; implements `Session` | `TunnelProofs` | `MCTunnel.cfg` |
| `Tai64n` | `tai64n.s`, LOAD, the host clock | `Tai64nProofs` | `MCTai64n.cfg` |
| `Udp` | what a caller of the UCI backend may rely on (abstract) | | |
| `Uci` | `net/uci/net.s` over `net/uci/uci_cmd.s`, register by register; the FPGA and the firmware; implements `Udp` | `UciProofs` | `MCUci.cfg` |
| `Handover` | what the tools that share a device promise each other (abstract) | | |
| `DeviceSession` | `device_session.py`, the tools that use it, `u64_firmware.py`; implements `Handover` | `DeviceSessionProofs` | `MCDeviceSession.cfg` |
| `Gate` | `run_regression.py` | `GateProofs` | `MCGate.cfg` |
| `Responder` | `wg_responder/responder.py` and `server.py`, thread by thread | `ResponderProofs` | `MCResponder.cfg` |
| `HwChecks` | the verdicts of `ip65_hw_checks.py`, as operators | | with `HwRun` |
| `HwRun` | the stages of `test_ip65_rrnet_hw.py`, the cable and the tap | | `MCHwRun.cfg` |
| `Typist` | `wg_c64_input.py` under the loops of `wg_demo.py` and `wg_chat.py`; the C64's main loop, prompt and handshake | | `MCTypist.cfg` |

Definitions carry the names of the routines they model; `map` in
`PROJECT.json` gives the lines. Operators called "Mutant" in their comment are
plausible mistakes, used to show that a property can fail.

**ReplayWindow.** `rw_counter_max` and the set of set bits `rw_bitmap`.
`Window` (2048), `Block` (65536), `ClearLimit` (256) and `RejectLimit` (2^60) are
constants. A datagram is its counter, whether it is long enough and whether its
tag is right. `accepted` and `live` are histories: everything accepted under
the key, and what was accepted since the last full clear.

**Jiffies.** The clock of a state is the value after the tick that may have fallen
between two of the reads, so a torn reading mixes bytes of it with bytes of the value
before: `Copies` for the snapshots of `timer.s` and the anchor of `tai64n.s`, which
take `$A0` first, `ShortReadings` for `timer_elapsed_cmp` (`$A2`, `$A1`) and
`LongReadings` for `tai64n_now` (`$A2`, `$A1`, `$A0`). A reading differs from the clock
only in the jiffy after a carry. Every reading of that jiffy may be torn, which is a
little more than one tick can do.

**Timer.** `pc` walks through poll, timer, key (and the prompt of key M); `Tick`
is the interrupt and may happen between any two of them, at most `MaxPass`
jiffies per pass. Ages of the snapshots are histories in real jiffies, capped
above every threshold. What a datagram says is left open: at any poll a
handshake may succeed, fail or be restarted.

**Tunnel.** One action per call of the main loop. Initiations are numbered; the
number stands for the ephemeral key, the index, MAC1 and the timestamp
(increasing by `Tai64n`). A transport key is the pair of an initiation and a
response to it. The network is a set of everything ever sent. `sock` is the
UCI socket with the endpoint it is pinned to, or the ip65 listener;
`connected` is the backend the image was linked with. `net_udp_send` is the set of its outcomes, among
them a failure report for a datagram that left. Deadlines may be due at any
time (`Timer` says when), and the replay window may refuse any Type 4
(`ReplayWindow` says which). A WG.CFG names a peer and its home endpoint; a
partial load is one of the mixtures that a bad key line leaves. `hs.open` says
that the transcript has absorbed no response yet. The peers follow
`responder.py`; replying with a cookie and roaming are what other WireGuard
peers do, and are marked external in the map.

**Session** has no datagrams, sockets, deadlines, cookies or configurations: the C64
makes numbered offers, a peer answers an offer made to it, in order and once, with a
new key, and the C64 takes the key of its latest offer, if nothing was sent under
it. A key is the pair of the two numbers. Under the mapping in `Tunnel` an initiation
is an offer whatever became of its send, a response that is not accepted or a deadline
that is due ends the session or the wait, and everything that has to do with cookies,
roaming, loading and sockets is a stutter. `ImplementsSession` is checked by TLC and
proved.

**Tai64n.** Seconds and nanoseconds as a record. Anchor and elapsed time are taken from
readings that may be torn (`Jiffies`); `Lead`, what they can add together, and `Reach`,
the second the host's clock will show when it has passed, are stated once. `now` is the
host clock in jiffies; base times are staged from it or from before it. `load_prg` zeroes the
program's variables and leaves the jiffy clock. `greatest` is what a peer that
has seen everything remembers.

**Uci.** One call of `net_udp_send`, `net_poll` or `net_udp_close` at a time; every
read of `UCI_STATUS`, every command and every accept is a step of its own, and
the firmware's three steps (accept a command, stage a block, with data or empty, clear `DATA_ACC`)
fall between any two of them. `edge` says that a block was staged since the last
read: that one read may see each bit of STATE old or new and the queue bits
still low. A unit of `avail` stands for a stretch of bytes, the first one for the
two bytes of the length, the written count or the socket id. A reply carries
the parity of its command, so that a late one is told from the current one. A
pass of a waiting loop that finds nothing may be the last one, which stands for
the budgets of the CIA clock; `expired` remembers that it has happened. The FPGA
and the firmware are modelled from what the code and its comments rely on and
are marked external. The branch for a refused push (`UCI_ERR_CMD_FAILED` and its
relatives) is modelled and shown unreachable by `CommandsIntact`; `SHORT_WRITE`
stands for `UCI_ERR_SEND_FAIL` too. The firmware may also end a block with Data More
and nothing in it, as often as it likes (`FwEmpty`): `net_poll` goes round its `$30` arm
for each (`net/uci/net.s:1598-1611`, "has NO outer bound"), and the gate accepts such blocks of
a stranded reply until its budget is used up (`GateExpires`).

**Udp** has no registers, blocks or waits: a call hands over one order at a time, for a
socket that is held; the firmware carries it out, now, after the call has given up,
or never; and the call reports one of ten results, each of which says something
true (`Truthful`) of what was done with the order of that call. `WAIT_TIMEOUT` and
`NO_SOCKET` say nothing of it, `SHORT_WRITE` only that it was carried out. Under the mapping
in `Uci` an order is pushed at `uci_push` and carried out where the firmware accepts the
command, a reply that holds no whole datagram is the answer 0, and everything
between acceptance and the end of the call is a stutter. `ImplementsUdp` is checked by
TLC and proved.

**Responder.** Each completed handshake has a key of its own. The commit of
`handle_initiation` is one step per assignment, `encrypt_transport` one per read and
write of shared state, so that the two threads interleave as the interpreter lets
them. `lock` covers what `_Session.lock` covers. Everything ever sent stays on the
wire. `Quit` ends the process in any state of the loop and starts it again with
nothing remembered, while the wire and the C64 stay. `overlapped` is the history of
keys for which an encryption ran beside a commit. A datagram that does not
authenticate changes nothing and has no action. What `Tunnel` assumes of a peer (one
answer per initiation, the greatest timestamp kept) is `handle_initiation` here.

**Gate.** A suite is a process that passes, fails or hangs; one of `SERIAL_TESTS` may
have a child `make` at work, which changes `tree` and outlives a kill. A deadline is a
bit. `reap` is one step per suite of a pass, so that suites end between two of
them. `disturbed` is the history of suites that were alive while somebody else
changed the tree.

**DeviceSession.** A lane is one of five tools: a live test, `wg_chat`, a lone
`teardown_device`, `restore_idle`, the firmware check. `dirty` is the set of parts that
are not idle: clock, REU, sockets. Every REST call may raise before or after its
effect; a clock write or a reset may be accepted and not take. `cbm80` is a cartridge
that starts before the RAM test, which leaves the sentinel standing after a good
reset. The conversation of a tool is a step that leaves the device in any state.
`owes` is the history of lanes that used the device and have not issued the reset,
`stuck` that of lanes that could not give the lock back: `release()` raised, or Ctrl-C
struck while the client was being built, before there is anything to release it with.

**Handover** has a holder, a device, and for every lane what it promised, whether it
kept that when it let go, and what it says of its run. Under the mapping in
`DeviceSession` (`says` is the exit code, with 0 and 77 good) every step of a tool is
a step of `Handover` or a stutter; `ImplementsHandover` is checked by TLC and proved.

**HwChecks, HwRun.** Text is a sequence of letters, each with the block of the
character set it is written in; a frame is its source, date, fragment fields and
body. `HwChecks` translates the search (reassembly by fragment offset, four forms,
partial runs, padding, frames that are not IP) and the verdicts. `HwRun` drives them:
the capture is started here, found running, found dead, clipped or switched off;
every reading from the C64 may be any value; meanwhile the tap may die, a third
station may speak, and the plaintext may get onto the cable in seven shapes. The
histories `leaked`, `third`, `reused` and `faulty` say what really happened. The
sentinel is released by `type4_in`, which counts a datagram before it is decrypted;
`heard` is set by what was decrypted.
`pair_echoes` and `check_ip65_config_written` are in the library of checks and in no
stage of the run: `MCHwRun` compares them with a reference definition over every
capture of up to four echo frames and every small configuration.

**Typist.** The queue (`buffer`, `count`), the C64 as what it is at (main loop,
computing an initiation or a response, printing the prompt, in the prompt), and one
call of the host at a time, step by step: every write of a key and of a count and
every reading of the count or of `wg_state` is a step of its own. A wait may end at any
reading that is not the one waited for. `chat` is the tool: the dialogue has the
keyboard for itself, in the chat somebody at the C64 presses keys at any time
(`SCNKEY`), and a thread sends what is typed on the host. GETIN and the scan are one
step each. The pause after key M is taken to be long enough for the prompt to appear,
as the code takes it (`sleep`). The menu keys I, S, P and L do nothing here; what
they do is in `Tunnel`.

`Tunnel` and `Uci` meet at the interface of the backend, which `Udp` states: a send that
reports success has left (`"sent"`), one that reports anything else may or may not
have, now or later, and a socket that is open is held by the firmware. These are the
outcomes `Tunnel` allows `net_udp_send`, and what makes its one `sock` variable enough.

## 3. Runs

| Run | Result | Shows |
|---|---|---|
| `window` | pass | `BitmapExact`, `LiveNotReplayable`, `FreshAccepted` |
| `window_replay` | violation of `NoReplay` | see findings |
| `timer` | pass | `HandshakeEnds`, `SessionEnds`, `KeepaliveInTime`, and `DropsInTime` wherever the clock has not wrapped since the snapshot, readings torn |
| `timer_midnight` | violation of `ElapsedTrue` | see findings |
| `tunnel` | pass | `ImplementsSession`, `SessionAgreement`, `NonceFresh`, `PinnedToPeer`, `TranscriptFresh`, `CookieForPeer`, `CookieAnsweredOnce`, `ReceiveKeepsSession`, `SendReopens`, on either backend with peers that move |
| `tai64n` | pass | `StampsIncrease`, `LeadBounded`, `KeepsUp`, `AcceptedAfterLoad`, with torn readings and a nanosecond field that overflows |
| `uci` | pass | `DeliveredWhole`, `NeverDropsWhole`, `CommandsIntact`, `SocketHeld`, `CallReturns`, `ImplementsUdp` |
| `gate` | pass | `ExitZeroHonest`, `PoolUndisturbed`, `GateEnds` |
| `device` | pass | `ImplementsHandover`, `ResetReached`, `LockReturned` |
| `responder` | pass | `OneNonceEach`, `HeardInOrder` |
| `hwrun` | pass | `PassMeansNoLeak`, `PassMeansWatched`, `HealthyRunPasses` |
| `typist` | pass | `LinesWhole`, `RekeyIsNew`, `OneLineLost`, in the dialogue and in the chat |

**Bounds.** The window has a few positions, two blocks' worth of counters and a
clear limit below the window, so that both clearing paths, a block boundary and
several laps happen. Timer thresholds keep the order of the code's (keepalive <
handshake < rekey < expire < word < day), and the clock runs through midnight
for ever; a byte of it has two values, so that every other jiffy may tear a reading. In `tunnel` a
UCI image makes two initiations and loads two configurations, for two peers: enough for
a stale response with a reload in between. An ip65 image loads one, for one peer, and
makes three initiations, for a cookie retry that is overtaken. One peer moves once; which one
does not matter, the peers differ in their names only (`Bounds` of `MCTunnel`). Every datagram
may be received any number of times. The TAI64N run
covers nearly two days of 14 jiffies, with bytes of two values and words of four, so
that either byte can carry. In `uci` a
datagram has up to three units in blocks of two, so that it takes one block, two,
or ends early in either, with any number of empty blocks in between; more than two
with data do not occur (1472 bytes at most, 893 to a block). Two sockets are enough for one to leak and for a refusal. The number
of calls is not bounded. `gate` has three pool suites for two slots, so that one
waits, and two suites that rebuild, so that the make of a killed one meets the
next. `device` has two lanes, each any of the five tools, on a device in any state: a
third lane only waits longer. `responder` has two addresses, two initiations, two
handshakes and two datagrams each way under a key: enough for a commit between
any two steps of an encryption, a repeated initiation and a restart. In `hwrun`
texts have four letters, a partial run is reported from three on, and there is one
frame from outside the script per run (two stray frames only combine what one
does). In `typist` the queue has two places; lines have up to four keys, so that they take
two chunks and are clipped to three, and consist of M and H, the two letters that are
commands here; in the chat two keys are pressed at the C64 during a call, enough to open
the prompt and to displace a key of the host.

`MCTunnel.cfg`, `MCTai64n.cfg` and `MCResponder.cfg` switch off the deadlock check
because their bounds run out: the program itself always has a next step.
`MCGate.cfg`, `MCDeviceSession.cfg`, `MCHwRun.cfg` and `MCTypist.cfg` do because those
programs end.

**Fairness.** In `Timer`, weak fairness of the main loop, which is an endless
loop with bounded calls, and of the clock interrupt. The user is under no
obligation: no key is fair, and `read_input_line` may wait for ever, which is why
`SessionEnds` excepts the prompt. In `Uci`, weak fairness of the 6510 inside a call
(its fences and loops are counted, nothing blocks it), never of the caller and
never of the firmware: `CallReturns` holds although the firmware may stop for
ever. It has one exception, stated in it: a call that keeps going round the `$30` arm
because empty Data More blocks never end (`SpinsOnEmptyBlocks`), which the code admits
to. The gate's pass over such blocks does end, because one budget covers all of them:
that is the weak fairness of `GateExpires`. A pass of a waiting loop that finds nothing changes no variable, so weak
fairness asks that such a loop is left in the end, as its budget makes sure.
In `Gate`, weak fairness of the gate's own process and of the deadlines, never of a
suite or of its make: `GateEnds` holds although every suite may hang. It does assume
that the `make` the gate runs itself ends, in the first build and in
`restore_default_build` (`run_regression.py:537` and `773`): those two calls have no
timeout, and a compiler that hangs there hangs the gate. `DeviceSession`, `Responder`,
`HwRun` and `Typist` state safety only.

## 4. Proofs

* `ReplayWindowProofs`: `WindowInv` (the bitmap is exactly the live counters inside
  the window, nothing accepted is above the maximum) is inductive; the
  arithmetic fact behind it is that positions modulo `Window` are distinct for
  counters less than `Window` apart. `NoReplayIfClearCoversWindow` shows what the
  code lacks: with a bit-by-bit clear for every advance shorter than the
  window, `NoReplay` holds.
* `TimerProofs`: `ArmedExactlyInHandshake` with the type invariant, and
  `DropsInTime`: where the snapshot and the clock are apart by the true age, the 16-bit
  comparison is that of the ages, but for the 256 jiffies that a torn snapshot and the
  256 that a torn reading can add (`SeenInv` says what a snapshot may be). No session
  passes its limit; one may be dropped before it, by less than two bytes of jiffies and
  only if a tick tore a reading. `KeepaliveNeverLate` goes across
  midnight as well: since the last send the clock has returned to zero at most once,
  and then the 16-bit difference is off by what midnight takes from it,
  `Day % Word`. As long as `Keepalive + MaxPass + 2 * Byte` is no more than that, which is
  the hypothesis of the theorem (600 jiffies, one pass and 512 against 6656), a wrong
  difference is too large, so that a keepalive may be early and is never late. The same
  argument gives `HandshakeNeverStuck`: `HS_SENT` lasts no longer than the deadline and one
  pass, provided that 5400 jiffies, a pass and 512 are no more than 6656; a pass cannot be
  a prompt there (`HandshakeInv`). The limit of a session, 10800, is above 6656, and
  midnight can make its expiry late (finding 2). `SessionNeverOverstays` says by how much:
  by less than `Day % Word` and one pass, provided that the limit, that remainder, the
  longest pass, a prompt included, and 512 stay within 2^16 jiffies (`ExpiryInv`). No run
  checks these two, because the constants of `MCTimer.cfg` do not meet their hypotheses:
  they are chosen to let the keepalive go through every midnight and a prompt outlast
  the 16 bits.
* `TunnelProofs`: `TunnelInv`. `SessionAgreement` is not inductive: that a peer's
  session is still the one the C64 has just completed needs that the peer has
  seen no later initiation, which needs that none exists (`InitsBehind`,
  `PeersBehind`), that a peer answers an initiation once (`AnsweredOnce`) and that
  every key used comes from an initiation already made (`KeysBehind`).
  `ReceiveKeepsSession` and `SendReopens` are proved for either backend, the second with
  `PortKnown`: on ip65 nothing is initialized without a port to claim again.
  `KeyAgreement` is the refinement of `Session`, one lemma per kind of step. It also needs that a peer's session is the one of the greatest initiation it has
  seen (`HeldIsGreatest`); that an accepted response carries the key its peer still holds
  is `AnsweredOnce` between `PeersBehind` and the number of the initiation.
* `Tai64nProofs`: `StampsIncrease` from the guard and the carry, whatever is read; `LeadBounded`
  and `AcceptedAfterLoad` from `StampInv`: anchors lie in the past but for the word that a
  torn one lacks (`AnchorPast`), the nanoseconds count initiations (`FewStamps`). Both speak of the time before the
  nanosecond field has been counted through (2^32 initiations). `StampsKeepUp`: for a
  day, less what torn readings can add, the two readings of the jiffy clock tell at least
  the time since the anchor, with or without a midnight between them (`CountsUp`).
* `UciProofs`: `UciInv`. `CommandsIntact` needs to know who may move: an interface that
  is idle, or whose last block is staged, is not changed by the firmware
  (`Handshake`). So the second read of the gate, which no edge can have spoiled,
  is true when it says idle, and stays true until the push (`GateSound`). `SocketHeld`
  needs that the firmware drops a socket only for the close that names it, which
  the C64 either waits for or has answered by forgetting the socket
  (`OpenIsHeld`, `OwnCommand`), and that an id is taken only from the reply to one's own
  connect (`ConnectAnswered`). `DeliveredWhole` and `NeverDropsWhole` rest on `CopyInv`: the queue
  and the blocks not yet staged are together what is left of the reply (`QueueInStep`),
  the reply read is that to the command written (`ReadAnswered`), the header is taken
  from a block that is past its edge (`HeaderFirst`), and the copy reaches to the head of
  the queue (`CopyInStep`). Its last part is why two agreeing reads are enough: as long as a
  continuation is due, or its edge has not been read, the previous read cannot have
  said that the reply is over, and one edge spoils one read only. `NoSocketLeaks` rests on
  `PoolExact`, which says what the firmware holds at every step of a call. The only
  assumption this adds is that the length of a datagram is never the no-data mark
  `NoData` (`MaxLen < 65535`; 1472 in the code). `BackendTruthful`, the refinement of `Udp`,
  takes `ServiceInv`: on top of `CopyInv`, the command is the one the call wants and names
  its socket (`OrderInStep`), and the verdict with which a call is about to end is true
  of the reply (`EndTruthful`). `StepEffects` sorts the steps: five actions are visible or
  need care, every other one is quiet or gives the call up; each kind has a lemma.
  That a reply is the one to this call comes from `GateSound` and `OwnCommand`; that an empty,
  long or short read is no whole datagram is `NeverDropsWhole`.
* `GateProofs`: what changes the tree is a suite in `running` or the make of one that
  was killed (`Makers`), a kill is in `results` for good (`Counted`), and the serial
  suites start only when no pool suite is alive (`Phases`). A killed suite makes the
  exit code 1, so where it is 0 no make is left.
* `DeviceSessionProofs`: while a lane holds the lock nobody else changes the device,
  so what its result says of a stage stays true until it lets go (`LockOf`, `ResultOf`);
  a lane that recorded no failure therefore hands over what it promised (`HonestOf`).
  That gives `ToolsKeepPromise`, the refinement of `Handover`, step by step. The
  invariant of `ResetAlwaysReached` is that a lane owes the reset only in front of it, and
  that of `LockAlwaysReturned` that the lock is held from acquire to release and after it
  only by a lane in `stuck`.
* `ResponderProofs`: `Heard` (the receiving nonce is the length of what was heard);
  `Nonces` (a key's sending nonce is above every nonce used, and a datagram under
  construction is not on the wire yet); and for headers `Places` and `Aligned`: outside
  a commit, header counter and nonce of the key in use are equal, and where they
  could come apart the key is in `overlapped`. Without `overlapped` the property is
  false, see section 5.

Assumptions on constants are in the modules that declare them and are
evaluated by TLC on every run.

Only model-checked:

* the liveness properties `HandshakeEnds`, `SessionEnds`, `CallReturns` and `GateEnds`:
  fairness is out of the prover's reach;
* the three properties of `HwRun`. What they say depends on the result of sorting,
  filtering and folding captures of any length (`reassemble`, the four forms of the
  search): facts about what a recursive definition computes, which need an induction
  over data that the prover cannot do. `MCHwRun` covers every capture of its bounds;
* the three properties of `Typist`: lines are cut into chunks and clipped, an induction over data again;
* the runs with a violation, which show a counterexample.

Every other property of a passing run is stated by a theorem. Three properties are proved
and in no run: `ArmedExactlyInHandshake` (`Timer`), which `HandshakeEnds` rests on;
`NoSocketLeaks` (`Uci`), as long as no wait has expired; and `HeaderFits` (`Responder`), for keys
whose commit no encryption overlapped.

## 5. Findings

1. **A long advance forgets the window** (`window_replay`). An advance of 256 or
   more clears all 2048 bits although up to 1792 of them stand for counters
   still inside the window.
2. **Midnight** (`timer_midnight`). `timer_elapsed_cmp` has no correction for the
   clock's return to zero; a deadline is early or late across it. `tai64n_now` has
   the correction.

Behaviour that is in the models, that a reader might not expect, and that no
run is devoted to:

* Torn timestamps: `tai64n.s:177-178` calls the elapsed time exact for 24 h; a carry between
  the reads of the clock's bytes makes it 256 or 65536 jiffies too long. `LeadBounded`
  says what that can cost: torn readings do not add up.
* Roaming on ip65: `session.s:571-573` says that nothing is lost by closing, since a socket
  pinned to the old address could not receive from the new one. The ip65 listener is
  pinned to nobody and has just heard the new address; after the close the C64 is
  deaf until it sends (`SendReopens`). The session stays up (`ReceiveKeepsSession`).
* The sentinel's guard: the comment at `test_ip65_rrnet_hw.py:3220-3222` asks for something
  decrypted, the code for a Type 4 received. `PassMeansWatched` holds all the same, since
  a pass needs a decrypted payload.
* A key that was never taken: a key pressed at the C64 between the two writes of
  `press_key` takes the place of the host's, and `press_key` returns True, although
  `wg_c64_input.py:57` says that it returns False if the key was never consumed.
* A session that expires under a rekey: the key H may become a letter of a line somebody
  is typing at the C64. Then no handshake runs, `timer_check` does, and the drop it makes
  is taken for the first half of a handshake, which `wg_c64_input.py:199-200` rules out.
  `RekeyIsNew` still holds: nothing but a new session ends the second half.
* Sends during a rekey: `wg_chat.py:87-88` says that they are refused; `sender` tests the flag
  and sends later, so that one line can still be lost to each rekey (`OneLineLost`).
* The window ends at a 65536 boundary: the high bytes of the counters are
  compared, not those of their difference (`SameBlock`, a premise of `FreshAccepted`).
* A line typed past the expiry is sent: `read_input_line` looks at the state once,
  before the prompt.
* A stale response kills the current handshake, whose genuine response may be on
  its way (`type2` of `Tunnel`; `TranscriptFresh` says why it must be given up).
* `net_poll` does not return while the firmware sends empty Data More blocks
  (`SpinsOnEmptyBlocks`, the exception of `CallReturns`).
* A torn reading ends a session, a handshake or a keepalive interval up to 512 jiffies
  early (`DropsInTime`).
* If `timer_check` drops the session between the dialogue's look at `wg_state` and the key
  M, the letters of the line run as commands of the menu (the exception of
  `LinesWhole`). `RekeyIsNew` covers what an H among them starts.
* The responder: a line typed while a new handshake is committed may be encrypted
  under one key and carry the counter, the index or the address of another. The C64
  drops it, and after it possibly every line until the next handshake, since the
  header counter stays apart from the nonce; no nonce is repeated. After a lost
  datagram the responder hears nothing more in that session.
* The gate: the make of a suite that was killed may go on writing to the tree after
  the gate has exited, always with 1.
* The teardown: `set_reu` is believed without a read-back, and so is the clock in
  `restore_idle`, which promises nothing. With a cartridge that starts before the RAM
  test a good reset reads as failed: the run is red, never wrongly green.
* The hardware run: what is leaked after the sentinel is not promised to be found
  (`leaked = "late"`).

## 6. Not modelled

The arithmetic of the cryptography (abstracted to what it authenticates), the
payload of a Type 4, `tp_recv_counter` (written, not used by the window), the soft
rekey limit on the send counter, `rekey_pending` beyond being raised (no code reads
it, whatever the timer list of the repository's README says), key Q and start-up.
The jiffy clock stands still while X25519 masks interrupts: ages are counted in
jiffies, as the code counts them.

Of the host tools: an exception that escapes `run_server` ends the process (it is
`Quit`); the PETSCII conversions of the responder's console and the truncation of a
typed line; `describe_tree` and `self_check` of the gate; the texts of the conversations
of `wg_chat` and `wg_demo`, and an exception of the transport under them; of the hardware run the bring-up of the rig, loading, the cartridge
preference, the restore of the device on exit, and `provenance`, `net_error_table` and
`resolve_symbols`, which only describe. A tcpdump that drops frames silently is not
modelled (a dying one is); the slack of the bracket's two times, partial leaks in
padding and several datagrams with one identifier are outside the abstraction of
frames. `vice_eth_rig.py`, the 6502 simulator and the benchmarks keep no
state of their own that a model could check.

Three hazards of the list have no property: the key displaced between the writes of
`press_key` (section 5), the chunked send of `UCI_CHUNKED_WRITE` (`net/uci/net.s:586`) and the
receive callback inside ip65's ARP wait (`net/ip65/net.s:752`). The last two come first in
what is left of the plan:

1. `Uci`: the chunked sends, `net_init` with `uci_abort`, `uci_tod_start` and DHCP, key Q.
2. `Ip65Backend`: listener table, ARP pump with the receive callback inside a
   send, the single receive buffer.
3. `DiskConfig` and `IpBuild`: the parsers and packet builders against reference
   definitions.
4. Proofs about what 1 to 3 add.
