# BinModem in TLA+

BinModem is a software modem: signal processing at the bottom, and on top of it
the protocols a modem call carries, from V.42 error control to ZMODEM, PPP, TCP,
T.30 fax and SIP. The protocol engines are plain state machines (`struct`s with
`feed`/`receive`, `tick`, `take_*`), with no thread of their own: one audio loop
clocks them. What makes them hard is that two of them face each other over a
line that loses or damages what it carries, with timers that run on both sides.

This directory holds TLA+ models of those engines, TLC configurations that check
small instances of them, and TLAPS proofs of what holds for every instance. All
paths below are relative to the repository root.

## 1. Inventory

Every component with its sources and status is in `PROJECT.json`; this is what
each of them keeps and does, and what makes it correct.

### Link layer (`crates/ec`)

| Component | State it keeps | Operations | Talks to |
|---|---|---|---|
| LAPM entity, `lapm.rs` | `state`, V(S) V(A) V(R), `pending`, `unacked`, `held`, `peer_busy`, `reject_sent`, `ack_pending`, `timer_recovery`, T401, `retries` | `connect`, `disconnect`, `send_data`, `receive` (one handler per frame type), `pump`, `tick` | frames to and from the peer's entity; events to the stack |
| V.42 stack, `stack.rs` | phase, detection, XID exchange, codec, `undecodable`, `agreed_fcs` | `next_bit`, `feed_bit`, `tick`, `send`, `disconnect`; `drain` re-establishes after undecodable data | bits to the data pump, octets to the terminal |
| Detection, `detect.rs` | ODP/ADP counters, T400 | `transmit`, `receive`, `tick` | the far end's detection |
| HDLC, XID encoding, V.42bis, V.44 | codecs and dictionaries | | |

Hard: a lost last frame; the one outstanding REJ being lost; T401 shorter than
the round trip; a repeated SABME in the middle of a connection; frames of the old
connection crossing a reset; comparisons modulo 128 with a full window.
Correct when: what one user hands over reaches the other in order, once, without
a gap unless someone was told; nothing waits without a timer; a release ends.

### File transfer (`crates/transfer`)

| Component | State | Operations | Talks to |
|---|---|---|---|
| ZMODEM sender, `send.rs` | `state`, `at`, `overlap`, `holding`, `owe_header`, `frame_open`, `waited` | `new`, `feed`/`act`, `set_room`/`fill`, `tick`, `cancel` | octets on the line, driven by `step_job` of `crates/gui/src/live.rs` |
| ZMODEM receiver, `receive.rs` | `state`, `file`, `data`, `arrived`, `in_data`, `asked_at`, `complete`, `waited` | `feed`/`step`/`act`, `tick`, `cancel` | the same |
| Codecs: escaping, check sequences, headers | none | | |

Hard: the line has no error control of its own, so any piece may be damaged; the
receiver's timer fires in the middle of a healthy stream; a ZRPOS crosses the
data it takes back; a ZEOF or ZFIN is lost; a cancel crosses everything.
Correct when: what the receiver holds is always a beginning of the file, it is
kept whole and once, both ends stop, and they agree on whether it arrived.

### Networking (`crates/ppp`, `crates/tcp`, `crates/proxy`)

| Component | State | Operations | Talks to |
|---|---|---|---|
| PPP automaton, `control.rs`, `session.rs` | RFC 1661 state, restart counter and timer, identifiers, protocol's options | `open`, `close`, `up`, `down`, `tick`, `receive`, `reject_protocol`, `refused` | the far end's automaton; reports to the link |
| PPP link, `link.rs` | phase, LCP and IPCP sessions, authentication both ways, counters | `open`, `close`, `feed`, `tick`, `send_payload` | both sessions, framing, IP |
| TCP connection, `connection.rs` | RFC 9293 state, SND/RCV variables, queues, RTO, retransmissions, MSS | `listen`, `connect`, `send`, `close`, `abort`, `receive`, `tick` | segments through `stack.rs` |
| PPP authentication, `auth.rs` | what is outstanding, tries, timer, outcome | prover: `request`, `receive`, `tick`; authenticator: `challenge`, `receive`, `settle`, `tick` | the same at the far end; the outcome to the link |
| TCP stack, `stack.rs` | a table of at most 64 connections, listening ports | `deliver`, `find`, `collect`, `tick`, `connect`, `send`, `take_received`, `close`, `abort` | packets, programs |
| Proxy, `server.rs`, `gateway.rs` | per relay: a TCP connection, a socket, octets in each direction | `deliver`, `tick`, a thread per socket being opened | TCP stack, operating system |

Hard: lost or late Configure-Requests against the restart timer; LCP negotiated
again under a running IPCP; a verdict on a password that is lost; simultaneous
open and close; a zero window nobody reopens; a FIN that overtakes data; a socket
that opens after its relay has gone.
Correct when: both ends agree on the options in force when they are open;
termination always completes; a stream is delivered in order and without loss;
whatever a relay took is passed on or the other side is told.

### Calls and control (`crates/sip`, `crates/modem`, `crates/at`, `crates/login`, `crates/fax`)

| Component | State | Operations | Talks to |
|---|---|---|---|
| SIP user agent, `ua.rs` | registration; the call and its dialog; `invite`, `cancel`, `bye`, `answer` being repeated; the wish to cancel; the number held; the INVITE ringing here; answers kept for repeated requests | commands by channel (`dial`, `answer`, `hang_up`), `handle` for what arrives, `service_timers`, `link_news`, `shut_down` | registrar, proxy, far end, media thread; events to `gui/src/live.rs` |
| Jitter buffer, `jitter.rs` | packets by extended sequence number, depth, counters | `push`, `drain`, `restart` | the media thread |
| Modem call, `modem/src/lib.rs` | state, pump, error control, retrains, guards | `feed_dte`, `step` per sample, `tick`, `hang_up`, `carrier_lost`, `ask_for_retrain`, `retrain` | pump, V.42 stack, AT |
| AT interpreter and escape, `at` | registers; a `+++` timed automaton | `feed`, `take_actions`; the escape's `idle`, `data` | the terminal |
| Fax session, `fax` | T.30 phase, ECM block and its map of bad frames | per-frame handlers, T1/T2/T4 | V.21 and the page pumps |
| Login server, `login` | a scripted dialogue | `feed`, `tick`, `take_output` | the terminal |

Hard: hanging up is asked again every few milliseconds and must make one BYE or
one CANCEL; CANCEL crossing a 200; a number dialled during the last call's end;
a straggler across the 16-bit wrap; a carrier lost during a retrain.
Correct when: each call ends with one release, at both ends; a dialled number is
placed or given up; audio is given out in order; `+++` escapes only between
guard times.

### Left out for good

Data pumps and DSP (`datapump`, `dsp`, `v8`: floating-point signal processing,
out of TLC's reach; what they make of the line is the lossy line of the models),
the audio line (device I/O), image coders of fax (data), Telnet, terminal, HTTP
and telemetry (stream parsers with direct tests), the GUI (display).

### Hazards

`PROJECT.json` lists 38 places in this code that a test would hardly reach, with
the properties that watch each; one that no property covers, or that a property
excuses, says why. The properties were chosen from that list.

## 2. Modules

```
ReliableLink  <--refines--  MCLapm --extends--> Lapm --extends--> LapmEntity
                            LapmProofs ---------^   (TLAPS)
                            LinkProofs --extends--> MCLapm, LapmProofs, Induction   (TLAPS)

FileTransfer  <--refines--  MCZmodem --extends--> Zmodem --extends--> ZmodemEnds
                            ZmodemProofs --extends--> MCZmodem   (TLAPS)

MCPpp --extends--> Ppp --> PppLink --> PppAuth --> PppSession --> PppAutomaton
PppProofs ---------^   (TLAPS)

ByteStream  <--refines--  Tcp --extends--> TcpEnd --> TcpConnection
                          MCTcp -----^
                          TcpProofs --extends--> Tcp, Induction   (TLAPS)

CallLife  <--refines--  MCSip --extends--> Sip --extends--> SipAgent
                        SipProofs ---------^   (TLAPS)
                        CallProofs --extends--> SipProofs   (TLAPS)
```

A component's methods are operators from the record before a call to the record
after it, composed in the order in which the source makes the calls. The module
above holds the variables, the line and the actions.

### LAPM: `LapmEntity`, `Lapm`, `ReliableLink`

`LapmEntity` is `struct Lapm`: field for field, but for T401, which is a Boolean
(armed or not). A payload is the number of the chunk handed to `send_data`.
`Plus`, `Ahead` and `InWindow` are the arithmetic modulo `MODULUS`.

| Action of `Lapm` | Code |
|---|---|
| `BeginProtocol` | `Stack::begin_protocol`, `Lapm::connect` |
| `UserSends`, `UserReleases` | `Stack::send`, `Stack::disconnect` |
| `Transmit` | `next_bit` with the encoder empty: `pump`, and everything in `out` goes onto the line |
| `Lose` | a frame whose check sequence fails is dropped by `feed_bit` |
| `RecvSabme` .. `RecvI`, `Discard` | the arms of `Lapm::receive`, the stand-in for a UA included |
| `Undecodable` | `drain`: the data of an I frame that was taken does not decode; `connect`, or `disconnect` after `UNDECODABLE_RESETS` |
| `GiveUp`, `AskAgain`, `ReleaseAgain`, `Poll` | `Lapm::tick` when T401 has run out |

Time is not counted. T401 is meant to outlast a round trip, so an armed timer
expires when nothing is on its way and neither end has anything to say (`Quiet`).
A value too short for the line, which the comment on `t401_for` reports from real
calls, is an expiry before that, at most `MaxEarly` times, in the states
`EarlyIn`. The line keeps frames in order, loses at most `MaxLoss` and duplicates
none: that is a telephone line with a check sequence.

`ReliableLink` is the promise to the two users; `MCLapm!LinkSpec` says that the
entities implement it. The refinement reads what each user was given out of
`events`, and `settled` is that an end has asked for no release and been told of
no release or reset: only then may a chunk be missing.

### ZMODEM: `ZmodemEnds`, `Zmodem`, `FileTransfer`

`ZmodemEnds` holds `Sender` and `Receiver`. What travels is cut into the pieces
the protocol reads as one (a header, a subpacket, "OO", a cancel), a position
counts subpackets and the file is `<<1, .., FileLen>>`, so that a subpacket
taken at the wrong place shows. The line damages pieces and takes none away whole:
what is left is `Noise` (neither a header nor an ending can be made out) or
`Spoiled` (an ending is found and the check fails). The history variable `only_checks`
says that so far only checks of file data have failed.

| Action of `Zmodem` | Code |
|---|---|
| `SenderHears(n)` | `Sender::feed` with one header, or two that came in one burst, and the `fill` that follows |
| `SenderFills` | `set_room` when the line has drained |
| `SenderTimesOut`, `ReceiverTimesOut` | `tick` when the response time is up and pieces are still crossing |
| `ReceiverReads` | `Receiver::step`: a header where one is looked for, a subpacket where one is expected |
| `ReceiverMisreads` | the search for an ending runs over headers: one octet dropped, and with it a binary header; a hex header is found again |
| `..Cancels`, `..Cancelled` | `cancel`; five CANs act on arrival, ahead of what is not read |
| `Silence` | nothing can be read by anyone: a response interval passes at both ends (`tick`), or patience ends |

`to_receiver` stands for the line and for `Receiver::inbox` together, because
what cannot be read yet waits at the head of the inbox.

### PPP: `PppAutomaton`, `PppSession`, `PppAuth`, `PppLink`, `Ppp`

`PppAutomaton` is the table of RFC 1661 4.1 as `control.rs` has it: a row per
event, an entry per state. `PppSession` is `Session`, once for LCP and once for
IPCP: what an entry's actions do (`Fire`), identifiers, the restart counter and
timer, and the review of a request. `PppAuth` is `Prover` and `Authenticator`.
`PppLink` is `Link`: the phases, and `Pump`, the rounds in which reports of one
layer move the next. A frame is readable by the far end only under the character
map in force there, which is why LCP is always sent in the clear.

| Action of `Ppp` | Code |
|---|---|
| `OpenEnd`, `CloseEnd` | `Link::open`, `Link::close` |
| `ReceiveLcp`, `ReceiveIpcp`, `ReceiveAuth` | `Link::feed` with one frame, and `pump` |
| `Lose` | a frame the deframer discards |
| `Interval` | `Link::tick`: a restart interval when nothing is on its way |
| `EarlyInterval` | the same while frames are still crossing |

### TCP: `TcpConnection`, `TcpEnd`, `Tcp`, `ByteStream`

`TcpConnection` is `Connection` and what it sends; `TcpEnd` what it does with a
segment and a deadline; `Tcp` two `Stack`s with one pair of ports, their programs
and the network. Sequence numbers are modulo `SeqSpace`, octets are numbered so
that one at the wrong place shows, and the round-trip estimate is left out: a
retransmission timer is due (`Overdue`) when nothing it could be waiting for is
still to come, or early, as a fault.

| Action of `Tcp` | Code |
|---|---|
| `Connect`, `Write`, `Read`, `Close`, `AbortOpen` | the calls of a program, and `collect` |
| `Arrive` | `Stack::deliver`: `find`, a listening port, or a reset; then `Connection::receive` |
| `Disturb` | the network loses, repeats or reorders (external) |
| `Passes`, `PassesEarly` | `Stack::tick` with one or more deadlines due |

`ByteStream` is the promise to the two programs: what one reads is a beginning of
what the other wrote.

### SIP: `SipAgent`, `Sip`, `CallLife`

`SipAgent` is `Worker` of `ua.rs`, one operator per method; a call is the number of
the dial that made it, which stands for Call-ID and tags, and a request's method,
call and number for its branch. `Sip` is two of them, the datagrams or connection
between them and a proxy (external) that may ask for credentials. The proxy asks before
it has passed an INVITE of the call on, and not for a copy of one that went through: the
history variable `passed` says which did.

| Action of `Sip` | Code |
|---|---|
| `Dial`, `Answer`, `HangUp` | the arms of `take_commands` |
| `Quit`, `Leave` | `shut_down`, the end of `wait_briefly` |
| `Receive` | one turn of `run` with a message: `handle` |
| `Lose`, `Repeat`, `Overtake` | UDP (external) |
| `Challenges` | 407, with or without the code's own further attempt (`Stale`) |
| `Break` | the connection goes and `link_news` has it made again |
| `ResendOne`, `ExpireOne`, `HeldIsServed`, `HeldTooLong`, `Forget` | the parts of `service_timers` |

Time is not counted here either: retransmission intervals (half a second and up)
are far longer than a message takes, so a timer runs out only when nothing is on
its way, after at most `MaxTries` retransmissions for each deadline.
`CallLife` is the promise to the modem: which events of a call may follow which.

## 3. Runs

Bounds are per configuration. `K < Modulus` is the smallest that keeps the
window arithmetic honest: `Modulus = 3, K = 2` makes every window one short of the
whole circle, as tight as the assumption allows (the code's 128 and 15 are far
looser), so numbers wrap with three chunks.

| Run | Checks | Bounds, and why they are enough |
|---|---|---|
| `lapm_gbn` | `TypeOK`, `WindowInv`, `NoSilentWait`, `NothingForgotten`, `LinkSpec` | three chunks one way (the numbers wrap), one back (acknowledgements ride on data), two losses (a frame and its REJ, a frame and the poll for it), one early T401, one release |
| `lapm_srej` | `NothingForgotten`, `LinkSpec` | modulus 5, K 2, five chunks: the numbers wrap past a frame that is held or repeated; the answerer sends none (section 4 says why) |
| `lapm_live` | `AllArrive`, `ReleaseEnds` | any two losses, a frame and its one REJ among them, with N400 of 3 (after N400 losses in a row the link may give up), three chunks one way; two undecodable streams with `UndecodableResets = 1`: both branches of `drain`, with the release of the other end's user |
| `lapm_old_frames` | `OldFramesStayOut`, violated | finding 1 |
| `zmodem_session` | `TypeOK`, `FileArrives`, `TransferSpec`, `SessionEnds` | three subpackets and room for two (a frame is cut and resumed), any two pieces damaged, one early timer at each end, one cancel at either; where only subpackets of the file failed their checks and the receiver's timer fired in the stream, the case of the code's own loopback test with the timer it leaves out, the file is there |
| `zmodem_done` | `DoneMeansArrived`, violated | finding 2 |
| `ppp_call` | `TypeOK`, `TimerRuns`, `NothingLeftOver`, `NetworkAgreed`, `NotLetIn`, `PapAccepted`, `LinkOpens`, `CloseEnds` | four calls (no authentication; PAP with the right and a wrong password; CHAP with a wrong one), one frame lost, one early interval, one close by the caller: a lost verdict, a Configure-Request repeated too soon and a layer that closes while the other still negotiates |
| `ppp_chap` | `ChapAccepted`, violated | finding 3 |
| `tcp_session` | `TypeOK`, `TimerRuns`, `Agreed`, `ClosingIsTheEnd`, `FinIsTheEnd`, `WindowNeverTakenBack`, `StreamSpec`, `AllArrives`, `TwoClosesEnd` | one end calls or both do; more octets than the buffer of two holds (what does not fit is dropped inside a window that stands; `advertise` never closes a window it has announced, so no window of 0 is met and the clause of `TimerRuns` about the probe is not exercised here), numbers that wrap, one loss, repetition, overtaking or early timer; either end closes when it likes, one may abort |
| `sip_calls` | `TypeOK`, `StateIsTrue`, `OneBye`, `CancelFindsInvite`, `StaysDown`, `CallsAreKept`, `CallLife`, `DialsAreAnsweredFor`, `NotUpAlone` | two dials by one end (the second may be dialled while the first is being cancelled), each request sent again once, one fault (a message lost, repeated or overtaken, the connection gone, the callee's program closed; not the caller's, for which finding 5 would break `StateIsTrue` and `CallLife` as well), one request for credentials, datagrams and connections |
| `sip_hung_up` | `StaysDown`, violated | finding 4 |
| `sip_left_ringing` | `NothingRingsOn`, violated | finding 5: either program may be closed, one fault |

The properties in words:

* `WindowInv`: for a connected end, the retransmission buffer is exactly the
  frames V(A)..V(S), in order, and at most K of them; any other end has none.
* `NoSilentWait`: whoever waits for a UA, a DM or an acknowledgement has T401
  running. This is what a lost last frame would break.
* `NothingForgotten`: no acknowledgement retires a chunk that did not arrive.
* `LinkSpec`: order, no duplicate, no invention, no gap (refinement).
* `AllArrive`, `ReleaseEnds`: the liveness of data and of release. `OldFramesStayOut`:
  what the source says of data around a re-establishment.
* `TransferSpec`: the receiver holds a beginning of the file at all times, and
  hands it up whole and once (refinement).
* `SessionEnds`: the liveness of a session. `FileArrives`: a session that is over has
  brought the file, when only checks of its data failed.

* `TimerRuns`: a PPP session waits on its timer exactly in the states that can time
  out; a TCP connection with something outstanding has its timer running.
* `NetworkAgreed`: two ends that carry IP mean the same addresses and the same
  compression, whatever is still on its way. `NotLetIn`: a wrong password never gets there. `PapAccepted`: a
  right one does not cost a caller the link. `LinkOpens`, `CloseEnds`: liveness.
* `Agreed`, `FinIsTheEnd`, `ClosingIsTheEnd`: what two TCP ends believe of each
  other's numbers, of what was taken before a FIN and of what is still to be read.
  `WindowNeverTakenBack`: RCV.NXT + RCV.WND never falls. `StreamSpec`: order, no
  loss, no invention (refinement). `AllArrives`, `TwoClosesEnd`: liveness.
* `OneBye`, `StaysDown`, `CancelFindsInvite`: hanging up, asked for again and again,
  is one BYE or one CANCEL that finds what it cancels, and a call hung up is never
  up. `CallsAreKept`: no call ends by itself. `CallLife`: what the modem is told
  (refinement). `NothingRingsOn`: what rings is the call there is.
  `DialsAreAnsweredFor`, `NotUpAlone`: liveness.

`CHECK_DEADLOCK FALSE` stands in every configuration since a call that has ended
and a session that is over have no further step.

Every property has a mutant in `PROJECT.json`: a definition of the model changed
the way a slip in that code would change it, which the property catches. The
mutated forms are beside the originals, marked "A mutant".

### Fairness

The audio loop calls `next_bit`, `feed_bit` and `tick` (LAPM) or feeds and ticks
both ends of a job (`step_job`, ZMODEM; the network thread, PPP and TCP) for as
long as the call lasts, and the thread of a SIP line turns at least every 20 ms; so
a step of the line, of a reader or of a timer that stays possible is taken: weak
fairness of those actions. Where TLC would spend too long on ENABLED, weak fairness
is written with the action's guard: `[]<>~guard \/ []<><<A>>_vars`, the same thing
for an action that changes the state whenever its guard holds. Nothing is assumed
of users (send, release, cancel, dial, hang up), except that a PPP end that has not
been opened is, and that a TCP program goes on reading; nor of the line (to lose,
to damage or not to) or of timers that fire early, which are bounded by constants,
since a line that loses for ever gives no liveness to anyone.

## 4. Findings

1. **An old frame reaches the new decoder** (`lapm_old_frames`,
   `crates/ec/src/stack.rs:1306`). `drain` answers an undecodable stream with
   `connect`. `receive` takes any I frame for the lost UA of that SABME
   (8.3.2.1), one sent before the far end heard the SABME included; if the
   numbers had just wrapped, that frame is number 0, in sequence, and delivered.
   The comment at `stack.rs:1298` says such frames cannot reach the new decoder.
2. **A sender that is Done has not always delivered** (`zmodem_done`,
   `crates/transfer/src/zmodem/receive.rs:249`). If the subpacket with the file's
   name fails its check, the ZRPOS it draws starts the stream: the whole file
   crosses, ZEOF finds it complete but nameless, nothing is kept, and the
   ordinary closing makes the sender Done ("and the file arrived",
   `send.rs:53`). With more damage the ZFIN the sender's timer sends in
   `Finishing` gets there too, since the receiver answers it in any state.
3. **A caller that answered a challenge is told there was none** (`ppp_chap`,
   `crates/ppp/src/auth.rs`). When the one CHAP Success is lost, nobody says
   anything again: the authenticator has passed, the prover only waits. It gives
   up "the far end asked for CHAP and never sent a challenge" and the link is
   closed, with the right password.
4. **A call that was hung up comes up** (`sip_hung_up`, `crates/sip/src/ua.rs`).
   A CANCEL that crosses the proxy's request for credentials ends the transaction
   it was for; `retry_with_credentials` starts the next with nothing of the wish to
   cancel, and when the CANCEL has had its answer nothing of it is left.

5. **A closed caller leaves the other telephone ringing** (`sip_left_ringing`,
   `crates/sip/src/ua.rs:2258`). `finish_call` takes `ringing` only where there was no
   call. A BYE that comes while the telephone rings ends the call and leaves what rings:
   that end is idle and busy for good, or, when its user answers, in a call its window
   shows and that is not there. The comment below it says "Whatever is left over from it
   goes with it".

Four things the models show and no run is spent on:

* With selective reject, chunks can be delivered out of order when the answerer sends
  before the link has settled (`LinkSpec` of `lapm_srej` with chunks the other way,
  two frames lost). Its UA is lost, the originator sends SABME again while I frames 0
  and 1 of the answerer are on their way, and 0 is lost. The originator takes 1 for the
  UA and holds it in slot 1. The second SABME resets the answerer, which numbers from 0
  again with later chunks; a new frame 0 arrives, is delivered, and the held one of
  before the reset after it. `on_sabme` clears the slots of the end that is reset, nothing
  those of the end that asked ("Data recovered from the peer, in order",
  `lapm.rs:179`). It is the stand-in for a UA of finding 1 again. In `lapm_srej` the
  answerer sends nothing, and the theorems about order (section 5) leave it out.
* Two TCP ends that close at once, with one FIN sent again, keep each other in TIME-WAIT
  for ever, each answering the other's acknowledgement with one of its own
  (`connection.rs:872`; "TIME-WAIT lets go on its own", `tests/two_ends.rs:314`).
  `TwoClosesEnd` allows for it and asks for everything else.
* `wait_briefly` (`ua.rs:691`) waits 400 ms for the answer to the BYE of a program that is
  closed, and a request is first sent again after 500 (`T1`), so the timers it runs never
  do what its comment runs them for ("or a lost BYE is lost for good"). A registered line
  waits a second 400 ms, for its un-REGISTER, and sends the BYE again once; registration
  is not modelled. `NotUpAlone` excuses an end whose peer is gone.
* An answer is forgotten `ABSORB` after it was given (`ua.rs:89`), so with four faults
  and more an INVITE sent again late enough rings a second time: `StaysDown` and
  `CallLife` hold within the bound of `sip_calls` and are no theorems. `CallsAreKept`
  likewise needs fewer faults than `MaxTries`.

## 5. Proofs

`LapmProofs` proves, for every `Modulus`, `K`, `N400`, either reject scheme and
every environment bound:

* `Typed`: `Spec => []TypeOK`. One lemma per method (`SendType` ..
  `PumpType`), then one step per action.
* `WindowKept`: `Spec => []WindowInv`, and `NeverWaitsInSilence`:
  `Spec => []NoSilentWait`, both from `Inductive`: `Spec => []IInv`.

`IInv` is `TypeOK` with, for each entity, `WindowOf` and `Waiting => timer`.
`WindowOf` ties the buffer to V(S) and V(A), and has a clause a connected entity
would not need: in the other states the buffer is empty, so that `establish`,
which clears V(S) and V(A) and not the buffer, does no harm.
`WindowInv` needs it because `Acknowledge` drops as many frames as N(R) is ahead
of V(A), which is right only while buffer and numbers agree. The argument is
arithmetic on the circle: `AheadSplit`, `PlusShift` and `AheadPlus` are the three
facts it needs. The assumptions are `LapmParams` (`1 <= K < Modulus`,
`2 K < Modulus` with selective reject) and `LapmBounds` (types of the bounds).

`LinkProofs` proves, with go-back-N (`~ Srej`) and streams that all decode
(`MaxUndecodable = 0`), which is what `lapm_gbn` checks, for every `Modulus`, `K` and
`N400` and any number of chunks, losses, early timers and releases:

* `NothingIsForgotten`: `Spec => []NothingForgotten`.
* `LinkIsReliable`: `Spec => LinkSpec`, the refinement of `ReliableLink`.
* `LinkConsistent`: `Spec => []LInv`, the invariant both rest on.

Modulo `Modulus` a number says nothing by itself, so `LInv` speaks of what the numbers
stand for: the chunks, counted for ever, which the model carries as the payload of each
frame. For each direction (`OneWay`), with `Sent` the chunks that have had a number,
`Gone` those no longer kept and `Newest` the last one delivered:

* `Queued`: everything past `Gone` is still kept, in its place.
* `Order`, of the I frames in the output and on the line: a chunk past `Gone` has the
  number it has in the buffer (`Fits`); one the receiver has already is less than `K`
  behind it (`Old`), and one behind a later frame less than `K` behind that (`Behind`,
  needed because the later frame will be delivered first). `K < Modulus` then keeps a
  repeated frame from being taken for the next one.
* `Tally`: V(R) is V(A) plus what was delivered and not retired, and the N(R)s on the way
  back are between the two and never go backwards; this is what makes `acknowledge`
  retire only what arrived. It holds until the sending user has been told of a release or
  a reset (`Unbroken`); `Order` holds always, so that nothing is delivered twice or made
  up even then.

`Opening` ties the two directions: only the originator asks for the link, and while one
of its SABMEs may yet reset the far end, that end's user has been given nothing and no I
frame is on its way ahead of it.
Each method of the entity keeps this as one of a few moves, offering, answering,
speaking or starting afresh (`WayOffered` .. `BothAfresh`), and `Outcome` says of each
action which step of `ReliableLink`, or none, it is. Both hypotheses are needed: with
selective reject `LinkSpec` is false (section 4), and a stream that does not decode
delivers and unsettles the link in one step, which `ReliableLink` does not allow for.
`Received` is a recursive function over the events, so that its facts need an induction
of their own; `Induction` has it, for sets and functions, with no operator as a parameter.

`ZmodemProofs` proves, for every file length, room and patience, with or without
overlapped I/O, and for any number of damaged pieces, early timers and cancels:

* `Implements`: `Spec => TransferSpec`, the refinement of `FileTransfer`.
* `Typed`: `Spec => []TypeOK`, which here depends on the same invariant: that a
  position never passes the end of the file is why `ZRPOS(Len(data))` is typed.
* `Inductive`: `Spec => []IInv`.

The obvious invariant, that the receiver's length and the sender's position agree
up to what is on the line, is false: a ZRPOS crosses frames that start somewhere
else, and frames nobody waits for are stepped over. What holds is about neighbours
on the line (`Chain`): a subpacket stands directly behind a ZDATA of its position,
behind the subpacket before it, or behind something that leaves every frame
(`Linked`). From there: a receiver that is in a frame would take the next piece for
what it is (`HeadFits`); a sender that owes no header continues what is last on
the line, or, on an empty line, what the receiver has (`LastLeads`); and a file
that was handed up cannot be started again, because no ZFILE is behind a ZEOF
(`Once`). `GoBack` is where it could break, and `owe_header` is why it does not.
Each method of the sender keeps `Good` by `Says` (it says something that may stand
where it comes to stand) or `Silently`; each of the receiver by `StepsOver`,
`EntersFrame`, `TakeDataRead`, `OnEofRead` or `Calmly`; damage by `HitChain`. The
assumptions are `ZmodemParams` and `ZmodemBounds`. That the line takes no piece
away whole is part of the model, and needed: ZMODEM numbers headers, not
subpackets, so a subpacket that vanished from the middle of a frame without a trace
would not be missed.

`SipProofs` proves, for every number of dials, resends, faults and challenges, for
either transport and whoever dials or quits:

* `Typed`: `Spec => []TypeOK`, with the bounds on credentials (`AUTH_ATTEMPTS`) and
  on retransmissions (`MaxTries`) in the types.
* `CancelMeetsInvite`: `Spec => []CancelFindsInvite`, both from
  `Inductive`: `Spec => []IInv`.

That a CANCEL comes after its INVITE follows from no field of the caller alone: what
lets it go out is a provisional response, so the invariant has to say what a response
is worth wherever one is kept or carried. `Founded(m, H)` does: a response to an
INVITE, or a CANCEL, implies that its INVITE is among those heard, `H`. `Good` asks it
of everything a worker holds that may be sent again (the three slots, the answers kept,
the output), asks that what rings was heard, and that an INVITE marked `prov` was
heard; `Wires` asks it of everything on the way. Every method keeps `Good` (`GoodSay`
.. `GoodConnectionRemade`), and every action keeps `IInv` because `H` only grows
(`GoodStays`). The assumptions are `SipAssumption` and `SipBounds`.

`CallProofs` adds, under the hypothesis `Unmixed` (one end does the dialling, as in the
run, or no credentials are asked for):

* `ByesAreOne`: `Unmixed => (Spec => []OneBye)`, from the invariant `Accounted`.

A BYE is made of the number of its call and the request number of its dialog, so two of
them differ where an end makes one, goes on with the call and makes another. `Accounted`
says why it does not. The numbers dialled are dealt to the two ends (`Dealt`, with the
dealer as an existential witness), and every call an end holds is its own or the far
end's (`Tidy`). It is done with one of its own when the BYE goes out (`Last`:
neither in its dialog nor held to be dialled). One of the far end's may come again after
it was forgotten, since an INVITE can be repeated; but then its BYE is the same BYE, since
a dialog the far end opened starts at 1 and is not moved on. That last clause is what
`Unmixed` is for: only `retry_with_credentials` moves a dialog's number on, and where both
ends dial it can be the number of another call. Where the caller's program is closed while
this end rings, its BYE ends the dialog but leaves what rings (`finish_call`); a number
dialled from here and a refusal of what rings then leave an INVITE with no call beside
it, an INVITE that comes again takes the dialog, and credentials asked for the old INVITE
move the number of the new call. Whether a call can be given two BYEs that way is open:
TLC finds none with both ends dialling and quitting, two dials, one fault and one request
for credentials, but an invariant has to say what both ends can still send each other. The
methods keep `Fine` one by one (`FineSay` .. `FineConnectionRemade`), most of them by
`FineLess`: they do no more of a call than was being done.

Where only one end dials (`OnlyCaller(a)`: `a \in End` and `Callers \subseteq {a}`),
whoever quits, it adds:

* `StateTold`: `Spec => [](Running(a) => StateIsTrue /\ NothingRingsOn)`, from
  `Accounted` and `Lines`.

As long as the caller's program runs, every window shows the call there is and nothing
rings for a call that is over; once it has been closed, finding 5. `Lines` is asserted
while the caller runs (`RunningBefore`: a program that runs has always run), so each
step but the closing of that program keeps it, `QuitLines` being about the other's.

`Calling` and `Called` say of a worker what the two conjuncts ask, and most methods keep
them for reasons of their own. One does not: `finish_call` leaves what rings alone where
there was a call, so a BYE that came while the telephone rings would leave it ringing for
nobody. That none comes is a fact about both ends and everything between them
(`Answerable`): of an INVITE that may still ring, because it is on its way and has not been
answered for good or because it rings, the caller either has nothing to do with the call
any more and no BYE of it is anywhere (`Over`), or is still waiting for the last word on
that very INVITE, which nobody has said (`Awaits`). The caller sends a BYE only after the
last word (`GoesOn`), and the callee says it only of what it keeps an answer to (`Settles`),
so that a copy is answered and does not ring. What is left are the ways an INVITE can come
again. A caller asked for credentials makes a new one with the same call (`Asks`), and the
copies of the old one must be served or gone: hence `Lone`, that until an INVITE of the
call has been passed on there is one of them on its way, which goes when the proxy asks.
Answers are forgotten (`Forget`) only where nothing is on its way. And a connection that is
made again repeats the INVITE the caller waits with and the answer the callee waits with
(`Repeatable`): where the one answers the other, the INVITE is served, and the answer was
on its way before. Numbers tell the rest: an INVITE is newer than any there has been (`Placed`). Each
method of the caller is shown to be a `Goes` or an `Asks`, each of the callee a `Serves`,
whatever else it does; `GoesKeeps`, `AsksKeeps` and `ServesKeeps` then keep `Lines`, and
there is one lemma for each action (`DialLines` .. `OvertakeLines`).

`PppProofs` proves, for every set of calls, every limit of a session or of an
authentication and every modulus of identifiers, whatever the line loses:

* `Typed`: `Spec => []TypeOK`.
* `TimerAlwaysRuns`: `Spec => []TimerRuns`. `Cells` reads the table of events row by
  row: a cell leads to a state that waits only from one, or with an action that
  starts the timer. An expiry clears the timer first, so its two rows are held to
  more (`TimeoutCells`). `FireType` and `ExpireKeeps` make that a fact of `Fire`
  and `Expire`.
* `StrangersStayOut`: `Spec => []NotLetIn`.
* `NothingIsLeftOver`: `Spec => []NothingLeftOver`, all four from `Inductive`:
  `Spec => []IInv`.

That no stranger's link reaches the network phase needs more than the phase. An end
that asks for a password the far end has not got (`Barred`) has never opened its IPCP
session, which is in Initial with nothing to report (`Shut`), and no event but Open and
Up leads out of there (`PassiveCells`); it authenticates only with a checker running;
that checker has let nobody in (`CheckerOf`); and every frame on its way carries the
account of the end that sent it (`FrameOf`). Without the last, a verdict could be for
anybody; without the checker that runs, `FollowAuthentication` takes two idle ends for
an agreement. `Good` says this of a link, and every operator of `PppLink` keeps it, one
lemma each (`FlushKeeps` .. `TickKeeps`).

That six rounds of `Pump` are enough is shown for any link it is given, not only for one
that was clear before: a first round leaves nothing to report but the end of the link
(`Falling`) and an authentication that is still undecided (`Nearly`), since only
`close_link` makes LCP report again and `Close` reports no more than "down" or
"finished"; a second round finds, beside what is still to be said, no report that makes
anybody speak (`LcpDownSilent`), and leaves nothing (`RoundLeaves`). The assumptions are `SessionLimits`,
`AuthLimits` and `PppBounds`.

* `EndsMeanTheSame`: `Spec => []NetworkAgreed`, from `Concurring`. The property asks
  for no quiet line: what is on its way cannot make the two ends differ either.

What makes two ends agree is not what was said last but what either may say at all. With
the settings of the two ends, `c` and `d`, the address an end can end up with is fixed
(`Settled`: the one the far end insists on, or else its own), and so is whether they
compress (`Both`). `Word(c, d)` is what an end may say of it: a request names its own
address or the settled one; an acknowledgement only ever goes to the settled answer; a nak
offers it; a reject refuses what the far end may not have. `Knows` says that a session
only says such words, that from its acknowledgement on it has what the far end will have
(`Granted`), and from the far end's on what it asked for (`Assured`): both, in Opened. Old
frames are then harmless, since none on the line says anything else (`Speech`). Every row
of the table and every message keeps this (`Follows`), with one more clause, that a session
which leaves Opened, or comes to be open on other terms, has a report of it waiting
(`Steady`, `Told`). A link needs it: between the table and the end of `pump` an end may
still carry IP under terms its IPCP has given up (`Carrying`), and the reports are what
ends that. `RoundConcurs` counts them, too: a round of `pump` never finds more than three
in a session, so the three turns that `InTurn` takes leave none out.

`TcpProofs` proves, for every size of the number space, of the buffers and of the
reassembly queue, whoever calls, writes, closes or aborts, and whatever the network
loses, repeats or reorders:

* `Typed`: `Spec => []TypeOK`.
* `NeverStuck`: `Spec => []TimerRuns`.
* `WindowStands`: `Spec => WindowNeverTakenBack`, all three from `Invariant`:
  `Spec => []IInv`.

`IInv` is `TypeOK` and, for each connection, `Fit` and `Kept`. `Fit` bounds the queues
and says of the advertised window what `advertise` leaves behind: it fits the room, or the
room is not worth advertising. `Kept`, that whoever waits has its timer, does not hold in
the middle of a method, where a segment has been sent or retired and the timer is not
set yet; `Armed` does, which asks only for what is unacknowledged, and `emit`, with which
every method ends, turns `Armed` into `Kept`. For the window, each method is shown to move
the edge by 0 to `Buffer + 1` (`Onward`), which is forward since the number space is more
than twice that; an edge that went back would look like an advance of nearly a whole turn.
The held segments are gone through in a recursive function, for which `LeastMember`,
`UpTo` and `Iterate` of `Induction` stand in for the induction theorems that take an
operator. The assumptions are `TcpConstants` and `TcpBounds`.

Only model-checked: the liveness properties (fairness and ENABLED are out of the
prover's reach); `NothingForgotten` and `LinkSpec` with selective reject or undecodable
streams; `PapAccepted` of PPP (it depends on the bounds of the line: enough losses use up
the caller's tries); `Agreed`,
`ClosingIsTheEnd`, `FinIsTheEnd` and the refinement of `ByteStream` of TCP (true of a run,
not of every value of the constants: the network keeps a copy for as long as it likes, so
one can outlive a wrap of the numbers, and a theorem needs a bound on what is written);
and of SIP `StaysDown`, `CallsAreKept` and the refinement of `CallLife`, which depend on the
bounds of the run (section 4), and `OneBye` and `StateIsTrue` beyond the hypotheses
of their theorems.

## 6. What is abstracted, and not modelled

* LAPM: RNR, FRMR, XID and UI frames (this program sends none of the first, and
  ignores the others); the running time of T401 and the round trip it learns
  from; detection and XID (a later module). Payloads are numbers.
* ZMODEM: batches, ZSINIT, ZSKIP, ZFERR, ZABORT and ZNAK, which this program's
  ends never send each other; a piece that vanishes whole; a subpacket longer
  than the limit; patience that runs out while pieces are still crossing.
* PPP: what these two ends never send each other (Code-Reject, Protocol-Reject,
  echoes, an LCP option refused), MRU, character maps but for whether a frame is
  readable, VJ slots, datagrams.
* TCP: the round-trip estimate and the lengths of timers, urgent data, options,
  the checksum, more than one pair of ports; readers that read later than the far
  end's retransmissions last.
* SIP: registration, re-INVITE, forking and tags, session descriptions (only
  whether one is usable), OPTIONS, INFO, UPDATE, T.38, a name that does not
  resolve, a proxy that keeps a connection of its own to each end.
* Components marked `not_modelled` in `PROJECT.json`, each with its reason.

## 7. Plan

LAPM, ZMODEM, PPP, TCP and SIP are built. Next, the most consequential first, each
with its entities as records (as here), a composition, an abstract specification
where one is worth stating, one run and one theorem:

1. Proofs: `StaysDown` of SIP at the end that dials; `OneBye` where both ends dial and credentials
   are asked for; `FinIsTheEnd`, then
   `ByteStream`, of TCP while fewer octets are written than there are sequence
   numbers, for which the numbers on the network need an order like that of
   `LinkProofs` that also bears repetition and overtaking.
2. `V42Stack`: detection and XID before `Lapm`, `declining` and `gave_up`.
   `LapmForeign`: an entity against an arbitrary far end, for RNR and stale
   acknowledgements across a reset.
3. `Proxy` over `Tcp` (a relay whose socket opens late), `Jitter` (16-bit extension
   against the true sequence), `AtEscape`, T.30 ECM.
