# Verification of the AES67 node

TLA+ models of the AES67 audio-over-IP firmware for the ESP32-P4 (C, FreeRTOS,
lwIP), the TLC configurations that check them on small instances, and theorems
about them that TLAPS proves for every instance. Paths below are
relative to the repository, `src/` being its root; `aes67_rtp.c` and the like
are in `components/aes67/src/`.

## 1. The system

The node joins RTP multicast streams and plays them (sinks), captures audio and
sends it as RTP multicast (sources), announces its sources and discovers those
of others by SAP, and synchronises its clock by PTP. The tasks are `rtp_rx`,
`sap_rx`, `sap_tx`, `ptp_monitor`, the PTP daemon, `audio_frame` (which sends),
`playback`, the HTTP server and the application; beside them run the Ethernet
driver's receive hook, the DMA callbacks of the converter and the callback of a
hardware timer. They share tables and buffers mostly without locks.

| Component | State | Operations | Interacts with |
|---|---|---|---|
| jitter buffer (`aes67_rtp.c`: `ringbuf_*`) | byte array, `write_pos`, `read_pos`, level and overflow counters | write, read, available, free | one writer and one reader task, no lock |
| RTP reception (`rx_task_func`) | `engine->streams[]`: SSRC, `first_packet`, `last_seq`, loss counters, status | add and remove a sink, receive a packet | shared socket; session; jitter buffer or stream buffer |
| RTP transmission, audio frame task (`process_tx`, `source_write`, `aes67.c`) | streams of sources: ring, timestamp, sequence number; `s_frame_sem` | tick, copy a captured block to each source, send a packet of each | frame timer (callback, semaphore), session (lock), PTP clock, capture buffer |
| session manager (`aes67_session.c`) | tables of sources and sinks, a mutex, packet time | add, remove, get, count, set packet time, destroy | RTP engine, SAP, PTP, SDP; called by the frame task, the web interface, the application |
| SAP discovery (`aes67_sap.c`: `sap_rx_task`) | table of remote sources with the time each was last seen | announce or delete received, expire | network; callback to the application; readers in other tasks |
| SAP announcement (`sap_tx_task`, `aes67_sap_announce`, `aes67_sap_delete`) | table of local sources | announce, delete, pass over the table every 2 s, start, stop | session (its lock does not cover the task) |
| PTP lock monitor (`aes67_ptp.c`) | `lock_state`, `stable_count`, role, `running` | start, stop, poll | daemon (request with timeout); `lock_cb` |
| PTP daemon, best master clock (`third_party/ptpd/ptpd.c`) | own identity, selected source, time-outs | announce, select, expire, sync | other nodes; `ptpd_status` requests |
| PTP daemon, servo and packets | delay measurement, PI controller, sequence ids | sync, follow-up, delay request | Ethernet time driver |
| hardware frame timer (`aes67_hw_timer.c`) | next target time, period | start, stop, callback aligned to PTP time | `esp_eth_time`; calls `hw_frame_isr` |
| audio output (`main.c`: `eth_rtp_hook`; `aes67_audio.c`) | stream buffer, `s_last_frame`, DMA descriptors, channel state | packet arrives, descriptor is played, start, stop | driver task, ISR |
| playback task and life cycle (`aes67.c`) | node state, the subsystems' handles | init, start, stop, destroy; drain the stream buffer | every component |
| application (`main.c`: `app_main`, `sap_discovery_cb`) | the one subscription, the hook's filter | boot, discovery callback | session, SAP, driver hook |
| SDP (`aes67_sdp.c`) | none | generate, parse | session, SAP, web interface |
| sample conversion (`aes67_convert.c`) | none | L16/L24/L32 to and from 32-bit samples | hook, RTP |
| web interface (`aes67_webui.c`) | saved configuration | HTTP handlers | session, SAP, PTP |
| network, mDNS, L2TAP receiver | sockets | open, join, leave; `l2tap_rx` is not started by the firmware | RTP, SAP |
| Ethernet time driver (third party) | hardware clock | read, set, adjust, target time | PTP daemon, frame timer |

What is hard about it, component by component, and what makes it correct:

- *Jitter buffer.* Two tasks, no lock: each works on a position the other may
  have moved. It must be a FIFO of whole frames: nothing lost unless an
  overflow dropped the packet's end, nothing repeated or torn, and left must
  stay left when a packet is cut.
- *Reception.* Packets are lost, duplicated, reordered; all sinks share a
  socket; sequence numbers wrap. A sink must stay with the stream it locked to,
  and its counters must be honest.
- *Transmission.* The session changes while the frame task walks copies and
  tables; a stream may be freed under it; ticks are missed and collapse. No
  stream may leak, no block overflow a ring, no timestamp run ahead of the
  clock, and a source must keep sending.
- *Discovery.* Announcements and deletions are lost; the table moves its
  entries while it is swept. The callback's events must agree with the table, a
  live source must survive losses, a dead one must go.
- *Announcement.* The task scans a table that the session changes in several
  steps. A pass must announce what is registered, whole.
- *PTP lock.* A monitor task that outlives the stop of the daemon it polls, a
  counter that must restart, answers that come late. "Locked" must be earned,
  be given up on a stop, and follow the clock.
- *PTP selection.* Nodes that hear of each other late or never. They must agree
  on one grandmaster and never follow each other.
- *Audio output.* No pre-buffering, jitter, underruns, integer arithmetic in an
  ISR. The channels must stay in place, the stretching must end, the output must
  become silent after the stream.
- *Life cycle.* Any part may fail to be made or started; stops wait for their
  tasks by the clock only. All parts must run or none, nothing may stay open but what
  the code forgets (section 5), and a stopped node must start again.
- *Frame timer.* A clock that the PTP daemon steps either way, an interrupt that
  may enter the start of its own timer, between the halves of a time that is being
  written, and no stop. Frames must stay on the
  grid that sender and receiver share, and come back after a jump.
- *PTP servo.* Messages in two copies, late, for the wrong request. A clock must
  follow one master at a time and come back in step after it was stepped wrongly.
- *Playback.* Sinks come and go under a task that looks for one by count, and
  reads a buffer in two parts: frames must stay whole, and the callback fed.
- *Application.* Two tasks subscribe to what a third discovers, before and after
  the callback is registered. No source may be missed, the first one must win, and the
  source that is offered in return must have the sink's packet time.
- *SDP, conversion.* What one node generates another must parse to the same
  stream; what is captured must be what is played.

`PROJECT.json` lists the single hazards at their lines under `hazards`.

## 2. The modules

In every module a definition whose name extends the name of the definition
after it (`FindSinkUnlockedFirst` before `FindSink`) is a mutated form of it: a
plausible bug that a property must notice. Modules beginning with `MC` give
the constants their values.

### AudioFifo, RingBuf: a jitter buffer

`AudioFifo` is the promise: a bounded sequence of audio bytes to which whole
frames are appended, as many as fit, and from whose front whole frames are
taken; `handed` is what was taken. `RingBuf` is the code: `write_pos` and
`read_pos`, each read once at the start of a call into a local copy, one byte
copied per step (`WriteByte`, `ReadByte`), the position published at the end
(`WritePublish`, `ReadPublish`). `WriteBegin` is `ringbuf_write` with the limit
of `rx_task_func` that cuts a packet at whole frames; `ReadBegin` is
`aes67_rtp_sink_read`, which takes nothing unless a whole read is there. The
data are the numbers of the bytes in the stream, so that loss, repetition and
order are visible.

- `ExclusiveBytes`: writer and reader never work on the same byte.
- `FrameAligned`: between calls the ring holds whole frames.
- `NoPartialRead`: a read that passed its check gets all it asked for, although
  the level it saw was old.
- `ImplementsFifo`: `RingBuf` implements `AudioFifo`; the mapping takes the bytes
  between the positions, and those a write in progress has not published are
  not there yet.
- `AudioIsDelivered`: what is in the ring is handed out while reads go on.

The receive task writes to a sink's ring only where no stream buffer is set
(`aes67_rtp.c:569-576`), and `aes67_rtp_sink_read` is called by no code of the
repository, being the component's interface. A source's ring has the audio frame
task at both ends, one after the other.

### SapRemote: discovery

Nodes announce their sources every `TxInterval`, the network may lose what they
send; `sap_rx_task` handles a packet (`RxPacket`: look up, insert or refresh,
delete, then the sweep of `expire_remote_sources`) or times out in `select()`
(`RxTimeout`). A unit of time is 2.5 s; the interval of announcements
(2 s) is rounded up to 1, `select()` takes 2 (5 s), a source expires after
4 (10 s).

- `EventsMatchTable`: discovered minus lost is, for every source, its entries
  in the table, which are never two. It needs the entry to be copied before
  `remove_remote` moves the array.
- `NoFalseLoss`: an entry whose source is still announced goes only after as many
  announcements in a row were lost as the timeout has room for, as the run rounds it.
- `SilenceIsNoticed`: no entry is older than the timeout and one `select()`,
  even when packets of others keep `select()` from timing out.

### Discovery: the application's subscription

`Discovery` extends SapRemote with `sap_discovery_cb` (`main.c`) and its two
callers: `sap_rx_task`, for each source it discovers (`SapRx`), and `app_main`,
which registers the callback when the node already runs and then calls it for what is in
the table (`Register`, `GetRemoteCount`, `GetRemote`, the loop's index and bound as in the
code). The callback's calls of the session are a step each (`AddSink`,
`SetPacketTime`, `AddOwnSource`), any of which may fail (`Fails`), and the two tasks
interleave between them. The table is read without a lock, so that an entry can
slide below the loop's index when another one is removed.

- `NoneIsMissed`: as long as there is no sink, the callback was called for every
  source in the table, by one task or the other, but for those that slid past.
- `FirstOneWins`: one sink at most, and with one the source that is offered has
  its packet time, although the packet time is the session's and the other task may
  change it in between. The code breaks this when both tasks are in the callback at once
  (section 5). The history `overlapped` is set where that begins, when the callback finds no
  sink while the other task makes one: the property holds in full as long as it is not,
  and says that two sinks is all that comes of it.

### SapLocal: announcement

The session calls `aes67_sap_announce` and `aes67_sap_delete` one at a time
(under its lock) but `sap_tx_task` reads the table without: the call's steps
(`Announce`, `SetId`, `SetSdpHead`, `SetSdpTail`; `Delete`, `DeleteEntry`) and
the task's (`TxScan`, `TxLoadId`, `TxCopyHead`, `TxSend`) interleave. An SDP has
two halves, so that a torn one can be seen. Message ids are checksums: two of
the four sources share one.

- `QuietPassIsExact`: a pass that no call disturbed announces exactly what is
  registered.
- `SteadyIsAnnounced`: a pass that calls do disturb still announces, whole,
  each source that was registered throughout.

What the code does not give, and the model shows when one asks for it: a pass
may send half of a new SDP under the id of the slot's previous owner, and a
source whose id collides silences the other when it is deleted. Both properties are
stated of the sources with ids of their own.

### RtpRx: reception

`RxPacket` is an iteration of `rx_task_func`: `find_sink_stream`, the payload
type, the sequence number, `last_seq`, the loss counter and the flag. Senders
number their packets, the network loses, duplicates and reorders them, sinks
come and go. Numbers are modulo `SeqMod` (8 for 2^16) and begin just before the
wrap; a history in each sink remembers what it really heard.

- `OneSinkPerSender`: a locked sink plays one sender, no sender feeds two sinks,
  nobody plays the device's own packets.
- `LossIsCounted`: the counter is exact as long as packets come in order, and
  never below the truth for the range accounted for.
- `NoErrorMeansIntact`: a sink that never flagged an error received every packet
  once and in order.

The callback for a raw PCB (`aes67_rtp.c:327-418`) repeats part of this code
but is never installed: `raw_pcb` stays NULL.

### PtpLock: the lock monitor

`Wake`, `Answer` and `NoAnswer` are `ptp_monitor_task` around `ptpd_status`,
`Start`, `StopBegin` and `StopEnd` the calls, the rest is the daemon as far as it
shows in its status. The daemon has one slot for a request, whose result and
semaphore live in the poll that asked: `Wake` puts it there, over another's that waits,
`Serve` is the daemon turning to it, `Answer` its end, which wakes whoever's request
is in the slot then and evaluates what it got (role, `ptp_update_lock_state`,
`lock_cb`), and `NoAnswer` the time-out, which empties the slot whoever's
request it holds. Offsets are of three classes that the thresholds tell apart. Time is
counted in 100 ms with the code's own intervals; the monitor of an earlier run
may outlive its stop, so there are two.

- `AnswersAreAwaited`: the daemon never holds the request of a poll that has
  returned, so that it writes to no stack that has gone.
- `LockIsEarned`: from not locked to locked, as a slave, only after
  `PTP_LOCKED_STABLE_COUNT` stable polls in a row.
- `ReportedIsCurrent`: `lock_cb` was last told the state there is.
- `StoppedIsUnlocked`: after `aes67_ptp_stop` returned, the state is unlocked.
  This rests on the daemon answering within the stop's wait (600 ms, the model's
  `AnswerMax` is 5 units): with answers that take 700 ms TLC finds a monitor that
  locks again after the stop.
- `LockFollowsClock`: a clock that stays good is locked in the end, one that
  stays bad is unlocked. Stated of one monitor (section 5).

### PtpBmca: best master clock selection

Each daemon is `alive`, has a selected `source` and whether it is `valid`.
`SendAnnounce` and `ProcessAnnounce` (or `LoseAnnounce`) carry announcements,
`ProcessSync` is a sync of the selected master, `Expire` the time-out after
`NETUTILS_PTPD_TIMEOUT_MS`, `Fail` and `Boot` are power. `IsBetterClock` is
`is_better_clock` as written: a disjunction over the fields. The time-out (60 s)
is taken to be much longer than the interval of syncs: a selected source expires
only when it has stopped sending.

- `NoMutualSlaves`: no two nodes follow each other.
- `OneGrandmaster`: when nodes stop failing and booting, the best of those left
  becomes, and stays, the only grandmaster.

### PtpClient: a clock that follows

`PtpClient` extends PtpBmca with the clock of one node, `Me`: which of the masters'
time scales it shows, the sync that waits for its follow-up (`twostep_packet` with
the time it was received), the request that waits for its answer (`delayreq_time`),
and whom the requests were sent to whose answers are averaged in `path_delay_ns`. Every message is
sent on the tap and by UDP, so that it comes twice, once or not at all. `Jump` and `Slew` are
`ptp_update_local_clock`: a clock in another scale is stepped by the difference to
the time of the sync, which the second copy of the follow-up repeats from the old
time. The PI controller's arithmetic is left out: only whether a clock is in its
master's scale matters. Every step of it is a step of PtpBmca or leaves that alone.

- `StaysWithSource`: once a sync of the selected source was used, no late
  follow-up of another is.
- `DelayIsOfOneMaster`: the average is of the selected master's delay, although the answers
  are told by a number and the responder's identity only, and every
  master answers a multicast request.
- `ComesBackInStep`: a node that goes on following a master is in its scale again and again.

### SourceTx: transmission

The session's calls (`AddSource`, `AddSink`, `AddStore`, `Remove…`, `RemoveEnd`),
in the steps that other tasks can see; the engine's table; `audio_frame_task`
(`Take`, `CaptureBlock`, `CaptureShort`, `GetSource` or its time-out,
`SourceWrite`, `TxLoad`, `TxStream`); and the tick (`Elapse`). Memory is reused
at the lowest address, so that a stale pointer soon points to another stream.
Using a freed stream is undefined: the model ignores it (the common outcome,
its `active` flag is clear) or crashes and boots the device.

- `TablesAgree`: between calls, session entries, engine slots and streams that exist
  correspond one to one.
- `EveryBlockFits`: a source's ring has room for each captured block.
- `NotAhead`: a packet's timestamp is less than two packet times of the node ahead of the
  clock; three for packets longer than the node's but not twice as long, where what
  two blocks leave over makes a packet. The run has whole multiples only, where the bound
  is two; section 4 proves both.
- `SourcesKeepSending`: a source that stays keeps sending whatever the others do.

`EveryBlockFits` is checked for sources whose packet time is the node's or longer.
With a shorter one it is false: the frame task is woken once per packet time of
the node, copies a block of that length into each source (`aes67.c:93-94`,
`128-138`) and `aes67_rtp_engine_process_tx` sends one packet of each source per
tick, so that the ring of such a source fills up and captured audio is dropped.

The capture buffer is left open: a read finds a whole block or not. Jumps of the
PTP clock are not modelled: the timestamp of a source is initialised once and is off
by every jump after that, which no line of the code bounds.

### Playout: from the packet to the converter

`Hook` is the driver's hook with `aes67_audio_slot_write`, `Fire` the DMA
callback `on_i2s_tx_sent_sbuf`, with the sample-hold on an underrun computed in
integers that wrap at `Half` as `int32_t` does. The sender has the node's clock
(that is what PTP is for) and the network delays its packets by at most `Jitter`.
Time is in frames. Only stereo is modelled: the hook writes other widths as
they come.

- `StaysStereo`: between calls the stream buffer holds whole frames.
- `StretchIsBounded`: during a stream, the made-up frames are at most a
  descriptor, the jitter and what was lost: underruns end by themselves. The
  bound is tight: one frame less is violated.
- `EndsInSilence`: when nobody sends any more the held frame fades to zero.

### Playback: output to the application

`Playback` extends Playout with the node's other outputs, where the receive task
writes the packets of all sinks into the engine's stream buffer (`Rx`) and
`playback_task` drains it: `Search` looks among as many slots as there are sinks, `Read`
takes a frame, then what else there is, and drops what is behind the last whole
one. With the callback as output it hands on what it read (`HandOn`); with the stream
buffer, it does not (`Drop`, section 5). Sinks come and go (`AddSink`, `RemoveSink`), the task
is started and ends. `output` is chosen once, as the configuration is. The buffer that an
application may put in place of the engine's (`aes67_node_set_playout_buf`) behaves alike. An
application that reads the buffer beside the task is no code of the repository and not
modelled, and a callback that is configured but NULL drops as well.

- `StaysStereo` of this buffer as well, for sinks with the node's channels.
- `AppIsFed`: the callback gets audio again and again while packets come for a sink, if the
  task has found one or there is one it can find: one whose slot is lower than the number
  of sinks. It is said of the callback as output only.

### NodeLife: init, start, stop, destroy

One task makes the calls; `call` says which is under way, which part is next
and whether it waits. `InitPtp` … `InitNode` make the parts in the order of
`aes67_node_init`, `InitFails` with `Label` is its chain of labels; `StartDaemon`
… `StartNode` start them, each with its failure and what is then undone
(`UndoFrom`), `aes67_sap_start` with the failure half-way that it undoes itself.
`StopFlag` clears the flag of a part and begins its wait (500 ms for SAP, 200 ms for
RTP, 600 ms for PTP), `StopAudio` … `StopPtp` give up what it holds, `DestroySession`
… free it. `tasks` is a bag of the tasks that loop on a flag: `rtp_rx`,
`sap_tx` and the frame task look at it every 100 ms (`Look`), `sap_rx` may sit
in its `select()` for five seconds. Tasks whose owner was freed are stale: what
they read is undefined, so they leave, loop on, or crash the device (`Reboot`). So
does a null `s_state`, which `ptpd_stop` uses when the daemon has not come up. Time
is counted in 200 ms: the waits are 2, 1 and 3 units.

- `RunningTogether`: whatever fails, the next call finds all parts running or none.
- `NothingLeftOpen`: after a failed init and a destroy no context and no socket is
  left, and of the objects that are made beside the contexts (`held`: buffers, channels,
  semaphores, the session's lock) just those that no function of the code frees
  (`NeverFreed`, section 5). A node that exists has all of its own. RTP's socket is
  open as long as its context exists, SAP's while it runs.
- `StopsInTime`: `rtp_rx` and `sap_tx` have left when a stop or a
  failed start returns, and before anything is freed.
- `RestartWorks`: starts that are tried again and again succeed in the end; the
  old daemon does not refuse them for ever.

What the code does not give: `StopsInTime` leaves out `sap_rx`, which outlives
`aes67_sap_stop`, and the frame task, which nothing waits for: both may use what
`aes67_node_destroy` frees, and a quick restart can have two of each. A semaphore
that cannot be made replaces that of an earlier node, whose timer still runs: its interrupt
gives a null semaphore (`CrashNoSemaphore` in NodeFrames). Left out
are the value that a failed init returns (`ESP_OK` when the semaphore cannot be
created, section 5), the playback task, which the firmware's output mode does not
have, mDNS, which no call fails for, and the frame task's own buffers, which multiply the
states without meeting anything else.

### FrameTimer, NodeFrames: the frames

`FrameTimer` is `aes67_hw_timer.c` on the PTP clock: the next target of the
software (`s_timer`) and that of the MAC, and `Isr` with the re-anchoring of a target that has
passed. `aes67_hw_timer_start` goes in the steps between which an interrupt of an
earlier start can come, for nothing stops the timer of a node that is stopped: `ReadClock`, then the
assignments to the two halves of `next_time` (`SetSec`, `SetNsec`, the latter with the flag, without
which an interrupt looks at neither), then the two halves read again for the MAC
(`GetSec`, `SetTarget`). So that halves can be mixed up, the time since the clock's last full
second is kept (`nsec`), from which the halves of every other time follow (`Sec`, `Nsec`,
`Joined`); `torn` remembers what an interrupt tore apart. The clock runs (`Advance`) and is
stepped (`StepClock`). All times are relative to the clock's, so that it needs no
bound: `phase` is how far it is into a period.

Taken for granted is that the interrupt comes on the core of the task that makes the
start (both are those of the application, which installs the Ethernet driver), so that it
is over before the start goes on; that the halves are
stored in the order of the source (a 64-bit division, a call on this processor, lies between them);
and that the driver's ioctl, which is external, hands both halves to the MAC at once.

`NodeFrames` composes it with NodeLife through `INSTANCE`: `InitNode` makes the
semaphore and the timer, `StartNode` starts it and stops it again when there is no
frame task; no other call touches it. It goes on after a stop and a
destroy, through the next init (which clears `s_timer` while the MAC's target is armed) and start.
With the constant `PutOff`, what shares nothing is not interleaved: the timer moves
while the node runs, is made or is started (`Meets`); a stop or an init, which takes many
frames, begins just before one (`FrameIsNext`); and tasks look at their flags before a start of the
timer, not within it (`Settled`, `NotYet`). The run sets it; the theorems hold with and without.

- `OnGrid`: every frame is due on a multiple of the period, for a period that divides a second
  even in the middle of a start. For one that does not, an interrupt that tears the target of a start
  takes the frames off the grid until one comes too late or a new start sets it right: that
  case, and a start under way, are left out.
- `SilenceIsBounded`: the next frame is at most a period away, and what the clock was stepped back;
  after an interrupt in the middle of a start a frame is skipped, or, if the halves
  were mixed up, up to a second.
- `FramesGoOn`: the frame task of a node that stays is woken for ever.

### Sdp, Convert: formats

`Sdp` is `aes67_sdp_generate` and `aes67_sdp_parse` with a text as a sequence of lines,
a line as the values in it, and the packet time digit by digit (the zeros that are
stripped, the padding of the fraction, the 16 bits). `SourceSdp` and `SinkConfig`
are the session's use of both. `Convert` is `aes67_convert.c` byte by byte. Neither has a
state: `MCSapLocal` and `MCRtpRx` assume what they promise, and TLC evaluates it.

- `PtimeSurvives`, of all 65536 packet times; `SinkMatchesSource`: a sink made of
  what a source announces receives the same stream, also when the lines come in
  another order; `NamesNoClock`: no grandmaster is ever announced (section 5).
- `AudioSurvives`, `PayloadSurvives`, `Am824Survives`: conversions there and back.

## 3. The runs

| Run | Instance | What it shows |
|---|---|---|
| `audio_ring` | ring of 4 frames of 3 bytes, writes up to 3 frames, reads of 2, 13 frames in all | the ring is a lossless FIFO of whole frames; odd frames make the positions wrap in the middle of a frame, 13 frames make them wrap three times |
| `sap_discovery` | 2 nodes, 3 sources, a table of 2, up to 3 losses in a row; the callback in two tasks | discovery, expiry and deletion with a full table, and the subscription on top of it |
| `sap_sender` | 4 sources (2 share an id), a table of 2; every packet time, 864 streams (assumptions) | announcing while the table changes; what is announced is parsed |
| `rtp_rx` | 2 slots, 3 senders (one with another payload type), 8 sequence numbers, duplicates and reordering; all samples of bytes 0 and 1, up to 2 (assumptions) | assignment of packets and loss accounting across the wrap; conversions |
| `ptp_lock` | one other grandmaster, 2 monitor tasks, the code's own intervals | the lock state through restarts, late answers, withdrawn and overwritten requests |
| `ptp_bmca` | 3 nodes that differ in their identity, messages in 2 copies, the clock of one | agreement with lost announcements and failing nodes; a clock that follows |
| `source_tx` | 2 sources, 1 sink, packet times of 1 and 2 frames, node 1 | sending while the session changes |
| `playout` | packets of 1 and 3 frames, descriptor 2, jitter 2, up to 3 lost frames; 3 slots for sinks, reads of up to 6 frames, every output | the way of audio to the converter, or to the callback |
| `node_life` | up to 4 tasks, the code's own waits; a period of 2 units, a second of 3, steps of the clock by -2 and 3 | calls that fail half-way, stops, restarts, destroys, and the frames through all of it |
| `rtp_rx_addr`, `ptp_bmca_priority`, `playout_decay` | as their parents | the disagreements of section 5 |

Why the bounds are enough. The counters that are capped (frames written,
packets per sender, losses in a row, duplicates) are histories or sources of input
and stop the environment, not the code; each cap lets the interesting case happen several times over
(the ring wraps three times, a sender wraps its numbers, an
announcement fails once less than is allowed, a lag that is longer than the
cap is treated alike). Tables have one slot less than there are candidates for
it, so that they fill up and gaps arise. `Mult` is 2 instead of 6 in `source_tx`:
a smaller ring is the stricter case for `EveryBlockFits`. In `node_life` the clock
may be stepped back by one period between two interrupts and the interrupt, or the task that
starts the timer, come one late, so that a target lies in the past as well as two periods
ahead; a step ahead is by one and a half periods, off the grid; a second is one and a
half periods too, the shortest that is not a multiple of the period and so the one where the
halves of two times are most often of different seconds; four tasks
are those of a node and one that outlived a stop. No symmetry is used:
the runs are small without it (the largest, `sap_discovery`, has 2.4 million states),
and identities are ordered in several of them. All runs check for deadlock.

Each property of each run that passes has a mutant in `PROJECT.json`: a change
of one definition under which TLC finds that property violated.

### Fairness

- RingBuf: a write that began ends; the reader reads on. Nobody has to write.
- PtpLock: time passes, due polls are made, and the daemon turns to infinitely
  many of the requests it could turn to (strong fairness of `Serve`): its loop turns
  every 125 ms, against a second that `ptpd_status` waits.
- PtpBmca: the daemons' loops turn (weak fairness of sending, expiry, syncs) and
  not every announcement of a node to another is lost (strong fairness of
  `ProcessAnnounce`). Nodes need not fail or boot. PtpClient: a master that
  is followed is heard again, and its follow-up used, by weak fairness over all
  masters; delay requests and answers are left to chance.
- SourceTx: the clock ticks, the frame task is scheduled; whole blocks are
  captured again and again and the session's lock, whose waiters FreeRTOS serves
  by priority, is not always held at the moment a source is looked up (strong fairness). A call
  that holds the lock ends. No call has to be made.
- Playout: time passes, the DMA plays on, a sender that sends keeps its rhythm,
  a packet under way arrives or is lost. Playback: the playback task runs, and not
  every packet is lost (strong fairness of `Rx`).
- NodeLife: a call runs to its end, time passes, the daemon comes up and leaves
  its loop, tasks look at their flags. Nobody has to make a call, and nothing has
  to fail. NodeFrames: the clock advances and a due interrupt comes; the clock need
  not be stepped.

The safety runs `sap_discovery`, `sap_sender` and `rtp_rx` assume none;
`SilenceIsNoticed` states its deadline as a bound on ages instead.

## 4. The theorems

Every safety invariant that the passing runs check is also a theorem; so are the action
properties `NoFalseLoss` and `LockIsEarned` and four refinements. A module of theorems
covers a component and what is built on it.

`Buffers_proofs`, the ring, for every size of ring, frame, packet and read
(`RingAssumption`: positive numbers, a ring that holds at least one frame and
a read that fits):

- `Invariance`: `IInv` is inductive. The properties are not inductive by themselves: that
  a byte read is the right byte depends on where every byte in the array came
  from. `IInv` is the types, `Positions` (the positions are the byte counters modulo the
  size), `WriterInv` and `ReaderInv` (what each side's local copies still say
  about the other's position, which may have moved in one direction only),
  `StoredInv` (each byte between the counters is at its place in the array) and
  `PendingInv` (so is each byte a write in progress has copied). A step of the writer
  disturbs the stored bytes only outside the range the reader may look at; that
  is where the one byte the ring keeps free is needed.
- `TypeCorrect`, `BytesAreExclusive`, `FramesStayAligned`, `ReadsAreWhole`
  follow from it.
- `RingIsFifo`: each step is a step of `AudioFifo` or a stutter.

`Buffers_proofs`, the stream buffer of Playout and Playback, for any sizes and packet
times (`PlayoutAssumption`, `PlaybackAssumption`: the buffer and the reads have whole frames,
and the buffer has room for a descriptor, the jitter and two packets):

- `PlaybackInvariant`: `PlayInv` is the types, `StaysStereo`, `FlightInv` (packets under way
  are a packet time apart) and a balance, `FlowInv`: what was made up since the stream
  began is no more than what is buffered, under way and lost, and the time from the next
  packet to the next descriptor. Each underrun makes up what is missing, and then the buffer
  is empty and the missing frames are among the others; jitter moves frames between them. Only
  a packet that does not fit breaks the balance, and then the full buffer has the room
  of the assumption. Since what is under way exceeds the time to the next packet by the jitter at
  most (`FlightIsShort`), `StretchIsBounded` follows at each underrun.
- `StereoIsKept` (`StaysStereo`) and `UnderrunsEnd` (`StretchIsBounded`), for every output.

`PtpClient_proofs`, the selection, for any number of nodes and of fields (`PtpBmcaAssumption`):

- `SelectionInvariant`: a valid source is better than the node itself.
- `TypeCorrect`, and `NoDeadlockOfSlaves`: if `is_better_clock` orders the nodes'
  clocks (`Ordered`), no two nodes follow each other.
- `SameFirmwareIsOrdered`: clocks that differ in one field only, as those of nodes with the same firmware
  do, are ordered.

`PtpClient_proofs`, the client, for any number of nodes, scales and copies (`PtpClientAssumption`):

- `ClientInvariant`: the request that waits, if any, and the averaged delays are the selected
  source's; so is the sync that waits, once one of the source was used.
  `FollowUpsAreOfSource` and `DelaysAreOfSource` follow.
- `ClientsRefineSelection`: PtpClient implements PtpBmca, so that
  `NoMutualClients` carries `NoDeadlockOfSlaves` over.

`PtpLock_proofs`, for any number of monitor tasks, any intervals and grandmasters
(`PtpLockAssumption`: the daemon looks at a request, if at all, before it times out):

- `LockTypeCorrect`, `RequestsAwaited` and `LockEarned` follow from `SlotInv`: a request
  in the slot is of a poll that waits, the one being served was asked at most
  `AnswerMax` ago, so its poll has not given up, and the count of stable polls is
  never ahead of the polls that were stable.
- `StopUnlocks` (`StoppedIsUnlocked`) and `StateIsReported` (`ReportedIsCurrent`) hold if
  the stop waits longer than `AnswerMax`. `StopInv` adds that while the stop waits nobody asks
  and what is in the slot is at least as old as the wait, so that it is too
  old to be looked at when the wait ends. `ReportedIsCurrent` needs the condition
  too: a restart assigns the lock state without calling `lock_cb`.

`RtpRx_proofs`, for any number of sinks and senders, payload types and sequence numbers
(`RtpRxAssumption`: senders have distinct SSRCs that are neither 0 nor the node's own,
and each sends fewer packets than half the range of the sequence numbers):

- `SendersAreNotSplit` gives `OneSinkPerSender`, which is not inductive: a packet
  with a wrong payload type locks a sink but is not played. `LockInv` is
  about the SSRCs instead: two sinks have the same one only if it is 0, what a sink
  played has the sink's, and a sink that is not locked has played nothing.
- `HistoryInvariant` gives `LossIsAlwaysCounted` (`LossIsCounted`) and `NoErrorIsAlwaysIntact`
  (`NoErrorMeansIntact`). These speak of a sink whose last packet is the newest; `HistInv`
  speaks of every sink: `packets_lost` covers what is missing below the packet it took
  last, exactly so while packets come in order, and `last_seq` is that packet's number
  modulo the range. A packet that jumps ahead is charged for all that it leaves out (`AheadLeavesOut`),
  a late one leaves out nothing more (`LateLeavesOut`). The limit on what is sent is
  that of the 16-bit difference: a gap of half the range reads as a packet that is late.
- `EveryAudioSurvives`, `EveryPayloadSurvives`, `EveryAm824Survives`: the conversions, for any
  number of samples, any word length and any bytes.

`SapLocal_proofs`, for any number of sources, slots and ids (`SapLocalAssumption`):

- `SapLocalInvariant`: the task reads the table while a call writes it. `CallInv` says how
  far the entry of a call is written, `TableInv` that an id is in one entry only and that of
  a registered source is whole, so that a call that looks for a slot leaves it alone,
  `SteadyInv` that what the pass has behind it was sent and what it has loaded is the source's,
  `QuietInv` the same of all entries while nobody calls.
- `SteadySourcesAnnounced` (`SteadyIsAnnounced`) and `QuietPassesAreExact`
  (`QuietPassIsExact`) follow.
- `EveryPtimeSurvives`: every packet time that fits 16 bits is parsed to what was generated.

`Discovery_proofs`, for any finite set of sources, any size of the table and any intervals
(`SapRemoteAssumption`, `DiscoveryAssumption`):

- `SapInvariant`: `SapInv` is the types, `TableInv` (no source twice, a table that fits,
  events that add up to it, ages below the timeout and the `select()`), `SenderInv` (a source that is
  not announced yet has left no trace, and a deletion in the socket means that its source is
  removed) and `AgeInv`, from which `NoFalseLoss` follows: an entry of an announced source is no
  older than the announcements that were lost and the time to the next one, or the
  one that waits in the socket, account for. What the sweep leaves of a table is shown by
  induction over its steps, for it is a recursive function.
- `EventsMatch` (`EventsMatchTable`), `SilenceNoticed` (`SilenceIsNoticed`) and
  `NoLossTooEarly` (`NoFalseLoss`).
- `DiscoveryIsSapRemote`: the application's steps are steps of SapRemote or leave it alone, so that
  all of this holds of the composition.
- `DiscoveryInvariant`: `CbInv` says what the callbacks in the two tasks know of each other: at
  most one adds a sink beside the first, and while there is one sink only the callback that
  added it sets the packet time and the source. `LoopInv` says that what `app_main` has behind it, or what was added above
  the entries it counted, was offered to the callback. `NoSourceIsMissed`
  (`NoneIsMissed`) and `FirstSourceWins` (`FirstOneWins`) follow, the latter with `OneInv`: without an
  overlap, whoever is adding a sink is alone with that and the first.

`SourceTx_proofs`, for any number of sources and sinks and any packet times
(`SourceTxAssumption`: at least one source, a ring of at least two packets, where the code has
six, and a bound of the model, `Behind`, of at least a packet time):

- `TablesAlwaysAgree` gives `TablesAgree`, which is said of the moments between the calls.
  `TablesInv` says by what the tables differ within one: a stream that is added is in the
  engine before it is in the session, one that is removed leaves the engine before it is
  freed and the session after. No step of the frame task changes the kind of a stream or
  brings a freed one back (`KindsKept`), even with a pointer that is stale.
- `RingInvariant`: in the middle of a tick, how full a ring may be and how far ahead a timestamp
  depends on whether the tick has still to copy a block into it (`ToCopy`) and to send a packet
  from it (`ToSend`): `LevelInv`, `AheadInv`. `StaleInv` is what makes that hold
  when streams come and go under the task: a stream at an address that the task has in its hands
  from before is new, so that it takes no second block or packet into account. `TsInv` bounds
  the timestamp a stream begins with, by the tick that may be waiting in the semaphore.
- `BlocksFit` (`EveryBlockFits`), if no source has a packet time shorter than the node's
  (`LongPackets`; section 2 says why it takes that), and `TimestampsStayClose` (`NotAhead`), for all.

`NodeFrames_proofs`, the timer, for every period, every set of jumps and every bound of them
(`NodeFramesAssumption`):

- `TimerInvariant`: the properties are not inductive, since a target becomes the
  MAC's in five steps that an interrupt can interrupt. `TimerInv` says which
  combinations of the start, `s_timer` and the MAC's target occur (`TimerStates`),
  which of the times, and of the times joined from two halves, are on the grid (`GridInv`), and
  how far ahead each can be (`SilenceInv`). The halves need two facts: a joined time is off by less than
  a second (`HalvesOfTime`, `SecondsAreApart`), and a multiple of a period that divides a second
  stays one when the halves of two such are joined (`JoinedIsAligned`).
- `FramesStayOnGrid` and `SilenceStaysBounded` follow from it, with the exceptions that section 2
  names and no others.
- `NodeImplementsTimer`: the composition with the node's life is a refinement of
  FrameTimer: no call makes a step that the timer by itself could not make.

`NodeFrames_proofs`, the life of the node, for any number of tasks and any waits, whatever fails:

- `LifeInvariant`: the properties speak of the moments between calls; `LifeInv` says of each
  step of each call which parts exist and run there, and whose sockets are open.
  `PartsRunTogether` (`RunningTogether`) and `NothingStaysOpen` (`NothingLeftOpen`) follow, the
  latter with `HeldInv`, which says the same of the objects beside the contexts.
- `TasksStopInTime` (`StopsInTime`), if the stops of RTP and SAP wait as long as `rtp_rx` and
  `sap_tx` take to look at their flags (`WaitsAreLongEnough`, which the code's constants
  satisfy). It says nothing of `sap_rx` and the frame task, which do outlive a stop. `TaskInv` says why
  a task may still be there: its part runs, or is being stopped and the task looks before
  the wait is over, or at its very end.

Model-checked only are the liveness properties (`AudioIsDelivered`,
`LockFollowsClock`, `OneGrandmaster`, `ComesBackInStep`, `SourcesKeepSending`, `EndsInSilence`,
`AppIsFed`, `RestartWorks`, `FramesGoOn`), since fairness and ENABLED are beyond the prover; and
`SinkMatchesSource` and `NamesNoClock` of Sdp, which TLC evaluates for the streams of its run.

## 5. Where the code and its documents disagree

Three runs each end in a counterexample to a sentence of the repository.

- `rtp_rx_addr`, `HeardIsAddressed`: `find_sink_stream` says that it matches "by
  SSRC or dest addr" but ignores the address. The first sink that has not locked
  takes whichever stream is heard first, also that of another sink's group.
- `ptp_bmca_priority`, `PriorityIsObeyed`: `is_better_clock` ORs the fields
  instead of comparing them in order. A clock with a worse `priority1` but
  another field that is smaller is selected, against the help text of
  `NETUTILS_PTPD_PRIORITY1`; two nodes may then follow each other.
- `playout_decay`, `SmoothDecay`: `s_last_frame[0] * 7` overflows 32 bits for samples
  above a seventh of full scale, so that the held frame jumps instead of fading.
  It still reaches zero (`EndsInSilence`).

What else the code does against what one would expect, found while modelling; the
models contain it, and the properties are stated around it:

- The comment at `aes67_session.c:217-220` says that the SDP is "re-announced via SAP
  periodically, picking up the current GM state". The text is made once and is
  always `traceable`: no grandmaster is named (`NamesNoClock`). Nor does `parse_ts_refclk` take
  what is generated for a reference clock: it looks for `ptp=traceable`.
- A monitor task that is in `ptpd_status` through a stop and a start polls on beside the new one
  for ever, since the flag is set again. Each overwrites and withdraws the other's
  request; a poll whose request replaced another's while that was served is woken
  with zeros, which read as "no source", so that it calls itself a locked grandmaster.
  The assumption at `ptpd.c:2326-2328` allows simultaneous requests.
- A follow-up in its second copy repeats a step of the clock with the time of the
  sync from before the step (`ptpd.c:1759`, `1541-1549`): the clock is wrong until the next
  sync. `ComesBackInStep` says no more than that it does come back, again and again.
- "Subscribe to any discovered source (first one wins)" (`main.c:68`), "This will add a sink for
  the first remote source found" (`main.c:639`): `sap_discovery_cb` looks at `s_sink_added` before
  the session's call and sets it after (`main.c:64`, `76`). When `app_main` calls it for a source in the
  table while `sap_rx_task` does for a new one, two sinks are added, each with its source, and
  the hook's word length and channels (`main.c:80-81`) are those of whichever task came last.
  `FirstOneWins` is stated around just this.
- "Destroy the AES67 node and free all resources" (`aes67.h:70`), but there is no function that
  frees `audio_stream_buf` of RTP (`aes67_rtp.c:640`; 49152 bytes with 8 channels),
  `staging_buf` and `dma_sem` of the audio driver (`aes67_audio.c:525`, `536`) or `s_frame_sem`
  (`aes67.c:390`): every init and destroy leaks them, and so does an init that fails behind them.
  `NothingLeftOpen` names these four and allows no other. Outside the model, the frame
  task leaks its `playback_buf` and `cap_samples` at every stop (`aes67.c:95-106`), and the
  64 KB stream buffers that the application asks for (`aes67_audio.c:292`, `330`) are made
  anew by every such call.
- When the frame semaphore cannot be created, `aes67_node_init` frees all it made and returns
  `ESP_OK`, since `ret` is that of the call before, with `*handle` as it was (`aes67.c:390-394`).
- "Data stays in stream buffer for app consumption" (`aes67.c:275`), "FreeRTOS StreamBuffer for
  app processing" (`aes67_config.h:52`): with `AES67_OUTPUT_STREAM_BUFFER` the task drains
  the buffer like with any other output (`aes67.c:228-249`) and hands what it read to nobody, so that
  an application gets what it can take before. `AppIsFed` does not speak of this output.
- "Uses the ESP32-P4 EMAC's target time interrupt to fire a callback at precise
  PTP-clock-aligned intervals" (`aes67_hw_timer.c:9-10`): no stop stops the timer, so that at a
  restart its interrupt may come between the assignments to `next_time` (`aes67_hw_timer.c:126-128`), or
  between the reads of it (`esp_eth_time.c:104-107`). The target then has the seconds of one
  time and the nanoseconds of another: it may be off the grid, for good if no frame is ever late
  and the period does not divide a second (44 frames at 44.1 kHz are 997732 ns), and up to a second
  late. `OnGrid` and `SilenceIsBounded` are stated around it.
- "re-anchor to now + one period" (`aes67_hw_timer.c:66`): the code re-anchors to the next
  boundary of the grid, as its other comment says (`aes67_hw_timer.c:75`). What the first comment
  describes would leave the grid, and is the mutant of `OnGrid`.
- "Wait for a sink to be added" (`aes67.c:185`): `playback_task` looks for a sink among the
  first slots, as many as there are sinks (`aes67.c:187`): one left behind in a higher slot is
  never found. `AppIsFed` is stated around it.
- All sinks write to one stream buffer (`aes67_rtp.c:570`): two that are heard at once are
  played one after the other, packet by packet.
- When the PTP clock is stepped back the frames are silent for as long: only a
  target that has passed is re-anchored (`aes67_hw_timer.c:74`).
- `sap_discovery_cb` ignores losses: when the source it took has gone for good,
  nothing else is subscribed (`main.c:64`); one whose sink could not be added is not tried again.
- The functions for AM824 are never selected: a stream is converted by its word length.

## 6. How far it goes

Modelled, checked and, but for liveness, proved are the data path in both directions, discovery,
announcement and the subscription on top of it, the PTP selection, lock and
clock, the frame timer, the life cycle and the formats. What could follow, were the
project continued: SourceTx on the clock of FrameTimer, so that timestamps
meet jumps; whose samples are in the common stream buffer; `SinkMatchesSource` for any
stream and any order of the lines.

## 7. Not modelled

The arithmetic of the PTP servo and the packet formats (third-party, numerical), the
ioctls behind the Ethernet time driver; log, HTTP and HTML text; sockets, mDNS and the L2TAP
receiver, which wrap calls of lwIP; the I2S and codec drivers. The web interface keeps no
state of its own but the saved configuration: its handlers parse, call the
session's operations, which are modelled, and format. The audio and
staging rings of `aes67_audio.c` are left out: nothing reads them
while a stream buffer is set. The raw-PCB receive callback is dead code. The
trimming of the clock divider and the statistics of the ISR do not influence
what is modelled.
