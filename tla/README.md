# TLA+ models of the Virtual Desktop client for Linux

This directory holds TLA+ models of `vdclient`, the program that makes a Linux
machine a host for the Virtual Desktop headset application, together with the TLC
configurations that check them and the TLAPS proofs about them. Paths below are
relative to `src/src/vdclient/` unless they begin with `src/`.

Contents: 1 the system, 2 the modules, 3 the runs, 4 fairness, 5 proofs,
6 disagreements between code and documentation, 7 what is not modelled, 8 plan.

## 1. The system

One process. A headset discovers it by UDP, pairs with it, and opens four TCP
channels to it (control, data, audio, video). Every channel is served by a thread
of its own, and every thread that serves one headset shares one `PeerSession`.

| Component | Source | State it keeps | Operations |
|---|---|---|---|
| Video session | `video/session.py` | `plans`, `procs`, `frame_index`, `out_q`, `alive`, `lock` | `run`, `start_encoder`, `_register`, `_reader`, `_native_reader`, `add_monitor`, `remove_monitor`, `forward`, `_report_encoder_exits`, `shutdown` |
| Drop gate | `video/access_units.py` (`DropGate`) | `_desynced` per reader | `offer` |
| Splitter | `video/access_units.py` | the bytes held back by a reader | `split_access_units` |
| Capture planning | `video/monitors.py` | the plan of each monitor | `CapturePlanner.plan`, `teardown`, `bounds_for` |
| Forced outputs | `display/virtual_output.py`, `src/scripts/*_virtual_monitor.sh` | `_in_use` and `_LOCK`, shared by all sessions; connectors; xrandr's layout | `add`, `remove` |
| Xvfb displays | `display/virtual_display.py` | display numbers, sockets, X servers | `start`, `stop` |
| Peer session | `net/registry.py` | `control_stream`, `control_lock`, `streamer_settings`, `video_commands`, keys | `write_control`, `get_or_create`, `set_keys` |
| Control channel | `net/control.py` | one connection, its keepalive thread | `handle`, `_keepalive` |
| Listeners | `net/server.py` | one thread per connection, a send timeout on the video channel | `run`, `_handle_connection` |
| Discovery, pairing | `net/discovery.py` | none of its own: it writes the keys of the peer session | `run` |
| Framing | `protocol/crypto.py` | two chained cipher states per connection | `read_frame`, `write_frame`, `read_frames_from_blob`, `write_frames_to_blob` |
| Messages, layouts | `protocol/messages.py`, `video_structs.py`, `computer.py` | none | pack and unpack |
| Encoder choice | `video/encoders.py`, `sources.py`, `geometry.py` | `LIBVA_DRIVER_NAME` in the environment of the process | `resolve_source`, `kmsgrab_viable`, `select_encoder`, `vd_encoder_works`, command lines, `geometry.resolve` |
| Configuration | `config.py`, `__main__.py` | none after the start | `load`: defaults, file, environment and overrides, then `validate` |
| kmsgrab capture | `src/native/src/kms_source.cpp`, `vd_encoder.cpp` | the demuxer, what is derived from it, crop, failure count | `nextSurface`, `captureInto`, `openInput`, `closeInput`, `main` |
| Native encoder | `src/native/src/encoder.cpp`, `module.cpp` | the encoder, `pending_`, `stopped_` | constructor, `next_packet`, `stop` |
| Pixel pipeline | `src/native/src/{ffmpeg_encode,cursor_overlay,va_stage,x11_capture}.cpp` | frames and surfaces | convert, blend, encode |

How they interact. The video thread plans monitors (taking `virtual_output._LOCK`
for every forced output), starts an encoder process and a reader thread for each,
and then takes items from the one bounded queue `out_q`: access units from the
readers, commands from the forwarder, and one sentinel from the last reader to
end. The forwarder takes commands from a queue that the control channel finds
through `PeerSession.video_commands`. The control channel of the headset is
written to by its handler, by its keepalive thread and by the video thread, under
`control_lock`, because the frames are encrypted with a chained state.

What is hard about it, and which property speaks of it (the full list, line by
line, is under `hazards` in `PROJECT.json`):

* the end of a session hangs on one counter changed by threads that start and end
  at any time (`AliveCountsReaders`, `SessionEnds`);
* three parallel lists grow and shrink while units labelled with an index into
  them are queued (`StreamsAligned`, `ShownReferencesIntact`, `KeepsPromise`);
* a full queue: who drops, who waits and with which lock (`TypeOK` of the queue,
  `AddCompletes`);
* failures half way through planning or tearing down (`KeepsPromise`,
  `ConnectorsExclusive`; that the books and the hardware agree, `PoolAccountsForPlans`
  and `AllGivenBack`, holds only while nothing has failed);
* two sessions that share connectors, the desktop and the display numbers
  (`ConnectorsExclusive`, `RegionsDisjoint`);
* a headset that reconnects while the threads of the old connection are still
  there (`ChainsIntact`, `KeepalivesEnd`, `HeadsetSeesSettings`,
  `NoQueueMeansNoSession`);
* a headset that pairs anew, or a program that is restarted, while its
  connections look for their keys (`RegistryFollowsReplies`, `ServedKeysAgree`);
* a stream of cipher blocks without marks between the frames, cut into pieces at
  will (`OnlyWholeFrames`, `ImplementsChannel`);
* reads that end anywhere within an access unit (`UnitsAreFrames`);
* what one session leaves in the environment of the process for the next
  (`DriverIsProbed`), and three layers of configuration with rules of their own
  (`LaterLayersWin`, `MistakesAreReported`);
* a screen that is replaced under the capture, any number of times
  (`ContextOfInput`, `GivesUpLate`, `CursorFitsPicture`, `CaptureEnds`).

## 2. The modules

### VideoSession

`pc` says where the video thread is in `run`; `plans` is the length of
`self.plans`; `procs`, `frameIndex`, `outQ`, `alive` are the attributes of those
names. An encoder is a number, in the order of start, that is never used again;
`index[e]` is the monitor its reader was started for, which can be used again
after a Remove and an Add. `reader[e]` and `desynced[e]` are the local state of
its reader thread and gate. `lock` is the reader that holds `self.lock` while it
*blocks*, at `out_q.put(None)`; every other critical section is one action and
needs `lock = 0`.

| Code | Action |
|---|---|
| `run`, before the loop | `Setup`, `StartConfigured`, `Register` |
| the loop, by kind of item | `HandleUnit`, `HandleEnd`, `AddMonitor`, `RemoveMonitor` |
| `_report_encoder_exits`, `shutdown` | `Report`, `Shutdown` |
| `_reader`, `_native_reader`, `DropGate.offer` | `Offer`, `StreamEnds`, `Finish`, `PutEnd` |
| `net/control.py` putting a command; `forward` | `Press`; `Fetch`, `Forward` |
| the encoder process | `EncoderExits`, `Die` |

`Die` leaves 0 to `PipeUnits` unread units in the pipe of a process that ended, so
a reader may go on after its encoder is dead, as it does in the code. Wherever the
code can raise (planning, launching, sending, tearing down) the action has a
disjunct for it, and it leads to the `finally` clause or, before the `try` is
entered, out of `run` (`pc = "dead"`).

What the headset makes of it is history. `missed[e]` says that the last unit of `e`
did not pass the gate, and a queued unit carries it on (`follows`). The headset has a
decoder for each *index*, not for each encoder: `fed[i]` is the encoder whose unit
was last sent as monitor `i`, `broken[i]` that the decoder was given a delta without
the unit it refers to, and `late[i]` that a unit of an encoder that is gone was sent
there since the last keyframe of the one shown. A decoder that the headset gives up is
forgotten (`GiveUpDecoder`).

The gate does not see keyframes but `is_sync`, which the reader finds by looking for
parameter sets. For libx264, vd_encoder and the native encoder that is the same. In the
stream of `h264_vaapi`, which has them in front of the delimiter, they end up in the
unit *before* the keyframe, except at the very beginning, where they are put back or,
if the first read ends too early, dropped. `Splits` relates the two, with `due[e]`
saying that the next unit is a keyframe.

Abstractions. Starting a thread succeeds. `Press` reads `video_commands` and puts
into it in one step: a command that is put after the poison is never read, as if
it had not been sent. `Shutdown` unplugs, poisons, kills and tears down in one
step; MonitorPlans has the tear-down in detail and PeerSession the unplugging.
Whether a unit is a keyframe is nondeterministic, except that the first unit of a
stream is one. All monitors of a session whose encoder is libx264 use it; otherwise
the kinds of encoder mix.

### MonitorStreams

The abstract specification of a session: what the headset is promised, with no
queue, thread, lock or command in it. The session is `"opening"`, `"open"`, `"over"`
or `"closed"`. Monitors are announced (`Announce`); a stream begins at the end of the
list, and one that comes later is announced as it begins (`Begin`); only the last one
goes (`Drop`). `Show(s)` sends a frame of stream `s`, counts it for the monitor `s`
began for. It takes the decoder's references away only if `s` is no longer the stream
of that monitor, and they come back with a keyframe; nothing is promised of a stream
whose keyframes cannot be told (`Begin` with `lost`). `Exit` is an encoder that ends by itself, `Leave` the
session failing or ending, after which nothing is sent; after `Close` nothing runs.

VideoSession implements it (`KeepsPromise`). The mapping: `stage` is read off `pc`
(`Stage`), `shown` is `procs`, `frames` is `frameIndex`, `place` is `index`, `lost`
(`Lost`) the decoders that are broken, fed late or of an `h264_vaapi`, and `live` the
encoders that run. Two disjuncts of `Leave` are there because
of exceptions: an Add Monitor that fails between the announcement and the start
leaves one monitor too many announced, a Remove that fails after the lists
were cut leaves one too few streams. Both end the session. The late units of a
removed monitor's encoder are in the promise as well, since the code sends them (see
section 6).

### MonitorPlans

Several sessions of the process at once. `phase[s]` says where session `s` is in
its life (`EnterLoop`, `LeaveLoop`, `Shutdown`), `pc[s]` what it is waiting for.

| Code | Action |
|---|---|
| `virtual_output.add`: the lock, a free connector, the right edge | `BeginAdd` (`Measure`) |
| `enable_virtual_monitor.sh`; `xrandr --pos`; reading the region back | `Enable`; `Place`; `Query` |
| `add` giving the connector up | `Undo` |
| `virtual_display.start` | `StartDisplay`, `AwaitSocket`; `OpenSocket` is the X server's |
| `monitors.teardown`, `virtual_display.stop`, `virtual_output.remove` | `Teardown` (`StopDisplay`, `BeginRemove`), `Disable` |
| `remove_monitor`, `shutdown` | `RemoveMonitor`, `Shutdown` |

Every external command may succeed, fail, fail to start or exceed its time, and
each failure is followed to the handler that catches it: `Fallback` is a
`RuntimeError` or `OSError`, which lead to an Xvfb, `TimesOut` a
`TimeoutExpired`, which nobody in the planner catches (`Escape`). `slot` is
xrandr's desktop (screens from the left), `forced` what the scripts wrote to
`/sys`, `obeyed` the outputs that went where they were told; these are external
and are modelled from what the code asks of them. `_connected_right_edge` and
`_geometry` do not look at the return code of `xrandr --query`: a query that fails
gives an edge of 0, which is where the panel is (`Measure`), or no region, which
makes `add` give the output up although it shows (`Query`).

### AccessUnits

The splitter and the read loop of `_reader`. The stream is a sequence of symbols,
each a run of bytes that matters as one: the delimiter is two of them (`AUD`), so
that a read may end in its middle; its payload byte, the parameter sets and the
slices are one each. `Encode` is the encoder, `Read(n)` one turn of the loop with
a read of `n` symbols, `EndOfFile` its end; `Split` is `split_access_units`.
`Layouts` says whether the encoder puts its parameter sets behind the delimiter
(libx264, vd_encoder, the native encoder) or in front of it (h264_vaapi). For the
layout "behind" the module justifies what VideoSession assumes: what the splitter
hands on is one frame, and what is marked as a keyframe is one. Of the layout "before"
`UnitsAreFrames` says nothing; `OnlyLastHeldBack` and `UnitsLeadWithDelimiter` do, and
what becomes of its parameter sets is `Splits` of VideoSession (see section 6).

### PeerSession

The control connections (`link`, `handler`, `keepalive` and what the headset
`shown`s), the threads that write (`writing`, `to`, `message`), and of each video
session its `phase`, its number of `monitors`, its command `queue` and its
`forwarder`. `write_control` is two steps, `Encrypt`, which waits for
`control_lock`, and `SendFrame`, which releases it; frames encrypted and not yet
sent are in `unsent[c]`, and a frame
that is sent when it is not the first of them makes `garbled[c]` true.
`source[v]` is the queue the forwarder of `v` waits at: it reads
`session.video_commands` anew in every turn of its loop, so it may come to wait at
the queue of another session. `configured` is `NoVideo` when `video.enabled` is
false: then a connection is not greeted (`SkipGreeting`) and no session starts.
Control sockets have no timeout. A send to a headset that does not read and whose
window is full blocks, with `control_lock` held: the link is `"stalled"` (`Stall`), and
the thread waits in `SendFrame` until the headset reads on or TCP gives it up
(`Resume`).

Abstractions. The headset opens one control connection at a time, and a new one
when it has closed the old one, which the old threads may not have noticed. It
replaces all its buttons when a Reload arrives (external). A mutation of
`streamer_settings` and the read of `control_stream` next to it are one step.

### KmsCapture

The program `vd_encoder`, from the moment its constructors have run. `pc` is where
its one thread is, in `main` or inside `captureInto`.

| Code | Action |
|---|---|
| `main`: the surface | `StartCapture` |
| a turn of the loop of `nextSurface`; its end | `ReadPacket`, `ReceiveFrame`; `NoFrame` |
| the rest of `nextSurface` | `Derive`, `Map` |
| `captureInto` after a failure | `Retry` (`closeInput`), `Reopen` (`openInput`) |
| `captureInto` drawing | `Render` |
| `main`: the overlay, the encoder, the pipe | `DrawCursor`, `Encode`, `TakeUnit`, `NoMoreUnits` |
| a `break` out of the loop; `running = false`; the handler of exceptions | `Leave`; `EndLoop`; `Throw` |
| behind the loop: the exit code | `Finish` |
| the X server, external | `Reallocate` |

`scanout` is the buffer on the screen; `input` (`fmt_` and `dec_`) and `frames`
(`va_frames_`) are the scanouts they belong to, or `Closed`. A size stands for a
rectangle; `Whole` is `crop_w <= 0`, and also the `scanout_w_` of a source without
a frame. That an input delivers only as long as its buffer is on the screen is
what the comment in `captureInto` says of it; every call may fail besides.
Session and program meet at the pipe: `TakeUnit` with reason `"stdout"` is a
reader that is gone, and every way to `"stopped"` is VideoSession's
`EncoderExits`. Being killed from outside, which may happen anywhere, is left to
VideoSession's `Die`. `running`, `probeOk` and `rc` are the variables of `main`;
`reason` tells the ways out of the loop apart. `drawn`, `gotUnit`, `cycles` and `early`
are history: whether a picture of the screen was drawn, whether the encoder gave an
access unit, how often the input was reopened since the last frame, and whether the
screen changed its size before the cursor was sized.

### Pairing

The life of a key. `stage` says where the discovery thread is in its loop, `key`
and `iv` are the two attributes of every `PeerSession`, `conn[c]` is a TCP
connection with the thread that serves it. A pairing is a number, which names the
key and the IV drawn for it and the reply that carries them.

| Code | Action |
|---|---|
| the loop of `DiscoveryService.run`: a datagram that is none, a request, the reply | `IgnoreDatagram`, `TakeRequest`, `SendReply` |
| an exception nothing catches | `PairingRaises` |
| `set_keys`, one assignment at a time | `SetKey`, `SetIv` |
| `_handle_connection`: the registry, the stream | `LookUp`, `ReadKey`, `ReadIv` |
| the handlers of `control.py`, `data.py`, `audio.py`, `video_channel.py` | `BeginReading`, `BeginDraining`, `BeginVideo`, `EndReading`, `EndStreaming`, `SessionOver` |
| the thread that drains a video channel | `EndDrain` |
| the headset and the network, external | `SendDatagram`, `TakeReply`, `LoseReply`, `Connect`, `LoseLink` |
| the program killed and started anew | `Crash`, `Start` |

A datagram that is lost is one that is not sent; a reply may be lost or arrive late,
also after a restart. `conn[c].sound` is history, from the look-up to the last read
of a key: when the thread of the connection looked the headset up, the pairing the
headset uses was the newest one and registered, however early it had connected, and no
reply was sent to the headset until the thread had read both key and iv. A headset
cannot know of itself whether its connection is sound; the property says what happens
if it is. The tests of the four handlers are kept; what they answer to a
message is not. The video session behind `"streaming"` is VideoSession, the
control channel behind `"reading"` PeerSession.

### Framing and FrameChannel

One direction of a `ChainCipherStream`, down to the arithmetic: `Varint`,
`DecodeVarint` and `RoundUp16` are the functions of `protocol/crypto.py`, `need` is
what `_recv_exact` still waits for, `ends[k]` where frame `k` ends in the stream.
Of a payload the length is kept. `Decoded` is what the reader makes of the block
before it: the varint of the frame that begins there, and anything at all when none
does, so that a reader out of step goes astray as the real one would.

`FrameChannel` is the abstract specification of both ends together: `Write`, `Read`
and `Cut` on a sequence of frames that arrives as a prefix of what was sent.
`ImplementsChannel` is the refinement (`sent <- frames`, `open <- (link = "up")`),
its fairness included: what is written is read in the end, unless the channel is
cut. PeerSession rests on it: there a frame is a whole, and what can go wrong is
the order in which several threads write.

### Config and Startup

`Config` is `config.load` and what `main` does with its outcome: `ReadFile`,
`FromEnv`, `Override` (for `--log-level`) and `Check` (`validate`). A value is its
JSON type together with what the code tells apart in it: an integer that is a
multiple of 16 (`"sixteen"`) or not (`"seven"`), of 2^31 or more (`"huge"`), too large
for a float (`"gigantic"`), a string of digits, a float, an infinite one, and so on;
`Coerce` is `_coerce`, `FromString` the environment's way. The settings are of every
type a default has (`video_send_timeout` is the float), and those that main, `validate`
or a session look at. Not every exception becomes a `ConfigError`: `int` of an infinite
float and `float` of a gigantic integer raise `OverflowError`, the file may be
unreadable for the system or as UTF-8, and JSON of too many digits or levels makes
`json.loads` raise otherwise. Each is a step to `"crashed"`.

`Startup` extends it, so that every configuration that is accepted is also served.
Each video connection is `VideoSession.__init__` and the part of `run` before the
loop, question by question: `ChooseSource`, `ChooseEncoder`, `Environment`,
`Geometry`, `PlanMonitor`, `ProbeVdEncoder`, `SendFormat`, `StartEncoder`. `Begin` has
`settimeout`, which refuses some values of `video_send_timeout`, and `SendFormat`
`struct.pack`, which refuses what is no integer or does not fit 32 bits. The
machine answers every question anew (`\E` over what it may say); what stays from one
session to the next is what stays in the process: `libva` is `LIBVA_DRIVER_NAME`,
`display` whether `DISPLAY` is set. `EndSession` is all that VideoSession models.

### How the modules fit together

Startup says how an encoder is chosen and VideoSession how it is run; MonitorPlans
has the planning and tearing down of both in detail, KmsCapture the inside of one
kind of encoder, AccessUnits what is made of its output. Pairing ends where a
connection has its key and iv; Framing is the stream that begins there, and
PeerSession uses several of them. The modules meet in the steps named above, not in
a common state: their products are beyond TLC.

## 3. The runs

`CHECK_DEADLOCK FALSE` is in every configuration, because a session really ends,
an input really is read to its end, and connections are bounded.

| Run | Question | Bounds | Result |
|---|---|---|---|
| `session_safety` | Do counter, lists and references stay right in every interleaving, and is the session an implementation of MonitorStreams? | 2 monitors, 3 libx264 encoders, 2 commands of either kind, queue of 2, 1 unit left in a pipe | 2.2 million states, holds |
| `session_ends` | Does the session end when its encoders have? | 2 encoders, native and h264_vaapi, 2 Removes, queue of 1 | 0.85 million states, holds under `FairSpec` |
| `session_add` | Does the handling of Add Monitor end? | 2 encoders, 1 command | violated |
| `monitors_pool` | Do two sessions keep out of each other's way whatever fails? | 2 sessions, 2 connectors, 2 display numbers, 3 plans | 0.3 million states, holds |
| `units` | Are the units the frames, however the reads fall? | 5 frames, both layouts, every cut | holds |
| `capture` | Does the capture survive every change of the screen, or end? | 2 sizes, whole screen or a part, 2 reallocations, 2 failures in a row, 3 attempts, 1 frame of delay | 66 thousand states, holds |
| `peer_control` | Are the chains intact, do keepalives end, does the headset come to see the settings? | 2 control connections, any of which may stall, 1 video session, 1 button, video on or off | 0.30 million states, holds under `FairSpec` |
| `pairing` | Do headset, registry and connections agree on the keys, is every request answered, does every connection end? | 2 headsets, 3 channels, 2 datagrams, 1 connection, 1 crash | 0.26 million states, holds under `FairSpec` |
| `framing` | Do the two ends of a stream stay in step, and are they a channel? | 6 lengths around the borders of block and varint, pieces of 7 and of 160 bytes, 3 frames | 0.62 million states, holds |
| `startup` | Is a configuration made as documented, and does every accepted one lead to encoders that use what was probed? | 2 settings set in file and environment, 2 changed when served, 2 sessions, 3 panel sizes, monitor lists of 0 to 4 | 4.1 million states, holds |
| `startup_fallback` | Does a session without a working VAAPI driver still stream? | 1 setting changed, 2 sessions | violated |
| `peer_stale` | Does an empty `video_commands` mean that no session runs? | 1 connection, 2 video sessions | violated |

Why these bounds are enough to meet the interesting cases. Three encoders for two
monitors is the least with which an index is used a second time while a reader of
the first one still lives; a queue of two holds a unit and a command in either
order, and is full often; one unit left in a pipe lets a reader outlive its
encoder by a unit. Two sessions and two connectors let both run out. Five frames
hold three consecutive reads with every relative place of delimiter and cut. Two
control connections are one reconnection, with all of the old connection's
threads alive; one button is all that TLC can follow there, so that only the theorem
`SettingsFollow` speaks of Add and Remove in alternation. Two failures in a row tell a failure from a row of them, two
reallocations change the size and change it back while the first change is being
recovered from; three attempts are a packet, a frame and one that had to wait.
Pairing has one connection because connections share nothing but the registry,
which only the discovery thread writes; two datagrams are a pairing and another one
during the first connection, by the same headset or by the other one, or noise in
front of a request. The lengths of Framing lie on both sides of every border: a
varint of one byte and of two, a frame of exactly one block, and one byte more.
In Startup two sessions are what it takes for the second to find what the first
left in the environment (sessions that overlap are not in this module); two settings in all show every pair of layers and types,
and the panels are a size below a macroblock, one that is no multiple of it and
one that the other dimension can differ from.
The counters of frames saturate at `FrameCap`; no property depends
on more than whether an entry is there.

The invariant of types in each module also bounds what the code bounds:
`Len(out_q) <= video_queue_size`, display numbers, connectors.

## 4. Fairness

* VideoSession: weak fairness of the video thread, of every reader and of the
  forwarder. They are threads of the operating system, each blocked only where its
  action is disabled. No encoder has to exit, and the headset need not send a
  command. A reader waiting for `lock` needs no more than weak fairness, since the
  lock is only ever held by the last reader.
* MonitorPlans: weak fairness of every step of a session, because each command is
  run with a timeout of 30 seconds; strong fairness of the shutdown's, which
  compete for `_LOCK`.
* PeerSession: strong fairness of the handler, keepalive and video threads, which
  compete for `control_lock` and release it after one frame; weak fairness of the
  forwarder. Nothing makes the headset connect or press anything. That it reads is not
  assumed, but that it does not stop for ever while TCP keeps its connection
  (`HeadsetReads`: weak fairness of `Resume`). The code has nothing against that: only
  the sockets of the video channel have a timeout (`net/server.py:41`), so that a
  thread whose send blocks on a control socket keeps `control_lock`, and the threads of
  all connections of the headset wait for it. Without `HeadsetReads` both
  `KeepalivesEnd` and `HeadsetSeesSettings` are false.
* KmsCapture: weak fairness of the capture steps, because every call into libav
  returns, and of the steps behind the loop of `main`. Nothing is assumed of the rest of `main`, where a write may wait for a
  reader that does not read.
* Pairing: weak fairness of the discovery thread, of the thread of each connection
  and of the thread that drains it; each is blocked only where its action is
  disabled. That a stream notices a headset that is gone assumes that its encoders
  go on producing units, for it is the write that fails: `EndStreaming` is part of
  the fair steps. Headsets, datagrams, crashes and the end of a session are not fair.
* Framing: weak fairness of sending and of reading, which are the two threads and
  TCP's delivery of what it has accepted. Nothing makes a thread write.
* AccessUnits, Config and Startup are computations and have no liveness.

## 5. Proofs

`VideoSession_proofs` proves, for every value of the constants allowed by
`ConstantsAssumption`:

| Theorem | Says |
|---|---|
| `TypeCorrect` | `Spec => []TypeOK`: in particular `out_q` never exceeds its size |
| `AliveIsExact` | `alive` is the number of registered readers that are still to count themselves off |
| `ListsAgree` | whenever the loop takes an item, the lists, the announced stream count and the readers' labels agree |
| `ShutdownKills` | no encoder runs once the session has shut down |
| `SessionKeepsPromise` | the session implements MonitorStreams, by the refinement mapping of section 2 |
| `ReferencesOfShownMonitors` | the decoder of a shown monitor gets a delta without its predecessor only if its encoder is h264_vaapi, or since a late unit was sent in its place and up to the next keyframe |

The argument. `TypeOK` is not inductive: that `alive` stays a natural number needs
the counter to be exact, so `TypeInv` carries `Counted` with it. The lists agree
only at the head of the loop, so `ListInv` adds `Numbered`, which says of every
other `pc` how far the lists may be apart (during `register` the new encoder is the
last of `procs`, during the first starts `procs` is a prefix of the plans), and
`RunningListed`, that a running process is in `procs`: with it `Shutdown`, which
kills what is in `procs`, kills everything. For the references, what the decoder of
index `i` was sent must be followed back through the queue to the gate: `GateExact`
ties `missed` to the gate's `_desynced`; `QueuedIntact` says that a delta in the queue
has the unit before it in front of it, queued or sent; `OfferedIntact` the same of the
unit that is offered next; `FedIntact` that a decoder no late unit has disturbed was
fed by the encoder of its monitor alone and is not broken; `Unborn` and `Unfed` that
before an encoder's first unit, and beyond the last monitor, nothing has been queued
or sent. All of it is said of the monitors whose encoder lets the reader tell its
keyframes (`Told`): a gate that takes a delta for one passes it after a loss. Each is
one conjunct of the inductive invariant, with one step per action.

For the refinement there is a step per action of VideoSession, each of which shows the
actions of MonitorStreams it may be, or a stutter; starting, removing and sending have
lemmas of their own. The invariants make it go through: `ListInv` says that the lists
are as long as `announced` when a monitor begins, goes or is shown, `FedIntact` of the
next state that `Show` breaks no decoder but of a late stream's place, `RunningListed` that killing what is in
`procs` is killing all that live. The specification promised has no fairness, so the
refinement is proved whole.

The two exceptions are the code's (section 6). Without that of late units TLC violates
the property in a few seconds: a Remove, an Add, and a unit left over from the removed
monitor's encoder that comes between two of the new one.

`MonitorPlans_proofs` proves, for every number of sessions, connectors and
displays allowed by `PlansAssumption`, whichever commands fail:

| Theorem | Says |
|---|---|
| `TypeCorrect` | `Spec => []TypeOK`: in particular no session ever holds more plans than it may |
| `ConnectorsAreExclusive` | no connector is part of two monitors, of one session or of two |
| `RegionsNeverOverlap` | monitors that xrandr put where it was told do not cover each other, except on the place of the panel, where they are put when the measuring failed |
| `BooksAgree` | as long as no command fails, `_in_use`, the forced connectors and the plans agree |
| `EverythingGivenBack` | when all sessions are gone and no command has failed, nothing is forced on, in use or running |

The argument. `TypeInv` bounds every place on the desktop by the number of
monitors ever planned, because `add` must find a right edge (`RightEdgeIs`).
`PoolInv` says that the lock is held by exactly the session that is inside `add`
or `remove` (`LockExact`); that the connector being forced on is not in `_in_use`,
which is where it will be entered only at the end of `add` (`AddedFree`); that the
one being let go is in `_in_use` and in no plan (`RemovedTaken`); and that what
plans hold is in `_in_use` (`PlansTaken`). Without the first two, two sessions
might choose one connector. `RegionInv` adds that the edge measured at the start
of `add`, unless it is that of a failed query, still lies right of every placed output
when the output is placed, which again rests on the lock. `AccountInv` and `GivenInv` hold as long as no command
has failed; the failures after which the books differ from the hardware are in
the model, and the properties say nothing of them.

`KmsCapture_proofs` proves, for every number of attempts, failures and
reallocations and every set of sizes allowed by `CaptureAssumption`:

| Theorem | Says |
|---|---|
| `TypeCorrect` | failures, attempts and frames in flight stay within their bounds |
| `ContextIsOfInput` | a frames context is never used with another input than its own |
| `GivesUpOnlyLate` | a capture is given up only after a full row of failures without a frame |
| `CursorIsToScale` | the cursor is drawn in the scale of the picture, if the screen keeps its size up to the first frame |
| `ProbeTellsTheTruth` | a probe exits with 0 if and only if the encoder gave it an access unit, and then the screen was captured before |

The argument. `CountInv` ties the counter of the code to the cycles since the last
frame at each step of a retry, where the two are changed one after the other.
`CursorInv` says that, up to the frame that sizes the overlay, the rectangle, the
open input and the screen have one size, and that the rectangle no longer changes
afterwards; without the premise on the screen the conclusion is false.

For the exit code, `ProbeInv` follows the flags from where they are set to where they
are read: `probe_ok` is set exactly when a unit came, a unit comes only of a frame that
was drawn, and a probe that has one goes round the loop no more, so that neither a
failing capture nor an exception can come between the unit and the exit code.

`Framing_proofs` proves, for every set of lengths, any number of frames and every
way to cut the stream:

| Theorem | Says |
|---|---|
| `CodecIsSound` | `decode_varint` gives back every natural number that `encode_varint` has encoded, and how many bytes it takes |
| `TypeCorrect` | types of writer, stream and reader |
| `ReaderInStep` | the reader begins a frame only where one begins |
| `FramesAreWhole` | what it returns are the first of the frames written, each with its contents and in order, wherever the stream is cut or ends |
| `FramingIsChannel` | initial states and steps of Framing are initial states and steps of FrameChannel, or leave it alone |

The first is an induction over the number: what the decoder adds for the bytes of a
varint is the number they stand for, in the unit it has reached when it begins with
them; the number that is left after a byte is smaller. The library's induction theorem takes an
operator as a parameter, which no installed prover can instantiate; `InductionOn` says
the same of a set of numbers and is proved from the well-foundedness of `<`, and every
induction in these modules goes through it. The only assumption left,
`LengthAssumption`, is that the prefix of every length fits the first block, which is
so for all lengths below 2^112.

The argument for the rest: `Laid`
says that frames lie one behind the other without a gap, `Prefix` that what was
returned are the first of them, and `Within` that `pos + need` is the end of the first
block, or of the whole, of the next one. `Within` makes it inductive: without it
nothing is known of a reader in mid-frame.

`Pairing_proofs` proves, for every set of headsets and connections and every number
of datagrams and crashes:

| Theorem | Says |
|---|---|
| `TypeCorrect` | every key belongs to a pairing that took place |
| `RegistryIsNewest` | the registry has the newest keys of the headset, but while they are being entered |
| `StreamsAgree` | no connection is served without keys or with another headset's; one whose pairing was registered when it was looked up, and to whose headset no reply was sent until it had read both, has the key and the iv the headset uses |

The argument. `KeyInv` says whose the keys in the registry are, and that between the
reply and the second assignment of `set_keys` the newest pairing is that of the
headset being served. `ConnInv` follows a connection from the look-up to the
stream: what it has read is of its own headset, and what it has still to read cannot
be changed under a connection that is `sound`, because no reply has been sent since.
Without that premise the second half is false: a headset that takes the reply and
connects before `set_keys` is done (`net/discovery.py:123`) may be served its old keys,
or the new key with the old iv, and so may one that pairs again while it connects.

`PeerSession_proofs` proves, for any number of connections, sessions, monitors and
buttons pressed:

| Theorem | Says |
|---|---|
| `TypeCorrect` | in particular a session that has started has between one and `MAX_MONITORS` monitors |
| `ChainsAreIntact` | on every connection frames go out in the order they were encrypted |
| `SettingsFollow` | while the headset reconnects neither channel, the enabled buttons fit the monitors, whenever the session is not just changing them |

The argument. `LockInv` says that the thread with the lock is the one that has
encrypted and not sent, that its frame is the only one in any connection's chain, and
that who writes has a connection to write to. The last needs `Silence`: a video session
writes to whatever is the control stream, so it must be shown that there is one before
any command reaches it, which goes back through `out_q` and the command queues to the
handler that has attached.

For the settings, `SettingsInv` says what they will be: once the changes that a session
has still to send are made (`After`), they are the buttons of its monitors (`Followed`).
A change is made before its frame is sent, so while it is written it is the
first of the changes and makes no more difference. That a greeting may set
the settings from the configuration, whatever the session has done before, is right
because of `Fresh`: until some handler has greeted, no command can be under way, so
that the monitors are still those configured. With video disabled there is no
session at all (`FewChanges`), so that it does not matter that nothing sets the
settings. With a second control connection this
is false, which is why the property has its premise.

`Startup_proofs` proves, for all lists of monitors, values in the file and the
environment, sizes of outputs and numbers of sessions:

| Theorem | Says |
|---|---|
| `TypeCorrect` | never more plans than monitors, nor more encoders than plans |
| `LatestLayerCounts` | the order of precedence of the layers, setting by setting |
| `DriversAreProbed` | every hardware encoder gets the driver that passed the probe of its session |
| `SizesFit` | the encode size is a positive multiple of a macroblock and fits the primary output |
| `NoOtherMistakes` | for the settings that are modelled, the list of mistakes that may end the program or a session with another exception is complete |

The argument. `LayersInv` gives the value of a setting after each layer as an
expression in the layers, and `CheckedInv` carries the outcome of `validate` to the
sessions, which rely on it long after. `DriverInv` says where the probed driver is at
each step of a session: before `Environment` only in `vaapi_env`, from then on in the
environment of the desktop, in that of the process and in every plan. A configured
`i965` of an earlier session does no harm because the probe uses it again.

`AccessUnits_proofs` proves, for either layout, any number of frames and every way
the reads may cut the stream:

| Theorem | Says |
|---|---|
| `SplitIsSound` | any buffer is cut at each of its delimiters: `split_access_units` returns what lies between them, the first unit with what precedes it all, and keeps the rest |
| `TypeCorrect` | types, and that what the reader holds never has a second delimiter |
| `FramesHandedOn` | if the parameter sets are behind the delimiter, the units are the frames and `is_sync` marks the keyframes |
| `UnitsLead` | every unit starts with its delimiter, in either layout |
| `LastHeldBack` | a reader that has read all has handed on every frame but the last |

The argument. `SplitIsSound` is an induction over the turns of the loop, with the
delimiters of the buffer enumerated in order. `UnitsInv` is about the whole stream,
which the model does not keep: there is one, of which the reader has taken the first
`p` symbols and holds those from `s` on, and the pipe has the others (`Held`). The
delimiters lie in it at the offsets `off`, with a slice between any two (`LaidOut`),
and `s` is where the next frame to be handed on begins, of which the end has not
come yet. A read moves `p` on; the symbols held then contain the delimiters of
some frames `n + 1` to `n + m` and no others (`Within`), wherever the cut has fallen,
in the middle of a delimiter too, because the second half of a delimiter alone is
none. `SplitIsSound` then gives the units, and `FramesThere` what is in them.

Only model-checked is what depends on fairness: `SessionEnds`, `ClosingEnds`,
`CaptureEnds`, `KeepalivesEnd`, `HeadsetSeesSettings`, `RequestsAnswered`,
`ConnectionsEnd` and the fairness of FrameChannel in `ImplementsChannel`. Liveness
is out of this prover's reach, as `ENABLED` is. The three properties that are violated
(section 6) need a counterexample and no proof.

## 6. Disagreements between code and documentation

Three are runs that end in a counterexample; the entry under `findings` in
`PROJECT.json` quotes the sentence that is contradicted.

* `session_add`: the video thread has taken an AddMonitor from the queue and is on its
  way to `_register` when the last reader gets `self.lock` and the queue fills up; the
  reader waits for room with the lock held, and the video thread, which alone makes
  room, waits for the lock.
* `peer_stale`: the shutdown of an old session sets `video_commands` to `None`
  even if it is already the queue of the session that replaced it.
* `startup_fallback`: with `source = "auto"` and a usable kmsgrab, frames are
  captured into GPU memory because the *configured* encoder is `h264_vaapi`; when
  `select_encoder` then falls back to libx264, that encoder cannot take them.

Others are steps of the models that the properties leave room for:

* The first configured encoder may exit before the second is registered; its reader
  counts from 1 to 0 and queues the sentinel, and the loop logs "all encoders
  ended" (`video/session.py:293`) while the second runs (`PutEnd` before `Setup` is
  done).
* Units of a removed monitor's encoder that are still queued, or in its pipe, are sent
  as units of the monitor that has taken its index, because `video/session.py:303` looks
  at the index alone. The headset gets a frame of another stream, and the references of
  the new one are gone until its next keyframe (`late`).
* With h264_vaapi the parameter sets of a keyframe are attached to the unit before it,
  which then is `is_sync`, and the keyframe is not. After a loss the gate lets that
  delta pass, which lacks its reference, and if the queue is full just then it may hold
  the keyframe itself back. `DropGate` says "Drops frames after loss until the next
  keyframe to avoid corruption" (`video/access_units.py:38`), and
  `tests/test_access_units.py:79` that everything is held "until a self-contained sync
  frame arrives" (`Splits` in VideoSession).
* A failing `xrandr --query` counts as an empty desktop: the new output is placed at
  `+0+0`, over the panel and over any other such output (`Measure` in MonitorPlans).
* `subprocess.TimeoutExpired` of a forcing command is not among the exceptions that
  lead to the Xvfb fallback `src/README.md:62` promises (`TimesOut` in MonitorPlans).
* Parameter sets in front of the first delimiter are dropped when the first read
  contains only one delimiter; `tests/test_access_units.py:41` asks that they be kept
  when it contains two (`Rest` in AccessUnits).
* `config.py` promises a `ConfigError` for what is wrong with a configuration, and the
  program ends with another exception for a file that cannot be read, a section that
  is no object, values of the wrong type from the environment, sizes that are no
  numbers, numbers too large to be converted, and monitors that are none.
  `UntypedInput` in Config lists these, and the first part of `MistakesAreReported` says
  that for the settings modelled there are no others. What passes `validate` may still
  end each session: a size or frame rate that does not fit 32 bits, or a
  `video_send_timeout` that no socket takes; the second part lists these.
* The example configuration says that `auto` upgrades "a single full-screen
  monitor" to kmsgrab; the code does not look at the number of monitors
  (`ChooseSource`).

## 7. What is not modelled

* The pixel pipeline (`src/native/src`: conversion, blending, encoding, X11 capture)
  is computation on frames inside libav and VA-API.
* The native encoder extension (`encoder.cpp`, `module.cpp`). VideoSession starts and
  kills such an encoder as it does a process; that `stop` frees what `next_packet`
  uses on another thread is listed as a hazard and is undefined behaviour of C++,
  about whose outcomes the source says nothing.
* The message and packet layouts (`protocol/messages.py`, `video_structs.py`) and the
  XML description of the computer are fixed formats without a state or a choice,
  and the tests compare them byte by byte. Of the command lines only what decides
  (source, driver, the order of parameter sets) is in Startup and AccessUnits.
* The parsing of xrandr's output, the search for an authority file and the window
  manager of an Xvfb: text in, text out, with "not found" as the case the models keep.
* Of `vd_encoder` the options and the setting up of devices, whose failures end it.
* Of the settings: `video_queue_size` and `idle_hold_seconds`, `timestamps` and the
  booleans of `identity`, and the texts of `identity` but for `os_name`. A
  `video.monitors` that is no list is the entry `"no list"`; a string or an object, over
  which `_normalise_monitors` iterates, is a list of words.
* Installation. The data and audio handlers keep no state between messages, so
  Pairing has their connections and not their messages.

Threads are assumed to start, memory to suffice, and Python's `queue.Queue` and
`threading.Lock` to do what they document. Two assignments are two steps where
another thread may come between them and it matters (`set_keys`, the reads of key
and iv); elsewhere a step is what a thread does between two waits.

## 8. Plan

1. Done: VideoSession with MonitorStreams, MonitorPlans, KmsCapture, PeerSession,
   Framing with FrameChannel, AccessUnits, Pairing, Config and Startup, each with its
   proofs. Every invariant a run checks is a theorem.
2. NativeEncoder: `encoder.cpp`, its `pending_` packets, and `stop` of one thread
   against `next_packet` of another, both without the interpreter's lock.
3. VideoSession and PeerSession composed through the command queue.
