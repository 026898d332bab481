# csound-watch in TLA+

csound-watch shows Csound signals in windows. It has two programs: a Csound
plugin (`src/src/watch.c`), whose opcodes create graphs and feed them, and a
viewer (`src/src/watch_viewer.c`), which shows every graph in a window of its
own. They talk over UDP on the local host (`watch_protocol.h`). This directory
models what those programs keep and do, checks it with TLC on small instances
and proves its safety properties with TLAPS for every instance.

Paths below are relative to the repository; `watch.c` means `src/src/watch.c`.

## 1. Inventory

### The plugin

| Part | State | Operations |
|---|---|---|
| Stream (`WATCH_STREAM`) | a ring of 50 packets, the packet under construction, dropped samples, `release_requested`, the snapshot of a table | `watch_add_a/k/p/f`, `watch_meter` fill it in the audio callback, without a lock; `release_stream` gives it up; the sender thread drains and frees it |
| Graph (`WATCH_GRAPH`) | its configuration, whether the viewer answered it, whether it is to be destroyed and its window closed, up to 64 streams | created, replaced and dropped by the opcodes, changed by `watchtheme`, served and freed by the sender thread |
| Registry (`WATCH_MANAGER`) | 32 graph slots, the next identifier, the mutex | `register_graph`, `allocate_graph_id`, `find_graph`, `manager_reset` |
| Opcode instances | the handle variable, the stream pointer | init (again at every reinit), perf, deinit |
| Sender thread | timers of the launch | every 2 ms: answers, one pass over the registry under the mutex, launch of the viewer |
| Launcher (`watch_process.c`) | the installed files and their permissions | search for the executable, `chmod`, two forks and exec |

### The viewer

| Part | State | Operations |
|---|---|---|
| Window table | per window: the configuration, the endpoint of its session, the buffers | `process_config_packet`, `process_graph_close_packet`, `process_session_close_packet`, window events |
| Process | the shutdown deadline | started by a session, bound to one port; ends when the last window is closed by hand, or 500 ms after a session took the last window with it |
| Scope buffers | a sample ring per stream, one display clock per graph | `append_scope_samples`, `advance_scope_timeline` |
| Spectral assembly | the frame being assembled, the history | `process_spectral_packet` |
| Table assembly | chunks received, the envelope | `process_ftable_packet` |
| Point trails, meters | bounded history; levels and peak marks | `process_point_packet`, `process_meter_packet`, `render_meter` |
| Validation | none | `validate_config_packet` and the checks at the head of each packet handler |
| Tick labels | a cache per window | `prepare_tick_labels`, dropped by theme, resize, density and replacement |

### How they interact

* The audio callback and the sender thread share a stream through two atomic
  positions and nothing else; init, deinit and the sender thread share the
  registry under one mutex, each call being a *sequence* of critical sections.
* A session repeats the configuration of a graph every 250 ms until the viewer
  answers; only then are its streams drained. A theme change starts this over.
* Data, GRAPH_CLOSE and SESSION_CLOSE packets are not answered; the closes are
  sent three times.
* One viewer serves all sessions. Any session launches it when a graph has
  waited 150 ms; a second process fails to bind the port and exits.

### What is hard, and what makes each part correct

`PROJECT.json` lists the hazards at the lines where they bite. In short: the
ring must never be overrun although publication does not look for room; a
stream and a graph must be freed neither early (under a running `watchadd`) nor
never; identifiers wrap around; an answer may be about an older configuration;
a window must be neither duplicated, nor reopened, nor left behind, although
packets are lost; a viewer on its way out must not take a new session's graph
with it; no second viewer may start while one is starting; a failed launch must
be reported, once; what an opcode accepts the viewer must accept; and what a
window shows must be whole, in order and in place although its packets are
lost, late or repeated, and although rings wrap and notes take over streams.

## 2. Modules

| Module | What it models |
|---|---|
| `SampleChannel` | Abstract: what a stream promises - samples in order, each once, complete unless the graph is replaced |
| `GraphLife` | Abstract: what may become of a graph - announced until it is answered, ended once, gone only then and not while it waits |
| `WatchStream` | One stream: ring, packet under construction, drain, release |
| `WatchRegistry` | One session: graphs, identifiers, streams, every opcode's init and deinit, the sender thread |
| `ViewerLaunch` | One session's timers, the search for the viewer, its launch and the errors |
| `WatchViewer` | The window table and the life of the viewer process |
| `WatchSystem` | Sessions, network and viewer together; extends `WatchViewer` |
| `SpectralFrame` | The way of a spectral frame: chunks, ring, assembly, spectrum or spectrogram |
| `FtableTransfer` | The way of a function table: copy, chunks, assembly, envelope |
| `MeterWindow` | The way of the levels of a meter: peaks, packets, bars, peak marks |
| `ScopeTimeline` | The sample rings of a scope in the viewer, the display clock, what a frame draws |
| `PointTrail` | The trail of a point stream in the viewer |
| `TickLabels` | The cache of the labels of a window's axes |
| `PacketContract` | The settings of every opcode, the configuration they make, what the viewer accepts |
| `WatchStream_proofs`, `WatchRegistry_proofs`, `SpectralFrame_proofs` | Proofs about these modules |
| `WatchSystem_proofs` | Proofs about `WatchSystem` with `WatchViewer`, and about `ViewerLaunch` |
| `ViewerRings_proofs` | Proofs about the rings of the viewer: `PointTrail`, `ScopeTimeline` |
| `TableAndMeter_proofs` | Proofs about `FtableTransfer` and `MeterWindow` |
| `GraphSettings_proofs` | Proofs about `PacketContract` and `TickLabels` |
| `MCWatchViewer_proofs` | What was proved of the components holds of `MCWatchViewer` |
| `MC...` | Instances for TLC; `MCWatchStream` and `MCWatchViewer` put components side by side |

Operators under a comment that starts with "Mutant" are deliberate faults: each
property is violated when the definition after one of them is replaced by it,
which shows that the property depends on that code.

### WatchStream

State and actions follow `watch_add_a`, `_k`, `_p`, `release_stream`,
`send_stream_packets` and `release_finished_streams`. A sample is named by its
time, the `sequence` the code gives it. Every action reads or writes at most one
location that the other thread writes, so the interleavings are those of the
two threads: looking for room (`StartPacket`, `DropRest`), copying
(`CopySamples`) and publishing (`PublishFull`, `PublishAtGap`) are separate
steps of the callback; taking a packet (`TakePacket`), sending it
(`SendPacket`, `SendFails`) and advancing `read_pos` (`AdvanceRead`) are
separate steps of the sender thread. Release/acquire on the two positions makes
sequential consistency the right model here: each position has one writer, and
the slot contents are only read after the position that publishes them.

`BeginCall` lets time pass between two calls, which is what a skipped control
cycle looks like; `publishThreshold` covers full packets as well as the small
packets of a point graph. The registry mutex is held during a pass, hence
`MutexFree` in everything else that needs it.

### WatchRegistry

One action per critical section of an init or deinit call; `op` says which
section comes next, and the sender thread may make a pass (`SenderPass`) or
receive an answer (`ReceiveAck`) in between. A pass is one action: the code
holds the mutex throughout. Streams keep only `released` and `backlog`
(something is left to send). Csound runs init and deinit calls one at a time
and ends every note before the reset callback; these two facts are assumed
(`Starts`, `Ends`, `Reset`). `sentConfigs` records the configurations sent for
registered graphs; any of them may be answered at any time, or never.

### WatchViewer and WatchSystem

`WatchViewer` has one action per thing that can happen to the window table.
`WatchSystem` adds the sessions (graphs without streams), the socket of the
viewer (a FIFO queue that may lose packets; the local host does not reorder
them), the sockets the answers go back to, and the user. Packets sent while no
viewer runs vanish. Retry and relaunch intervals are not modelled: a
configuration can be repeated at any time while its graph waits.

### SpectralFrame and FtableTransfer

What does not fit one packet. Both modules contain the plugin's half and the
viewer's half, and between them the set of packets that were sent: any of them
may be received at any time, so loss, delay, reordering and repetition need no
actions. Content is what the properties tell apart: a bin carries the name of
its frame, and a spectral format (FFT size, hop, rate) is its number of bins.
The ring of the stream is a queue here; that it behaves like one is what
`WatchStream` shows. `AddFrame` begins a call of `watch_add_f`, `PublishChunk`
is one turn of its loop, `DropFrameRest` its `break`, so the sender thread drains
between two chunks. `ReceiveChunk` and `ReceiveTableChunk` are the whole packet
handlers, with the outcomes in which memory or a texture is missing
(`RejectFormat`, `RejectColumn`, `RejectTable`). `StartInstance` gives the slot
of a stream to a new instance, perhaps with another format; `WriteTable` changes
the function table after it was copied.

### ScopeTimeline

`SendScopePacket` is a packet from the instance to the ring, `append_scope_*`
included; `RenderFrame` advances the display clock; `DrawnTimes` and
`DrawnPoint` say what `draw_scope_stream` then reads. A sample has its time as
its value, so "drawn in place" can be stated. `LateScopePacket` delivers any run
of samples of the past again, which contains every packet that was sent. Packets
of a scope and of a control graph are treated alike by the viewer.

### ViewerLaunch

`LaunchPass` is a pass of the sender thread as far as the viewer is concerned:
due configurations, the probe, `try_launch_viewer`. The code only compares times
with delays, so each time is an age up to its delay, and `step`, the time since
the pass before, varies. `Resolved` is the search for the executable: the first
place that has one, where the place of `risset` is repaired with `chmod`.
`Launched` is what the two forks and the exec come to, with their failures.
`ViewerBinds` ends the start of the viewer, `ViewerAnswers` answers one graph,
`ViewerQuits` and `Install` are the user's. A graph the viewer refuses
(`RefusedGraphs`) waits for ever, which keeps the launcher busy. The Windows
launcher, without permissions and forks, is not modelled.

### MeterWindow

`WatchMeter` is one control cycle of `watch_meter`: levels are accumulated, a
packet is due every `FramesPerPacket` cycles, and when the queue is full the
peaks stay for the next one. `ReceiveMeterPacket` is `process_meter_packet`,
`RenderMeter` the part of `render_meter` that changes the marks: hold, fall,
the clamp of `elapsed`. Levels are integers in the order of the floats; the
decay of a mark is any fall towards the bottom of the axis, which is what it is
whatever the frame rate. `heard` and `recent` are history variables for the
properties. What the model shows beyond them: a mark that has come down on its
bar does not get its hold back (`fmaxf`, `watch_viewer.c:3461-3465`), so when
the bar drops the mark falls with it at once; `MarkIsHeld` is stated for levels
that reach or raise the mark, which is what "held" (`README.md:645`) can mean
for this code.

### PointTrail, TickLabels, PacketContract

`PointTrail` has one stream slot; `ReceivePoints` is `process_point_packet` with
`ensure_point_buffer` (the ring is replaced when the rate of a new note calls
for another size), `RejectTrail` its failures. A point is the number of its
arrival, so order and loss are visible.

`TickLabels` has the label sets that are in memory, one theme, format, range and
density per window, and `PrepareLabels` with every way its three allocations can
fail; old sets go only when all new ones are there.

`PacketContract` has one behaviour per call: `CallOpcode` are the checks of each
opcode on its double-precision arguments, `Narrowed` the packet of floats that
comes of them, `DeliverConfig` is `validate_config_packet`. A number is an
integer; floats are multiples of `Ulp` with a largest value and a smallest
positive one, so narrowing can collapse, underflow and overflow a range.

## 3. Runs

| Run | Checks | Instance |
|---|---|---|
| `stream` | `TypeOK`, `SlotReserved`, `NoSlotRace`, `ConsecutiveSamples`, `EverySampleAccounted`, `FreedOnlyWhenDrained`, `ChannelSpec` (refinement of `SampleChannel`), `ReleasedIsFreed`; `FailureIsKnown`, `OneViewerStarts`, `WaitingIsServed` | `MCWatchStream`. 3 slots, packets of up to 2 samples, 2 packets per pass, times up to 6: the ring fills, drops, empties and wraps, and a call spans several packets. Launch: 2 graphs, one of them refused, 2 places, delays of 2 to 3 units, one quit |
| `registry` | `RegistryConsistent` (with `TypeOK`), `NoDanglingStream`, `NoLeakedStream`, `HandleUsable`, `LifeSpec` (refinement of `GraphLife`) | 2 graph slots, 3 identifiers, 2 stream slots, one scope, two `watchadd` (interchangeable): identifiers wrap around while an old graph is still registered, and stream slots are reused |
| `registry_owners` | `NoOrphanGraph`, `AckIsCurrent` | a table and a meter, 2 graph slots, one theme change per graph: each can find the registry full or fail between graph and stream |
| `registry_liveness` | `FinishedGraphIsFreed` | one scope and one spectral `watchadd` |
| `system` | `EndedSessionLeaves`, `AnsweredIsShown`, `WaitingIsAnswered` | 2 sessions with one graph each, one of which changes its theme, 2 windows, 2 packets in the socket, one lost packet, one answer on its way to each session |
| `viewer` | all components of what a window shows: `TypesOK`; `OneWindowPerGraph`; `PointsAreInPlace`, `StreamsInPhase`, `FullWindowIsDrawn`; `ShownFrameIsWhole`, `HistoryInOrder`, `CompleteFrameIsShown`, `BinsAccounted`, `SpectrumNeverOlder`; `ShownTableIsSnapshot`, `EnvelopeCoversTable`; `EveryPeakReportedOnce`, `MarkIsInPlace`, `MarkIsHeld`; `TrailIsNewest`; `LabelsAreCurrent`; `RefusedOnlyWhere` | `MCWatchViewer`, see below |

`MCWatchViewer` and `MCWatchStream` put components that share no state side by
side: `followed` chooses one for the whole behaviour and the others stay in an
initial state, so the states are those of the components added up and not
multiplied. In the run `viewer`: windows - one session with 2 graphs, 2 themes,
one theme change, one lost packet; scope - 2 streams, window 2, latency 1,
packets of up to 2 samples, hence rings of 5, times up to 6, so that a ring
wraps and a gap can exceed it; frames - 2 and 3 bins, 2 bins per packet, a ring
of 3, a spectrogram of 2 columns, 3 calls; table - 1, 2, 3 and 5 samples with
every content, 2 samples per packet, 2 buckets; meter - one channel, three
levels of which one is below the axis, a packet every 2 cycles, a queue of 2;
trail - rates that need 2, 3 and more than `MaxTrail` points, and two rates of
one size, 9 points; labels - 2 themes, axes that end at 0, 2 and beyond
`MaxMeterChannels`, 2 densities; settings - every overload with arguments on
both sides of each bound, absent or not finite.

Bounds: `MaxTime`, `MaxThemes`, `MaxSequence`, `MaxQueue`, `MaxAnswers`,
`MaxLosses`, `MaxQuits`, `MaxNow`, `MaxFrameTime`, `MaxPoints` and
`MaxLabelSets` cap counters or queues that grow without limit in the code;
`Heap` names the blocks a session may have allocated at once; `FirstThemes` and
`Changing` say with which theme graphs begin and which sessions change theirs.
Two of everything (graphs, streams, sessions) is where sharing, reuse and
confusion between neighbours begin; three identifiers for two slots is the
smallest range in which one must be skipped. The proofs of section 4 do not
depend on any of these bounds.

Six runs show a disagreement between the program and what it says of itself:

* `registry_spectral`: a reinit of a spectral `watchadd` leaks the stream of the
  previous pass (`watch.c:1161` clears the pointer that `create_stream` would
  release). Slot and graph stay occupied until the session ends.
* `registry_window`: a graph replaced after its configuration was sent but
  before the answer was read is treated as if nothing had been sent
  (`watch.c:421`); its window stays open.
* `viewer_shutdown`: the viewer arms its deadline only when a SESSION_CLOSE
  closed a window and left none (`watch_viewer.c:3727`); when the windows were
  gone before, or had not been opened yet, it stays for ever.
* `scope_ended_note`: without any loss, and with equal clocks, a stream that
  plays on is no longer drawn once another stream of its graph has ended: the
  display clock is held at the smallest `next_sequence` of all streams that ever
  had samples (`watch_viewer.c:1453`), and the viewer is not told that a stream
  ended. The display moves again when a new note takes over the slot.
* `meter_settings`: `watchmeter` accepts a gain axis that goes below zero
  (`watch.c:1634`), the viewer refuses its configuration, and no window opens.
  `RefusedOnlyWhere` shows that this, and a length that is no positive float,
  are the only such settings.
* `meter_channel_names`: `prepare_tick_labels` makes the numbers of an axis over
  the names of the channels (`watch_viewer.c:809`), so a meter shows numbers.

Fairness. In `WatchStream` the sender thread keeps running, and a socket that is
offered a packet again and again takes one (strong fairness of `SendPacket`);
the callback has none: nobody has to play. In `ViewerLaunch` passes go on
(`while (manager->running)`), a fork that is tried for ever succeeds sometimes
(strong fairness of `ForkingPass`), a viewer that was started gets to its port,
and one that is asked again and again answers; `WaitingIsServed` assumes besides
that the installation settles on a file that can be executed. In `WatchRegistry`
passes go on and send what is queued, and an answer that is possible again and
again arrives (the configuration is repeated until it does). In `WatchSystem`
the sender threads and the viewer's loop run, and a configuration sent again and
again is received and answered; sessions and the user are free.

## 4. Proofs

Every proof holds for all values of the constants that satisfy the named
assumption of the module, bounds included. TLC checked every invariant below on
the instances of section 3 before it was proved.

**`WatchStream_proofs`** (`StreamAssumption`: at least two slots, packets of at
least one sample). Four invariants, each on top of the one before:

1. `RingInv`: `TypeOK`, `SlotReserved`, `NoSlotRace` and two facts on the
   program counters. They need each other: publishing into the next slot is safe
   because the slot is reserved; it stays reserved because the sender thread only
   moves `read_pos` away from it, and only past queued packets; and what the
   sender reads is queued because nothing is published over it.
2. `ConsecutiveInv`: what is queued and what is under construction holds
   consecutive times from its `sequence` on; copying continues where the packet
   under construction ends. Gives `ConsecutiveSamples`.
3. `OrderInv`: the packets queued follow each other in time (`QueueOrder`), what
   was sent is older than what is left (`SentOrder`), and the owner, the release
   and the sender thread agree on the life of the stream (`LifeInv`). Gives
   `FreedOnlyWhenDrained`, and with it `StreamImplementsChannel`: every step of
   `WatchStream` is a step of `SampleChannel` or changes nothing there.
4. `AccountInv`: what was offered was taken, was dropped or is still to be read;
   nothing that was dropped was taken, and all of it lies before `sourcePos`;
   between two calls nothing is left to read. Gives `EverySampleAccounted`: the
   counter is the number of dropped samples because no sample is dropped twice.

**`WatchRegistry_proofs`** (`RegistryAssumption`, and `NothingAssumption`: the
values that stand for "none" are not graphs or streams). `RegistryInv` is
`TypeOK` with `CountInv` (counters and slots agree, identifiers are unique),
`OpInv` (what the call in progress has done already) and `StreamInv` (allocated
streams and slots of graphs correspond one to one; an instance has a stream of
its own that is not released). It is the strengthening that carries a call from
one critical section to the next while the sender thread passes in between.
Identifiers stay unique because `allocate_graph_id` finds a free one: of
`Capacity + 1` consecutive identifiers one is not in use, by counting.
`RegistryInv` gives `RegistryConsistent` and `NoDanglingStream`; with
`OwnerInv`, `NoLeakedStream` where `SpectralAdders = {}` (with a spectral
`watchadd` it is false, see `registry_spectral`); with `HandleInv`,
`HandleUsable` and `NoOrphanGraph`, also when several creators share a handle
variable; `AckIsCurrent` is inductive beside `RegistryInv`.

With `LifeInv` - a window is asked to close only with its graph, and only
configurations of graphs still registered can be answered - every step of the
session is a step of each of its graphs as `GraphLife` has it, which is
`GraphsLiveAsPromised`. What a call does in several critical sections, and the
sender thread for all graphs in one pass, comes down to a few steps of a graph:
a configuration follows no request to close its window, because a pass announces
only what waits and identifiers are unique; the end is asked for once, because a
handle finds no graph that is ending (`HandleInv`); a place in the registry that
is given to a new graph starts with no answer to an old one on its way.

**`WatchSystem_proofs`** (`SystemAssumption`, `ViewerAssumption`). The
properties relate a graph to its window, which are connected only by packets and
answers on their way. `SystemInv` says what those are:

* `Typed`, `OffInv`, `GraphInv`: types, with queues as sequences; without a
  viewer there are no windows and nothing is queued; every graph, and every
  graph of a window, was created by its session.
* `InboxInv`: every packet is *timely* - a configuration is not younger than its
  graph and has its theme if it is as young, a GRAPH_CLOSE is of a graph that is
  to close, a SESSION_CLOSE of a session that has ended - and the configurations
  of one graph stand in the order of their sequences. Since they are received in
  that order, the theme of a window never goes back.
* `AckInv`: no answer is about a configuration yet to come. With it, an answer
  that counts is about the present one.
* `ShownInv`: the property `AnsweredIsShown`, from the moment the answer is
  sent: the window has the present theme, *and* no older configuration of the
  graph is still queued. Without the second half the next step could break it.
* `LeaveInv`: a session that has ended and still has a window, or a
  configuration queued that will open one, has its farewells queued one after
  another behind all its configurations, but for those that were lost, of which
  there are at most `losses`. So the last of them finds every window.
* `OneWindowPerGraph` itself.

A step is one of a graph, of the socket, of the viewer or of a session; lemmas
say what each kind leaves alone (`GraphStep`, `TailKeepsInbox`, `LeaveKept`), so
that each action has to prove only what it disturbs. Gives `OneWindowPerGraph`,
`AnsweredIsShown` and `EndedSessionLeaves`.

`SystemInv` also gives `GraphsLiveInSystem`: the graphs of `WatchSystem`, which
has no opcodes and no streams, live as `GraphLife` says. So do those of
`WatchRegistry`, which has no viewer. What each of the two modules leaves out
and the other has is therefore bounded by the same specification: seen from
`WatchSystem`, the opcodes of a session end, announce and free its graphs in no
other way than `GraphLife` allows, and seen from `WatchRegistry`, answers come
only to what was announced.

**`ViewerLaunch`**, in the same module (`LaunchAssumption`, which has `StartUp <
RelaunchDelay`: a viewer binds its port within the 2 s of the relaunch delay).
`LaunchInv`: the remembered error is that of the last launch and was told, and a
starting viewer is the one launched last. Gives `FailureIsKnown` and
`OneViewerStarts`.

**`SpectralFrame_proofs`** (`SpectralAssumption`). `FrameInv`: every packet in
the ring or on the way, and the frame `watch_add_f` is at, belongs to a frame it
saw (`PacketInv`, `AdderInv`); what the viewer marked as received is in place,
lies within the bins of the format and is counted once (`Sound`); and what is
shown is whole (`ShowsWhole`). The last part needs the others: a frame is shown
when the counter reaches the number of bins, so it is whole only because the
counter is the cardinality of a subset of the bins, and it is a frame of the
plugin only because the packets are. The viewer's helpers (`Begun`, `Filled`,
`Shown`, ...) have a lemma each, on any buffer. Gives `SpectralTypeOK`,
`ShownFrameIsWhole` and `CompleteFrameIsShown`. `Dated`, on top of it: nothing
that is shown is younger than the frame at hand, or as young as one that is
still assembled, and of two columns the one written before is the older
(`WrittenBefore` says which that is, on both sides of the write position). A new
frame is younger than the frame at hand, so its column may be written over the
oldest one. Gives `HistoryInOrder` and `SpectrumNeverOlder`.

`BinsInv`, beside `FrameInv`, gives `BinsAccounted`: the bins of the frames seen
are those in packets, those dropped and those left of the frame at hand. A
packet adds its bins to the sum only if it is not one that was made before,
hence the rest of `BinsInv`: of the frame at hand only bins before `sourceBin`
are in packets, no frame is of a time to come, and the sets are finite. The sums
are the fold `MapThenSumSet` of the community modules, defined by recursion over
subsets, of which the provers know nothing. So `Sums` states what a function
over the subsets of a set must satisfy to be the fold; `SumsExist` shows that
there is one, from the well-foundedness of the naturals and one size of subset
after the other; `SumOfAny` that the sum is the same whichever element is taken
first, by a smallest subset of which it is not (`SmallestExists`); and
`OneMoreCounts` that an element more adds its weight.

**`TableAndMeter_proofs`**: `FtableTransfer` (`FtableAssumption`). `FtableInv`:
the snapshot is the copied table until it is given up (`CopyInv`), every packet
is a chunk of it (`ChunksInv`), and in the viewer what has arrived is in place
and counted once, and the range is that of what has arrived (`FillInv`); what is
shown is complete (`ShowInv`). Chunks start at multiples of the packet size, so
each index belongs to one chunk, and the counter is the number of indices
covered. `EnvelopeCoversTable` needs that the integer bounds of the buckets
leave no index out, which follows from the bounds of a quotient. That a finite
set of numbers has a least element is proved from the well-foundedness of the
naturals. Gives `ShownTableIsSnapshot` and `EnvelopeCoversTable`. The types of
the buffer follow with `TypedInv` beside it, because a buffer that is full,
rejected or replaced is none that is being filled.

**`MeterWindow`**, in the same module (`MeterAssumption`). `MeterInv`: every
packet, and what is still kept, carries the loudest of what was heard for it
(`ReportInv`); a mark lies between its bar and the loudest level there is
(`MarkInv`); a level that reached its mark keeps the mark while the age of the
mark is below the hold, and the mark is never older than the level (`HoldInv`).
Gives `EveryPeakReportedOnce`, `MarkIsInPlace` and `MarkIsHeld`.

**`ViewerRings_proofs`**: `PointTrail` (`TrailAssumption`). `TrailInv`: the
point that arrived `j` before the newest lies `j` places before the next to be
written, around the ring. A packet may be larger than the ring and go round it
several times. Gives `TrailIsNewest`.

**`ScopeTimeline`**, in the same module (`ScopeAssumption`). `ScopeInv`: a ring
that ends at sample `next` has the sample `j` before the last one `j` places
before the next to be written, or zero where a packet is missing (`IsRing`); the
position follows from the number of samples written, also after a gap that goes
round the ring, which the code does not write out; and the display clock lies
behind the newest sample of every stream and, when the streams keep up, at most
latency and one packet behind it (`ClockInv`). The latter does not depend on how
much time passed between two frames, because the clock is clamped on both sides.
With the length of the ring this leaves a full window to draw. Gives
`PointsAreInPlace`, `StreamsInPhase` and `FullWindowIsDrawn`.

**`GraphSettings_proofs`**: `PacketContract` (`ContractAssumption`).
`ContractInv`: the packet is the narrowed call, which the opcode accepted.
Narrowing keeps the order and the sign of numbers in bounds; the rest is one
case per opcode. Gives `RefusedOnlyWhere`.

**`TickLabels`**, in the same module (`LabelAssumption`). `LabelsAreCurrent` is
inductive beside the types: a preparation that fails frees exactly what it made,
and one that succeeds frees what it replaces.

**`MCWatchViewer_proofs`**. A behaviour of `MCWatchViewer` follows one component
and leaves the others alone, so it is a behaviour of each (`EveryPathIsItsOwn`).
From this and the theorems above, `TypesOK` and all the other properties of the
run `viewer` hold of it (`EveryPathIsCorrect`).

**Model-checked only.** Liveness: `ReleasedIsFreed`, `WaitingIsServed`,
`FinishedGraphIsFreed` and `WaitingIsAnswered` need fairness and `ENABLED`,
which the installed provers do not handle. Every other property of a passing
run, each invariant and each action property, is stated by a theorem;
`NoLeakedStream` is for sessions without a spectral `watchadd`, because with one
it is false. The six runs that end in a violation show their counterexample on
an instance.

## 5. Not modelled

* `watch_socket.c`: thin wrappers of socket calls of two platforms, without
  state of their own. What they can do - lose a packet, refuse one - are actions
  of `WatchStream` and `WatchSystem`.
* Coordinates, colors, fonts, the supersampled render target and SDL: geometry
  in floating point that no other part depends on. Which samples, points,
  columns, levels and labels are drawn is modelled.
* The Windows launcher; datagrams that no csound-watch program sends.
* The wire layout of packets, floating-point values other than their order and
  their narrowing, the text of messages.
* Vendored libraries under `src/third_party`, build files, examples and visual
  tests have no program logic of this kind.

## 6. Plan

What is left to state: what `ScopeTimeline` and `SpectralFrame` promise, as
abstract specifications that the modules implement, in the manner of
`SampleChannel`; and that of `WatchSystem` its sessions see a viewer that is
launched as `ViewerLaunch` launches it.
