# A TLA+ model of the wideband processing benchmark

This directory holds a formal model of the design under `rtl/`, a SystemVerilog
signal-processing pipeline (filter bank, FFT, corner-turn history, beamformer,
detector, packet network, memory interface) with a register plane beside it, in
several unrelated clock domains, and of the Python around it: the reference
arithmetic the hardware is judged by, the generators of committed files, and the
scripts that build, compile, sweep and report.

What is hard about the hardware is the control: clock crossings, registered
handshakes, credits that stand in for a stall, published views of state that keeps
moving. What is hard about the scripts is that they run for hours, are killed and
resumed, share files, and write records that somebody will believe. And what is hard
about the references is that nothing judges them: an error there is in every golden
file.

The modules are translated from the source. In the hardware **an action is a clock
edge** (or several that coincide), and every register that the edge loads is primed in
it; in a script an action is what happens between two points at which another process,
or a kill, can show. `PROJECT.json` maps each definition to the lines it stands for.

## 1. The system

### Components

| component | state it keeps | operations | what is hard, and what makes it correct |
|---|---|---|---|
| CDC primitives `rtl/cdc` | pointers, synchronizer chains, toggles, request/acknowledge levels, captured payload | write, read, send a pulse, hand a word over, reset | two clocks in any interleaving and at the same instant; resets that end at different times. Every crossing is a channel: nothing lost, duplicated, torn or reordered; fill estimates err on the safe side; no side waits for ever |
| stream primitives `rtl/stream`, `sync_fifo`, `stream_loopback` | ring pointers, counters, registered readies, skid slots, credits | accept, deliver, reset | acceptance decided by a flip-flop one edge old; a pipeline that cannot be stalled. Each is a queue; credits are conserved; full rate |
| history `rtl/memory/history_core.sv`, `history_bank.sv` | one frame store per antenna, write positions, completion barrier, depth, publication registers, read pipeline, credits | beat in, frame complete, change depth, publish, read request, response | antennas at different paces, a reader in another clock working from a stale published view, a depth change under traffic. An unflagged response is a whole frame that the writer is not touching |
| packet fabric `rtl/packet` | buffers and credits per hop and channel, packet locks, routes, arbiter pointers, reassembly state | frame a message, allocate, switch, return a credit, deliver | two-level arbitration with packets of several flits on shared links, credit-return faults. Credits conserved, packets whole, order per lane, channels isolated, no starvation |
| alignment `rtl/align` | open groups, present bits, ages, tags | schedule, route, collect, time out | late, lost and repeated responses against a ring of reused entries. One beat per group, never a stale lane, counters that balance |
| kernels: `pfb`, `fft`, `beamformer`, `covariance`, `cfar` | credit gates, dual coefficient or weight banks, windows, reorder banks | admit, swap a bank, close a window, flush | configuration that takes effect at a boundary only, a swap in the very cycle of a first beat, pipelines that keep beats |
| memory path `rtl/memory/mem_arbiter.sv`, `behavioral_mem_model.sv` | rotation, tag table, held responses; queue with countdowns | grant, issue, answer, soft reset | tags reused while answers are on their way, events that meet in one cycle. Each request issued once and answered, to the producer that asked |
| control plane `rtl/control`, `scripts/gen_regmap.py` | register windows, watchdog, storage and sticky bits, the generated tables | read, write, answer, give up | one source document generated into the tables of the hardware and those of the software, a dead block, sticky bits set as they are cleared. Both decode the same registers; the software's model predicts every answer; every request is answered |
| counters and checkers `rtl/common` | saturating counts, shadows, expected sequence numbers | count, snapshot, clear, classify | wrap, saturation, coherence of a wide counter |
| top level `rtl/top` | none of its own but the DMA deserializer | wiring | composition |
| arithmetic `complex_multiplier.sv`, `model/python` | pipeline registers; transforms and filters as functions | multiply, round, saturate, transform, filter, write golden vectors | widths of intermediates, ties, saturation at one end of the range, orders and histories. The hardware's product is the reference's; the transform is a DFT and its flags tell the truth; a lane is a convolution; a wrong arithmetic is seen by some golden vector |
| Quartus scripts `Makefile`, `seed_sweep.py`, `populate_baseline_evidence.py`, `run_calibration.py` | the project's output directory, `latest.json`, a file per seed, a summary per kernel | compile, export, validate, resume, aggregate, fill | kills at any point, files of an earlier run in the same directory, records labelled when they are exported and not when the sources were read. A record is of one compile and says which |
| generators and builds `gen_regmap.py`, `generate_coefficients.py`, `model/python/gen_*.py`, `build_verilator.py` | committed files; `config_pkg.sv`, `config_sim.h`, binaries | write, `--check`, build | overlapping runs, edits meanwhile, a kill in the middle of a write. The exit status is the truth; the two halves of a binary are of one configuration |
| crossing report `cdc_inventory.py` | none | walk the netlist, resolve the nets of clocks | names through levels of hierarchy. Two ends have one name exactly when they are one net; a strict run leaves no crossing unclassified |
| C++ models, simulation harness, report parsers, figures | | | read as the environment they define; not modelled |

### How they interact

Data flows through valid/ready streams: the source holds a beat until both are
high on an edge. Every stage registers its ready, so a ready that is seen was
computed an edge ago, which is what the skid slots and the spare buffer places
are for. Kernels cannot be stalled at all; each admits a beat only against a
credit, a reserved place in its output buffer. Between clock domains data goes
through `async_fifo`, configuration and views through `cdc_handshake`, events
through `cdc_pulse`. The history is written in `core_clk` and read in
`history_clk`; the only thing that connects the two is a bundle
(`frames_done`, `done_slot`, `depth`, `readable`) published by handshake.

The scripts interact through files. Everything Quartus does goes through one recipe of
the `Makefile`, which regenerates `config_pkg.sv`, compiles the working tree and exports
a record of it, with the commit and the configuration of that moment; the sweep runs the
recipe once per seed and keeps a copy of each record, the baseline is filled from the
last record and from the output directory beside it. The generated register map is read
by `reg_fabric.sv` on one side and by the tests' `RegModel` on the other.

The hazards this gives rise to are listed in `PROJECT.json`, each at its line,
with the properties that would catch it; the ones in parts not modelled yet are
listed too.

## 2. Plan

In the order of how much of the repository rests on each part.

1. **Crossings, streams, history, packet fabric, memory path.** Done: all other
   blocks are made of these or talk through them.
2. **Scripts and references.** Done: the compile flow and the scripts over it, the
   generated register map together with the hardware that decodes it, the
   generators, the builds, the crossing report, the reference arithmetic with the
   multiplier pipeline measured against it, the transform, the filter bank.
3. **Proof.** Done for the crossings, Gray pointers and pulses among them, the stream
   primitives, the memory path's tags, the history, the packet fabric, the compile flow,
   the calibration sweep, the register plane, the generators, the builds and the
   multiplier. Left: what the transform, the filter and the crossing report compute.
4. **Alignment and the kernels' control.** Left: `AlignCollect` (group ring, ages, late
   and duplicate answers), the bank swaps of `coeff_bank` and `weight_bank` over
   `CdcPulse` and `CdcHandshake`, configuration at frame boundaries in the integrator
   and the detector, telemetry shadows over `CdcPulse`.

Composition: `FifoSpec` is the abstract channel all buffers implement; `PktFabric`
composes ingress, switches and egress; `StreamLoopback` composes skids and a buffer;
`MemPath` composes the arbiter with producers and responder; `QuartusFlow` composes the
recipe, the sweep, the baseline and a developer; `RegisterPlane` composes the generator,
its two outputs, the hardware and the software over them. `MCPrimitives` and `MCScripts`
are benches that run several components one at a time.

## 3. Modules

**`FifoSpec`** is what a buffered channel promises: a bounded queue with `Put`,
`Get`, both at once, and a `Clear` by reset. The detailed modules are shown to
implement it with a refinement mapping that reads the queue out of registers
(`held`, `Transit`, ...). The abstract queue alone cannot tell a word that was
delivered from one that was overwritten at the output, so `AsyncFifo` and the
bench also keep the score of their two ports: `due` is what the handshakes at the
input have brought in and those at the output have not taken out, and the queue
in the registers must equal it.

**`ClockDomains`** is what the crossings share: the shift of a synchronizer
chain and a domain's progress through a reset. Unrelated clocks are modelled by
three actions: an edge of one, an edge of the other, an edge of both at the
same instant. In the last, a flop that samples a register as it moves takes the
old value or the new one; for a register of several bits the modules say which
values are possible, and `GrayPointer` shows, bit by bit, why a Gray code makes
those the only two.

| module | source | notes |
|---|---|---|
| `AsyncFifo` | `rtl/cdc/async_fifo.sv` | pointers of lap-bit width, synchronizers of both pointers and of both resets, flags, optional output register, sticky and high-water registers |
| `GrayPointer` | `rtl/packages/cdc_pkg.sv`, `async_fifo.sv` | the pointers as bits, every resolution of a bit that moves |
| `CdcHandshake` | `rtl/cdc/cdc_handshake.sv` | request, acknowledge, capture; a payload sampled while it moves is `NoData` |
| `CdcPulse` | `rtl/cdc/cdc_pulse.sv` | toggle, echo, overrun |
| `RingStore`, `ElasticBuffer`, `SyncFifo`, `SkidBuffer` | `rtl/stream`, `rtl/common/sync_fifo.sv` | pointer and counter updates written separately, as the code does; payload arrays have no reset |
| `StreamPipe` | `rtl/stream/stream_pipe.sv` | credit gate, stages, output buffer |
| `StreamLoopback` | `rtl/common/stream_loopback.sv` | skid, elastic buffer, skid |
| `HistoryCore` | `rtl/memory/history_core.sv`, `history_bank.sv` | see below |
| `PacketNet`, `PktEndpoints`, `PktSwitchStage`, `PktFabric` | `rtl/packet/*.sv`, `rtl/packages/packet_pkg.sv` | see below |
| `MemPath` | `rtl/memory/mem_arbiter.sv`, `behavioral_mem_model.sv`, the producers of `benchmark_sim_top.sv` and `phase4_top.sv` | see below |
| `QuartusMake`, `SeedSweep`, `BaselineEvidence`, `QuartusFlow` | `Makefile`, `scripts/seed_sweep.py`, `populate_baseline_evidence.py`, `parse_quartus.py` | see below |
| `Calibration` | `scripts/run_calibration.py` | the points of a matrix, by a loop or a pool, with their two result files and the summary |
| `RegisterPlane` | `scripts/gen_regmap.py`, `rtl/control/reg_fabric.sv`, `reg_csr_block.sv`, `sim/tests/test_control_regs.cpp` | see below |
| `CdcInventory` | `scripts/cdc_inventory.py` | the report as a function of an elaborated netlist and of the tags; what one net is, said independently of it |
| `Artefacts` | the five generators of committed files | overlapping runs with and without `--check`, edits, kills; their differences in what they read, write and check are kept |
| `ConfigBuild` | `scripts/build_verilator.py` | the two generated files all builds share, a binary per configuration |
| `FixedPoint`, `FxpVectors` | `model/python/fxp_reference.py`, `gen_fxp_vectors.py` | rounding, saturation and products for any width; the directed vectors |
| `ComplexMultiplier` | `rtl/common/complex_multiplier.sv` | both variants, one to five registers, every intermediate at its declared width |
| `Fft`, `FftVectors` | `model/python/gen_fft_vectors.py`, `gen_fft_twiddles.py` | one algorithm, a stage at a time, with its arithmetic as a parameter: the integers modulo 17, and fixed point |
| `Pfb` | `model/python/pfb_model.py`, `scripts/generate_coefficients.py` | branches, lanes and histories; the coefficient sets; the golden stimulus |

A reset of a crossing is `AssertReset` (both domains) followed by a `Release` of
each, in any order. With `LongReset` it lasts at least one edge of each clock
plus the synchronizer length, the contract in the headers of `rtl/cdc` and what
`sim/verilator/harness/reset_sequencer.cpp` drives. The headers of
`async_fifo.sv` and `DECISIONS.md:769-775` claim more, that any release skew is
bridged; without that contract a pointer from before the reset can survive in a
synchronizer of the other domain. `OneSided` in `CdcHandshake` resets one
domain alone, the case its header says must not wedge. The handshake keeps the
score of its two faces in `owed`: a word goes in when `s_valid` meets `s_ready`, and
*every* edge with `d_valid` up takes one out, so a transfer that is never strobed,
strobed twice or strobed with another word is seen in it; no register of the
module is read to tell what is under way.

**`HistoryCore`** has an edge of `core_clk` (sequencers of all antennas,
barrier, depth control, bank write, publisher), an edge of `history_clk`
(request, four pipeline stages, response buffer, delivery of a view) and the
acknowledge of the crossing. The handshake appears as the one-place channel that
`CdcHandshakeProofs` proves it to be. A stored word records which frame, beat
and configuration wrote it, so a response can be judged. `epoch` counts
applied depth changes and exists for that only. Left out: several lanes per
beat, bit-reversed bin order, the statistics counters, sticky clears (held
low), a reset after start.

The sources are framed and nothing else: as the header says of skew, nothing keeps
the antennas in step, and no pace is assumed of the reader or the crossing either
(`a_history_publication_fresh` is an assertion of the testbench and not a guard). So
an antenna may come round to a place that a request is about to read, and the
response is then torn and carries no flag: the header's "per-response `skew` flag"
(`history_core.sv:58-59`) does not exist, the three flags of `history_pkg.sv:596-609`
are range, collision and staleness, and the skew counter counts only a lead of a whole
`depth`. `UnflaggedIsWhole` states what is left of the contract exactly. Of each
antenna the word is the right one, or the antenna has `Lapped` the request: it is past
that place of the ring, and at least two frames past the barrier the request was
answered from. That margin is what `depth - 2` buys against `depth - 1`.
`Quiesce` makes sources and reader pause around a depth change, the discipline
`history_rd_assertions.sv:112-118` describes; software may write the depth again while
a change is pending, up to and in the cycle in which it lands. The violation run drops
`Quiesce`.

**`PktFabric`** is one clock; an edge moves every ingress, switch and egress at
once, its nondeterminism being what sources present, which channels consumers
take and which credit returns the fault hook withholds. A virtual-channel
buffer is the queue-with-output-register that `MCPrimitives` checks `sync_fifo`
to be. Flits carry their packet's identity so that properties can tell them
apart; routing reads it in headers only. Left out: parity and bit flips, packet
types, sources that break the framing protocol, tallies and their clear. A reset
is common to the fabric and returns it to `Init`, so the runs start there.

**`MemPath`** is one clock: the arbiter, the responder, and
producers that hold a request until it is acknowledged and may present another at
once. A request is its port and a number that wraps; `owed`, which exists for
the properties only, holds the acknowledged ones that have not been answered.
Where the code assigns a register twice in one edge the model has the
assignment that wins: `inflight_d` (an issue that meets an answer is not counted)
and `queue_d` (an arrival that meets a retirement lands behind the end of the
queue). Enable, the fault modes that stop requests or answers, and the soft
reset, which the producers do not see, come and go at any cycle. Left out:
addresses, data, error status, saturating counters.

**`QuartusMake`** is `make quartus-compile`, command by command: the package is regenerated;
synthesis reads the sources, and it, the Fitter and the timing analysis each replace their
report in `output_files/` (`out`); only after these hours are the commit and the configuration
read for the record. Any command may fail, and a kill tears what is being written, so that
`output_files/` can hold reports of several compiles beside a record of yet another. A
compile is known by its seed, commit, configuration and number (`built` counts them), so
that what a record *says* and what it *is* can differ (`Labelled`). The targets that stop
after synthesis, or only report, are left out.
`SeedSweep` and `BaselineEvidence` drive it or read what it leaves, file by file, and
can be killed between and inside their writes. In `BaselineEvidence` the turn of a file is
one of three things. `Write` makes it from its source of that moment: the record loaded at
the start (`ByValue`), the record on disk, or the reports there. `Leave` is the skip of a
file that exists, and of a copy whose source is missing. `Warn` is a constraints report that
fails, before or while it is written. All end with status 0. `before`, a ghost, is the
baseline as the run found it. `QuartusFlow` adds the developer: compiles by hand, commits,
builds that regenerate the package, cleaning of `output_files/`. `calm` is a ghost that says
when nobody interfered with a compile or a sweep: it ends also with a commit between two seeds
of one sweep, whose records would then be of two commits under the name of the first.

**`RegisterPlane`** starts from a source document. `Generate` elaborates it and, when
every check passes, writes the SystemVerilog tables and the C++ tables; the fabric
decodes with the first, `RegModel` predicts with the second. Any one block may be dead.
The hardware sets sticky bits and inputs of one register in any cycle. A data word is the
set of its one bits.

**`Calibration`** knows a compile by the number of the sweep that launched it. An
exception may come in any phase of a point. A `timing.kv` that says the analysis had no
netlist (`sta_available` 0, which `build_record` does not look at) is not told from a full one.
`compile.kv` and `timing.kv` of a point survive every later run, so that a record can
mix two runs unless the order of the phases prevents it; that it does is
`RecordIsOneCompile`.

**`ComplexMultiplier`**, whose data registers are free-running, is judged through the
ghost `entered`: what was presented in each of the last `PIPE_STAGES` cycles.

## 4. Runs

Every passing run is exhaustive. Deadlock is checked wherever there is a clock. In
`QuartusFlow`, `SweepIgnoresConfig` and `MCScripts` it is not: a script that has ended,
with the bound on launches reached, stops.

| run | bounds | what it shows |
|---|---|---|
| `AsyncFifo` | depth 2, two words, two-flop synchronizers, output register | `TypeOK`, `Conservative`, `FlagsSafe`; a queue, and exactly what the ports say is due (`IsFifo`), through long resets; a stored word is offered and room is reported (`NeitherSideWaits`) |
| `CdcHandshake` | three-flop synchronizers, two words | `StrobeIntact`, `IdleIsAbsolute`, and that from its two faces the handshake is a one-place queue: each word taken is strobed once, unchanged, before the next (`IsChannel`) |
| `MCPrimitives` | depth 3, pipe of one stage with a buffer of three, loopback buffer of two, 3-bit Gray pointers, three-flop synchronizers | `BuffersAreFifos` for the deep FIFO, the elastic buffer, the pipe and the chain of skids; `StreamsAtFullRate` and credits that cover the line; `CrossingsAreSafe`: Gray samples and flags, and the pulse channel; `NothingWedges`: beats emerge, and the crossings recover when either domain is reset alone |
| `HistoryCore` | two antennas as far apart as they like, two beats a frame, four slots, two requests in flight, five frames | `BookkeepingExact`: slots rotate with frame numbers, credits cover the pipeline, overwrites are counted exactly; `NothingForgotten`: every completed frame is announced; `ResponsesAreRight`: an unflagged one is of a consistent view and, from each antenna, right or lapped; `NoSafeCollision`: no accepted read is near the slot being written |
| `HistoryDepth` | as above, one request in flight, three frames in each configuration, a change of depth from four slots to three or two, asked for again and altered while it is pending | `ResponsesAreRight` in the new configuration, `FramingClean` when sources pause |
| `PktFabric` | one radix-2 switch, two channels, buffers and credits of two, packets of one and two flits, two packets of source 0 and one of source 1, one faulted buffer | `CreditsConserved`, `PacketsWhole` and a buffer never has two takers, `IsFifoPerLane`, `Drains` |
| `MemPath` | two ports, two tags, two places in the memory, latency 1, two numbers per port, all modes | `AnswersFindTheirPort`, with the in-flight count covered by the tags in use; `HeldIsAnswered` |
| `QuartusFlow` | two seeds, two commits, two configurations; two sweeps, or three compiles by hand and baseline runs; two small events (commit, other build, killed sweep, other target) or one other (cleaning, a compile between sweeps, a kill of a compile by hand or of the baseline script) | `SweepIsReproducible`, `EvidenceIsOneCompile`, `WorkIsKept`, `ScriptsEnd` |
| `MCScripts` | below | eleven properties of the components of the bench |
| `HistoryApplyDropsBeat`, `MemIssuesTwice`, `SweepIgnoresConfig` | | violations, section 6 |

`MCScripts` chooses a component at the start and runs it alone:

| component | bounds | property |
|---|---|---|
| calibration | two points, three launches, loop and pool of two, failures and exceptions of every phase, kills, rebuilds | `RecordsAreTrue`; a sweep ends (`ScriptsConclude`) |
| register plane | two blocks of 8 bytes in a space of 24, 2-bit registers, every field shape and access, every placement of blocks and registers (legal and not), watchdog of 2, either block dead | `DecodersAgree`, `PredictionsHold`; a request is answered (`ScriptsConclude`) |
| crossing report | a wrapper around a FIFO beside a FIFO, with every wiring of its clocks, and eight catalogs of tags | `InventoryHolds` |
| generators | two runs at once, two versions of the sources, one hand edit or kill | `VerdictIsTrue` |
| builds | two configurations, two runs at once, three launches, kills | `HalvesAgree` |
| multiplier | 8-bit samples, both variants, all five depths, the operands with the extreme intermediates | `ProductIsReference` |
| vectors | 8-bit samples, the directed records, twenty-odd wrong arithmetics | `VectorsTellApart` |
| transform | 16 points over the integers modulo 17, every schedule, one and two lanes; 4 points of extreme values in fixed point | `TransformIsRight` |
| filter bank | two phases of one to three taps with any stream of four beats from three samples and resets; the golden stimulus of 96 beats for the shipped geometries | `LaneIsFilter` |

Why the bounds are enough. Rings of two to four entries wrap several times and
reach full, empty and the lap bit in all combinations with a stale pointer.
Synchronizer chains have their real lengths. Five frames wrap four slots, and one
antenna can have sent all of them before the other has sent any. The history's response buffer has
two places instead of eight, so credits run out. In the packet fabric two flits
of buffering against packets of two flits make credits run out on each hop while
a packet is half through, and with one port refusing channel 0 for ever both
channels of the link into it are exercised under blocking.
Two tags and two places make the memory path run out of both, and each tag is
reused at once. `MaxPackets`, `FrameLimit` and `EpochLimit` are the only counters
of the hardware that are cut off; sequence numbers and pointers wrap as in the code.

For the scripts: three launches are a failed sweep, a resumed one and one over the
remains of both; two points make every order of a pool of two. Two commits and two
events suffice for a compile to be overtaken by a commit and the sweep killed after it.
In `QuartusFlow` a behaviour has sweeps or baseline runs, not both, since compiles by hand
leave a baseline run the same files as a sweep does; and `Cost` weighs launches and events
against their bounds. A compile, a second one that fails half way, is killed or overtakes the
baseline script, and the script are within them, and so are a killed script and the next.
Three builds are two that overlap and one that follows. Narrow samples keep the same
corners: the algebra of widths and ties does not depend on the number of fraction bits,
which section 5 proves for the multiplier. Modulo 17 there are roots of order 16 and
a half, and each impulse, with one frame without symmetry, is enough for a linear map.

**Fairness.** In the hardware the oscillators run; that is all that is assumed of crossings and
streams, nothing of producers and sinks. Weak fairness of an edge does not say
this by itself: an edge that changes nothing is a stuttering step, and fairness
would then force the environment to do something that is not one, such as taking
a beat. So `AsyncFifo` and the bench have a bit (`tick`) that turns over on every
edge. Every liveness property there holds with a sink that never takes
anything: it ends where the word is offered. In `PktFabric` and `MemPath`,
`Serve` is an edge in which consumers take (in the fabric, from the channels in
`Guaranteed`), open packets go on, no credit is withheld and the memory is in
its normal mode; it happens infinitely often, with anything in between. It says
nothing of channel 0 of the fabric. The register plane has the same kind: its clock
runs (`CycleOn`), whoever asks or not.

Of the scripts it is assumed that a running process runs on and that the tools it waits
for return, well or badly (`Recipe`, `Script`, `Fill`, `HandDone` of `QuartusFlow`,
`CalibrateOn` of the bench). Nobody has to start, edit or kill anything.

## 5. Proofs

Checked by TLAPS for every value of the constants allowed by the modules'
assumptions.

**`AsyncFifoProofs`**, for every depth from two, every data set and every
synchronizer length, under `LongReset`: `TypeCorrect`, `ConservativeAlways`,
`FlagsSafeAlways` and `CrossingIsFifo`, the refinement of the abstract queue. The two flags are only meaningful together with everything
that is still on its way, so the invariant says of the whole chain of copies
that they are ordered: the read pointer has passed each copy of itself, newer
copies are ahead of older ones, and the write pointer is at most `Depth` ahead
of the oldest; the same for the write pointer's copies. With the distance
arithmetic stated as lemmas on a modular circle (`Dist`, `Inc`), each edge moves
one end of the chain, and the registered flag is related to the distance it was
computed from. During a reset the ordering holds only of a domain whose chain
has been flushed, which is where the length of a reset enters. The refinement needs two
facts more (`DueInv`): every slot between the pointers holds a word, never storage
nothing has written, and the words from the output register on through those slots
are the words due at the read port. An edge is then one service of a sequence
(`Served`), proved in three layers that know less and less of the hardware: the slots
that a put and a read leave (`StorageStep`, from the address arithmetic `SlotAddr` and
`SlotShift`, and from `FlagsSafe`: the slot written is none of those in use), the
sequence they and the output register make (`QueueStep`, `WordsShape`), and the
handshakes at the two ports (`WrServes`, `RdServes`, `ExchangeServes`).

**`CdcHandshakeProofs`**: `TypeCorrect`, `StrobeIntactAlways`,
`IdleIsAbsoluteAlways` and `HandshakeIsChannel`, the refinement of the abstract
one-place channel. The abstract queue is the account of the two faces, so the step that
matters is `Accounted`: it holds a word exactly from acceptance until the strobe, namely the
one in the payload register, which follows from where the request and the capture are.
The inductive invariant relates the four phases on either
side to what is in the two chains: the ring of request, its copies, the
acknowledge and its copies never holds more than one change of value
(`Ring`), and from the moment of capture until the strobe is over the payload is
the accepted word (`DataInv`); `PhaseInv` and `ZeroInv` say what a reset has
flushed so far.

**`PrimitivesProofs`** is about the bench `MCPrimitives`, whose devices take their
parameters from the checks in the code (`BenchAssumption`, `OutDepthAssumption`).
`BuffersAreQueues`: the deep FIFO, the registered-ready buffer, the credited pipe and the
chain of skids each implement `FifoSpec`, and hold what their ports are due, for every
depth, number of stages and data set. One notion carries all four: in an edge a word may
enter a sequence at its back and another leave at its front (`Through`). A ring
(`RingPasses`), a delay line (`LinePasses`) and a skid (`SkidPasses`) each do that, two in
a row do it again (`ThroughChain`), and what does it takes a step of the abstract queue
(`ThroughIsStep`) and exchanges the words its faces show (`ThroughExchanges`). What is
left per device is the room: the ready that was registered an edge ago is still right
(`StreamsOK`, of which credits equal the free places less what is on the line).
`FullRate` is the same invariant with one more fact, that a pipe whose sink never stalls
has at most one beat in its buffer.

`CrossingsSafe`, for pointers of any width and any number of flops. The Gray code is proved
from its bits: an increment flips the lowest zero and all below it, so that one bit of
`b XOR b/2` moves (`CarryChain`, `StepMovesOneBit`, and `WrapMovesOneBit` for the wrap); a
sample in which each moving bit resolves by itself is then the old code or the new one
(`SampledIsReal`), and decoding undoes encoding (`DecodeEncode`). `GrayInv` compares gaps: the
pointer each side sees is behind the real one and no more than a lap from its own, and the
flag is up when that lap is complete. For the pulse, `OneEdge`: toggle, forward chain, destination and
echo chain are one line on which at most one change travels, because the source waits
for the echo; hence `Channel`, one strobe per accepted pulse.

**`ScriptsProofs`** is about the bench `MCScripts`; it has, for each component, the theorem
about the component and its form in the bench.

* *Calibration* (`CalibrationTrue`, `SummaryIsTrue`): `RecordsAreTrue` for any matrix and
  any number of launches. What a sweep records is right because of an order: a point's
  analysis starts only after its compile wrote `compile.kv`, and its record is built only
  after the analysis wrote `timing.kv`. The invariant says so of each phase a worker is
  in (`FilesInv`: from "sta" on `compile.kv` is of this sweep and good, from "build" on
  `timing.kv` too), that whatever was returned, noted or written is of one compile
  (`RecordsInv`), and that the notes of the driver cover the summary (`KnownInv`), which is
  why rewriting the file from them loses nothing.
* *Register plane* (`DecodersAlwaysAgree`, `PredictionsAlwaysHold`): for any documents, with any
  number of blocks, registers and fields, any address space, window, width and watchdog
  limit, whichever blocks are dead and whatever the hardware sets meanwhile. `Generated`:
  the two files are faces of one accepted document. Acceptance keeps windows apart and inside the
  space, so that at most one block claims an address, and a block's registers are listed in
  the order of their offsets without gaps, so that the index the hardware cuts out of the
  address and the row the software looks up by name are the same entry (`HardwareDecodes`,
  `SoftwareFinds`, `GeneratedAgree`). `StorageInv`: the storage of every live block is the
  software's shadow, although the code of one updates fields by masks and that of the other
  by access kinds, and no pulse bit is stored. `ReplyInv`: while a request is under way,
  what is coming is what was predicted, be it the fabric's own error, the silence of a dead
  block that the watchdog ends, or the registered response of a live one.
* *Generators* (`GeneratorsTellTheTruth`): a run that nothing disturbed holds the content of
  the present sources, is the only one, and has told itself the truth of the files behind
  it (`ArtInv`); for any number of runs, edits and kills, and for each of the five
  generators with its own way of checking.
* *Builds* (`BinariesAreWhole`): the two generated files and the run follow each other in an
  order that `HalvesInv` states, up to the binary; for any configurations and
  any number of runs. That the package and the header can be produced at all needs
  logarithms to exist.
* *Multiplier* (`ProductsTrue`, `MultiplierIsReference`): for every sample width, both variants
  and every depth the ports show the reference's product, exact and rounded, with its
  flags, of the operands of `PIPE_STAGES` cycles before. Half of it is widths: with samples
  within H, sums of two are within 2H, the three products within 2H^2 and their sums within
  4H^2, so nothing wraps (`SumsFit`, `ProductsFit`, `RoundedFits`), and the
  three-multiplier form is the four-multiplier form (`ThreeMultipliersAgree`, for all
  integers). The other half is the pipeline: `MulInv` gives each register the age of the
  beat it belongs to, which depends on the registers before it that are there.

What the bench assumes of its constants are assumptions of `MCScripts`, which TLC evaluates:
operands are samples of `SAMPLE_W` bits and a gap is none (`OperandsAssumption`); a
description under `configs/` has its parameters, each a number, and no parameter is both sized
by a run and fixed for all (`ConfigsAssumption`); a document is what its parser returns, lists
and numbers that are not negative (`SourcesAssumption`: `elaborate` does not refuse a negative
base or offset by itself, and no such document is considered); a window is a positive multiple
of four bytes and the watchdog waits at least one cycle (`PlaneAssumption`).

tlapm does not know `^` beyond its name. `PowersOfTwo`, the hypothesis of the theorems in
which a power occurs, is the recurrence that defines it, 2^0 = 1 and 2^(i+1) = 2 * 2^i, and
nothing else; the law of exponents and the existence of logarithms are proved from it, by the least
counterexample (`WFMin` of the library, a theorem without an operator parameter), which
serves wherever an induction over numbers is needed.

**`MemPathProofs`**: `AnswersFindTheirPortAlways`, for any number of producers, tags and
places in the memory. A tag says nothing about its port by itself: that an answer comes
home rests on nobody having rewritten `tag_owner` since the request was issued, hence
on the tag having stayed in use and on no second request travelling under it. That is the
invariant (`TagsLead`, `TagsDiffer`), kept because `free_tag` is free (`IssueIsFresh`),
because only the head of the queue gives its tag back (`WaitsOn`, `LeadKept`), and
because a soft reset empties arbiter and memory on one edge (`SoftResetKeeps`). The
count (`Counted`) stays below the tags in use although `inflight_d` forgets an issue that
meets an answer. A rotating choice is one of the members it chooses from
(`FirstIsMember`), from the well-foundedness of the naturals. `IdleApart`, that "no
request" is neither a request nor a response, is a hypothesis; for TLC it is a model value.

**`HistoryCoreProofs`** is about any number of antennas, any geometry and any reader.
The books need no hypothesis (`BooksAlwaysKept`): the pointers of the ring, which the code
moves by comparing and wrapping, are the frame numbers modulo the depth (`Rotating`; the
lemmas `ModSucc`, `ModInjective` and their like are the arithmetic of that), and each credit is
in the pool, in the pipeline or in the response buffer (`CreditInv`). The overwrite count
is exact up to the first depth change (`BookkeepingAlways`), since applying a depth restarts
the frames and not that counter. `NothingForgottenAlways`, `NoSafeCollisionAlways` and
`ViewAlwaysConsistent` need no hypothesis either: a view the reader has, or is about to
get, was true of one instant, and views follow one another in the order of configuration
and frame (`Announced`, `Ordered`).

What an unflagged response holds has one hypothesis, `Careful`: sources and reader pause
around a depth change, or there is none. Nothing is assumed of the antennas' pace.
`ResponsesAlwaysRight` rests on four invariants. `Landing`: a word that was sent and
not overwritten is in the bank or in one of the two registers in front of it. `Late`: it is
in those only while its frame has not been announced. `Aimed`: the address in the pipeline is
the slot of the frame the request asked for, and that frame is at least three slots from
wrapping onto the barrier it was asked at. At the edge on which the bank is read these leave
two cases (`FindsItsWord`): the word is there, or the antenna has come round, and it must
then be two frames past that barrier; `LappedKept` carries this to the output.
`Whole`: from the stage in which the bank is
read on, one or the other holds of the word. `FramingAlwaysClean` is the
part of it about the writers.

**`QuartusFlowProofs`** is about the compile flow with any seeds, commits, configurations
and requests, any number of launches, commits, builds and kills. `FilesApart`, that a
missing or torn file is told from a whole one, is its hypothesis.
`SweepAlwaysReproducible`: a record is right because nothing of what it says can have moved
since the compile started, so the invariant follows the compile (`Underway`: until the
export, the fit is of the commit and the package that are there) and the sweep that waits
for it (`Waiting`: its seed is the one in the recipe, its commit the one checked out), and
every file left by an earlier sweep is good for its own seed (`FilesGood`), which is why
resuming is safe. `OnTrack` is the order: what is left to do is the end of what was asked
for, and as long as no seed was lost the records are the beginning.
`EvidenceAlwaysOneCompile` rests on what a compile settles (`Settled`): from the export of
its record on, neither a report nor the record on disk is older, and while nothing is begun
anew both are of that compile. Every step of anybody keeps that (`SettledKept`), because what
can become of the output directory is one of four things (`OutMoves`): it rests, it is
rewritten or torn under the recipe, it is exported whole, or it is begun anew. The files the
script has passed stay sound under such steps, and the one whose turn it is becomes so
(`FillInv`, `SoundKept`, `TurnIsSound`).
`WorkAlwaysKept`, an action property, needs that a resumed sweep only compiles what it does
not have (`WorkInv`).

**`PktFabricProofs`** is about any radix, number of stages and channels, any depths, any
traffic of sources that keep to the protocol, any consumers and any credits withheld.
`PowersOfRadix`, the recurrence that defines the powers of the radix, is a hypothesis for
the reason `PowersOfTwo` is one; that digits of a destination can be cut apart and put
together again follows from it (`PowersMultiply`).
The work is done hop by hop: from the register of the sender to the output of the buffer
behind it a hop is one queue (`HopStep`: one edge takes a flit from its front, or none, and
puts one behind it, or none). `CreditsAlwaysConserved` then counts that queue
(`Conserved`), with the ranges of the registers (`Regs`) and the flits in them (`Flits`)
as the rest of the inductive invariant; a flit meets no full buffer because it was counted
before it came (`RoomBehind`).

`PacketsAlwaysWhole` needs to know where a packet was cut. No register holds the flit that
left a hop last, so the invariant says that there is one for every hop (`PacketInv`, with
`g`) such that behind it each queue is a chain, every flit going on with the packet of the
one before it (`Chained`), and that locks fit the chains: a locked output whose hop ends
inside a packet belongs to the buffer that packet came from, with its route held; one whose
hop ends between packets waits for a header that stands at the front of its owner
(`Locks`). Hence no two locked outputs have one owner (`OneOwner`), whose inputs would be
two ports with one digit in one place (`InputsDiffer`). Every header is on a port that
agrees with its destination in the digits routed on so far (`Bound`, `OneMoreDigit`), which at
the egress is all of them. `Sources` and `Sinks` carry the chain into the framer and out
of the reassembly checks.

`LanesAreFifos` puts the hops of one path together. Two more invariants say where flits can
be (`OrderInv`): whatever a source holds or sends bears its own number (`Sourced`), and a
flit on a hop is at the one port that has the destination's digits where they have been
routed on and the source's below (`Straight`, `Mixed`, `PathIs`). So what leaves one hop of
a lane is what enters the next in the same cycle, and nothing joins or leaves between
(`LaneLink`); queues of which each feeds the next are one queue (`Passed`, `PassedChain`),
and to keep only the flits of a lane commutes with that (`PassedKept`). `Between` and
`Joined` are recursive functions; what is needed of them (`KeptNext`, `KeptOfBoth`,
`JoinedNext`) is proved by induction over a set of lengths (`FromZero`), for which no
theorem with an operator as a parameter is wanted. The refinement of `FifoSpec` by a lane
follows edge by edge (`LaneStep`), with the capacity counted hop by hop (`LaneChain`).

Only model-checked:

* what holds under fairness (`NeitherSideWaits`, `NothingWedges`, `Drains`, `HeldIsAnswered`,
  `ScriptsEnd`, `ScriptsConclude`): liveness and ENABLED are beyond this prover;
* what recursive functions and folds over data compute: the names a closure gives the nets of the
  crossing report (`InventoryHolds`), the transform (`TransformIsRight`) and the sums of the
  filter (`LaneIsFilter`). The runs compare each with a reference definition on bounded inputs.
  The induction theorems of the library take an operator as a parameter and cannot be cited; where
  a proof recurses over data (the names of the forked beats in `LanesAreFifos`) the induction is
  made from a set of naturals, and for these three it was not carried out;
* `VectorsTellApart`, a statement about one concrete list of vectors, which is evaluated.

## 6. Disagreements between code and documentation

* `HistoryApplyDropsBeat` (code): a depth change lands on an edge on which every
  antenna is between frames, judged from registers, while `s_ready` stays high.
  A first beat accepted on that edge is dropped and the rest of its frame is
  misframed, though `VERIFICATION_PLAN.md` calls a framing fault on well-formed
  traffic a failure.
* `MemIssuesTwice` (code): the issue condition does not look at the output
  register, the acknowledge does. On the edge on which an earlier request leaves
  the register the granted one is issued without its producer knowing, which
  presents it again. `test_dma_end_to_end` leaves 20 cycles between requests and
  so never meets it.

* `SweepIgnoresConfig` (documentation): a sweep passes its configuration to make as
  `PIPE_CONFIG`, which only the simulation targets read; the compile regenerates the
  package from `QUARTUS_CONFIG`. A sweep of `--config medium` compiles the full design
  and names `medium` in `sweep.json`.

Observations without a run. Some are definitions of the modules that do not hold, and that
no run checks; they are named.

*Hardware.* A second depth strobe in the cycle in which the first lands is forgotten:
the assignment that clears the pending flag comes last (`history_core.sv:636` against
`docs/regmap.md:923`; `HistoryCore!LastDepthWins`). A write of the read offset is clamped
to the oldest readable frame (line 853), not to the newest (`docs/regmap.md:922`). After a
depth change the overwrite counter keeps the tally of the old depth. The fairness metric of
a switch counts a head as overtaken also when it has no credit and asked for nothing
(`pkt_switch_stage.sv:533` against `DECISIONS.md:3988`; `PktFabric!OvertakesBounded`). A
request the memory accepts on the edge on which it retires an answer is written behind the
end of its queue and never answered (`behavioral_mem_model.sv:203` against the comment at
156-157; `MemPath!NothingLost`). The arbiter's rotation moves by the port granted in the
cycle the *previous* request leaves (`mem_arbiter.sv:107`), so one of two producers can be
left out for ever; a retirement stops the countdowns of the memory for a cycle; answers
carry the arbiter's tag and not the producer's (`mem_req_rsp_if.sv:40`). A block of the
register plane that answers after the watchdog has ended its transaction would answer the
next one; every block of the repository answers in one cycle. In a fully scaled transform
the merge can saturate by one step, against the assertion at `fft_dit_merge.sv:292-294`
(`FftVectors!ScaledMergeNeverSaturates`).

*Compile flow.* `--resume` of the sweep takes over a record that failed validation, and
raises on a torn `seed_<n>.json` until someone deletes it. The commit and configuration of
a record are those of the moment of export. The baseline script run again without `--force`
keeps files of an earlier compile and torn ones; with `--force` it still leaves, under a
warning, the constraints report and each report it cannot make, and copies the reports of a
later compile that did not finish; it ends with status 0, also where every file was refused,
though its header says it then "exits with a non-zero code" (lines 26-29). A record that
`parse_quartus.py` refuses for another reason than compile errors is taken. The comparison of baselines reads a
`timing.json` without the utilization that `compare_runs.py:20-23` promises. A failed
calibration point leaves its working copy; `--summary-only` merges an old `timing.kv`, and
may replace a good record by a failed one; `--resume` does not look at the seed; after a
worker raised the pool runs every point and records none; two drivers at once lose
records. The constraint scanner raises under some shared comments and swallows continuation
lines. `config_pkg.sv` and `config_sim.h` are one pair for all builds, so two builds at once
can mix configurations, which is why `HalvesAgree` speaks of a build that was alone.

*References and generators.* The golden files of the filter bank end after 96 beats, so for
16 taps the most negative and the random segment never appear in them, against
`generate_coefficients.py:109-113` (`Pfb!EverySegmentIsThere`); "clipping is impossible"
fails for a complex prototype whose parts have mixed signs; with the identity set the
output is the input only below half scale. `gen_regmap --check` does not look at
`regmap.json`; `gen_fxp_vectors` reports whether it *would* write after having written; its
records meant for the negative edge all saturate. `load_iq` accepts a duplicated row with
another missing; `compare_targets` and `find_peaks` do not wrap at the ends of the Doppler
axis. In the crossing report a pin tied to an expression keeps its inner port's name, and
`--allow-empty` reports success before the strict check.

## 7. Not modelled

Of the hardware: the alignment network, beamformer, covariance and detector, counters and
telemetry, `stream_cdc`, the top level, coefficient banks and their swap, and the pipelines
of filter and transform (their reference models are). They are of the size of what is here,
and the hazards that bite in them are listed with a note. Analogue metastability beyond
"resolves to either value". In blocks modelled partly: several lanes, statistics counters
and sticky clears of the history; parity, bit flips and packet types of the fabric.

Of the software: the C++ models, which are twins of the Python ones; `gen_target_iq.py`, a
scene synthesis in floating point; figures, tables and the parsers of tool reports, which
are text in and text out; the simulation harness, read for the environment it defines.
In what is modelled: `ConfigBuild` compiles everything anew, where `make` goes by the times
of the generated files, which are only written when they differ (`build_verilator.py:307-316`),
so an object that survives an overlapped build is not in it. `FxpVectors` takes the directed
lists in general form, with the corners of any width and every growth count; the records for
particular saturation widths, for the neighbours of a value and for shifts of 31, 40 and 62
are left out.

## 8. Files

`<Module>.tla` with `<run>.cfg`; `MC*` modules hold the values TLC is given and, in
`MCPrimitives` and `MCScripts`, the benches; `*Proofs` hold theorems. Operators next to a
definition that nothing uses are plausible mistakes in the code it models: `PROJECT.json`
pairs each with the property that must fail when it replaces the real one.
