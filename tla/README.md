# Verification of Alkali (ep2c and its runtimes)

TLA+ models of the parts of Alkali whose correctness depends on concurrency or on
searches: the circuits of the FPGA runtime and the way the code generator
composes them, the chain of micro-engine programs emitted for a Netronome card,
the reorder library such a card uses, and the compiler's handler analysis and
pipeline search. TLC checks small instances; TLAPS proves the event selector and
the safety of the Netronome chain for all instances.

## The system

`ep2c` compiles network event handlers (EP2 or C) through an MLIR dialect to
three targets: Verilog for an FPGA NIC, Micro-C for a Netronome NIC, and LLVM
code for CPUs. A handler is a function that is run for an event and generates
events; handlers can be replicated. On the FPGA

- an event is sent as one AXI stream per argument (*event wire*);
- the connection between the instances of two handlers is a *controller*. Its
  shape depends on the instances: one to one, a barrier and a queue per wire;
  many to one, a multiplexer per wire and a selector; one to many, a
  demultiplexer per wire and a dispatcher; many to many, all of them;
- inside a handler each operation is a circuit that joins its operands' streams;
  branches become predicates, and a `return` is guarded by them;
- a table is a content-addressable memory with a value RAM behind an arbiter.

On a Netronome card a handler is cut into pipeline stages. A stage runs on several
micro engines of eight threads; stages hand packets on through work rings and
share a context entry per packet. The compiler finds the stages by cutting the
data flow of the handler and mapping the pieces to compute units.

### Inventory

| Part | Source | State of the model |
|---|---|---|
| event selector | `rtl_lib/ep2/ctrl_selector.sv`, `axis_replication.sv`, `axis/rtl/arbiter.v` | `CtrlSelector`, proved |
| controller fabric | `EmitFPGAController.cpp`, `ctrl_mux.sv`, `ctrl_demux.sv`, `ctrl_all_to_all.sv`, `ctrl_dispatcher.sv`, `axis_mux.v`, `axis_demux.v` | `CtrlFabric`, `EventQueue` |
| barrier controller | `barrier.sv`, `barrier_queue.sv` | `Barrier` |
| guarded return | `guard_pred.sv`, `guard.sv`, `EmitFPGA.cpp` (`emitReturn`) | `Guard` |
| value select | `select.sv`, `ifelse_demux.sv` | `ValueSelect` (single beats) |
| table | `cam_arbiter.sv`, `cam_warpper.v`, `ram.sv`, `cam_bram.v` | `CamTable` |
| handler graph | `HandlerDependencyAnalysis.cpp`, `ContextBufferizationAnalysis.cpp` | `HandlerGraph` |
| pipeline cut and search | `PipelineHandlerPass.cpp`, `SplitFunction.cpp` | `PipelineCut`, `PipelineSearch` (loop mode) |
| mapping | `Mapping.h`, `PerformanceModel.cpp`, `PipeliningPass.cpp`, `PipelineCanonicalizePass.cpp` | `PipelineSearch` |
| Netronome chain | `netronome_runtime/src/netronome_out/`, `lib/nfplib.h` | `NfpPipeline`, safety proved |
| global reorder | `microc/lib/gro/libgro.c`, `microc/blocks/gro/` | `Gro` |
| basic-block demultiplexers, packet editing | `pred_demux.sv`, `arg_demux.sv`, `emit.sv`, `extract.sv` | not modelled |
| CPU runtime | `runtime-llvm/` | not modelled: a stub |
| other passes | `lib/ep2/`, `lib/ep2/Passes/` | not modelled |
| front end, dialect, emitters | `include/ep2/lang`, `ep2c`, `Emit*`, `Lower*` | not modelled: sequential text and operation rewriting |
| vendored libraries | `axis`, `axi`, `verilog-cam`, AES | only what the modelled circuits instantiate |

`PROJECT.json` lists the parts with all their files, the lines each definition
stands for, and the hazards with the properties that watch them.

## Modelling conventions

Where the outcome depends on what happens at one clock edge (`CtrlSelector`,
`Barrier`, `CamTable`) a step is a clock edge: registers are variables, wires
are operators, and what the surroundings do at the edge is chosen by `\E`.
Where circuits only meet through ready/valid handshakes (`CtrlFabric`, `Guard`,
`ValueSelect`) a step is one handshake, and edges at which several handshakes
happen are covered by their interleavings; `ValueSelect` keeps together what
leaves several FIFOs at one edge. The start state is the one after reset.

Data is reduced to what the properties tell apart: a beat is its source, event
number and last flag; a value is the number of the execution it belongs to.
FIFOs are bounded sequences; pipeline registers and skid buffers are part of the
capacity of the FIFO next to them. History variables (named as such) record
streams at interfaces and influence nothing.

In `NfpPipeline` and `Gro` a step ends where the code waits for memory or a ring,
which is where a micro engine changes threads. In `HandlerGraph` and
`PipelineSearch` a step is one iteration of a loop; what depends on a random
shuffle or on the order of a hash table of pointers is chosen freely.

An operator named like another one with a suffix (`RequestUnmasked`,
`NextCondLate`, ...) is a wrong variant that no specification uses. Replacing
the right one by it violates the property it is meant for, which shows that the
property depends on that line of the code.

## Modules

**CtrlSelector.** `count` is `selector_valid_count_array` modulo `COUNT_MOD`,
`grant` and `mask` are the arbiter's registers, `rep` the replication FIFOs.
`Clock(inc, pops, fifoReady)` is one edge: `NextCount` is the counter's always
block, `Request`/`ArbiterPick`/`ArbiterStep` the arbiter, `ReplicaPush` the
write into the FIFOs. `FifoReadyOutcomes` gives the answers an `axis_fifo` may
give while words move from its memory to its output registers.

**CtrlFabric** composes, per argument, `Send` (a source's beat enters the input
FIFO and, on the first argument, the counter), `MuxStart`/`MuxBeat` (`axis_mux`
and the use of tokens), `DemuxBeat` (`ctrl_demux`), `Take`, and, shared by the
arguments, `Issue` (the selector) and `Dispatch` (the dispatcher). `HasMux` and
`HasDemux` choose the controller as `emitControllerMux` does, from the fixed
variable `conn`: the connection (sources, destinations, and as bounds the events
per source and beats per packet) that `Init` picks from `Connections`, so that
one run covers several controllers. **EventQueue** is
what the controller promises: one order of all events that respects each
source's order, event k to destination (k - 1) mod D on every argument. What is
offered to it is what the selector counted, `Announced`.

**Barrier** is the one-to-one controller: `NextIn` and `NextOut` are the two
branches of the counters' always block, `Open` the bit of a wire,
`MinIncount` the minimum loop.

**Guard**: `PutPred` and `Join` are `guard_pred.sv`, `Filter` is one beat
through `guard.sv`. `CondBit` is the bit a guard reads from the replicated
condition, with the widths of the code. The fixed variable `ret` is the guarded
return: its predicates, the values they must have, and its wires.

**ValueSelect**: `Ready` holds the ready wires as they are connected, `Shift` is
a clock edge that pops every FIFO that is valid and ready.

**CamTable**: `Mux` is `axis_mux` in front of the CAM, `MatchStage` the result
registers and the stall, `WriteStage` the slot choice, value RAM and the CAM's
write state machine, `ReadStage` the RAM read and the result FIFOs.

`latest` is a history variable: the value of the last update written for a key,
`None` once the key's slot has been given to another one. `Entering`, `InFlight` and
`Completing` count the requests of a kind, so that a clock at which one disappears
can be told.

**HandlerGraph**: `BuildGraph` is the constructor's loop over the returns.
`StartComponent` and `VisitHandler` are the breadth-first search, `SortHandler`
the listing of a component, `BuildContext` the table of context fields.

**PipelineCut** has the pure part of a cut: the flow network of a handler body
(`AdjList`, `FalseEdges`), the source side of its minimum cut, and what
`functionSplitter` makes of it: it works out what to transfer from the operands of
the sink's operations and does not read the set of sink values it is given
(`results->sinkValues`, which has results of operations only). **PipelineSearch** is the loop around it: `MapNext`
maps a pipeline, `StartCut` takes the next parameters, `Light` and `Heavy`
rebalance the network, `Split` and `GiveUp` end an attempt, `Finalize` and
`Canonicalize` end the pass. A function is named by its generation index. `trap`
stands for a division by zero or an endless recursion.

**NfpPipeline**: `InitRing` and `Start` are the start-up; `Receive`, `Alloc`,
`Take`, `Lookup`, `Update`, `Dispatch` and `Send` are the pieces of a stage's loop
between two accesses to shared memory. A field of a context entry holds the packet
that wrote it. `clash` is a history variable. `Start` looks at nothing: the sleep
before it (`extern_dma.c:134`) is no check.

**Gro**: `WriteMeta`, `ReleaseTicket`, `TicketError`, `Release`, `Cascade` and
`CascadeError` are `gro_cli_send`; `GetRelease`, `Dispatch`, `ReadDone` and `Send`
are GRO.OUT, `ResetTape` a reset command that arrives. The ticket command itself
is the hardware's and is modelled from its use.

`MCCtrlFabric`, `MCGuard`, `MCHandlerGraph`, `MCPipelineSearch` and
`MCNfpPipeline` hold the instances for TLC, `MCCamTable` the symmetry of keys and
values.

## Runs

| Run | Module, configuration | What it shows |
|---|---|---|
| `selector` | `CtrlSelector`, `CtrlSelector.cfg` | exact counters, backed grants, equal token streams; waiting events keep tokens coming |
| `fabric` | `MCCtrlFabric`, `CtrlFabric.cfg` | each of the three controllers: aligned arguments, intact packets, balance, refinement of `EventQueue`, every event delivered where tokens are exact |
| `guard` | `MCGuard`, `Guard.cfg` | the right packets pass, in both narrow shapes; every execution is decided |
| `cam` | `MCCamTable`, `CamTable.cfg` | fresh lookups, one slot per key, with eviction; the only two causes for which a request is dropped |
| `graph` | `MCHandlerGraph`, `HandlerGraph.cfg` | exact components, topological order of forests, a context table for every handler, shared by producer and consumer |
| `search` | `MCPipelineSearch`, `PipelineSearch.cfg` | usable cuts, no operation lost or doubled, local tables, wired stages, sound replication, termination |
| `search_large` | `MCPipelineSearch`, `PipelineSearchLarge.cfg` | *violated:* some pipeline is kept |
| `nfp` | `MCNfpPipeline`, `NfpPipeline.cfg` | a packet is in one place, reads its own fields and leaves the chain; it is lost only in a ring that is not set up or by an overrun |
| `nfp_emem` | `MCNfpPipeline`, `NfpPipelineEmem.cfg` | *violated:* rings that are set up and have room lose nothing, with the rings placed as checked in |
| `gro` | `Gro`, `Gro.cfg` | packets leave in order and all leave; no client aborts; tapes are reset when used up; counters meet |
| `barrier_block` | `Barrier`, `BarrierBlock.cfg` | *violated:* what arrived on all wires leaves on all wires |
| `select_true` | `ValueSelect`, `ValueSelectTrue.cfg` | *violated:* a result is its own execution's value |

Runs marked *violated* check what a comment, a name or an unused signal of the
code says and find a counterexample; see Findings.

### Bounds

- `CtrlSelector.cfg`: two sources and two multiplexers, since every property
  relates a pair. One memory word and one output register per FIFO make every
  fill level, and both answers of an unready FIFO, reachable within a few
  clocks. `COUNT_MOD` is small and `MaxInflight` is its largest value, so the
  counters are exercised up to their limit. In the circuit the limit is kept by
  the input FIFOs, which hold fewer events than the counter can count when the
  first argument is a single beat.
- `CtrlFabric.cfg`: six connections. Two to two with one event per source and one
  argument, first or second, of up to two beats; two to two with two events of one
  beat; two to one with two events and one argument, first or second, of up to two
  beats; one to two with two events and packets of up to two beats. All FIFOs hold
  one beat or token, where cyclic waits would show first. A first argument of two
  beats is counted twice; the second token is used up by the source's next event.
  `EventsDelivered` leaves these connections out (see Observations).
- `Guard.cfg`: three executions; packets of one or two beats. After three the
  FIFOs of one have been full and empty in every combination.
- `CamTable.cfg`: three keys for two slots, so every update of a new key after
  the second evicts one; two values tell an old from a new value. There is no
  bound on the number of requests. Permuting keys or values maps behaviours to
  behaviours (slots are not permuted), and only safety is checked, so the
  symmetry is sound. Results are taken at any time. `INIT_CYCLES` is 5, the
  least for which an update comes through the match stage before the memory is
  cleared (the circuit takes hundreds). There is one lookup port, with a result
  FIFO of three, so that the fill levels at which no lookup may be dropped (at most
  one result) are told from those at which the code drops some (two and three).
- `HandlerGraph.cfg`: all programs of four handlers of which two generate any set
  of events and two at most one, with cycles, self-loops and two ways to a handler;
  and programs that generate an event twice or use an extern handler.
- `PipelineSearch.cfg`: eight handlers (chains of table accesses, a counter, plain
  arithmetic, one table, two keys, two events, a handler without counted
  operations) on both targets. `N_RAND_ITERS` is 2; since every shuffle is
  possible in the first try, more only repeat it. Tolerances are exact tenths, so
  the rounding of floating-point products at a boundary is not modelled.
- `NfpPipeline.cfg`: three packets over two context entries, so entries are used
  again while in use; two threads compete for the ring of stage 1 and two for that
  of stage 3, and stage 2 between them has two replicas. A ring holds two, so rings run over with three packets and have room
  with two. The gate may open before, between and after the set-up of the rings.
  `Emem` is empty; the checked-in placement is `nfp_emem`.
- `Gro.cfg`: two tapes of two tickets; seventeen packets take the four epochs
  round once, where ticket numbers repeat. `BUFFERS`, the packets under way, is
  queue length - tape length + 1; one more violates `NoAbort`, so the bound is
  exact. `gro.uc:61` asks for fewer packets than the queue has entries. With tapes
  of two tickets that is the same number; with the 64 of the code the document
  allows 62 packets more than the bound. Initial sequence numbers are those of the first tape.

`CHECK_DEADLOCK FALSE` is set where the bounded number of events runs out and
the model stops.

### Fairness

- `CtrlSelector`: the clock runs. An edge at which nothing arrives and that
  changes a register cannot be put off forever (`QuietStep`); arrivals are never
  forced. Each multiplexer that finds tokens again and again takes one in the
  end (strong fairness: its token FIFO may be empty in between). That is how
  `ctrl_mux` behaves once its own packets arrive.
- `CtrlFabric`: weak fairness of each circuit's own handshake, which stays
  possible once it is possible. A source is only required to finish, on all
  arguments, an event it has started; destinations keep taking beats. Nothing
  is assumed about which source the selector grants.
- `Guard`: the handler evaluates its predicates and sends its packets; each
  wire's receiver takes what it is offered.
- `Barrier`: the destination takes a beat from each queue that offers one.
- `NfpPipeline`: weak fairness of every thread and of start-up, since the hardware
  serves the threads of an engine in turn. Packets need not arrive.
- `Gro`: weak fairness of every client, of commands in flight and of GRO.OUT, which
  polls; packets need not arrive.

`Progress` of `PipelineSearch` needs no fairness: it is a measure that every step
lowers, which shows that the pass ends.

## Proofs

`CtrlSelector_proofs` proves, for every number of sources and multiplexers,
every FIFO size and every counter width,

- `SelectorCorrect`: `Spec => [](TypeOK /\ CountExact /\ GrantBacked)`;
- `TokensReplicated`: `Spec => [](ReplicasAgree /\ NoOverflow)`.

The only assumption is `SelectorAssumption`: the constants are positive numbers
and the surroundings keep fewer events in flight than the counter has values.

`CountExact` alone is not inductive: a decrement at 0 would wrap. It needs
`GrantBacked`, and `GrantBacked` in turn needs `CountExact`, since the request is
computed from the counter. The inductive invariant `SelectorInv` is their
conjunction with the types and the range of `inflight`. The step that carries
the proof is `<2>10` of `NextSelectorInv`: a newly granted source differs from
the one granted before (the mask `~grant`), so the decrement of this edge is not
its own, and the event seen in the counter is still there. `LowestMember` and
`PickMember` show that the arbiter grants only what was requested; the minimum
exists because `<` is well-founded on the naturals.

For `ReplicasAgree` the FIFOs are compared from the newest token backwards.
`PushNewest` and `PopNewest` say what one edge does to a FIFO in that view,
`ReplicaStep` applies them to the model; a store happens in all FIFOs or in none,
so the streams stay equal although the FIFOs drain at their own pace.

`NfpPipeline_proofs` proves, for every replication, number of threads, pool and ring
size and every placement of rings,

- `TypeCorrect`: `Spec => []TypeOK`, with `rr_ctr` always a case of the switch;
- `Conserved`: `Spec => []OnePlace`;
- `OwnFieldsRead`: `Spec => []OwnFields`;
- `LossCaused`: `Spec => LossNeedsCause`, if no ring is in external memory.

The assumption is `ProgramAssumption` (positive sizes). `OnePlace` is inductive with
the types. `PlaceTake` and `PlaceDispatch` carry it: they move a packet between a
ring and a thread, and the positions of the other packets shift. `OwnFields` speaks
of the moment of a read only. Its strengthening `FieldsKept` says that a packet in a
thread's hands or in a ring of stage s finds everything the stages before s write,
and that packets that share an entry are known to clash. `ReadsWritten` shows from
the program that what a stage reads an earlier one writes. `FieldsUpdate` needs
`OnePlace`: a thread writes to the entry of its own packet, which no other packet
outside `clash` uses. `LossCaused` counts: by `OnePlace` the entries of a ring and the
packet a dispatcher is about to add are different packets under way (`RingBelow`, an
injection), so a ring that is full means more of them than it holds.

Model-checked only: all liveness and `Progress`, the refinement of `EventQueue`, and
the properties of `CtrlFabric`, `Guard`, `CamTable`, `HandlerGraph`, `PipelineSearch`
and `Gro`. Liveness under fairness is beyond the proof system; the cuts and orders
are computed by recursion over data, which it cannot do induction on.

## Findings

1. **Barrier counters** (`barrier.sv:52`, `:53`). The out counter is decreased
   instead of increased and not counted at all if a beat enters at the same
   edge; the second beat of a wire never leaves.
2. **True values are popped early** (`select.sv:100`, `ifelse_demux.sv:138`).
3. **A slow handler is erased** (`Mapping.h:158`). The best latency starts at the
   target plus 1000; a handler that is slower is never mapped, and finalize erases it.
4. **Rings in external memory** (`prog_hdr.h:197`). They are set up as memory rings
   and used with cluster-memory commands.

### Observations

Found with other constants or properties than those of the runs above.

- `ctrl_selector.sv:65`: a grant is lost if a replication FIFO is full a clock
  later, yet the round robin has moved on, so one source can be passed over forever
  (one multiplexer, `FIFO_SIZE` 1, `PIPELINE_OUTPUT` 0, `MaxInflight` 1).
- `EmitFPGAController.cpp:253`: events are counted per beat of the first wire. With
  `Connection(2, 1, 1, <<2, 1>>)` a source gets two tokens for its only event, and the
  other source's event is not delivered (`EventsDelivered` without `TokensExact`).
- `guard_pred.sv:81`: with two predicates and two wires (`Wide`) `Filtered` is
  violated, since the widths of the replicated condition differ. The expected output
  `tests/output/fpga/rx_transport/__handler_OoO_DETECT_OoO_detection.sv:1170` has a
  guard with two predicates and six wires, described as "replicated guard condition".
- `cam_warpper.v:219`: a lookup that was taken is dropped around a full result FIFO
  (`DropsExplained` without its last disjunct is violated).
- `cam_warpper.v:244`: an update that was taken is dropped while the CAM clears its
  memory (`DropsExplained` without its second disjunct is violated).
- `cls.c:497`, `extern_dma.c:134`: packets are lost when more of them are under way
  than a ring holds, and when the gate opens before a ring is set up.
- `prog_hdr.h:258`: a context entry is given out again after as many allocations as
  there are entries, whether or not its packet has left. Either packet may then read
  the other's fields (`OwnFields` without `clash` is violated).
- `HandlerDependencyAnalysis.cpp:66`: the order is not topological when two ways lead
  to a handler: returns 2 to 3, 2 to 4, 4 to 1 and 1 to 3 give 2, 2, 4, 3, 1.
- `PerformanceModel.cpp:62`: a handler without counted operations gets no unit on
  Netronome and its latency is divided by zero (`trap`).
- `gro.uc:495`: a byte offset is compared with the number of a tape. With an initial
  sequence number on the second tape (`ISEQS = {2}`) `CountersMeet` is violated.

## Not modelled

- FPGA: debug counters and the content of packets; `ifelse_demux` for streams;
  `pred_demux` and `arg_demux`; `emit` and `extract`, whose correctness is the
  arithmetic of byte positions; the port arbitration in front of the table, which
  is reduced to one offered update and one offered lookup; the slices of the CAM.
- Netronome: the contents of tables, and with them updates lost between threads; the
  local-memory lookup; the DMA simulation; which engines share an island and its
  ring numbers.
- Compiler: the modes kcut, table and search of the pipeline pass; the mapping by
  solver; replication and controller generation; context, buffer, struct and atom
  passes; branches to predicates; front end, dialect, emitters. They rewrite text
  and operations sequentially, and what they must preserve is the meaning of a
  handler, for which a model would have to repeat the rewriting.
- CPU runtime: a stub with an empty source and a table of one element.
- Vendored libraries, as far as the circuits above do not instantiate them.

The definitions stand for a small share of the repository's lines. Most of its C and
header lines are vendored register layouts and wrappers of single hardware commands
for the card, which have no behaviour to check; most of the compiler is rewriting of
the kind above.

Type invariants are checked for `CtrlSelector`, `NfpPipeline` and `Gro`, where they
state ranges the code relies on.
