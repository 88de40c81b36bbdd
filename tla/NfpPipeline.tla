---------------------------- MODULE NfpPipeline ----------------------------
(***************************************************************************)
(* The network-function chain the compiler emits for a Netronome card, as  *)
(* it is checked in under src/runtime_lib/netronome_runtime/src.  The      *)
(* handler was cut into five stages; stage s runs on Replicas[s] micro     *)
(* engines of Contexts[s] hardware threads each, all of which run the same *)
(* endless loop.  Stage 0 takes packets from the wire and allocates a      *)
(* context entry; the others take work from the ring of their own engine;  *)
(* each stage reads and writes fields of the context entry in shared       *)
(* memory and adds the work to a ring of the next stage, in turn over its  *)
(* replicas; the last one sends the packet.                                *)
(*                                                                         *)
(* Every access to shared memory or to a ring gives up the engine to its   *)
(* other threads, so a handler is the sequence of actions between them.    *)
(* Variables that are not __shared exist once per thread: rr_ctr and the   *)
(* work buffers are.                                                       *)
(***************************************************************************)
EXTENDS Integers, Sequences, FiniteSets

CONSTANTS Replicas,    \* stage -> number of engines that run it
          Contexts,    \* stage -> threads of an engine (8 in the program)
          PoolSize,    \* context entries (128 in the program)
          RingSize,    \* work items a ring holds
          Emem,        \* stages whose WORKQ_TYPE is MEM_TYEP_EMEM
          MaxPackets   \* bound on the packets that arrive

Stages == 0 .. 4

Last == 4

ASSUME ProgramAssumption ==
    /\ Replicas \in [Stages -> Nat \ {0}]
    /\ Contexts \in [Stages -> Nat \ {0}]
    /\ PoolSize \in Nat \ {0}
    /\ RingSize \in Nat \ {0}
    /\ Emem \subseteq Stages \ {0}
    /\ MaxPackets \in Nat

VARIABLES ready,     \* the rings whose owner has run init_recv_event_workq
          start,     \* global_start
          ring,      \* the work in the ring of an engine, oldest first
          thread,    \* per thread, where it is and the packet it works on
          rr,        \* rr_ctr of a thread
          arrived,   \* packets taken from the wire so far
          qHead,     \* context_chain_ring_qHead
          entry,     \* packet -> its context entry (the ctx pointer of the work)
          pool,      \* entry -> field -> packet that wrote it last
          sent,      \* packets handed to the NBI
          lost,      \* packets whose work no ring took
          clash      \* history: packets that shared their entry while in flight

vars == <<ready, start, ring, thread, rr, arrived, qHead, entry, pool, sent, lost, clash>>

-----------------------------------------------------------------------------
(***************************************************************************)
(* The program: who runs what, and which context fields a stage touches.   *)
(***************************************************************************)

Fields == 0 .. 9

Engines == UNION {{s} \X (1 .. Replicas[s]) : s \in Stages}

\* The engines of the later stages each own a work ring.
Rings == {e \in Engines : e[1] # 0}

Threads == UNION {{s} \X (1 .. Replicas[s]) \X (1 .. Contexts[s]) : s \in Stages}

Packets == 1 .. MaxPackets

Stage(t) == t[1]

Engine(t) == <<t[1], t[2]>>

Writes0 == {9, 8, 4, 3, 0}

Reads1 == {9, 4}

Writes1Short == {1, 5, 2}

Writes1 == {1, 5, 2, 7}

Reads2 == {8, 2}

Writes2 == {6}

Reads3 == {4, 7, 5, 2, 6}

Reads4 == {1, 4, 3, 0, 2}

Reads == [s \in Stages |-> CASE s = 0 -> {}
                             [] s = 1 -> Reads1
                             [] s = 2 -> Reads2
                             [] s = 3 -> Reads3
                             [] s = 4 -> Reads4]

Writes == [s \in Stages |-> CASE s = 0 -> Writes0
                              [] s = 1 -> Writes1
                              [] s = 2 -> Writes2
                              [] s \in {3, 4} -> {}]

-----------------------------------------------------------------------------
(***************************************************************************)
(* Start-up.  Thread 0 of an engine sets its ring up, which the other      *)
(* threads wait for; then all wait for global_start.                       *)
(***************************************************************************)

Init ==
    /\ ready = {}
    /\ start = FALSE
    /\ ring = [e \in Rings |-> <<>>]
    /\ thread = [t \in Threads |-> [pc |-> "idle", pkt |-> 0]]
    /\ rr = [t \in Threads |-> 0]
    /\ arrived = 0
    /\ qHead = 0
    /\ entry = [p \in Packets |-> 0]
    /\ pool = [i \in 0 .. PoolSize - 1 |-> [f \in Fields |-> 0]]
    /\ sent = {}
    /\ lost = {}
    /\ clash = {}

InitRing(e) ==
    /\ e \notin ready
    /\ ready' = ready \cup {e}
    /\ UNCHANGED <<start, ring, thread, rr, arrived, qHead, entry, pool, sent, lost, clash>>

\* The engine that opens the gate sleeps first ("we assume 1000 is enough")
\* and does not look at the rings.
Start ==
    /\ ~start
    /\ start' = TRUE
    /\ UNCHANGED <<ready, ring, thread, rr, arrived, qHead, entry, pool, sent, lost, clash>>

-----------------------------------------------------------------------------
(***************************************************************************)
(* The handlers                                                            *)
(***************************************************************************)

At(t, label) == thread[t].pc = label

Pkt(t) == thread[t].pkt

Goto(t, label, p) == thread' = [thread EXCEPT ![t] = [pc |-> label, pkt |-> p]]

\* Packets that own a context entry and are still on their way.
HasEntry == {p \in Packets : \E t \in Threads : Pkt(t) = p /\ thread[t].pc \in {"lookup", "update", "emit"}}
            \cup {p \in Packets : \E e \in Rings : \E i \in 1 .. Len(ring[e]) : ring[e][i] = p}

\* inlined_net_recv
Receive(t) ==
    /\ start
    /\ Stage(t) = 0
    /\ At(t, "idle")
    /\ arrived < MaxPackets
    /\ arrived' = arrived + 1
    /\ Goto(t, "alloc", arrived + 1)
    /\ UNCHANGED <<ready, start, ring, rr, qHead, entry, pool, sent, lost, clash>>

\* The entry an allocation takes: an atomic test-and-add on the head.
Slot == qHead % PoolSize

\* alloc_context_chain_ring_entry.  Entries are never given back.
Alloc(t) ==
    /\ At(t, "alloc")
    /\ qHead' = qHead + 1
    /\ entry' = [entry EXCEPT ![Pkt(t)] = Slot]
    /\ LET same == {p \in HasEntry : entry[p] = Slot}
       IN  clash' = IF same = {} THEN clash ELSE clash \cup same \cup {Pkt(t)}
    /\ Goto(t, "lookup", Pkt(t))
    /\ UNCHANGED <<ready, start, ring, rr, arrived, pool, sent, lost>>

TakeKeep(t) ==
    /\ start
    /\ Stage(t) # 0
    /\ At(t, "idle")
    /\ ring[Engine(t)] # <<>>
    /\ Goto(t, "lookup", Head(ring[Engine(t)]))
    /\ UNCHANGED <<ready, start, ring, rr, arrived, qHead, entry, pool, sent, lost, clash>>

TakeBatch(t) ==
    /\ start
    /\ Stage(t) # 0
    /\ At(t, "idle")
    /\ Len(ring[Engine(t)]) > 1
    /\ Goto(t, "lookup", Head(ring[Engine(t)]))
    /\ ring' = [ring EXCEPT ![Engine(t)] = Tail(@)]
    /\ UNCHANGED <<ready, start, rr, arrived, qHead, entry, pool, sent, lost, clash>>

\* cls_workq_add_thread: the oldest work of the engine's ring.
Take(t) ==
    /\ start
    /\ Stage(t) # 0
    /\ At(t, "idle")
    /\ ring[Engine(t)] # <<>>
    /\ Goto(t, "lookup", Head(ring[Engine(t)]))
    /\ ring' = [ring EXCEPT ![Engine(t)] = Tail(@)]
    /\ UNCHANGED <<ready, start, rr, arrived, qHead, entry, pool, sent, lost, clash>>

\* Read the context fields of the stage and the entries of its tables.
Lookup(t) ==
    /\ At(t, "lookup")
    /\ Goto(t, "update", Pkt(t))
    /\ UNCHANGED <<ready, start, ring, rr, arrived, qHead, entry, pool, sent, lost, clash>>

Stored(p, s) ==
    [pool EXCEPT ![entry[p]] = [f \in Fields |-> IF f \in Writes[s] THEN p ELSE @[f]]]

\* Write the table entry back, then the context fields of the stage.
Update(t) ==
    /\ At(t, "update")
    /\ pool' = Stored(Pkt(t), Stage(t))
    /\ Goto(t, "emit", Pkt(t))
    /\ UNCHANGED <<ready, start, ring, rr, arrived, qHead, entry, sent, lost, clash>>

NextTurnLate(k, n) == IF k = n THEN 0 ELSE k + 1

\* rr_ctr after a dispatch over n rings.
NextTurn(k, n) == IF k = n - 1 THEN 0 ELSE k + 1

\* The ring a dispatch adds to: case i of the switch is ring i + 1.
Target(t) == <<Stage(t) + 1, rr[t] + 1>>

\* cls_workq_add_work reaches work only in a ring set up by cls_workq_setup.
Served(e) == e \in ready /\ e[1] \notin Emem

AcceptsShort(e) == Served(e) /\ Len(ring[e]) < RingSize - 1

\* A ring that is full drops work without notice.
Accepts(e) == Served(e) /\ Len(ring[e]) < RingSize

Dispatch(t) ==
    /\ At(t, "emit")
    /\ Stage(t) # Last
    /\ IF Target(t) \in Rings /\ Accepts(Target(t))
       THEN /\ ring' = [ring EXCEPT ![Target(t)] = Append(@, Pkt(t))]
            /\ lost' = lost
       ELSE /\ lost' = lost \cup {Pkt(t)}
            /\ ring' = ring
    /\ rr' = [rr EXCEPT ![t] = NextTurn(@, Replicas[Stage(t) + 1])]
    /\ Goto(t, "idle", 0)
    /\ UNCHANGED <<ready, start, arrived, qHead, entry, pool, sent, clash>>

\* inlined_net_send
Send(t) ==
    /\ At(t, "emit")
    /\ Stage(t) = Last
    /\ sent' = sent \cup {Pkt(t)}
    /\ Goto(t, "idle", 0)
    /\ UNCHANGED <<ready, start, ring, rr, arrived, qHead, entry, pool, lost, clash>>

Work(t) ==
    \/ Alloc(t)
    \/ Take(t)
    \/ Lookup(t)
    \/ Update(t)
    \/ Dispatch(t)
    \/ Send(t)

Step(t) == Receive(t) \/ Work(t)

Next ==
    \/ \E e \in Rings : InitRing(e)
    \/ Start
    \/ \E t \in Threads : Step(t)

Spec == Init /\ [][Next]_vars

\* The hardware serves the threads of an engine in turn, engines run in
\* parallel, and a sleep ends.  Packets need not arrive.
FairSpec ==
    /\ Spec
    /\ \A e \in Rings : WF_vars(InitRing(e))
    /\ WF_vars(Start)
    /\ \A t \in Threads : WF_vars(Work(t))

-----------------------------------------------------------------------------
(***************************************************************************)
(* Properties                                                              *)
(***************************************************************************)

Labels == {"idle", "alloc", "lookup", "update", "emit"}

\* Every variable has its type: a thread holds a packet exactly when it is
\* inside its handler, and rr_ctr always names a case of the switch.
TypeOK ==
    /\ ready \subseteq Rings
    /\ start \in BOOLEAN
    /\ ring \in [Rings -> Seq(Packets)]
    /\ thread \in [Threads -> [pc : Labels, pkt : Packets \cup {0}]]
    /\ \A t \in Threads : Pkt(t) = 0 <=> At(t, "idle")
    /\ rr \in [Threads -> Nat]
    /\ \A t \in Threads : Stage(t) # Last => rr[t] < Replicas[Stage(t) + 1]
    /\ arrived \in 0 .. MaxPackets
    /\ qHead \in Nat
    /\ entry \in [Packets -> 0 .. PoolSize - 1]
    /\ pool \in [0 .. PoolSize - 1 -> [Fields -> Packets \cup {0}]]
    /\ sent \subseteq Packets
    /\ lost \subseteq Packets
    /\ clash \subseteq Packets

Held == {Pkt(t) : t \in Threads} \ {0}

Queued == {p \in Packets : \E e \in Rings : \E i \in 1 .. Len(ring[e]) : ring[e][i] = p}

\* A packet that arrived is in exactly one place: in the hands of one thread,
\* at one position of one ring, sent, or lost.  The dispatchers, which give a
\* packet away by value and reuse the buffer, never duplicate or forget one.
OnePlace ==
    /\ Held \cup Queued \cup sent \cup lost = 1 .. arrived
    /\ \A t, u \in Threads : Pkt(t) = Pkt(u) /\ ~At(t, "idle") => t = u
    /\ \A d, e \in Rings : \A i \in 1 .. Len(ring[d]), j \in 1 .. Len(ring[e]) :
           ring[d][i] = ring[e][j] => d = e /\ i = j
    /\ Held \cap Queued = {}
    /\ (Held \cup Queued) \cap (sent \cup lost) = {}
    /\ sent \cap lost = {}

\* What a stage is about to read from the context entry was written for the
\* packet it works on, by the stages before it, unless the entry was given to
\* another packet while this one was on its way.
OwnFields ==
    \A t \in Threads :
        At(t, "lookup") /\ Pkt(t) \notin clash
            => \A f \in Reads[Stage(t)] : pool[entry[Pkt(t)]][f] = Pkt(t)

\* Nothing but an early start and an overrun loses work: a dispatcher whose
\* rings are all set up never drops a packet while no more packets are under
\* way than one ring holds, however the packets are spread over the stages.
LossNeedsCause ==
    [][ready = Rings /\ Cardinality(Held \cup Queued) <= RingSize => lost' = lost]_vars

\* Every packet that arrives leaves the chain: no thread holds it forever and
\* it does not stay in a ring, also when the gate opened early or rings ran
\* over.
EveryPacketLeaves == \A p \in Packets : p <= arrived ~> p \in sent \cup lost
=============================================================================
