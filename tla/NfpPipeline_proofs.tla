------------------------- MODULE NfpPipeline_proofs -------------------------
(***************************************************************************)
(* For any number of replicas, threads, context entries and packets: the   *)
(* program keeps every packet in exactly one place, a stage reads from the *)
(* context what was written for its packet unless entries clashed, and     *)
(* work is lost only in a ring that is not set up or by an overrun.        *)
(***************************************************************************)
EXTENDS NfpPipeline, TLAPS

\* What Append does to a ring.
LEMMA AppendFacts ==
    ASSUME NEW S, NEW q \in Seq(S), NEW x \in S
    PROVE  /\ Append(q, x) \in Seq(S)
           /\ Len(Append(q, x)) = Len(q) + 1
           /\ Len(q) \in Nat
           /\ \A i \in 1 .. Len(q) : Append(q, x)[i] = q[i]
           /\ Append(q, x)[Len(q) + 1] = x
OBVIOUS

\* What taking the oldest work leaves in a ring.
LEMMA TailFacts ==
    ASSUME NEW S, NEW q \in Seq(S), q # <<>>
    PROVE  /\ Tail(q) \in Seq(S)
           /\ Len(Tail(q)) = Len(q) - 1
           /\ Len(q) \in Nat \ {0}
           /\ Head(q) = q[1]
           /\ q[1] \in S
           /\ \A i \in 1 .. Len(q) - 1 : Tail(q)[i] = q[i + 1]
OBVIOUS

\* The shape of threads and rings.
LEMMA ThreadFacts ==
    ASSUME NEW t \in Threads
    PROVE  /\ Stage(t) \in Stages
           /\ Engine(t) \in Engines
           /\ Engine(t)[1] = Stage(t)
           /\ Stage(t) # 0 => Engine(t) \in Rings
BY ProgramAssumption DEF Threads, Stage, Engine, Engines, Rings, Stages

\* A dispatcher names a ring of the next stage as long as its counter is in
\* range.
LEMMA TargetFacts ==
    ASSUME NEW t \in Threads, Stage(t) # Last, rr[t] \in Nat, rr[t] < Replicas[Stage(t) + 1]
    PROVE  /\ Target(t) \in Rings
           /\ Target(t)[1] = Stage(t) + 1
           /\ Stage(t) + 1 \in Stages
<1>1. Stage(t) \in Stages
  BY ThreadFacts
<1>2. Stage(t) + 1 \in Stages /\ Stage(t) + 1 # 0
  BY <1>1 DEF Stages, Last
<1>3. Replicas[Stage(t) + 1] \in Nat
  BY <1>2, ProgramAssumption
<1>4. rr[t] + 1 \in 1 .. Replicas[Stage(t) + 1]
  BY <1>3
<1>. QED
  BY <1>2, <1>4 DEF Target, Rings, Engines

\* A jump changes one thread.
LEMMA GotoFacts ==
    ASSUME TypeOK, NEW t \in Threads, NEW l \in Labels, NEW p \in Packets \cup {0}, Goto(t, l, p)
    PROVE  /\ thread' \in [Threads -> [pc : Labels, pkt : Packets \cup {0}]]
           /\ thread'[t].pc = l /\ thread'[t].pkt = p
           /\ \A u \in Threads : u # t => thread'[u] = thread[u]
BY DEF TypeOK, Goto

\* A thread that goes on inside its handler holds a packet.
LEMMA GotoTypes ==
    ASSUME TypeOK, NEW t \in Threads, NEW l \in Labels, NEW p \in Packets,
           l # "idle", p # 0, Goto(t, l, p)
    PROVE  /\ thread' \in [Threads -> [pc : Labels, pkt : Packets \cup {0}]]
           /\ \A u \in Threads : Pkt(u)' = 0 <=> At(u, "idle")'
<1>1. thread' \in [Threads -> [pc : Labels, pkt : Packets \cup {0}]]
  BY GotoFacts
<1>2. thread'[t].pc = l /\ thread'[t].pkt = p
  BY GotoFacts
<1>3. \A u \in Threads : u # t => thread'[u] = thread[u]
  BY GotoFacts
<1>4. \A u \in Threads : Pkt(u) = 0 <=> At(u, "idle")
  BY DEF TypeOK
<1>5. ASSUME NEW u \in Threads PROVE Pkt(u)' = 0 <=> At(u, "idle")'
  <2>1. CASE u = t
    BY <1>2, <2>1 DEF Pkt, At
  <2>2. CASE u # t
    BY <1>3, <1>4, <2>2 DEF Pkt, At
  <2>. QED
    BY <2>1, <2>2
<1>. QED
  BY <1>1, <1>5

\* Initially every variable has its type.
LEMMA TypeInit == Init => TypeOK
<1>. SUFFICES ASSUME Init PROVE TypeOK
  OBVIOUS
<1>1. \A t \in Threads : Stage(t) # Last => 0 < Replicas[Stage(t) + 1]
  <2>. SUFFICES ASSUME NEW t \in Threads, Stage(t) # Last PROVE 0 < Replicas[Stage(t) + 1]
    OBVIOUS
  <2>1. Stage(t) + 1 \in Stages
    BY ThreadFacts DEF Stages, Last
  <2>. QED
    BY <2>1, ProgramAssumption
<1>2. pool \in [0 .. PoolSize - 1 -> [Fields -> Packets \cup {0}]]
  BY DEF Init
<1>3. entry \in [Packets -> 0 .. PoolSize - 1]
  BY ProgramAssumption DEF Init
<1>4. thread \in [Threads -> [pc : Labels, pkt : Packets \cup {0}]]
  BY DEF Init, Labels
<1>5. \A t \in Threads : Pkt(t) = 0 <=> At(t, "idle")
  BY DEF Init, Pkt, At
<1>6. ring \in [Rings -> Seq(Packets)]
  BY DEF Init
<1>7. rr \in [Threads -> Nat] /\ \A t \in Threads : rr[t] = 0
  BY DEF Init
<1>8. arrived \in 0 .. MaxPackets
  BY ProgramAssumption DEF Init
<1>. QED
  BY <1>1, <1>2, <1>3, <1>4, <1>5, <1>6, <1>7, <1>8, Zenon DEF Init, TypeOK

\* Every step keeps every variable in its type.
LEMMA TypeStep == TypeOK /\ [Next]_vars => TypeOK'
<1>. SUFFICES ASSUME TypeOK, [Next]_vars PROVE TypeOK'
  OBVIOUS
<1>1. CASE UNCHANGED vars
  BY <1>1 DEF vars, TypeOK, Pkt, At
<1>2. ASSUME NEW e \in Rings, InitRing(e) PROVE TypeOK'
  BY <1>2 DEF InitRing, TypeOK, Pkt, At
<1>3. CASE Start
  BY <1>3 DEF Start, TypeOK, Pkt, At
<1>4. ASSUME NEW t \in Threads, Receive(t) PROVE TypeOK'
  <2>1. arrived + 1 \in Packets /\ arrived + 1 # 0 /\ arrived' \in 0 .. MaxPackets
    BY <1>4, ProgramAssumption DEF Receive, TypeOK, Packets
  <2>2. "alloc" \in Labels
    BY DEF Labels
  <2>8. Goto(t, "alloc", arrived + 1)
    BY <1>4 DEF Receive
  <2>9. /\ thread' \in [Threads -> [pc : Labels, pkt : Packets \cup {0}]]
        /\ \A u \in Threads : Pkt(u)' = 0 <=> At(u, "idle")'
    BY <2>1, <2>2, <2>8, GotoTypes
  <2>. QED
    BY <1>4, <2>1, <2>9 DEF Receive, TypeOK
<1>5. ASSUME NEW t \in Threads, Alloc(t) PROVE TypeOK'
  <2>1. Pkt(t) \in Packets /\ Pkt(t) # 0
    BY <1>5 DEF Alloc, TypeOK, Pkt, At
  <2>2. Slot \in 0 .. PoolSize - 1
    BY ProgramAssumption DEF TypeOK, Slot
  <2>3. "lookup" \in Labels
    BY DEF Labels
  <2>4. entry' \in [Packets -> 0 .. PoolSize - 1]
    BY <1>5, <2>1, <2>2 DEF Alloc, TypeOK
  <2>5. clash' \subseteq Packets
    BY <1>5, <2>1 DEF Alloc, TypeOK, HasEntry
  <2>6. qHead' \in Nat
    BY <1>5 DEF Alloc, TypeOK
  <2>8. Goto(t, "lookup", Pkt(t))
    BY <1>5 DEF Alloc
  <2>9. /\ thread' \in [Threads -> [pc : Labels, pkt : Packets \cup {0}]]
        /\ \A u \in Threads : Pkt(u)' = 0 <=> At(u, "idle")'
    BY <2>1, <2>3, <2>8, GotoTypes
  <2>. QED
    BY <1>5, <2>4, <2>5, <2>6, <2>9 DEF Alloc, TypeOK
<1>6. ASSUME NEW t \in Threads, Take(t) PROVE TypeOK'
  <2>1. Engine(t) \in Rings
    BY <1>6, ThreadFacts DEF Take
  <2>2. ring[Engine(t)] \in Seq(Packets)
    BY <2>1 DEF TypeOK
  <2>3. Head(ring[Engine(t)]) \in Packets /\ Tail(ring[Engine(t)]) \in Seq(Packets)
    BY <1>6, <2>2, TailFacts DEF Take
  <2>4. Head(ring[Engine(t)]) # 0
    BY <2>3, ProgramAssumption DEF Packets
  <2>5. "lookup" \in Labels
    BY DEF Labels
  <2>6. ring' \in [Rings -> Seq(Packets)]
    BY <1>6, <2>1, <2>3 DEF Take, TypeOK
  <2>8. Goto(t, "lookup", Head(ring[Engine(t)]))
    BY <1>6 DEF Take
  <2>9. /\ thread' \in [Threads -> [pc : Labels, pkt : Packets \cup {0}]]
        /\ \A u \in Threads : Pkt(u)' = 0 <=> At(u, "idle")'
    BY <2>3, <2>4, <2>5, <2>8, GotoTypes
  <2>. QED
    BY <1>6, <2>6, <2>9 DEF Take, TypeOK
<1>7. ASSUME NEW t \in Threads, Lookup(t) PROVE TypeOK'
  <2>1. Pkt(t) \in Packets /\ Pkt(t) # 0
    BY <1>7 DEF Lookup, TypeOK, Pkt, At
  <2>2. "update" \in Labels
    BY DEF Labels
  <2>8. Goto(t, "update", Pkt(t))
    BY <1>7 DEF Lookup
  <2>9. /\ thread' \in [Threads -> [pc : Labels, pkt : Packets \cup {0}]]
        /\ \A u \in Threads : Pkt(u)' = 0 <=> At(u, "idle")'
    BY <2>1, <2>2, <2>8, GotoTypes
  <2>. QED
    BY <1>7, <2>9 DEF Lookup, TypeOK
<1>8. ASSUME NEW t \in Threads, Update(t) PROVE TypeOK'
  <2>1. Pkt(t) \in Packets /\ Pkt(t) # 0
    BY <1>8 DEF Update, TypeOK, Pkt, At
  <2>2. "emit" \in Labels
    BY DEF Labels
  <2>3. pool' \in [0 .. PoolSize - 1 -> [Fields -> Packets \cup {0}]]
    BY <1>8, <2>1 DEF Update, Stored, TypeOK
  <2>8. Goto(t, "emit", Pkt(t))
    BY <1>8 DEF Update
  <2>9. /\ thread' \in [Threads -> [pc : Labels, pkt : Packets \cup {0}]]
        /\ \A u \in Threads : Pkt(u)' = 0 <=> At(u, "idle")'
    BY <2>1, <2>2, <2>8, GotoTypes
  <2>. QED
    BY <1>8, <2>3, <2>9 DEF Update, TypeOK
<1>9. ASSUME NEW t \in Threads, Dispatch(t) PROVE TypeOK'
  <2>1. Pkt(t) \in Packets
    BY <1>9 DEF Dispatch, TypeOK, Pkt, At
  <2>2. rr[t] \in Nat /\ rr[t] < Replicas[Stage(t) + 1] /\ Stage(t) # Last
    BY <1>9 DEF Dispatch, TypeOK
  <2>3. Target(t) \in Rings /\ Stage(t) + 1 \in Stages
    BY <2>2, TargetFacts
  <2>4. Append(ring[Target(t)], Pkt(t)) \in Seq(Packets)
    BY <2>1, <2>3, AppendFacts DEF TypeOK
  <2>5. ring' \in [Rings -> Seq(Packets)] /\ lost' \subseteq Packets
    BY <1>9, <2>1, <2>3, <2>4, Zenon DEF Dispatch, TypeOK
  <2>6. /\ rr' \in [Threads -> Nat]
        /\ \A u \in Threads : Stage(u) # Last => rr'[u] < Replicas[Stage(u) + 1]
    <3>1. Replicas[Stage(t) + 1] \in Nat \ {0}
      BY <2>3, ProgramAssumption
    <3>2. /\ NextTurn(rr[t], Replicas[Stage(t) + 1]) \in Nat
          /\ NextTurn(rr[t], Replicas[Stage(t) + 1]) < Replicas[Stage(t) + 1]
      BY <2>2, <3>1 DEF NextTurn
    <3>. QED
      BY <1>9, <3>2 DEF Dispatch, TypeOK
  <2>7. "idle" \in Labels
    BY DEF Labels
  <2>. QED
    BY <1>9, <2>5, <2>6, <2>7, GotoFacts DEF Dispatch, TypeOK, Pkt, At
<1>10. ASSUME NEW t \in Threads, Send(t) PROVE TypeOK'
  <2>1. Pkt(t) \in Packets
    BY <1>10 DEF Send, TypeOK, Pkt, At
  <2>2. "idle" \in Labels
    BY DEF Labels
  <2>. QED
    BY <1>10, <2>1, <2>2, GotoFacts DEF Send, TypeOK, Pkt, At
<1>. QED
  BY <1>1, <1>2, <1>3, <1>4, <1>5, <1>6, <1>7, <1>8, <1>9, <1>10 DEF Next, Step, Work

\* Every variable keeps its type, rr_ctr included: a dispatcher never falls
\* through its switch, whatever the number of replicas of the next stage.
THEOREM TypeCorrect == Spec => []TypeOK
BY TypeInit, TypeStep, PTL DEF Spec

-----------------------------------------------------------------------------
(***************************************************************************)
(* Every packet is in exactly one place                                    *)
(***************************************************************************)

\* Nothing has arrived at first.
LEMMA PlaceInit == Init => OnePlace
<1>. SUFFICES ASSUME Init PROVE OnePlace
  OBVIOUS
<1>1. Held = {}
  BY DEF Init, Held, Pkt
<1>2. \A e \in Rings : Len(ring[e]) = 0
  BY DEF Init
<1>3. Queued = {}
  BY <1>2 DEF Queued
<1>4. \A t \in Threads : At(t, "idle")
  BY DEF Init, At
<1>. QED
  BY <1>1, <1>2, <1>3, <1>4 DEF Init, OnePlace

\* A step that moves no packet keeps every packet where it is.
LEMMA PlaceQuiet ==
    ASSUME OnePlace,
           UNCHANGED <<ring, sent, lost, arrived>>,
           \A t \in Threads : Pkt(t)' = Pkt(t) /\ At(t, "idle")' = At(t, "idle")
    PROVE  OnePlace'
<1>1. Held' = Held
  BY DEF Held
<1>2. Queued' = Queued
  BY DEF Queued
<1>. QED
  BY <1>1, <1>2 DEF OnePlace

\* A jump that keeps the packet of a busy thread moves no packet.
LEMMA GotoQuiet ==
    ASSUME TypeOK, NEW t \in Threads, NEW l \in Labels \ {"idle"},
           Goto(t, l, Pkt(t)), ~At(t, "idle")
    PROVE  \A u \in Threads : Pkt(u)' = Pkt(u) /\ At(u, "idle")' = At(u, "idle")
BY GotoFacts DEF TypeOK, Pkt, At

\* A packet that arrives is new, and goes to one thread.
LEMMA PlaceReceive ==
    ASSUME TypeOK, OnePlace, NEW t \in Threads, Receive(t)
    PROVE  OnePlace'
<1>1. arrived \in Nat /\ arrived + 1 \in Packets /\ arrived' = arrived + 1
  BY ProgramAssumption DEF TypeOK, Receive, Packets
<1>2. /\ Pkt(t)' = arrived + 1 /\ ~At(t, "idle")'
      /\ \A u \in Threads : u # t => Pkt(u)' = Pkt(u) /\ At(u, "idle")' = At(u, "idle")
      /\ Pkt(t) = 0
  BY <1>1, GotoFacts DEF Receive, Labels, Pkt, At, TypeOK
<1>3. Held' = Held \cup {arrived + 1}
  BY <1>1, <1>2 DEF Held
<1>4. Queued' = Queued
  BY DEF Queued, Receive
<1>5. 1 .. arrived' = (1 .. arrived) \cup {arrived + 1} /\ arrived + 1 \notin 1 .. arrived
  BY <1>1
<1>6. arrived + 1 \notin Held \cup Queued \cup sent \cup lost
  BY <1>5 DEF OnePlace
<1>7. \A u \in Threads : u # t => Pkt(u) # arrived + 1
  BY <1>1, <1>6 DEF Held
<1>8. \A u, v \in Threads : Pkt(u)' = Pkt(v)' /\ ~At(u, "idle")' => u = v
  BY <1>2, <1>7 DEF OnePlace
<1>9. ring' = ring /\ sent' = sent /\ lost' = lost
  BY DEF Receive
<1>. QED
  BY <1>3, <1>4, <1>5, <1>6, <1>8, <1>9 DEF OnePlace

\* Work that is taken leaves its ring for one thread.
LEMMA PlaceTake ==
    ASSUME TypeOK, OnePlace, NEW t \in Threads, Take(t)
    PROVE  OnePlace'
<1>. DEFINE e == Engine(t)
            p == Head(ring[e])
<1>1. e \in Rings /\ ring[e] \in Seq(Packets) /\ ring[e] # <<>>
  BY ThreadFacts DEF Take, TypeOK
<1>2. /\ p = ring[e][1] /\ p \in Packets /\ Len(ring[e]) \in Nat \ {0}
      /\ Len(Tail(ring[e])) = Len(ring[e]) - 1
      /\ \A i \in 1 .. Len(ring[e]) - 1 : Tail(ring[e])[i] = ring[e][i + 1]
  BY <1>1, TailFacts
<1>3. p # 0
  BY <1>2, ProgramAssumption DEF Packets
<1>4. ring'[e] = Tail(ring[e]) /\ \A d \in Rings : d # e => ring'[d] = ring[d]
  BY <1>1 DEF Take, TypeOK
<1>5. /\ Pkt(t)' = p /\ ~At(t, "idle")'
      /\ \A u \in Threads : u # t => Pkt(u)' = Pkt(u) /\ At(u, "idle")' = At(u, "idle")
      /\ Pkt(t) = 0
  BY <1>2, GotoFacts DEF Take, Labels, Pkt, At, TypeOK
<1>6. p \in Queued
  BY <1>1, <1>2 DEF Queued
<1>7. Held' = Held \cup {p}
  BY <1>3, <1>5 DEF Held
<1>8. \A d \in Rings : \A i \in 1 .. Len(ring'[d]) :
          IF d = e THEN i + 1 \in 1 .. Len(ring[d]) /\ ring'[d][i] = ring[d][i + 1]
                   ELSE i \in 1 .. Len(ring[d]) /\ ring'[d][i] = ring[d][i]
  <2>. TAKE d \in Rings
  <2>. TAKE i \in 1 .. Len(ring'[d])
  <2>1. CASE d = e
    <3>1. i \in 1 .. Len(ring[e]) - 1
      <4>1. ring'[d] = Tail(ring[e])
        BY <1>4, <2>1
      <4>2. i \in 1 .. Len(Tail(ring[e]))
        BY <4>1
      <4>. QED
        BY <1>2, <4>2
    <3>2. i + 1 \in 1 .. Len(ring[e])
      BY <1>2, <3>1
    <3>3. Tail(ring[e])[i] = ring[e][i + 1]
      BY <1>2, <3>1
    <3>. QED
      BY <1>4, <2>1, <3>2, <3>3, Zenon
  <2>2. CASE d # e
    BY <1>4, <2>2
  <2>. QED
    BY <2>1, <2>2
<1>15. \A d, c \in Rings : \A i \in 1 .. Len(ring[d]), j \in 1 .. Len(ring[c]) :
           ring[d][i] = ring[c][j] => d = c /\ i = j
  BY DEF OnePlace
<1>16. 1 \in 1 .. Len(ring[e])
  BY <1>2
<1>9. \A d \in Rings : \A i \in 1 .. Len(ring[d]) : ring[d][i] = p => d = e /\ i = 1
  <2>. HIDE DEF p, e
  <2>. QED
    BY <1>1, <1>2, <1>15, <1>16
<1>10. Queued' = Queued \ {p}
  <2>1. ASSUME NEW x \in Queued' PROVE x \in Queued \ {p}
    <3>0. PICK d \in Rings : \E i \in 1 .. Len(ring'[d]) : ring'[d][i] = x
      BY <2>1 DEF Queued
    <3>1. PICK i \in 1 .. Len(ring'[d]) : ring'[d][i] = x
      BY <3>0
    <3>2. x \in Packets
      BY <2>1 DEF Queued
    <3>3. CASE d = e
      <4>1. i + 1 \in 1 .. Len(ring[e]) /\ ring[e][i + 1] = x /\ i + 1 # 1
        BY <1>8, <3>1, <3>3
      <4>. QED
        BY <1>1, <1>9, <3>2, <4>1 DEF Queued
    <3>4. CASE d # e
      BY <1>8, <1>9, <3>1, <3>2, <3>4 DEF Queued
    <3>. QED
      BY <3>3, <3>4
  <2>2. ASSUME NEW x \in Queued \ {p} PROVE x \in Queued'
    <3>0. PICK d \in Rings : \E i \in 1 .. Len(ring[d]) : ring[d][i] = x
      BY <2>2 DEF Queued
    <3>1. PICK i \in 1 .. Len(ring[d]) : ring[d][i] = x
      BY <3>0
    <3>2. x \in Packets
      BY <2>2 DEF Queued
    <3>3. CASE d = e
      <4>1. i # 1
        BY <1>2, <3>1, <3>3, <2>2
      <4>2. i - 1 \in 1 .. Len(ring'[e]) /\ ring'[e][i - 1] = x
        BY <1>2, <1>4, <3>1, <3>3, <4>1
      <4>. QED
        BY <1>1, <3>2, <4>2 DEF Queued
    <3>4. CASE d # e
      BY <1>4, <3>1, <3>2, <3>4 DEF Queued
    <3>. QED
      BY <3>3, <3>4
  <2>. QED
    BY <2>1, <2>2
<1>11. \A u \in Threads : u # t => Pkt(u) # p
  BY <1>3, <1>6 DEF Held, OnePlace
<1>12. \A u, v \in Threads : Pkt(u)' = Pkt(v)' /\ ~At(u, "idle")' => u = v
  BY <1>5, <1>11 DEF OnePlace
<1>13. \A d, c \in Rings : \A i \in 1 .. Len(ring'[d]), j \in 1 .. Len(ring'[c]) :
           ring'[d][i] = ring'[c][j] => d = c /\ i = j
  <2>. SUFFICES ASSUME NEW d \in Rings, NEW c \in Rings,
                       NEW i \in 1 .. Len(ring'[d]), NEW j \in 1 .. Len(ring'[c]),
                       ring'[d][i] = ring'[c][j]
                PROVE  d = c /\ i = j
    OBVIOUS
  <2>. DEFINE i0 == IF d = e THEN i + 1 ELSE i
              j0 == IF c = e THEN j + 1 ELSE j
  <2>1. i0 \in 1 .. Len(ring[d]) /\ ring'[d][i] = ring[d][i0]
    BY <1>8
  <2>2. j0 \in 1 .. Len(ring[c]) /\ ring'[c][j] = ring[c][j0]
    BY <1>8
  <2>3. d = c /\ i0 = j0
    <3>1. \A i1 \in 1 .. Len(ring[d]), j1 \in 1 .. Len(ring[c]) :
              ring[d][i1] = ring[c][j1] => d = c /\ i1 = j1
      BY <1>15
    <3>2. ring[d][i0] = ring[c][j0]
      BY <2>1, <2>2, Zenon
    <3>. HIDE DEF i0, j0
    <3>. QED
      BY <2>1, <2>2, <3>1, <3>2
  <2>. QED
    BY <2>3
<1>14. sent' = sent /\ lost' = lost /\ arrived' = arrived
  BY DEF Take
<1>. QED
  BY <1>6, <1>7, <1>10, <1>12, <1>13, <1>14 DEF OnePlace

\* A thread that ends its handler lets go of its packet, and of no other.
LEMMA HeldRelease ==
    ASSUME TypeOK, OnePlace, NEW t \in Threads, ~At(t, "idle"), Goto(t, "idle", 0)
    PROVE  /\ Held' = Held \ {Pkt(t)}
           /\ Pkt(t) \in Held /\ Pkt(t) \in Packets
           /\ \A u, v \in Threads : Pkt(u)' = Pkt(v)' /\ ~At(u, "idle")' => u = v
<1>1. /\ Pkt(t)' = 0 /\ At(t, "idle")'
      /\ \A u \in Threads : u # t => Pkt(u)' = Pkt(u) /\ At(u, "idle")' = At(u, "idle")
  BY GotoFacts DEF Labels, Pkt, At
<1>2. Pkt(t) # 0 /\ Pkt(t) \in Packets
  BY DEF TypeOK, Pkt, At
<1>3. \A u \in Threads : u # t => Pkt(u) # Pkt(t)
  BY <1>2 DEF OnePlace
<1>4. \A u \in Threads : Pkt(u) = 0 <=> At(u, "idle")
  BY DEF TypeOK
<1>. QED
  BY <1>1, <1>2, <1>3, <1>4 DEF Held, OnePlace

\* Work that is dispatched goes to one position of one ring, or is lost.
LEMMA PlaceDispatch ==
    ASSUME TypeOK, OnePlace, NEW t \in Threads, Dispatch(t)
    PROVE  OnePlace'
<1>. DEFINE e == Target(t)
            p == Pkt(t)
            n == Len(ring[e])
<1>1. e \in Rings /\ ring[e] \in Seq(Packets)
  BY TargetFacts DEF Dispatch, TypeOK
<1>2. /\ Held' = Held \ {p} /\ p \in Held /\ p \in Packets
      /\ \A u, v \in Threads : Pkt(u)' = Pkt(v)' /\ ~At(u, "idle")' => u = v
  BY HeldRelease DEF Dispatch, At
<1>3. p \notin Queued \cup sent \cup lost
  BY <1>2 DEF OnePlace
<1>4. sent' = sent /\ arrived' = arrived
  BY DEF Dispatch
<1>5. CASE lost' = lost \cup {p} /\ ring' = ring
  <2>1. Queued' = Queued
    BY <1>5 DEF Queued
  <2>. QED
    BY <1>2, <1>3, <1>4, <1>5, <2>1 DEF OnePlace
<1>6. CASE lost' = lost /\ ring' = [ring EXCEPT ![e] = Append(@, p)]
  <2>1. /\ Len(Append(ring[e], p)) = n + 1 /\ n \in Nat
        /\ \A i \in 1 .. n : Append(ring[e], p)[i] = ring[e][i]
        /\ Append(ring[e], p)[n + 1] = p
    BY <1>1, <1>2, AppendFacts
  <2>2. ring'[e] = Append(ring[e], p) /\ \A d \in Rings : d # e => ring'[d] = ring[d]
    BY <1>1, <1>6 DEF TypeOK
  <2>3. \A d \in Rings : \A i \in 1 .. Len(ring'[d]) :
            \/ d = e /\ i = n + 1 /\ ring'[d][i] = p
            \/ i \in 1 .. Len(ring[d]) /\ ring'[d][i] = ring[d][i]
    <3>. TAKE d \in Rings
    <3>. TAKE i \in 1 .. Len(ring'[d])
    <3>1. CASE d = e
      <4>1. i \in 1 .. n + 1
        BY <2>1, <2>2, <3>1
      <4>2. i = n + 1 \/ i \in 1 .. n
        BY <2>1, <4>1
      <4>. QED
        BY <2>1, <2>2, <3>1, <4>2
    <3>2. CASE d # e
      BY <2>2, <3>2
    <3>. QED
      BY <3>1, <3>2
  <2>4. \A d \in Rings : \A i \in 1 .. Len(ring[d]) :
            i \in 1 .. Len(ring'[d]) /\ ring'[d][i] = ring[d][i]
    <3>. TAKE d \in Rings
    <3>. TAKE i \in 1 .. Len(ring[d])
    <3>1. CASE d = e
      BY <2>1, <2>2, <3>1
    <3>2. CASE d # e
      BY <2>2, <3>2
    <3>. QED
      BY <3>1, <3>2
  <2>5. n + 1 \in 1 .. Len(ring'[e]) /\ ring'[e][n + 1] = p
    BY <2>1, <2>2
  <2>6. Queued' = Queued \cup {p}
    <3>1. Queued' \subseteq Queued \cup {p}
      BY <2>3 DEF Queued
    <3>2. Queued \subseteq Queued'
      BY <2>4 DEF Queued
    <3>3. p \in Queued'
      BY <1>1, <1>2, <2>5 DEF Queued
    <3>. QED
      BY <3>1, <3>2, <3>3
  <2>7. \A d \in Rings : \A i \in 1 .. Len(ring[d]) : ring[d][i] # p
    BY <1>2, <1>3 DEF Queued
  <2>8. \A d, c \in Rings : \A i \in 1 .. Len(ring'[d]), j \in 1 .. Len(ring'[c]) :
            ring'[d][i] = ring'[c][j] => d = c /\ i = j
    <3>1. \A d, c \in Rings : \A i \in 1 .. Len(ring[d]), j \in 1 .. Len(ring[c]) :
              ring[d][i] = ring[c][j] => d = c /\ i = j
      BY DEF OnePlace
    <3>. HIDE DEF e, p, n
    <3>. QED
      BY <2>3, <2>7, <3>1, SMTT(20)
  <2>. QED
    BY <1>2, <1>3, <1>4, <1>6, <2>6, <2>8 DEF OnePlace
<1>. QED
  BY <1>5, <1>6 DEF Dispatch

\* A packet that is sent is in no other place.
LEMMA PlaceSend ==
    ASSUME TypeOK, OnePlace, NEW t \in Threads, Send(t)
    PROVE  OnePlace'
<1>1. /\ Held' = Held \ {Pkt(t)} /\ Pkt(t) \in Held
      /\ \A u, v \in Threads : Pkt(u)' = Pkt(v)' /\ ~At(u, "idle")' => u = v
  BY HeldRelease DEF Send, At
<1>2. Queued' = Queued
  BY DEF Queued, Send
<1>3. ring' = ring /\ lost' = lost /\ arrived' = arrived /\ sent' = sent \cup {Pkt(t)}
  BY DEF Send
<1>. QED
  BY <1>1, <1>2, <1>3 DEF OnePlace

\* Every step keeps every packet in exactly one place.
LEMMA PlaceStep == TypeOK /\ OnePlace /\ [Next]_vars => OnePlace'
<1>. SUFFICES ASSUME TypeOK, OnePlace, [Next]_vars PROVE OnePlace'
  OBVIOUS
<1>1. CASE UNCHANGED vars
  BY <1>1, PlaceQuiet DEF vars, Pkt, At
<1>2. ASSUME NEW e \in Rings, InitRing(e) PROVE OnePlace'
  BY <1>2, PlaceQuiet DEF InitRing, Pkt, At
<1>3. CASE Start
  BY <1>3, PlaceQuiet DEF Start, Pkt, At
<1>4. ASSUME NEW t \in Threads, Alloc(t) PROVE OnePlace'
  <2>1. \A u \in Threads : Pkt(u)' = Pkt(u) /\ At(u, "idle")' = At(u, "idle")
    BY <1>4, GotoQuiet DEF Alloc, At, Labels
  <2>. QED
    BY <1>4, <2>1, PlaceQuiet DEF Alloc
<1>5. ASSUME NEW t \in Threads, Lookup(t) PROVE OnePlace'
  <2>1. \A u \in Threads : Pkt(u)' = Pkt(u) /\ At(u, "idle")' = At(u, "idle")
    BY <1>5, GotoQuiet DEF Lookup, At, Labels
  <2>. QED
    BY <1>5, <2>1, PlaceQuiet DEF Lookup
<1>6. ASSUME NEW t \in Threads, Update(t) PROVE OnePlace'
  <2>1. \A u \in Threads : Pkt(u)' = Pkt(u) /\ At(u, "idle")' = At(u, "idle")
    BY <1>6, GotoQuiet DEF Update, At, Labels
  <2>. QED
    BY <1>6, <2>1, PlaceQuiet DEF Update
<1>. QED
  BY <1>1, <1>2, <1>3, <1>4, <1>5, <1>6, PlaceReceive, PlaceTake, PlaceDispatch, PlaceSend
     DEF Next, Step, Work

\* A packet that arrived is in exactly one place, for any number of replicas,
\* threads, context entries and packets: the generated dispatchers neither
\* duplicate nor forget work.
THEOREM Conserved == Spec => []OnePlace
BY TypeInit, TypeStep, PlaceInit, PlaceStep, PTL DEF Spec

-----------------------------------------------------------------------------
(***************************************************************************)
(* A stage reads its own packet's fields.  The invariant says more than    *)
(* OwnFields: every stage a packet has been through has left its fields in *)
(* the entry, wherever the packet is, and packets that share an entry are  *)
(* known to have clashed.                                                  *)
(***************************************************************************)

Owns(t) == thread[t].pc \in {"lookup", "update", "emit"}

\* The stages before s have written their fields for packet p.
Written(p, s) ==
    \A r \in Stages : r < s => \A f \in Writes[r] : pool[entry[p]][f] = p

Reached(t) == IF At(t, "emit") THEN Stage(t) + 1 ELSE Stage(t)

FieldsKept ==
    /\ \A t \in Threads : At(t, "alloc") => Stage(t) = 0
    /\ \A t \in Threads : Owns(t) /\ Pkt(t) \notin clash => Written(Pkt(t), Reached(t))
    /\ \A e \in Rings : \A i \in 1 .. Len(ring[e]) :
           ring[e][i] \notin clash => Written(ring[e][i], e[1])
    /\ \A p, q \in HasEntry : p # q /\ entry[p] = entry[q] => p \in clash

\* What a stage reads, an earlier one writes.
LEMMA ReadsWritten ==
    ASSUME NEW s \in Stages, NEW f \in Reads[s]
    PROVE  \E r \in Stages : r < s /\ f \in Writes[r]
<1>1. CASE s = 0
  BY <1>1 DEF Stages, Reads
<1>2. CASE s = 1
  <2>1. f \in Writes[0]
    BY <1>2 DEF Stages, Reads, Reads1, Writes, Writes0
  <2>. QED
    BY <1>2, <2>1 DEF Stages
<1>3. CASE s = 2
  <2>1. f \in Writes[0] \/ f \in Writes[1]
    BY <1>3 DEF Stages, Reads, Reads2, Writes, Writes0, Writes1
  <2>. QED
    BY <1>3, <2>1 DEF Stages
<1>4. CASE s = 3
  <2>1. f \in Writes[0] \/ f \in Writes[1] \/ f \in Writes[2]
    BY <1>4 DEF Stages, Reads, Reads3, Writes, Writes0, Writes1, Writes2
  <2>. QED
    BY <1>4, <2>1 DEF Stages
<1>5. CASE s = 4
  <2>1. f \in Writes[0] \/ f \in Writes[1]
    BY <1>5 DEF Stages, Reads, Reads4, Writes, Writes0, Writes1
  <2>. QED
    BY <1>5, <2>1 DEF Stages
<1>. QED
  BY <1>1, <1>2, <1>3, <1>4, <1>5 DEF Stages

\* The invariant gives the property.
LEMMA FieldsOwn == FieldsKept => OwnFields
<1>. SUFFICES ASSUME FieldsKept, NEW t \in Threads, At(t, "lookup"), Pkt(t) \notin clash,
                     NEW f \in Reads[Stage(t)]
              PROVE  pool[entry[Pkt(t)]][f] = Pkt(t)
  BY DEF OwnFields
<1>1. Written(Pkt(t), Stage(t))
  BY DEF FieldsKept, Owns, At, Reached
<1>2. PICK r \in Stages : r < Stage(t) /\ f \in Writes[r]
  BY ReadsWritten, ThreadFacts
<1>. QED
  BY <1>1, <1>2 DEF Written

\* A packet owns an entry when a thread past the allocation or a ring has it.
LEMMA HasEntryMember ==
    ASSUME TypeOK
    PROVE  /\ \A t \in Threads : Owns(t) => Pkt(t) \in HasEntry
           /\ \A e \in Rings : \A i \in 1 .. Len(ring[e]) : ring[e][i] \in HasEntry
<1>1. ASSUME NEW t \in Threads, Owns(t) PROVE Pkt(t) \in HasEntry
  <2>1. Pkt(t) \in Packets
    BY <1>1 DEF TypeOK, Owns, Pkt, At
  <2>. QED
    BY <1>1, <2>1 DEF HasEntry, Owns
<1>2. ASSUME NEW e \in Rings, NEW i \in 1 .. Len(ring[e]) PROVE ring[e][i] \in HasEntry
  <2>1. ring[e] \in Seq(Packets)
    BY DEF TypeOK
  <2>2. ring[e][i] \in Packets
    BY <2>1
  <2>. QED
    BY <2>2 DEF HasEntry
<1>. QED
  BY <1>1, <1>2

\* Nothing has been written and nothing is owned at first.
LEMMA FieldsInit == Init => FieldsKept
<1>. SUFFICES ASSUME Init PROVE FieldsKept
  OBVIOUS
<1>1. \A t \in Threads : thread[t].pc = "idle"
  BY DEF Init
<1>2. \A e \in Rings : Len(ring[e]) = 0
  BY DEF Init
<1>3. HasEntry = {}
  BY <1>1, <1>2 DEF HasEntry
<1>. QED
  BY <1>1, <1>2, <1>3 DEF FieldsKept, At, Owns

\* A step that touches neither entries nor the pool and takes no packet further.
LEMMA FieldsQuiet ==
    ASSUME FieldsKept, UNCHANGED <<ring, thread, entry, pool, clash>>
    PROVE  FieldsKept'
<1>1. HasEntry' = HasEntry
  BY DEF HasEntry, Pkt
<1>2. \A t \in Threads : /\ Pkt(t)' = Pkt(t) /\ Owns(t)' = Owns(t) /\ Reached(t)' = Reached(t)
                         /\ At(t, "alloc")' = At(t, "alloc")
  BY DEF Pkt, Owns, Reached, At
<1>3. \A p, s : Written(p, s)' = Written(p, s)
  BY DEF Written
<1>. QED
  BY <1>1, <1>2, <1>3 DEF FieldsKept

\* A step of thread t that leaves entries and pool alone keeps the invariant
\* if it does for t itself and for the rings, and hands out no entry.
LEMMA FieldsMove ==
    ASSUME FieldsKept, UNCHANGED <<entry, pool, clash>>, NEW t \in Threads,
           \A u \in Threads : u # t => thread'[u] = thread[u],
           HasEntry' \subseteq HasEntry,
           At(t, "alloc")' => Stage(t) = 0,
           Owns(t)' /\ Pkt(t)' \notin clash => Written(Pkt(t)', Reached(t)'),
           \A e \in Rings : \A i \in 1 .. Len(ring'[e]) :
               ring'[e][i] \notin clash => Written(ring'[e][i], e[1])
    PROVE  FieldsKept'
<1>1. \A p, s : Written(p, s)' = Written(p, s)
  BY DEF Written
<1>2. \A u \in Threads : u # t => /\ Pkt(u)' = Pkt(u) /\ Owns(u)' = Owns(u)
                                   /\ Reached(u)' = Reached(u) /\ At(u, "alloc")' = At(u, "alloc")
  BY DEF Pkt, Owns, Reached, At
<1>3. \A u \in Threads : At(u, "alloc")' => Stage(u) = 0
  BY <1>2 DEF FieldsKept
<1>4. \A u \in Threads : Owns(u)' /\ Pkt(u)' \notin clash => Written(Pkt(u)', Reached(u)')
  BY <1>2 DEF FieldsKept
<1>5. \A p, q \in HasEntry' : p # q /\ entry[p] = entry[q] => p \in clash
  BY DEF FieldsKept
<1>6. /\ \A u \in Threads : Owns(u)' /\ Pkt(u)' \notin clash' => Written(Pkt(u), Reached(u))'
      /\ \A e \in Rings : \A i \in 1 .. Len(ring'[e]) :
             ring'[e][i] \notin clash' => Written(ring[e][i], e[1])'
  BY <1>1, <1>4 DEF Written
<1>. QED
  BY <1>3, <1>5, <1>6, Zenon DEF FieldsKept

\* An arriving packet owns no entry yet.
LEMMA FieldsReceive ==
    ASSUME TypeOK, FieldsKept, NEW t \in Threads, Receive(t)
    PROVE  FieldsKept'
<1>1. arrived + 1 \in Packets
  BY ProgramAssumption DEF TypeOK, Receive, Packets
<1>2. thread'[t].pc = "alloc" /\ \A u \in Threads : u # t => thread'[u] = thread[u]
  BY <1>1, GotoFacts DEF Receive, Labels
<1>3. HasEntry' \subseteq HasEntry
  BY <1>2 DEF HasEntry, Pkt, Receive
<1>4. At(t, "alloc")' => Stage(t) = 0
  BY DEF Receive
<1>5. ~Owns(t)'
  BY <1>2 DEF Owns
<1>6. \A e \in Rings : \A i \in 1 .. Len(ring'[e]) :
          ring'[e][i] \notin clash => Written(ring'[e][i], e[1])
  BY DEF Receive, FieldsKept
<1>7. UNCHANGED <<entry, pool, clash>>
  BY DEF Receive
<1>. QED
  BY <1>2, <1>3, <1>4, <1>5, <1>6, <1>7, FieldsMove

\* Work that is taken was written by the stages before.
LEMMA FieldsTake ==
    ASSUME TypeOK, FieldsKept, NEW t \in Threads, Take(t)
    PROVE  FieldsKept'
<1>. DEFINE e == Engine(t)
<1>1. /\ e \in Rings /\ ring[e] \in Seq(Packets) /\ ring[e] # <<>> /\ e[1] = Stage(t)
  BY ThreadFacts DEF Take, TypeOK
<1>2. /\ Head(ring[e]) = ring[e][1] /\ ring[e][1] \in Packets /\ Len(ring[e]) \in Nat \ {0}
      /\ Len(Tail(ring[e])) = Len(ring[e]) - 1
      /\ \A i \in 1 .. Len(ring[e]) - 1 : Tail(ring[e])[i] = ring[e][i + 1]
  BY <1>1, TailFacts
<1>3. /\ thread'[t].pc = "lookup" /\ thread'[t].pkt = ring[e][1]
      /\ \A u \in Threads : u # t => thread'[u] = thread[u]
  BY <1>2, GotoFacts DEF Take, Labels
<1>4. ring'[e] = Tail(ring[e]) /\ \A d \in Rings : d # e => ring'[d] = ring[d]
  BY <1>1 DEF Take, TypeOK
<1>5. \A d \in Rings : \A i \in 1 .. Len(ring'[d]) :
          \E j \in 1 .. Len(ring[d]) : ring'[d][i] = ring[d][j]
  <2>. TAKE d \in Rings
  <2>. TAKE i \in 1 .. Len(ring'[d])
  <2>1. CASE d = e
    <3>1. i \in 1 .. Len(Tail(ring[e]))
      BY <1>4, <2>1, Zenon
    <3>2. i \in 1 .. Len(ring[e]) - 1 /\ i + 1 \in 1 .. Len(ring[e])
      BY <1>2, <3>1
    <3>3. ring'[d][i] = ring[d][i + 1]
      BY <1>2, <1>4, <2>1, <3>2, Zenon
    <3>. QED
      BY <2>1, <3>2, <3>3
  <2>2. CASE d # e
    BY <1>4, <2>2
  <2>. QED
    BY <2>1, <2>2
<1>6. 1 \in 1 .. Len(ring[e])
  BY <1>2
<1>7. HasEntry' \subseteq HasEntry
  <2>. SUFFICES ASSUME NEW p \in Packets, p \in HasEntry' PROVE p \in HasEntry
    BY DEF HasEntry
  <2>1. CASE \E u \in Threads : Pkt(u)' = p /\ thread'[u].pc \in {"lookup", "update", "emit"}
    <3>1. PICK u \in Threads : Pkt(u)' = p /\ thread'[u].pc \in {"lookup", "update", "emit"}
      BY <2>1
    <3>2. CASE u = t
      BY <1>1, <1>3, <1>6, <3>1, <3>2 DEF HasEntry, Pkt
    <3>3. CASE u # t
      BY <1>3, <3>1, <3>3 DEF HasEntry, Pkt
    <3>. QED
      BY <3>2, <3>3
  <2>2. CASE \E d \in Rings : \E i \in 1 .. Len(ring'[d]) : ring'[d][i] = p
    BY <1>5, <2>2 DEF HasEntry
  <2>. QED
    BY <2>1, <2>2 DEF HasEntry
<1>8. ring[e][1] \notin clash => Written(ring[e][1], Stage(t))
  BY <1>1, <1>6 DEF FieldsKept
<1>9. Owns(t)' /\ Pkt(t)' \notin clash => Written(Pkt(t)', Reached(t)')
  BY <1>3, <1>8 DEF Pkt, Reached, At
<1>10. \A d \in Rings : \A i \in 1 .. Len(ring'[d]) :
           ring'[d][i] \notin clash => Written(ring'[d][i], d[1])
  BY <1>5 DEF FieldsKept
<1>11. ~At(t, "alloc")'
  BY <1>3 DEF At
<1>12. UNCHANGED <<entry, pool, clash>>
  BY DEF Take
<1>. QED
  BY <1>3, <1>7, <1>9, <1>10, <1>11, <1>12, FieldsMove

\* A lookup leaves the packet where it is.
LEMMA FieldsLookup ==
    ASSUME TypeOK, FieldsKept, NEW t \in Threads, Lookup(t)
    PROVE  FieldsKept'
<1>1. Pkt(t) \in Packets
  BY DEF Lookup, TypeOK, Pkt, At
<1>2. /\ thread'[t].pc = "update" /\ thread'[t].pkt = Pkt(t)
      /\ \A u \in Threads : u # t => thread'[u] = thread[u]
  BY <1>1, GotoFacts DEF Lookup, Labels
<1>3. HasEntry' \subseteq HasEntry
  BY <1>2 DEF HasEntry, Pkt, Lookup, At
<1>4. Pkt(t) \notin clash => Written(Pkt(t), Stage(t))
  BY DEF FieldsKept, Lookup, Owns, At, Reached
<1>5. Owns(t)' /\ Pkt(t)' \notin clash => Written(Pkt(t)', Reached(t)')
  BY <1>2, <1>4 DEF Pkt, Reached, At
<1>6. \A e \in Rings : \A i \in 1 .. Len(ring'[e]) :
          ring'[e][i] \notin clash => Written(ring'[e][i], e[1])
  BY DEF Lookup, FieldsKept
<1>7. ~At(t, "alloc")' /\ UNCHANGED <<entry, pool, clash>>
  BY <1>2 DEF At, Lookup
<1>. QED
  BY <1>2, <1>3, <1>5, <1>6, <1>7, FieldsMove

\* Work that is dispatched has the fields of the stage that dispatches it.
LEMMA FieldsDispatch ==
    ASSUME TypeOK, FieldsKept, NEW t \in Threads, Dispatch(t)
    PROVE  FieldsKept'
<1>. DEFINE e == Target(t)
            p == Pkt(t)
<1>1. e \in Rings /\ ring[e] \in Seq(Packets) /\ e[1] = Stage(t) + 1
  BY TargetFacts DEF Dispatch, TypeOK
<1>2. p \in Packets
  BY Zenon DEF Dispatch, TypeOK, Pkt, At
<1>3. thread'[t].pc = "idle" /\ \A u \in Threads : u # t => thread'[u] = thread[u]
  BY GotoFacts, Zenon DEF Dispatch, Labels
<1>4. \A d \in Rings : \A i \in 1 .. Len(ring'[d]) :
          \/ d = e /\ ring'[d][i] = p
          \/ i \in 1 .. Len(ring[d]) /\ ring'[d][i] = ring[d][i]
  <2>1. CASE ring' = ring
    BY <2>1
  <2>2. CASE ring' = [ring EXCEPT ![e] = Append(@, p)]
    <3>. TAKE d \in Rings
    <3>. TAKE i \in 1 .. Len(ring'[d])
    <3>1. ring'[e] = Append(ring[e], p) /\ (d # e => ring'[d] = ring[d])
      BY <1>1, <2>2 DEF TypeOK
    <3>2. /\ Len(Append(ring[e], p)) = Len(ring[e]) + 1 /\ Len(ring[e]) \in Nat
          /\ \A j \in 1 .. Len(ring[e]) : Append(ring[e], p)[j] = ring[e][j]
          /\ Append(ring[e], p)[Len(ring[e]) + 1] = p
      BY <1>1, <1>2, AppendFacts
    <3>3. CASE d = e
      <4>1. i \in 1 .. Len(ring[e]) + 1
        BY <3>1, <3>2, <3>3
      <4>2. i = Len(ring[e]) + 1 \/ i \in 1 .. Len(ring[e])
        BY <3>2, <4>1
      <4>. QED
        BY <3>1, <3>2, <3>3, <4>2
    <3>4. CASE d # e
      BY <3>1, <3>4
    <3>. QED
      BY <3>3, <3>4
  <2>. QED
    BY <2>1, <2>2, Zenon DEF Dispatch
<1>5. Owns(t)
  BY DEF Dispatch, Owns, At
<1>6. HasEntry' \subseteq HasEntry
  <2>. SUFFICES ASSUME NEW q \in Packets, q \in HasEntry' PROVE q \in HasEntry
    BY DEF HasEntry
  <2>1. CASE \E u \in Threads : Pkt(u)' = q /\ thread'[u].pc \in {"lookup", "update", "emit"}
    <3>1. PICK u \in Threads : Pkt(u)' = q /\ thread'[u].pc \in {"lookup", "update", "emit"}
      BY <2>1
    <3>2. u # t
      BY <1>3, <3>1
    <3>. QED
      BY <1>3, <3>1, <3>2 DEF HasEntry, Pkt
  <2>2. CASE \E d \in Rings : \E i \in 1 .. Len(ring'[d]) : ring'[d][i] = q
    BY <1>4, <1>5, <2>2, Zenon DEF HasEntry, Owns
  <2>. QED
    BY <2>1, <2>2 DEF HasEntry
<1>7. p \notin clash => Written(p, Stage(t) + 1)
  BY <1>5 DEF FieldsKept, Dispatch, Reached
<1>8. \A d \in Rings : \A i \in 1 .. Len(ring'[d]) :
          ring'[d][i] \notin clash => Written(ring'[d][i], d[1])
  <2>. HIDE DEF e, p
  <2>. QED
    BY <1>1, <1>4, <1>7, SMTT(20) DEF FieldsKept
<1>9. ~Owns(t)' /\ ~At(t, "alloc")' /\ UNCHANGED <<entry, pool, clash>>
  BY <1>3, Zenon DEF Owns, At, Dispatch
<1>. QED
  BY <1>3, <1>6, <1>8, <1>9, FieldsMove

\* A packet that is sent gives up its place.
LEMMA FieldsSend ==
    ASSUME TypeOK, FieldsKept, NEW t \in Threads, Send(t)
    PROVE  FieldsKept'
<1>1. thread'[t].pc = "idle" /\ \A u \in Threads : u # t => thread'[u] = thread[u]
  BY GotoFacts DEF Send, Labels
<1>2. HasEntry' \subseteq HasEntry
  BY <1>1 DEF HasEntry, Pkt, Send
<1>3. \A e \in Rings : \A i \in 1 .. Len(ring'[e]) :
          ring'[e][i] \notin clash => Written(ring'[e][i], e[1])
  BY DEF Send, FieldsKept
<1>4. ~Owns(t)' /\ ~At(t, "alloc")' /\ UNCHANGED <<entry, pool, clash>>
  BY <1>1, Zenon DEF Owns, At, Send
<1>. QED
  BY <1>1, <1>2, <1>3, <1>4, FieldsMove

\* An allocation hands the packet an entry; whoever has the same one clashes.
LEMMA FieldsAlloc ==
    ASSUME TypeOK, OnePlace, FieldsKept, NEW t \in Threads, Alloc(t)
    PROVE  FieldsKept'
<1>. DEFINE p == Pkt(t)
<1>1. p \in Packets /\ p # 0 /\ Stage(t) = 0
  BY DEF Alloc, TypeOK, Pkt, At, FieldsKept
<1>2. /\ thread'[t].pc = "lookup" /\ thread'[t].pkt = p
      /\ \A u \in Threads : u # t => thread'[u] = thread[u]
  BY <1>1, GotoFacts DEF Alloc, Labels
<1>3. entry'[p] = Slot /\ \A q \in Packets : q # p => entry'[q] = entry[q]
  BY <1>1 DEF Alloc, TypeOK
<1>4. p \notin HasEntry
  <2>1. ~Owns(t)
    BY SMTT(20) DEF Owns, Alloc, At
  <2>2. \A u \in Threads : Pkt(u) = p => u = t
    BY DEF OnePlace, Alloc, At
  <2>3. p \notin Queued
    BY <1>1 DEF OnePlace, Held
  <2>. QED
    BY <2>1, <2>2, <2>3 DEF HasEntry, Owns, Queued
<1>5. HasEntry' \subseteq HasEntry \cup {p}
  BY <1>2 DEF HasEntry, Pkt, Alloc
<1>6. HasEntry \subseteq Packets
  BY DEF HasEntry
<1>7. clash \subseteq clash' /\ \A q \in HasEntry : entry[q] = Slot => q \in clash' /\ p \in clash'
  BY DEF Alloc
<1>8. \A q, r \in HasEntry' : q # r /\ entry'[q] = entry'[r] => q \in clash'
  <2>. SUFFICES ASSUME NEW q \in HasEntry', NEW r \in HasEntry', q # r, entry'[q] = entry'[r]
                PROVE  q \in clash'
    OBVIOUS
  <2>. HIDE DEF p
  <2>1. CASE q = p
    BY <1>3, <1>5, <1>6, <1>7, <2>1
  <2>2. CASE r = p
    BY <1>3, <1>5, <1>6, <1>7, <2>2
  <2>3. CASE q # p /\ r # p
    <3>1. q \in HasEntry /\ r \in HasEntry /\ entry[q] = entry[r]
      BY <1>3, <1>5, <1>6, <2>3
    <3>. QED
      BY <1>7, <3>1 DEF FieldsKept
  <2>. QED
    BY <2>1, <2>2, <2>3
<1>9. \A q, s : q \in HasEntry /\ Written(q, s) => Written(q, s)'
  <2>1. \A q \in HasEntry : entry'[q] = entry[q]
    BY <1>3, <1>4, <1>6
  <2>2. pool' = pool
    BY DEF Alloc
  <2>. QED
    BY <2>1, <2>2 DEF Written
<1>10. ring' = ring
  BY DEF Alloc
<1>11. \A e \in Rings : \A i \in 1 .. Len(ring'[e]) :
           ring'[e][i] \notin clash' => Written(ring[e][i], e[1])'
  BY <1>7, <1>9, <1>10, HasEntryMember DEF FieldsKept
<1>12. \A u \in Threads : Owns(u)' /\ Pkt(u)' \notin clash' => Written(Pkt(u), Reached(u))'
  <2>. SUFFICES ASSUME NEW u \in Threads, Owns(u)', Pkt(u)' \notin clash'
                PROVE  Written(Pkt(u), Reached(u))'
    OBVIOUS
  <2>1. CASE u = t
    <3>1. Reached(u)' = 0
      BY <1>1, <1>2, <2>1 DEF Reached, At
    <3>. QED
      BY <3>1 DEF Written, Stages
  <2>2. CASE u # t
    <3>1. /\ Pkt(u)' = Pkt(u) /\ Owns(u) /\ Reached(u)' = Reached(u)
          /\ Pkt(u) \notin clash
      BY <1>2, <1>7, <2>2 DEF Pkt, Owns, Reached, At
    <3>2. Written(Pkt(u), Reached(u)) /\ Pkt(u) \in HasEntry
      BY <3>1, HasEntryMember DEF FieldsKept
    <3>3. Written(Pkt(u), Reached(u)) => \A q, s : q = Pkt(u) /\ s = Reached(u) => Written(q, s)'
      BY <1>9, <3>2
    <3>. QED
      BY <3>1, <3>2, <3>3 DEF Written
  <2>. QED
    BY <2>1, <2>2
<1>13. \A u \in Threads : At(u, "alloc")' => Stage(u) = 0
  BY <1>2, Zenon DEF FieldsKept, At
<1>. QED
  BY <1>8, <1>11, <1>12, <1>13, Zenon DEF FieldsKept

\* A stage writes into the entry of its own packet; without a clash that is
\* the entry of no other.
LEMMA FieldsUpdate ==
    ASSUME TypeOK, OnePlace, FieldsKept, NEW t \in Threads, Update(t)
    PROVE  FieldsKept'
<1>. DEFINE p == Pkt(t)
            s == Stage(t)
<1>1. p \in Packets /\ p # 0 /\ Owns(t) /\ p \in HasEntry /\ s \in Stages /\ ~At(t, "emit")
  BY HasEntryMember, ThreadFacts DEF Update, TypeOK, Pkt, At, Owns
<1>2. /\ thread'[t].pc = "emit" /\ thread'[t].pkt = p
      /\ \A u \in Threads : u # t => thread'[u] = thread[u]
  BY <1>1, GotoFacts DEF Update, Labels
<1>3. HasEntry' \subseteq HasEntry
  BY <1>1, <1>2 DEF HasEntry, Pkt, Update, At
<1>4. UNCHANGED <<entry, ring, clash>>
  BY DEF Update
<1>5. HasEntry \subseteq Packets /\ \A r \in Stages : Writes[r] \subseteq Fields
  BY SMTT(20) DEF HasEntry, Writes, Writes0, Writes1, Writes2, Stages, Fields
<1>6. /\ \A i \in 0 .. PoolSize - 1 : i # entry[p] => pool'[i] = pool[i]
      /\ \A f \in Fields : pool'[entry[p]][f] = IF f \in Writes[s] THEN p ELSE pool[entry[p]][f]
      /\ \A q \in Packets : entry[q] \in 0 .. PoolSize - 1
  BY <1>1, Zenon DEF Update, Stored, TypeOK
<1>7. \A q, r : q \in HasEntry /\ q # p /\ q \notin clash /\ Written(q, r) => Written(q, r)'
  <2>. SUFFICES ASSUME NEW q \in HasEntry, q # p, q \notin clash
                PROVE  pool'[entry'[q]] = pool[entry[q]]
    BY Zenon DEF Written
  <2>1. entry[q] # entry[p]
    BY <1>1, Zenon DEF FieldsKept
  <2>. QED
    BY <1>4, <1>5, <1>6, <2>1, Zenon
<1>8. p \notin clash =>
          \A r \in Stages : r < s + 1 => \A f \in Writes[r] : pool'[entry[p]][f] = p
  <2>. SUFFICES ASSUME p \notin clash, NEW r \in Stages, r < s + 1, NEW f \in Writes[r]
                PROVE  pool'[entry[p]][f] = p
    OBVIOUS
  <2>1. Written(p, s)
    BY <1>1 DEF FieldsKept, Reached
  <2>2. r < s \/ r = s
    BY <1>1 DEF Stages
  <2>3. f \in Fields
    BY <1>5
  <2>4. CASE r = s
    BY <1>6, <2>3, <2>4
  <2>5. CASE r < s
    <3>1. pool[entry[p]][f] = p
      BY <2>1, <2>5 DEF Written
    <3>. QED
      BY <1>6, <2>3, <3>1
  <2>. QED
    BY <2>2, <2>4, <2>5
<1>9. \A u \in Threads : Owns(u)' /\ Pkt(u)' \notin clash' => Written(Pkt(u), Reached(u))'
  <2>. SUFFICES ASSUME NEW u \in Threads, Owns(u)', Pkt(u)' \notin clash'
                PROVE  Written(Pkt(u), Reached(u))'
    OBVIOUS
  <2>1. CASE u = t
    <3>1. Pkt(u)' = p /\ Reached(u)' = s + 1
      BY <1>2, <2>1 DEF Pkt, Reached, At
    <3>. QED
      BY <1>4, <1>8, <3>1 DEF Written
  <2>2. CASE u # t
    <3>1. /\ Pkt(u)' = Pkt(u) /\ Owns(u) /\ Reached(u)' = Reached(u)
          /\ Pkt(u) \notin clash
      BY <1>2, <1>4, <2>2 DEF Pkt, Owns, Reached, At
    <3>2. Written(Pkt(u), Reached(u)) /\ Pkt(u) \in HasEntry
      BY <3>1, HasEntryMember DEF FieldsKept
    <3>3. Pkt(u) # p
      BY <1>1, <2>2 DEF OnePlace, Update, At
    <3>4. \A q, r : q = Pkt(u) /\ r = Reached(u) => Written(q, r)'
      BY <1>7, <3>1, <3>2, <3>3
    <3>. QED
      BY <3>1, <3>4 DEF Written
  <2>. QED
    BY <2>1, <2>2
<1>10. \A e \in Rings : \A i \in 1 .. Len(ring'[e]) :
           ring'[e][i] \notin clash' => Written(ring[e][i], e[1])'
  <2>1. \A e \in Rings : \A i \in 1 .. Len(ring[e]) : ring[e][i] \in HasEntry /\ ring[e][i] # p
    <3>1. p \notin Queued
      BY <1>1 DEF OnePlace, Held
    <3>. QED
      BY <1>1, <3>1, HasEntryMember DEF Queued
  <2>. QED
    BY <1>4, <1>7, <2>1 DEF FieldsKept
<1>11. \A q, r \in HasEntry' : q # r /\ entry'[q] = entry'[r] => q \in clash'
  BY <1>3, <1>4 DEF FieldsKept
<1>12. \A u \in Threads : At(u, "alloc")' => Stage(u) = 0
  BY <1>2 DEF FieldsKept, At
<1>. QED
  BY <1>9, <1>10, <1>11, <1>12, Zenon DEF FieldsKept

\* Every step keeps the invariant.
LEMMA FieldsStep == TypeOK /\ OnePlace /\ FieldsKept /\ [Next]_vars => FieldsKept'
<1>. SUFFICES ASSUME TypeOK, OnePlace, FieldsKept, [Next]_vars PROVE FieldsKept'
  OBVIOUS
<1>1. CASE UNCHANGED vars
  BY <1>1, FieldsQuiet DEF vars
<1>2. ASSUME NEW e \in Rings, InitRing(e) PROVE FieldsKept'
  BY <1>2, FieldsQuiet DEF InitRing
<1>3. CASE Start
  BY <1>3, FieldsQuiet DEF Start
<1>. QED
  BY <1>1, <1>2, <1>3, FieldsReceive, FieldsAlloc, FieldsTake, FieldsLookup, FieldsUpdate,
     FieldsDispatch, FieldsSend DEF Next, Step, Work

\* Whatever the interleaving of the threads, a stage reads from the context
\* entry only what the stages before it wrote for the same packet, unless the
\* pool gave the entry to a second packet while the first was on its way.
THEOREM OwnFieldsRead == Spec => []OwnFields
BY TypeInit, TypeStep, PlaceInit, PlaceStep, FieldsInit, FieldsStep, FieldsOwn, PTL DEF Spec

-----------------------------------------------------------------------------
(***************************************************************************)
(* Lost work.  The entries of a ring and the packet about to be added to   *)
(* it are different packets under way, so a full ring means more of them   *)
(* than the ring holds.                                                    *)
(***************************************************************************)
INSTANCE FiniteSetTheorems

Underway == Held \cup Queued

\* A dispatcher sees fewer packets in its ring than are under way.
LEMMA RingBelow ==
    ASSUME TypeOK, OnePlace, NEW t \in Threads, At(t, "emit"), NEW e \in Rings
    PROVE  /\ Cardinality(Underway) \in Nat
           /\ Len(ring[e]) \in Nat
           /\ Len(ring[e]) + 1 <= Cardinality(Underway)
<1>. DEFINE n == Len(ring[e])
            f == [i \in 0 .. n |-> IF i = 0 THEN Pkt(t) ELSE ring[e][i]]
<1>1. ring[e] \in Seq(Packets) /\ n \in Nat
  BY DEF TypeOK
<1>2. Pkt(t) \in Packets /\ Pkt(t) \in Held /\ Held \subseteq Packets
  <2>1. 0 \notin Packets
    BY ProgramAssumption DEF Packets
  <2>2. Pkt(t) # 0 /\ \A u \in Threads : Pkt(u) \in Packets \cup {0}
    BY DEF TypeOK, Pkt, At
  <2>. QED
    BY <2>1, <2>2 DEF Held
<1>3. \A i \in 1 .. n : ring[e][i] \in Packets /\ ring[e][i] \in Queued
  BY <1>1 DEF Queued
<1>4. IsFiniteSet(Underway)
  <2>1. IsFiniteSet(Packets)
    BY FS_Interval, ProgramAssumption DEF Packets
  <2>2. Underway \in SUBSET Packets
    BY <1>2 DEF Underway, Queued
  <2>. QED
    BY <2>1, <2>2, FS_Subset
<1>5. \A i \in 0 .. n : i # 0 => i \in 1 .. n
  BY <1>1
<1>6. f \in [0 .. n -> Underway]
  BY <1>2, <1>3, <1>5 DEF Underway
<1>7. \A i, j \in 0 .. n : f[i] = f[j] => i = j
  <2>. SUFFICES ASSUME NEW i \in 0 .. n, NEW j \in 0 .. n, f[i] = f[j] PROVE i = j
    BY Zenon
  <2>1. CASE i = 0 /\ j = 0
    BY <2>1
  <2>2. CASE i = 0 /\ j # 0
    BY <1>2, <1>3, <1>5, <2>2 DEF OnePlace
  <2>3. CASE i # 0 /\ j = 0
    BY <1>2, <1>3, <1>5, <2>3 DEF OnePlace
  <2>4. CASE i # 0 /\ j # 0
    BY <1>5, <2>4 DEF OnePlace
  <2>. QED
    BY <2>1, <2>2, <2>3, <2>4
<1>8. f \in Injection(0 .. n, Underway)
  BY <1>6, <1>7, Zenon DEF Injection, IsInjective
<1>9. Cardinality(0 .. n) <= Cardinality(Underway)
  BY <1>4, <1>8, FS_Injection
<1>10. Cardinality(0 .. n) = n + 1
  BY <1>1, FS_Interval
<1>11. Cardinality(Underway) \in Nat
  BY <1>4, FS_CardinalityType
<1>. QED
  BY <1>1, <1>9, <1>10, <1>11

\* A step that loses a packet has its cause.
LEMMA LossStep ==
    ASSUME Emem = {}, TypeOK, OnePlace, [Next]_vars,
           ready = Rings, Cardinality(Held \cup Queued) <= RingSize
    PROVE  lost' = lost
<1>1. CASE UNCHANGED vars
  BY <1>1 DEF vars
<1>2. ASSUME NEW t \in Threads, Dispatch(t) PROVE lost' = lost
  <2>1. Target(t) \in Rings
    BY <1>2, TargetFacts DEF Dispatch, TypeOK
  <2>2. Len(ring[Target(t)]) < RingSize
    <3>1. At(t, "emit")
      BY <1>2 DEF Dispatch
    <3>2. /\ Len(ring[Target(t)]) + 1 <= Cardinality(Underway)
          /\ Len(ring[Target(t)]) \in Nat /\ Cardinality(Underway) \in Nat
      BY <2>1, <3>1, RingBelow
    <3>3. Cardinality(Underway) <= RingSize
      BY DEF Underway
    <3>. QED
      BY <3>2, <3>3, ProgramAssumption
  <2>3. Accepts(Target(t))
    BY <2>1, <2>2, SMTT(20) DEF Accepts, Served
  <2>. QED
    BY <1>2, <2>1, <2>3 DEF Dispatch
<1>3. ASSUME NEW t \in Threads, Step(t), ~Dispatch(t) PROVE lost' = lost
  BY <1>3, Zenon DEF Step, Work, Receive, Alloc, Take, Lookup, Update, Send
<1>4. ASSUME NEW e \in Rings, InitRing(e) PROVE lost' = lost
  BY <1>4 DEF InitRing
<1>5. CASE Start
  BY <1>5 DEF Start
<1>. QED
  BY <1>1, <1>2, <1>3, <1>4, <1>5 DEF Next

\* With every ring in memory that is served, however many stages, replicas
\* and threads there are, a dispatcher loses a packet only before all rings
\* are set up or while more packets are under way than one ring holds.
THEOREM LossCaused ==
    ASSUME Emem = {}
    PROVE  Spec => LossNeedsCause
<1>1. TypeOK /\ OnePlace /\ [Next]_vars
          => [ready = Rings /\ Cardinality(Held \cup Queued) <= RingSize => lost' = lost]_vars
  BY LossStep
<1>. QED
  BY <1>1, TypeCorrect, Conserved, PTL DEF Spec, LossNeedsCause
=============================================================================
