------------------------ MODULE CtrlSelector_proofs ------------------------
(***************************************************************************)
(* Proofs about the event selector, for any number of sources, replicas,   *)
(* FIFO words and counter bits.                                            *)
(***************************************************************************)
EXTENDS CtrlSelector, WellFoundedInduction, SequenceTheorems, TLAPS

(* The inductive invariant: the counter is exact because a grant is always *)
(* backed by an event, and a grant stays backed because the source granted *)
(* last cannot be granted again before its decrement is visible.           *)
SelectorInv ==
  /\ TypeOK
  /\ inflight \in [Sources -> 0 .. MaxInflight]
  /\ CountExact
  /\ GrantBacked

(* The priority encoder returns a member of a non-empty request.           *)
LEMMA LowestMember ==
  ASSUME NEW S \in SUBSET Sources, S # {}
  PROVE  Lowest(S) \in S
<1>1. S \in SUBSET Nat
  BY SelectorAssumption DEF Sources
<1>2. \E n \in S : \A m \in S : n <= m
  <2> DEFINE R == OpToRel(<, Nat)
  <2>1. IsWellFoundedOn(R, Nat)
    BY NatLessThanWellFounded
  <2>2. \A x, y \in Nat : <<y, x>> \in R <=> y < x
    BY DEF OpToRel
  <2> HIDE DEF R
  <2>3. \E x \in S : \A y \in S : ~ (<<y, x>> \in R)
    BY <1>1, <2>1, WFMin
  <2>4. PICK x \in S : \A y \in S : ~ (<<y, x>> \in R)
    BY <2>3
  <2>5. ASSUME NEW y \in S PROVE x <= y
    <3>1. x \in Nat /\ y \in Nat
      BY <1>1
    <3>2. ~ (y < x)
      BY <2>2, <2>4, <3>1
    <3> QED BY <3>1, <3>2
  <2> QED BY <2>5
<1> QED BY <1>2 DEF Lowest

(* The round robin only grants a source that requests.                     *)
LEMMA PickMember ==
  ASSUME NEW R \in SUBSET Sources, R # {}
  PROVE  ArbiterPick(R) \in R
<1>1. CASE R \cap mask # {}
  <2>1. Lowest(R \cap mask) \in R \cap mask
    BY <1>1, LowestMember
  <2> QED BY <1>1, <2>1 DEF ArbiterPick
<1>2. CASE R \cap mask = {}
  BY <1>2, LowestMember DEF ArbiterPick
<1> QED BY <1>1, <1>2

(* What replica r's FIFO holds after an edge is a sequence of sources.     *)
LEMMA FifoStepType ==
  ASSUME NEW q \in Seq(Sources), NEW g \in Sources \cup {NoGrant},
         NEW push \in BOOLEAN, NEW pop \in BOOLEAN,
         push => g \in Sources, pop => q # <<>>
  PROVE  LET p == IF push THEN Append(q, g) ELSE q
         IN  (IF pop THEN Tail(p) ELSE p) \in Seq(Sources)
<1> DEFINE p == IF push THEN Append(q, g) ELSE q
<1>1. p \in Seq(Sources) /\ (pop => p # <<>>)
  <2>1. CASE push
    BY <2>1, AppendProperties
  <2>2. CASE ~push
    BY <2>2
  <2> QED BY <2>1, <2>2
<1> HIDE DEF p
<1>2. (IF pop THEN Tail(p) ELSE p) \in Seq(Sources)
  BY <1>1, HeadTailProperties
<1> QED BY <1>2 DEF p

(* Counted from the newest token: a push puts the pushed token in front of *)
(* what the FIFO held, and a pop only shortens it.                         *)
LEMMA PushNewest ==
  ASSUME NEW q \in Seq(Sources), NEW g \in Sources
  PROVE  LET p == Append(q, g)
         IN  /\ p \in Seq(Sources) /\ p # <<>> /\ Len(p) = Len(q) + 1
             /\ \A k \in 0 .. Len(q) :
                  p[Len(p) - k] = IF k = 0 THEN g ELSE q[Len(q) - (k - 1)]
BY AppendProperties, LenProperties

(* Counted from the newest token, a pop leaves the remaining tokens alone. *)
LEMMA PopNewest ==
  ASSUME NEW q \in Seq(Sources), q # <<>>
  PROVE  LET t == Tail(q)
         IN  /\ t \in Seq(Sources) /\ Len(t) = Len(q) - 1
             /\ \A k \in 0 .. (Len(q) - 2) : t[Len(t) - k] = q[Len(q) - k]
<1>1. /\ Tail(q) \in Seq(Sources) /\ Len(Tail(q)) = Len(q) - 1
      /\ \A i \in 1 .. Len(Tail(q)) : Tail(q)[i] = q[i + 1]
  BY HeadTailProperties
<1>2. Len(q) \in Nat
  BY LenProperties
<1>3. ASSUME NEW k \in 0 .. (Len(q) - 2)
      PROVE  Tail(q)[Len(Tail(q)) - k] = q[Len(q) - k]
  <2>1. Len(Tail(q)) - k \in 1 .. Len(Tail(q))
    BY <1>1, <1>2
  <2>2. Tail(q)[Len(Tail(q)) - k] = q[(Len(Tail(q)) - k) + 1]
    BY <1>1, <2>1
  <2>3. (Len(Tail(q)) - k) + 1 = Len(q) - k
    BY <1>1, <1>2
  <2> QED BY <2>2, <2>3
<1> QED BY <1>1, <1>3

(* The reset state satisfies the inductive invariant.                      *)
LEMMA InitSelectorInv == Init => SelectorInv
<1> SUFFICES ASSUME Init PROVE SelectorInv
  OBVIOUS
<1> USE SelectorAssumption DEF Init
<1>1. TypeOK
  BY DEF TypeOK, NoGrant, Sources
<1> QED BY <1>1 DEF SelectorInv, CountExact, GrantBacked

(* Every clock edge keeps the inductive invariant: the counter's always    *)
(* block, the arbiter and the replication FIFOs in turn.                   *)
LEMMA NextSelectorInv == SelectorInv /\ [Next]_vars => SelectorInv'
<1> SUFFICES ASSUME SelectorInv, [Next]_vars PROVE SelectorInv'
  OBVIOUS
<1>1. CASE UNCHANGED vars
  BY <1>1 DEF vars, SelectorInv, TypeOK, CountExact, GrantBacked
<1>2. ASSUME NEW inc \in SUBSET Sources, NEW pops \in SUBSET Replicas,
             NEW fifoReady \in [Replicas -> BOOLEAN],
             Clock(inc, pops, fifoReady)
      PROVE  SelectorInv'
  <2> DEFINE dec == Dec(fifoReady)
             req == Request(fifoReady)
  <2> USE SelectorAssumption
  <2>1. dec \subseteq {grant} \cap Sources /\ req \in SUBSET Sources
    BY DEF Dec, Request
  <2>2. \A s \in dec : inflight[s] > 0
    BY <2>1 DEF SelectorInv, GrantBacked, NoGrant, Sources
  <2>3. inflight' = [s \in Sources |->
                       inflight[s] + Bit(s \in inc) - Bit(s \in dec)]
    BY <1>2 DEF Clock
  <2>4. count' = [s \in Sources |-> NextCount(inc, dec, s)]
    BY <1>2 DEF Clock
  <2>5. \A s \in inc : inflight[s] < MaxInflight
    BY <1>2 DEF Clock
  <2>6. ArbiterStep(req)
    BY <1>2 DEF Clock
  <2>7. \A s \in Sources : /\ inflight'[s] \in 0 .. MaxInflight
                           /\ count'[s] = inflight'[s]
    <3> SUFFICES ASSUME NEW s \in Sources
                 PROVE  /\ inflight'[s] \in 0 .. MaxInflight
                        /\ count'[s] = inflight'[s]
      OBVIOUS
    <3>1. inflight[s] \in 0 .. MaxInflight /\ count[s] = inflight[s]
      BY DEF SelectorInv, CountExact
    <3> HIDE DEF dec
    <3>2. CASE s \in inc /\ s \notin dec
      <4>1. inflight'[s] = inflight[s] + 1
        BY <2>3, <3>1, <3>2 DEF Bit
      <4>2. count'[s] = (count[s] + 1) % COUNT_MOD
        BY <2>4, <3>2 DEF NextCount
      <4> QED BY <2>5, <3>1, <3>2, <4>1, <4>2
    <3>3. CASE s \notin inc /\ s \in dec
      <4>1. inflight'[s] = inflight[s] - 1
        BY <2>3, <3>1, <3>3 DEF Bit
      <4>2. count'[s] = (count[s] - 1) % COUNT_MOD
        BY <2>4, <3>3 DEF NextCount
      <4> QED BY <2>2, <3>1, <3>3, <4>1, <4>2
    <3>4. CASE (s \in inc) = (s \in dec)
      <4>1. inflight'[s] = inflight[s]
        BY <2>3, <3>1, <3>4 DEF Bit
      <4>2. count'[s] = count[s]
        BY <2>4, <3>4 DEF NextCount
      <4> QED BY <3>1, <4>1, <4>2
    <3> QED BY <3>2, <3>3, <3>4
  <2>8. /\ inflight' \in [Sources -> 0 .. MaxInflight]
        /\ count' \in [Sources -> 0 .. (COUNT_MOD - 1)]
        /\ CountExact'
    <3> HIDE DEF dec
    <3>1. inflight' \in [Sources -> 0 .. MaxInflight]
      BY <2>3, <2>7
    <3>2. \A s \in Sources : count'[s] \in 0 .. (COUNT_MOD - 1)
      BY <2>7
    <3>3. count' \in [Sources -> 0 .. (COUNT_MOD - 1)]
      BY <2>4, <3>2
    <3> QED BY <3>1, <3>3, <2>7 DEF CountExact
  <2>9. grant' \in Sources \cup {NoGrant} /\ mask' \in SUBSET Sources
    <3>1. CASE req = {}
      BY <2>6, <3>1 DEF ArbiterStep, SelectorInv, TypeOK
    <3>2. CASE req # {}
      <4> HIDE DEF req
      <4>1. ArbiterPick(req) \in Sources
        BY <2>1, <3>2, PickMember
      <4> QED BY <2>6, <3>2, <4>1 DEF ArbiterStep
    <3> QED BY <3>1, <3>2
  <2>10. GrantBacked'
    <3>1. CASE req = {}
      BY <2>6, <3>1 DEF ArbiterStep, GrantBacked
    <3>2. CASE req # {}
      <4> DEFINE g == ArbiterPick(req)
      <4>1. g \in req
        BY <2>1, <3>2, PickMember
      <4>2. grant' = g
        BY <2>6, <3>2 DEF ArbiterStep
      <4> HIDE DEF g
      <4>3. g \in Sources /\ count[g] > 0 /\ g # grant
        BY <4>1 DEF Request
      <4>4. g \notin dec
        BY <2>1, <4>3
      <4> HIDE DEF dec
      <4>5. inflight[g] \in 1 .. MaxInflight
        BY <4>3 DEF SelectorInv, CountExact
      <4>6. inflight'[g] > 0
        BY <2>3, <4>3, <4>4, <4>5 DEF Bit
      <4> QED BY <4>2, <4>6 DEF GrantBacked
    <3> QED BY <3>1, <3>2
  <2>11. rep' \in [Replicas -> Seq(Sources)]
    <3> DEFINE F(r) == LET q == IF ReplicaPush(fifoReady, r)
                                THEN Append(rep[r], grant) ELSE rep[r]
                       IN  IF r \in pops THEN Tail(q) ELSE q
    <3>1. rep' = [r \in Replicas |-> F(r)]
      BY <1>2 DEF Clock
    <3>2. ASSUME NEW r \in Replicas PROVE F(r) \in Seq(Sources)
      <4>1. rep[r] \in Seq(Sources) /\ grant \in Sources \cup {NoGrant}
        BY DEF SelectorInv, TypeOK
      <4>2. ReplicaPush(fifoReady, r) \in BOOLEAN /\ (r \in pops) \in BOOLEAN
        BY DEF ReplicaPush, ReplicateReady
      <4>3. ReplicaPush(fifoReady, r) => grant \in Sources
        BY <4>1 DEF ReplicaPush
      <4>4. r \in pops => rep[r] # <<>>
        BY <1>2 DEF Clock
      <4> QED BY <4>1, <4>2, <4>3, <4>4, FifoStepType
    <3> HIDE DEF F
    <3> QED BY <3>1, <3>2
  <2>12. served' \in Sources \cup {NoGrant}
    BY <1>2 DEF Clock, SelectorInv, TypeOK
  <2>13. TypeOK'
    <3>1. inflight' \in [Sources -> Int]
      BY <2>8
    <3> QED BY <2>8, <2>9, <2>11, <2>12, <3>1 DEF TypeOK
  <2> QED BY <2>8, <2>10, <2>13 DEF SelectorInv
<1> QED BY <1>1, <1>2 DEF Next

(* One edge seen by replica r: its FIFO stores or not, is popped or not.   *)
Stored(fifoReady) == ReplicateReady(fifoReady) /\ grant # NoGrant

LenStep(fifoReady, pops, r) ==
  Len(rep'[r]) = (IF Stored(fifoReady) THEN Len(rep[r]) + 1 ELSE Len(rep[r]))
                 - (IF r \in pops THEN 1 ELSE 0)

NewestStep(fifoReady, r) ==
  \A k \in 0 .. (Len(rep'[r]) - 1) :
    rep'[r][Len(rep'[r]) - k] =
      IF Stored(fifoReady)
      THEN IF k = 0 THEN grant ELSE rep[r][Len(rep[r]) - (k - 1)]
      ELSE rep[r][Len(rep[r]) - k]

(* An edge adds at most the stored token to a replication FIFO.            *)
LEMMA LenStepBound ==
  ASSUME NEW fifoReady, NEW pops, NEW r, Len(rep[r]) \in Nat,
         LenStep(fifoReady, pops, r)
  PROVE  /\ Stored(fifoReady) => Len(rep'[r]) <= Len(rep[r]) + 1
         /\ ~Stored(fifoReady) => Len(rep'[r]) <= Len(rep[r])
<1>1. CASE r \in pops
  BY <1>1 DEF LenStep
<1>2. CASE r \notin pops
  BY <1>2 DEF LenStep
<1> QED BY <1>1, <1>2

(* What one clock edge does to one replication FIFO of axis_replication.   *)
LEMMA ReplicaStep ==
  ASSUME SelectorInv, NEW inc \in SUBSET Sources,
         NEW pops \in SUBSET Replicas, NEW fifoReady \in [Replicas -> BOOLEAN],
         Clock(inc, pops, fifoReady), NEW r \in Replicas
  PROVE  LenStep(fifoReady, pops, r) /\ NewestStep(fifoReady, r)
<1> DEFINE p == IF Stored(fifoReady) THEN Append(rep[r], grant) ELSE rep[r]
<1>1. rep[r] \in Seq(Sources) /\ (Stored(fifoReady) => grant \in Sources)
  BY DEF SelectorInv, TypeOK, Stored
<1>2. r \in pops => rep[r] # <<>>
  BY DEF Clock
<1>3. rep'[r] = IF r \in pops THEN Tail(p) ELSE p
  BY DEF Clock, ReplicaPush, Stored
<1>4. /\ p \in Seq(Sources) /\ (r \in pops => p # <<>>)
      /\ Len(p) = IF Stored(fifoReady) THEN Len(rep[r]) + 1 ELSE Len(rep[r])
      /\ \A k \in 0 .. (Len(p) - 1) :
           p[Len(p) - k] =
             IF Stored(fifoReady)
             THEN IF k = 0 THEN grant ELSE rep[r][Len(rep[r]) - (k - 1)]
             ELSE rep[r][Len(rep[r]) - k]
  <2>1. CASE Stored(fifoReady)
    <3>1. Len(rep[r]) \in Nat
      BY <1>1, LenProperties
    <3> QED BY <1>1, <2>1, <3>1, PushNewest
  <2>2. CASE ~Stored(fifoReady)
    BY <1>1, <1>2, <2>2
  <2> QED BY <2>1, <2>2
<1> HIDE DEF p
<1>5. Len(p) \in Nat
  BY <1>4, LenProperties
<1>6. CASE r \in pops
  <2>1. /\ Len(rep'[r]) = Len(p) - 1
        /\ \A k \in 0 .. (Len(p) - 2) : rep'[r][Len(rep'[r]) - k] = p[Len(p) - k]
    BY <1>3, <1>4, <1>6, PopNewest
  <2>2. 0 .. (Len(rep'[r]) - 1) = 0 .. (Len(p) - 2)
    BY <1>5, <2>1
  <2>3. 0 .. (Len(p) - 2) \subseteq 0 .. (Len(p) - 1)
    BY <1>5
  <2> QED BY <1>4, <1>6, <2>1, <2>2, <2>3 DEF LenStep, NewestStep
<1>7. CASE r \notin pops
  <2>1. rep'[r] = p
    BY <1>3, <1>7
  <2>2. Len(rep'[r]) = Len(p) - 0
    BY <1>5, <2>1
  <2> QED BY <1>4, <1>7, <2>1, <2>2 DEF LenStep, NewestStep
<1> QED BY <1>6, <1>7

(* Every argument multiplexer follows the same token stream, and no token  *)
(* FIFO overflows, for every number of multiplexers and every FIFO size.   *)
THEOREM TokensReplicated == Spec => [](ReplicasAgree /\ NoOverflow)
<1>1. Init => ReplicasAgree /\ NoOverflow
  BY SelectorAssumption DEF Init, ReplicasAgree, NoOverflow
<1>2. SelectorInv /\ ReplicasAgree /\ NoOverflow /\ [Next]_vars
        => ReplicasAgree' /\ NoOverflow'
  <2> SUFFICES ASSUME SelectorInv, ReplicasAgree, NoOverflow, [Next]_vars
               PROVE  ReplicasAgree' /\ NoOverflow'
    OBVIOUS
  <2>1. CASE UNCHANGED vars
    BY <2>1 DEF vars, ReplicasAgree, NoOverflow
  <2>2. ASSUME NEW inc \in SUBSET Sources, NEW pops \in SUBSET Replicas,
               NEW fifoReady \in [Replicas -> BOOLEAN],
               Clock(inc, pops, fifoReady)
        PROVE  ReplicasAgree' /\ NoOverflow'
    <3>1. \A r \in Replicas : Len(rep[r]) \in Nat
      BY LenProperties DEF SelectorInv, TypeOK
    <3>2. ASSUME NEW r \in Replicas
          PROVE  Len(rep'[r]) <= FIFO_SIZE + PIPELINE_OUTPUT
      <4>1. Stored(fifoReady) => Len(rep[r]) < FIFO_SIZE + PIPELINE_OUTPUT
        BY <2>2, <3>1, SelectorAssumption
        DEF Clock, FifoReadyOutcomes, ReplicateReady, Stored
      <4>2. LenStep(fifoReady, pops, r)
        BY <2>2, ReplicaStep
      <4>3. Len(rep[r]) <= FIFO_SIZE + PIPELINE_OUTPUT
        BY DEF NoOverflow
      <4> QED BY <3>1, <4>1, <4>2, <4>3, SelectorAssumption DEF LenStep
    <3>3. ASSUME NEW r1 \in Replicas, NEW r2 \in Replicas,
                 NEW k \in 0 .. (Len(rep'[r1]) - 1), k < Len(rep'[r2])
          PROVE  rep'[r1][Len(rep'[r1]) - k] = rep'[r2][Len(rep'[r2]) - k]
      <4>1. /\ LenStep(fifoReady, pops, r1) /\ NewestStep(fifoReady, r1)
            /\ LenStep(fifoReady, pops, r2) /\ NewestStep(fifoReady, r2)
        BY <2>2, ReplicaStep
      <4>2. Len(rep'[r1]) \in Int /\ Len(rep'[r2]) \in Int
        BY <3>1, <4>1 DEF LenStep
      <4>3. k \in 0 .. (Len(rep'[r2]) - 1)
        BY <3>3, <4>2
      <4>4. CASE Stored(fifoReady) /\ k = 0
        BY <3>3, <4>1, <4>3, <4>4 DEF NewestStep
      <4>5. CASE Stored(fifoReady) /\ k # 0
        <5>1. k - 1 \in 0 .. (Len(rep[r1]) - 1) /\ k - 1 < Len(rep[r2])
          <6>1. /\ Len(rep'[r1]) <= Len(rep[r1]) + 1
                /\ Len(rep'[r2]) <= Len(rep[r2]) + 1
            BY <3>1, <4>1, <4>5, LenStepBound
          <6> QED BY <3>1, <3>3, <4>2, <4>5, <6>1
        <5>2. rep[r1][Len(rep[r1]) - (k - 1)] = rep[r2][Len(rep[r2]) - (k - 1)]
          BY <5>1 DEF ReplicasAgree
        <5> QED BY <3>3, <4>1, <4>3, <4>5, <5>2 DEF NewestStep
      <4>6. CASE ~Stored(fifoReady)
        <5>1. k \in 0 .. (Len(rep[r1]) - 1) /\ k < Len(rep[r2])
          <6>1. /\ Len(rep'[r1]) <= Len(rep[r1])
                /\ Len(rep'[r2]) <= Len(rep[r2])
            BY <3>1, <4>1, <4>6, LenStepBound
          <6> QED BY <3>1, <3>3, <4>2, <6>1
        <5>2. rep[r1][Len(rep[r1]) - k] = rep[r2][Len(rep[r2]) - k]
          BY <5>1 DEF ReplicasAgree
        <5> QED BY <3>3, <4>1, <4>3, <4>6, <5>2 DEF NewestStep
      <4> QED BY <4>4, <4>5, <4>6
    <3> QED BY <3>2, <3>3 DEF ReplicasAgree, NoOverflow
  <2> QED BY <2>1, <2>2 DEF Next
<1> QED BY <1>1, <1>2, InitSelectorInv, NextSelectorInv, PTL DEF Spec

(* The selector's counter equals the number of events in flight and no     *)
(* grant is ever issued without an event behind it, for every number of    *)
(* sources and every counter width above the events in flight.             *)
THEOREM SelectorCorrect == Spec => [](TypeOK /\ CountExact /\ GrantBacked)
<1>1. SelectorInv => TypeOK /\ CountExact /\ GrantBacked
  BY DEF SelectorInv
<1> QED BY <1>1, InitSelectorInv, NextSelectorInv, PTL DEF Spec
=============================================================================
