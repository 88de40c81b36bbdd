---------------------------- MODULE CtrlSelector ----------------------------
(***************************************************************************)
(* The event selector of the FPGA runtime (ctrl_selector.sv), one step per *)
(* clock edge.  It counts, per source instance, the events that reached    *)
(* the controller and are not selected yet, lets a round-robin arbiter     *)
(* pick a source, and replicates the picked source id (a token) to one     *)
(* FIFO per argument multiplexer (axis_replication.sv).                    *)
(*                                                                         *)
(* Registers of the synthesized design are the variables; wires are        *)
(* operators.  The start state is the one after reset.                     *)
(***************************************************************************)
EXTENDS Integers, Sequences

CONSTANTS
  S_COUNT,            \* number of source instances
  REPLICATED_OUT_NUM, \* number of argument multiplexers that follow the tokens
  FIFO_SIZE,          \* words of one replication FIFO's memory
  PIPELINE_OUTPUT,    \* output registers of one replication FIFO
  COUNT_MOD,          \* 2^width of selector_valid_count_array (2^8 in the code)
  MaxInflight         \* most events of one source the surroundings keep in flight

ASSUME SelectorAssumption ==
  /\ S_COUNT \in Nat \ {0}
  /\ REPLICATED_OUT_NUM \in Nat \ {0}
  /\ FIFO_SIZE \in Nat \ {0}
  /\ PIPELINE_OUTPUT \in Nat
  /\ COUNT_MOD \in Nat \ {0}
  /\ MaxInflight \in 0 .. (COUNT_MOD - 1)

Sources  == 0 .. (S_COUNT - 1)
Replicas == 1 .. REPLICATED_OUT_NUM
NoGrant  == -1

VARIABLES
  count,    \* selector_valid_count_array, a COUNT_MOD-valued register per source
  grant,    \* grant_reg / grant_encoded_reg, NoGrant when grant_valid_reg is 0
  mask,     \* mask_reg of the arbiter: the sources it prefers
  rep,      \* per replica, the tokens in its FIFO (memory and output registers)
  inflight, \* history: events counted and not selected, as an unbounded integer
  served    \* history: the source whose token was stored at the last edge

vars == <<count, grant, mask, rep, inflight, served>>

-----------------------------------------------------------------------------
(* axis_fifo: ready while its memory has room.  Up to PIPELINE_OUTPUT of   *)
(* the words it holds sit in output registers instead of the memory, so    *)
(* between the two limits either answer is possible.                       *)
FifoReadyOutcomes(q) ==
  {b \in BOOLEAN : /\ Len(q) < FIFO_SIZE => b
                   /\ Len(q) >= FIFO_SIZE + PIPELINE_OUTPUT => ~b}

(* axis_replication: ready when every replica's FIFO is.                   *)
ReplicateReady(fifoReady) == \A r \in Replicas : fifoReady[r]

(* Replica r's FIFO stores the granted source at this edge.                *)
ReplicaPushOwnReady(fifoReady, r) == fifoReady[r] /\ grant # NoGrant
ReplicaPush(fifoReady, r) == ReplicateReady(fifoReady) /\ grant # NoGrant

(* The priority encoder with LSB_PRIORITY "HIGH": the lowest index.        *)
Lowest(S) == CHOOSE s \in S : \A t \in S : s <= t

(* arbiter, TYPE "ROUND_ROBIN" and BLOCK "NONE": a masked request first,   *)
(* any request otherwise.                                                  *)
ArbiterPickOffByOne(request) == Lowest(request) + 1
ArbiterPick(request) ==
  IF request \cap mask # {} THEN Lowest(request \cap mask) ELSE Lowest(request)

(* arbiter_valid_array & ~grant                                            *)
RequestUnmasked(fifoReady) ==
  {s \in Sources : count[s] > 0 /\ ReplicateReady(fifoReady)}
RequestAboveOne(fifoReady) ==
  {s \in Sources : count[s] > 1 /\ ReplicateReady(fifoReady) /\ s # grant}
Request(fifoReady) ==
  {s \in Sources : count[s] > 0 /\ ReplicateReady(fifoReady) /\ s # grant}

Dec(fifoReady) == IF ReplicateReady(fifoReady) THEN {grant} \cap Sources ELSE {}

(* The counter register: inc and dec of the same edge cancel.              *)
NextCountIncFirst(inc, dec, s) ==
  CASE s \in inc -> (count[s] + 1) % COUNT_MOD
    [] s \in dec \ inc -> (count[s] - 1) % COUNT_MOD
    [] OTHER           -> count[s]
NextCount(inc, dec, s) ==
  CASE s \in inc \ dec -> (count[s] + 1) % COUNT_MOD
    [] s \in dec \ inc -> (count[s] - 1) % COUNT_MOD
    [] OTHER           -> count[s]

Bit(b) == IF b THEN 1 ELSE 0

ArbiterStep(request) ==
  IF request = {}
  THEN grant' = NoGrant /\ mask' = mask
  ELSE /\ grant' = ArbiterPick(request)
       /\ mask'  = {s \in Sources : s > ArbiterPick(request)}

(* One clock edge: the sources in inc deliver the first argument of an     *)
(* event, the multiplexers in pops take the token at the head of theirs.   *)
Clock(inc, pops, fifoReady) ==
  /\ \A s \in inc : inflight[s] < MaxInflight
  /\ \A r \in Replicas : fifoReady[r] \in FifoReadyOutcomes(rep[r])
  /\ \A r \in pops : rep[r] # <<>>
  /\ LET dec == Dec(fifoReady) IN
       /\ count' = [s \in Sources |-> NextCount(inc, dec, s)]
       /\ inflight' = [s \in Sources |->
                         inflight[s] + Bit(s \in inc) - Bit(s \in dec)]
       /\ served' = IF dec = {} THEN NoGrant ELSE grant
  /\ rep' = [r \in Replicas |->
               LET q == IF ReplicaPush(fifoReady, r)
                        THEN Append(rep[r], grant) ELSE rep[r]
               IN  IF r \in pops THEN Tail(q) ELSE q]
  /\ ArbiterStep(Request(fifoReady))

Init ==
  /\ count    = [s \in Sources |-> 0]
  /\ grant    = NoGrant
  /\ mask     = {}
  /\ rep      = [r \in Replicas |-> <<>>]
  /\ inflight = [s \in Sources |-> 0]
  /\ served   = NoGrant

Next ==
  \E inc \in SUBSET Sources, pops \in SUBSET Replicas,
     fifoReady \in [Replicas -> BOOLEAN] : Clock(inc, pops, fifoReady)

Spec == Init /\ [][Next]_vars

(* A clock edge at which no event arrives.                                 *)
QuietStep ==
  \E pops \in SUBSET Replicas, fifoReady \in [Replicas -> BOOLEAN] :
    Clock({}, pops, fifoReady)

PopStep(r) ==
  \E inc \in SUBSET Sources, pops \in SUBSET Replicas,
     fifoReady \in [Replicas -> BOOLEAN] :
       r \in pops /\ Clock(inc, pops, fifoReady)

(* The clock never stops: registers that can change without new events do  *)
(* change.  Every multiplexer keeps taking tokens.                         *)
Fairness ==
  /\ []<>~(ENABLED <<QuietStep>>_vars) \/ []<><<Next>>_vars
  /\ \A r \in Replicas : SF_vars(PopStep(r))

FairSpec == Spec /\ Fairness

-----------------------------------------------------------------------------
(* Every register holds a value of its width.                              *)
TypeOK ==
  /\ count \in [Sources -> 0 .. (COUNT_MOD - 1)]
  /\ grant \in Sources \cup {NoGrant}
  /\ mask \in SUBSET Sources
  /\ rep \in [Replicas -> Seq(Sources)]
  /\ inflight \in [Sources -> Int]
  /\ served \in Sources \cup {NoGrant}

(* The 8-bit counter is exact: it equals the number of events of the       *)
(* source that were counted and not selected yet (ctrl_selector.sv:19,     *)
(* "at most 256 inflights").                                               *)
CountExact == \A s \in Sources : count[s] = inflight[s]

(* A granted source still has an event in flight: although the grant is    *)
(* registered one cycle after the counter was read, the counter can never  *)
(* be decremented below zero (request is masked with ~grant).              *)
GrantBacked == grant # NoGrant => inflight[grant] > 0

(* Two multiplexers see the same token stream: counted from the newest     *)
(* token, what they have yet to take is the same.                          *)
ReplicasAgree ==
  \A r1, r2 \in Replicas : \A k \in 0 .. (Len(rep[r1]) - 1) :
    k < Len(rep[r2]) =>
      rep[r1][Len(rep[r1]) - k] = rep[r2][Len(rep[r2]) - k]

(* A replication FIFO never holds more than its memory and output          *)
(* registers, whatever the other replicas do.                              *)
NoOverflow == \A r \in Replicas : Len(rep[r]) <= FIFO_SIZE + PIPELINE_OUTPUT

(* As long as some source has an event waiting, tokens keep being stored.  *)
SomeSourceServed == (\E s \in Sources : count[s] > 0) ~> (served # NoGrant)
=============================================================================
