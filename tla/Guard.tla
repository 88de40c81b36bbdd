-------------------------------- MODULE Guard --------------------------------
(***************************************************************************)
(* A guarded return of a handler, as emitReturn builds it: one guard_pred  *)
(* joins the predicate streams of the guard and replicates the result, one *)
(* guard per event wire passes or drops the packets of the wire.           *)
(*                                                                         *)
(* A step is one handshake.  The history variables preds, took and passed  *)
(* record the streams at the interfaces.                                   *)
(***************************************************************************)
EXTENDS Integers, Sequences

CONSTANTS
  Returns,   \* the guarded returns emitReturn may build
  COND_SIZE, \* predicates an input FIFO of guard_pred holds
  REP_SIZE,  \* conditions a replication FIFO holds
  MaxEvents, \* executions of the handler
  MaxBeats   \* the longest packet in beats

ASSUME GuardAssumption ==
  /\ {COND_SIZE, REP_SIZE, MaxBeats} \subseteq Nat \ {0}
  /\ MaxEvents \in Nat
  /\ \A r \in Returns :
       /\ {r.cond_width, r.out_num} \subseteq Nat \ {0}
       /\ r.ground_truth \in [0 .. (r.cond_width - 1) -> BOOLEAN]

VARIABLES
  ret,      \* the return: its predicates, the values they must have, its wires
  preds,    \* per predicate: the values that entered guard_pred
  joined,   \* predicates of every input FIFO that guard_pred has joined
  rep,      \* per guard: the conditions in its replication FIFO
  state,    \* per guard: FILTER_START or FILTERING
  cond_reg, \* per guard: the condition of the packet being filtered
  took,     \* per guard: the beats it has taken from its wire
  passed    \* per guard: the beats it has passed on

vars == <<ret, preds, joined, rep, state, cond_reg, took, passed>>

COND_WIDTH         == ret.cond_width
GROUND_TRUTH       == ret.ground_truth
REPLICATED_OUT_NUM == ret.out_num

Conds  == 0 .. (COND_WIDTH - 1)
Guards == 0 .. (REPLICATED_OUT_NUM - 1)

-----------------------------------------------------------------------------
(* The value guard_pred computes for the predicates at the heads of its    *)
(* FIFOs.                                                                  *)
HoldsAny(k) == \E c \in Conds : preds[c][k] = GROUND_TRUTH[c]
Holds(k) == \A c \in Conds : preds[c][k] = GROUND_TRUTH[c]

(* Bit g of m_guard_cond_tdata, which has one bit per guard.  The output   *)
(* of axis_replication has COND_WIDTH bits per replica, the lowest of them *)
(* the condition, and the bits beyond the port's width are cut off.        *)
(* Without a valid head a FIFO drives any value.                           *)
CondBit(g) ==
  LET r == g \div COND_WIDTH
  IN  CASE g % COND_WIDTH # 0 -> {FALSE}
        [] rep[r] # <<>>      -> {Head(rep[r])}
        [] OTHER              -> BOOLEAN

(* The handler evaluates predicate c once more.                            *)
PutPred(c, v) ==
  /\ Len(preds[c]) < MaxEvents
  /\ Len(preds[c]) - joined < COND_SIZE
  /\ preds' = [preds EXCEPT ![c] = Append(@, v)]
  /\ UNCHANGED <<ret, joined, rep, state, cond_reg, took, passed>>

(* &guard_fifo_valid_array: a predicate is at the head of every FIFO.      *)
AllValid == \A c \in Conds : joined < Len(preds[c])

(* guard_pred pops one predicate of every FIFO and stores the result in    *)
(* all replication FIFOs.                                                  *)
Join ==
  /\ AllValid
  /\ \A g \in Guards : Len(rep[g]) < REP_SIZE
  /\ joined' = joined + 1
  /\ rep' = [g \in Guards |-> Append(rep[g], Holds(joined + 1))]
  /\ UNCHANGED <<ret, preds, state, cond_reg, took, passed>>

(* The packet whose next beat guard g takes, and the beats taken of it.    *)
Packet(g) == 1 + Len(SelectSeq(took[g], LAMBDA b : b.last))
BeatsOf(g, n) == Len(SelectSeq(took[g], LAMBDA b : b.ev = n))

(* cond_reg after a beat.                                                  *)
NextCondLate(g, c, last) == IF last THEN c ELSE cond_reg[g]
NextCond(g, c, last) ==
  IF state[g] = "FILTER_START" /\ ~last THEN c ELSE cond_reg[g]

(* The beat is followed by others of the same packet.                      *)
NextStateStuck(g, last) == "FILTER_START"
NextState(g, last) == IF last THEN "FILTER_START" ELSE "FILTERING"

(* m_guard_axis_tready is required of a beat that is dropped as well; the  *)
(* receiver takes whatever is passed.                                      *)
Filter(g, last) ==
  LET beat == [ev |-> Packet(g), last |-> last] IN
  /\ Packet(g) <= MaxEvents
  /\ ~last => BeatsOf(g, Packet(g)) + 1 < MaxBeats
  /\ state[g] = "FILTER_START" => rep[g] # <<>>
  /\ \E c \in (IF state[g] = "FILTER_START" THEN CondBit(g) ELSE {cond_reg[g]}) :
       /\ cond_reg' = [cond_reg EXCEPT ![g] = NextCond(g, c, last)]
       /\ passed' = [passed EXCEPT ![g] = IF c THEN Append(@, beat) ELSE @]
  /\ took' = [took EXCEPT ![g] = Append(@, beat)]
  /\ state' = [state EXCEPT ![g] = NextState(g, last)]
  /\ rep' = [rep EXCEPT ![g] = IF state[g] = "FILTER_START" THEN Tail(@) ELSE @]
  /\ UNCHANGED <<ret, preds, joined>>

-----------------------------------------------------------------------------
(* state and cond_reg are set by the reset and by the first packet.        *)
Init ==
  /\ ret \in Returns
  /\ preds = [c \in Conds |-> <<>>]
  /\ joined = 0
  /\ rep = [g \in Guards |-> <<>>]
  /\ state = [g \in Guards |-> "FILTER_START"]
  /\ cond_reg \in [Guards -> BOOLEAN]
  /\ took = [g \in Guards |-> <<>>]
  /\ passed = [g \in Guards |-> <<>>]

Next ==
  \/ \E c \in Conds, v \in BOOLEAN : PutPred(c, v)
  \/ Join
  \/ \E g \in Guards, last \in BOOLEAN : Filter(g, last)

Spec == Init /\ [][Next]_vars

(* The predicates and wires of any return.                                 *)
AnyCond  == UNION {0 .. (r.cond_width - 1) : r \in Returns}
AnyGuard == UNION {0 .. (r.out_num - 1) : r \in Returns}

(* The handler keeps evaluating its predicates and sending its packets.    *)
Fairness ==
  /\ WF_vars(Join)
  /\ \A c \in AnyCond :
       WF_vars(c \in Conds /\ \E v \in BOOLEAN : PutPred(c, v))
  /\ \A g \in AnyGuard :
       WF_vars(g \in Guards /\ \E last \in BOOLEAN : Filter(g, last))

FairSpec == Spec /\ Fairness

-----------------------------------------------------------------------------

(* The predicates of execution k have the values the guard asks for.       *)
Required(k) == [c \in Conds |-> preds[c][k]] = GROUND_TRUTH

(* A guard passes all beats of the packets of executions in which the      *)
(* predicates had the required values, in order, and nothing else: every   *)
(* wire of a guarded event is sent, or none.                               *)
Filtered ==
  \A g \in Guards :
    /\ \A i \in 1 .. Len(took[g]) : took[g][i].ev <= joined
    /\ passed[g] = SelectSeq(took[g], LAMBDA b : Required(b.ev))

(* Every execution is decided at every wire: predicates and packets that   *)
(* arrive in any order are all consumed.                                   *)
AllDecided ==
  \A n \in 1 .. MaxEvents :
    (\A c \in Conds : Len(preds[c]) >= n) ~> (\A g \in Guards : Packet(g) > n)
=============================================================================
