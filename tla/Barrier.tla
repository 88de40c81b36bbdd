------------------------------- MODULE Barrier -------------------------------
(***************************************************************************)
(* The controller of a connection with one source and one destination      *)
(* (emitControllerMux, in_count = out_count = 1): a barrier_queue per      *)
(* event wire, opened by the bits of one ctrl_barrier that counts the      *)
(* beats in and out of all of them.                                        *)
(*                                                                         *)
(* A step is one clock edge: simultaneous beats are what the counters get  *)
(* wrong or right.                                                         *)
(***************************************************************************)
EXTENDS Integers, FiniteSetsExt

CONSTANTS
  PORT_COUNT, \* event wires
  FIFO_SIZE,  \* beats a barrier_queue holds
  COUNT_MOD,  \* 2^width of the counters (65536)
  MaxBeats    \* beats that arrive on a wire

Ports == 0 .. (PORT_COUNT - 1)

VARIABLES
  incount,  \* incount_array
  outcount, \* outcount_array
  arrived,  \* per wire: beats that entered its queue
  left      \* per wire: beats that left its queue

vars == <<incount, outcount, arrived, left>>

-----------------------------------------------------------------------------
(* min_incount.  The loop also reads element PORT_COUNT of the array: it   *)
(* is unknown, and so is the comparison with it, whose branch is not       *)
(* taken.                                                                  *)
MinIncount == Min({incount[p] : p \in Ports})

(* ctrl_barrier[p]                                                         *)
Open(p) == outcount[p] < MinIncount

(* A beat enters (inc) or leaves (dec) queue p at this edge.  A beat that  *)
(* both enters and leaves is counted in only.                              *)
NextIn(p, inc) == IF inc THEN (incount[p] + 1) % COUNT_MOD ELSE incount[p]
NextOut(p, inc, dec) ==
  IF ~inc /\ dec THEN (outcount[p] - 1) % COUNT_MOD ELSE outcount[p]

(* A clock edge at which beats enter the queues ins and leave the queues   *)
(* outs.                                                                   *)
Clock(ins, outs) ==
  /\ \A p \in ins : arrived[p] < MaxBeats /\ arrived[p] - left[p] < FIFO_SIZE
  /\ \A p \in outs : left[p] < arrived[p] /\ Open(p)
  /\ incount' = [p \in Ports |-> NextIn(p, p \in ins)]
  /\ outcount' = [p \in Ports |-> NextOut(p, p \in ins, p \in outs)]
  /\ arrived' = [p \in Ports |-> arrived[p] + (IF p \in ins THEN 1 ELSE 0)]
  /\ left' = [p \in Ports |-> left[p] + (IF p \in outs THEN 1 ELSE 0)]

Init ==
  /\ incount = [p \in Ports |-> 0]
  /\ outcount = [p \in Ports |-> 0]
  /\ arrived = [p \in Ports |-> 0]
  /\ left = [p \in Ports |-> 0]

Next == \E ins, outs \in SUBSET Ports : Clock(ins, outs)

Spec == Init /\ [][Next]_vars

(* The destination keeps taking beats from every queue that offers one.    *)
Leave(p) == \E ins, outs \in SUBSET Ports : p \in outs /\ Clock(ins, outs)

FairSpec == Spec /\ \A p \in Ports : WF_vars(Leave(p))

-----------------------------------------------------------------------------
(* Beats that have arrived on all wires leave on all wires: "in == out,    *)
(* direct connect" (EmitFPGAController.cpp:147).                           *)
DirectConnect ==
  \A n \in 1 .. MaxBeats :
    (\A p \in Ports : arrived[p] >= n) ~> (\A p \in Ports : left[p] >= n)
=============================================================================
