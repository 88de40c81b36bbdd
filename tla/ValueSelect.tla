----------------------------- MODULE ValueSelect -----------------------------
(***************************************************************************)
(* select.sv and ifelse_demux.sv: a condition, the value for true and the  *)
(* value for false of every execution of a handler arrive on streams of    *)
(* their own, each through a FIFO, and one result per execution leaves.    *)
(* Values are single beats (emitSelect; emitIfElse for integers and        *)
(* structs).                                                               *)
(*                                                                         *)
(* A value is the number of the execution it belongs to.  What leaves a    *)
(* FIFO at one clock edge leaves together.                                 *)
(***************************************************************************)
EXTENDS Integers, Sequences

CONSTANTS
  FIFO_SIZE, \* values a FIFO holds
  MaxEvents  \* executions of the handler

Ports == {"cond", "true_val", "false_val"}

VARIABLES
  conds,  \* the conditions that have arrived
  fed,    \* per port: values that have entered its FIFO
  popped, \* per port: values that have left its FIFO
  outs    \* the results: the executions that condition and values are of

vars == <<conds, fed, popped, outs>>

-----------------------------------------------------------------------------
(* fifo_*_axis_tvalid                                                      *)
Valid(p) == popped[p] < fed[p]

(* The m_axis_tready of the FIFO of a port while m_val_axis_tready is set. *)
(* The FIFO of the true value is wired to fifo_false_val_axis_tready.      *)
Ready(p) ==
  CASE p = "cond"      -> Valid("true_val") /\ Valid("false_val")
    [] p = "true_val"  -> Valid("cond") /\ Valid("true_val")
    [] p = "false_val" -> Valid("cond") /\ Valid("true_val")

Feed(p, v) ==
  /\ fed[p] < MaxEvents
  /\ fed[p] - popped[p] < FIFO_SIZE
  /\ fed' = [fed EXCEPT ![p] = @ + 1]
  /\ conds' = IF p = "cond" THEN Append(conds, v) ELSE conds
  /\ UNCHANGED <<popped, outs>>

(* A clock edge with m_val_axis_tready set.                                *)
Shift ==
  /\ \E p \in Ports : Valid(p) /\ Ready(p)
  /\ popped' = [p \in Ports |->
                  popped[p] + (IF Valid(p) /\ Ready(p) THEN 1 ELSE 0)]
  /\ outs' = IF \A p \in Ports : Valid(p)
             THEN Append(outs, [p \in Ports |-> popped[p] + 1])
             ELSE outs
  /\ UNCHANGED <<conds, fed>>

Init ==
  /\ conds = <<>>
  /\ fed = [p \in Ports |-> 0]
  /\ popped = [p \in Ports |-> 0]
  /\ outs = <<>>

Next ==
  \/ \E p \in Ports, v \in BOOLEAN : Feed(p, v)
  \/ Shift

Spec == Init /\ [][Next]_vars

-----------------------------------------------------------------------------
(* The execution the i-th result's value is of.                            *)
Chosen(i) ==
  IF conds[outs[i].cond] THEN outs[i].true_val ELSE outs[i].false_val

(* The i-th result is the i-th execution's value: a true value leaves its  *)
(* FIFO together with its condition and false value only (select.sv:47).   *)
SelectMatched == \A i \in 1 .. Len(outs) : Chosen(i) = i
=============================================================================
