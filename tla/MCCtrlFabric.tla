---------------------------- MODULE MCCtrlFabric ----------------------------
(* Connections for TLC.                                                    *)
EXTENDS CtrlFabric

Connection(ins, outs, events, beats) ==
  [in_count |-> ins, out_count |-> outs, events |-> events, beats |-> beats]

(* Each of the three controllers, with a first argument of one beat and a  *)
(* second one of up to two; all-to-all with more events of one beat; and   *)
(* the two with a selector with a first argument of up to two beats.       *)
EveryKind ==
  {Connection(2, 2, 1, <<1, 2>>),
   Connection(2, 2, 2, <<1, 1>>),
   Connection(2, 1, 2, <<1, 2>>),
   Connection(2, 1, 2, <<2, 1>>),
   Connection(2, 2, 1, <<2, 1>>),
   Connection(1, 2, 2, <<2, 2>>)}
=============================================================================
