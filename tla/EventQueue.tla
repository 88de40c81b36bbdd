----------------------------- MODULE EventQueue -----------------------------
(***************************************************************************)
(* What a controller promises to the handlers it connects: the events of   *)
(* all sources are put into one order that respects the order of every     *)
(* source, and the k-th event of that order reaches destination            *)
(* (k - 1) % D_COUNT on every argument.  Each argument makes progress on   *)
(* its own.                                                                *)
(***************************************************************************)
EXTENDS Integers, Sequences

CONSTANTS Connections, A_COUNT

VARIABLES
  conn,     \* the connection, fixed
  offered,  \* per source: events announced so far
  order,    \* the common order of the events selected so far
  recv      \* per argument and destination: the events received

vars == <<conn, offered, order, recv>>

D_COUNT == conn.out_count

Sources == 0 .. (conn.in_count - 1)
Dests   == 0 .. (D_COUNT - 1)
Args    == 1 .. A_COUNT

SelectedOf(s) == Len(SelectSeq(order, LAMBDA e : e[1] = s))

(* Event k is the next one of destination d on argument a: destinations    *)
(* are served in turn, d receives the events d + 1, d + 1 + D_COUNT, ...   *)
ReceivedNext(a, d, k) == k = Len(recv[a][d]) * D_COUNT + d + 1

Init ==
  /\ conn \in Connections
  /\ offered = [s \in Sources |-> 0]
  /\ order = <<>>
  /\ recv = [a \in Args |-> [d \in Dests |-> <<>>]]

(* With one source there is nothing to select: its order is the order.     *)
Offer(s) ==
  /\ offered' = [offered EXCEPT ![s] = @ + 1]
  /\ order' = IF Sources = {s} THEN Append(order, <<s, offered[s] + 1>>) ELSE order
  /\ UNCHANGED <<conn, recv>>

Select(s) ==
  /\ SelectedOf(s) < offered[s]
  /\ order' = Append(order, <<s, SelectedOf(s) + 1>>)
  /\ UNCHANGED <<conn, offered, recv>>

(* The k-th event reaches its destination on argument a.                   *)
Receive(a, d, k) ==
  /\ ReceivedNext(a, d, k)
  /\ recv' = [recv EXCEPT ![a][d] = Append(@, order[k])]
  /\ UNCHANGED <<conn, offered, order>>

Next ==
  \/ \E s \in Sources : Offer(s) \/ Select(s)
  \/ \E a \in Args, d \in Dests, k \in 1 .. Len(order) : Receive(a, d, k)

Spec == Init /\ [][Next]_vars
=============================================================================
