----------------------------- MODULE CtrlFabric -----------------------------
(***************************************************************************)
(* The controller that EmitFPGAController.cpp builds for one connection    *)
(* between the instances of a producing and of a consuming handler.  Every *)
(* event is sent as one stream per argument (event wire).  Per argument    *)
(* there is a multiplexer (ctrl_mux.sv, when there is more than one        *)
(* source) and a demultiplexer (ctrl_demux.sv, when there is more than one *)
(* destination), together ctrl_all_to_all.sv.  All multiplexers follow the *)
(* source tokens of one selector (ctrl_selector.sv), all demultiplexers    *)
(* the destination tokens of one dispatcher (ctrl_dispatcher.sv).          *)
(*                                                                         *)
(* A step is one handshake.  The selector is CtrlSelector without its      *)
(* clock: any counted source may be granted, the token reaches all         *)
(* replicas at once.  FIFO pipelines and skid buffers are part of the      *)
(* capacity of the FIFO in front of them.                                  *)
(***************************************************************************)
EXTENDS Integers, Sequences, FiniteSetsExt

CONSTANTS
  Connections, \* the connections a controller may have been generated for
  A_COUNT,    \* event wires (arguments)
  IN_SIZE,    \* beats a source's FIFO of one multiplexer holds
  MID_SIZE,   \* beats a demultiplexer's input FIFO holds
  OUT_SIZE,   \* beats a destination's FIFO holds
  TOKEN_SIZE, \* tokens a replication FIFO holds
  COUNT_MOD   \* 2^width of the selector's counters

ASSUME FabricAssumption ==
  /\ {A_COUNT, COUNT_MOD} \subseteq Nat \ {0}
  /\ {IN_SIZE, MID_SIZE, OUT_SIZE, TOKEN_SIZE} \subseteq Nat \ {0}
  /\ \A c \in Connections :
       /\ {c.in_count, c.out_count, c.events} \subseteq Nat \ {0}
       /\ c.beats \in [1 .. A_COUNT -> Nat \ {0}]

VARIABLES
  conn,   \* the connection: in_count, out_count, and as bounds the events a
          \* source sends and per argument the longest packet in beats
  sent,   \* per argument and source: packets sent in full
  open,   \* per argument and source: beats sent of the packet being sent
  cin,    \* per argument and source: the multiplexer's input FIFO
  count,  \* the selector's counters
  sel,    \* per argument: source tokens not used up
  cur,    \* per argument: axis_mux's frame_reg and select_reg
  mid,    \* per argument: the demultiplexer's input FIFO
  rr,     \* the dispatcher's rr_counter
  disp,   \* per argument: destination tokens not used up
  first,  \* per argument: if_first_segment
  dsel,   \* per argument: axis_demux's select_reg
  out,    \* per argument and destination: all beats that reached its FIFO
  taken,  \* per argument and destination: how many of them it has taken
  issued  \* history: the events the selector has issued tokens for

vars == <<conn, sent, open, cin, count, sel, cur, mid, rr, disp, first, dsel, out,
          taken, issued>>

srcVars  == <<conn, sent, open>>
muxVars  == <<cin, count, sel, cur, issued>>
demVars  == <<rr, disp, first, dsel>>
outVars  == <<out, taken>>

S_COUNT   == conn.in_count
D_COUNT   == conn.out_count
MaxEvents == conn.events
MaxBeats  == conn.beats

Sources == 0 .. (S_COUNT - 1)
Dests   == 0 .. (D_COUNT - 1)
Args    == 1 .. A_COUNT
NoSource == -1

(* emitControllerMux: ctrl_demux alone for one source, ctrl_mux alone for  *)
(* one destination, ctrl_all_to_all otherwise.                             *)
HasMux   == S_COUNT > 1
HasDemux == D_COUNT > 1

-----------------------------------------------------------------------------
HasRoom(a, d) == Len(out[a][d]) - taken[a][d] < OUT_SIZE

(* inc of emitControllerMux: tready && tvalid of the first event wire, so  *)
(* every beat of it counts.                                                *)
Inc(a, s, last) == IF a = 1 THEN 1 ELSE 0

(* Source s sends the next beat of its event on argument a.                *)
Send(s, a, last) ==
  LET beat == [src |-> s, ev |-> sent[a][s] + 1, last |-> last] IN
  /\ sent[a][s] < MaxEvents
  /\ ~last => open[a][s] + 1 < MaxBeats[a]
  /\ IF HasMux
     THEN /\ Len(cin[a][s]) < IN_SIZE
          /\ cin' = [cin EXCEPT ![a][s] = Append(@, beat)]
          /\ count' = [count EXCEPT ![s] = (@ + Inc(a, s, last)) % COUNT_MOD]
          /\ UNCHANGED mid
     ELSE /\ Len(mid[a]) < MID_SIZE
          /\ mid' = [mid EXCEPT ![a] = Append(@, beat)]
          /\ UNCHANGED <<cin, count>>
  /\ sent' = [sent EXCEPT ![a][s] = IF last THEN @ + 1 ELSE @]
  /\ open' = [open EXCEPT ![a][s] = IF last THEN 0 ELSE @ + 1]
  /\ UNCHANGED <<conn, sel, cur, issued, demVars, outVars>>

IssuedOf(s) == Len(SelectSeq(issued, LAMBDA e : e[1] = s))

(* The selector may grant s.                                               *)
CountedAboveOne(s) == count[s] > 1
Counted(s) == count[s] > 0

(* The selector stores a token for s in every replication FIFO.            *)
Issue(s) ==
  /\ HasMux
  /\ Counted(s)
  /\ \A a \in Args : Len(sel[a]) < TOKEN_SIZE
  /\ count' = [count EXCEPT ![s] = (@ - 1) % COUNT_MOD]
  /\ sel' = [a \in Args |-> Append(sel[a], s)]
  /\ issued' = Append(issued, <<s, IssuedOf(s) + 1>>)
  /\ UNCHANGED <<srcVars, cin, cur, mid, demVars, outVars>>

(* axis_mux latches the source at the head of its tokens once that source  *)
(* has a beat.                                                             *)
MuxStart(a) ==
  /\ cur[a] = NoSource
  /\ sel[a] # <<>>
  /\ cin[a][Head(sel[a])] # <<>>
  /\ cur' = [cur EXCEPT ![a] = Head(sel[a])]
  /\ UNCHANGED <<srcVars, cin, count, sel, issued, mid, demVars, outVars>>

(* s_selector_tready: the token is used up when a last beat has entered.   *)
TokenUsedOnBeat(a, beat) == sel[a] # <<>>
TokenUsed(a, beat) == beat.last

(* A beat passes multiplexer a, into the demultiplexer or, without one,    *)
(* to the only destination.                                                *)
MuxBeat(a) ==
  /\ cur[a] # NoSource
  /\ cin[a][cur[a]] # <<>>
  /\ LET beat == Head(cin[a][cur[a]]) IN
     /\ IF HasDemux
        THEN /\ Len(mid[a]) < MID_SIZE
             /\ mid' = [mid EXCEPT ![a] = Append(@, beat)]
             /\ UNCHANGED out
        ELSE /\ HasRoom(a, 0)
             /\ out' = [out EXCEPT ![a][0] = Append(@, beat)]
             /\ UNCHANGED mid
     /\ cin' = [cin EXCEPT ![a][cur[a]] = Tail(@)]
     /\ sel' = [sel EXCEPT ![a] = IF TokenUsed(a, beat) THEN Tail(@) ELSE @]
     /\ cur' = [cur EXCEPT ![a] = IF beat.last THEN NoSource ELSE @]
  /\ UNCHANGED <<srcVars, count, issued, demVars, taken>>

(* The dispatcher stores the next destination in every replication FIFO.   *)
NextDestStuck == rr
NextDest == IF rr = D_COUNT - 1 THEN 0 ELSE rr + 1

Dispatch ==
  /\ HasDemux
  /\ \A a \in Args : Len(disp[a]) < TOKEN_SIZE
  /\ disp' = [a \in Args |-> Append(disp[a], rr)]
  /\ rr' = NextDest
  /\ UNCHANGED <<srcVars, muxVars, mid, first, dsel, outVars>>

(* enable of ctrl_demux: the first beat of a packet waits for a token.     *)
Enable(a) == first[a] => disp[a] # <<>>

(* if_first_segment after a beat has passed.                               *)
NextFirstAlways(a, beat) == TRUE
NextFirst(a, beat) == beat.last

(* A beat passes demultiplexer a: the first one uses up a token, and the   *)
(* others follow it.                                                       *)
DemuxBeat(a) ==
  /\ HasDemux
  /\ mid[a] # <<>>
  /\ Enable(a)
  /\ LET beat == Head(mid[a])
         d    == IF first[a] /\ disp[a] # <<>> THEN Head(disp[a]) ELSE dsel[a]
     IN
     /\ HasRoom(a, d)
     /\ out' = [out EXCEPT ![a][d] = Append(@, beat)]
     /\ mid' = [mid EXCEPT ![a] = Tail(@)]
     /\ disp' = [disp EXCEPT ![a] = IF first[a] /\ @ # <<>> THEN Tail(@) ELSE @]
     /\ first' = [first EXCEPT ![a] = NextFirst(a, beat)]
     /\ dsel' = [dsel EXCEPT ![a] = d]
  /\ UNCHANGED <<srcVars, muxVars, rr, taken>>

(* Destination d takes a beat of argument a.                               *)
Take(a, d) ==
  /\ taken[a][d] < Len(out[a][d])
  /\ taken' = [taken EXCEPT ![a][d] = @ + 1]
  /\ UNCHANGED <<srcVars, muxVars, mid, demVars, out>>

-----------------------------------------------------------------------------
Init ==
  /\ conn \in Connections
  /\ sent   = [a \in Args |-> [s \in Sources |-> 0]]
  /\ open   = [a \in Args |-> [s \in Sources |-> 0]]
  /\ cin    = [a \in Args |-> [s \in Sources |-> <<>>]]
  /\ count  = [s \in Sources |-> 0]
  /\ sel    = [a \in Args |-> <<>>]
  /\ cur    = [a \in Args |-> NoSource]
  /\ mid    = [a \in Args |-> <<>>]
  /\ rr     = 0
  /\ disp   = [a \in Args |-> <<>>]
  /\ first  = [a \in Args |-> TRUE]
  /\ dsel   = [a \in Args |-> 0]
  /\ out    = [a \in Args |-> [d \in Dests |-> <<>>]]
  /\ taken  = [a \in Args |-> [d \in Dests |-> 0]]
  /\ issued = <<>>

Next ==
  \/ \E s \in Sources, a \in Args, last \in BOOLEAN : Send(s, a, last)
  \/ \E s \in Sources : Issue(s)
  \/ \E a \in Args : MuxStart(a) \/ MuxBeat(a) \/ DemuxBeat(a)
  \/ Dispatch
  \/ \E a \in Args, d \in Dests : Take(a, d)

Spec == Init /\ [][Next]_vars

(* An event is started once one of its beats is sent.                      *)
Started(a, s) == sent[a][s] + (IF open[a][s] > 0 THEN 1 ELSE 0)

(* A source that started an event sends the rest of it on every argument.  *)
SendRest(s, a) ==
  /\ \E b \in Args : sent[a][s] < Started(b, s)
  /\ \E last \in BOOLEAN : Send(s, a, last)

(* The instances of any connection.                                        *)
AnySource == UNION {0 .. (c.in_count - 1) : c \in Connections}
AnyDest   == UNION {0 .. (c.out_count - 1) : c \in Connections}

(* Every circuit that can do a handshake does it in the end.               *)
Fairness ==
  /\ \A s \in AnySource, a \in Args : WF_vars(s \in Sources /\ SendRest(s, a))
  /\ WF_vars(\E s \in Sources : Issue(s))
  /\ \A a \in Args :
       WF_vars(MuxStart(a)) /\ WF_vars(MuxBeat(a)) /\ WF_vars(DemuxBeat(a))
  /\ WF_vars(Dispatch)
  /\ \A a \in Args, d \in AnyDest : WF_vars(d \in Dests /\ Take(a, d))

FairSpec == Spec /\ Fairness

-----------------------------------------------------------------------------

(* The events whose packets reached destination d on argument a in full.   *)
Packets(a, d) ==
  LET lasts == SelectSeq(out[a][d], LAMBDA b : b.last)
  IN  [i \in 1 .. Len(lasts) |-> <<lasts[i].src, lasts[i].ev>>]

(* The i-th packet a destination receives on one argument and its i-th     *)
(* packet on another belong to the same event.                             *)
ArgsAligned ==
  \A d \in Dests : \A a, b \in Args :
    LET p == Packets(a, d)
        q == Packets(b, d)
    IN  \A i \in 1 .. Len(p) : i <= Len(q) => p[i] = q[i]

(* Packets are not torn: after a beat that is not a last one, the next     *)
(* beat of the destination's stream belongs to the same event.             *)
FramesIntact ==
  \A a \in Args, d \in Dests : \A i \in 1 .. (Len(out[a][d]) - 1) :
    ~out[a][d][i].last =>
      /\ out[a][d][i + 1].src = out[a][d][i].src
      /\ out[a][d][i + 1].ev  = out[a][d][i].ev

(* The packets of the argument are spread evenly: two destinations never   *)
(* differ by more than one packet.                                         *)
Balanced ==
  \A a \in Args : \A d, e \in Dests :
    Len(Packets(a, d)) <= Len(Packets(a, e)) + 1

(* One destination has received the n-th event of source s in full.        *)
Delivered(s, n) ==
  \E d \in Dests : \A a \in Args :
    \E i \in 1 .. Len(Packets(a, d)) : Packets(a, d)[i] = <<s, n>>

(* A selector counts an event as many times as its first argument has      *)
(* beats.  The tokens are exact when that is one.                          *)
TokensExact == HasMux => MaxBeats[1] = 1

(* Every event sent on all arguments reaches one destination on all of     *)
(* them, whatever the order in which arguments and sources make progress,  *)
(* when no source gets more tokens than it sends events: a token too many  *)
(* makes the multiplexers wait for that source's next event.               *)
EventsDelivered ==
  \A s \in AnySource : \A n \in 1 .. Max({c.events : c \in Connections}) :
    (TokensExact /\ s \in Sources /\ \A a \in Args : sent[a][s] >= n)
      ~> Delivered(s, n)

(* The abstract queue: what the selector counted is offered and the tokens *)
(* issued are its order (without a selector the only source's events are), *)
(* the packets completed at a destination are the events received.         *)
Begun == Max({sent[a][0] : a \in Args})
Announced(s) == IssuedOf(s) + count[s]

EQ == INSTANCE EventQueue WITH
        offered <- [s \in Sources |-> IF HasMux THEN Announced(s) ELSE Begun],
        order   <- IF HasMux THEN issued ELSE [i \in 1 .. Begun |-> <<0, i>>],
        recv    <- [a \in Args |-> [d \in Dests |-> Packets(a, d)]]

(* The controller implements the abstract event queue: one order of all    *)
(* events, the k-th event of it to destination (k - 1) % D_COUNT on every  *)
(* argument.  An event announced more than once takes the places of later  *)
(* events of its source, which follow when that source sends them.         *)
ImplementsEventQueue == EQ!Spec
=============================================================================
