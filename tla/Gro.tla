--------------------------------- MODULE Gro ---------------------------------
(***************************************************************************)
(* Global reorder (GRO): microengine threads finish packets in any order   *)
(* and hand them to gro_cli_send with the sequence number the packet got   *)
(* on arrival; the GRO.OUT microengine sends the packets on in sequence.   *)
(*                                                                         *)
(* A reorder context has a queue of packet metadata and a row of ticket    *)
(* tapes, one per GRO_TICKET_PER_TAPE entries of the queue.  A client      *)
(* writes its metadata, releases its ticket on the tape, and, when that    *)
(* releases tickets, tells the dispatcher of GRO.OUT how many through the  *)
(* release ring.  The client that completes a tape goes on to ticket 0 of  *)
(* the next one.  The dispatcher reads the metadata in order and makes a   *)
(* tape usable for the next round when it has passed the end of a block of *)
(* the queue.                                                              *)
(*                                                                         *)
(* A step ends where the code waits for a memory command.  Reads of        *)
(* metadata and resets of tapes are commands in flight.                    *)
(***************************************************************************)
EXTENDS Integers, Sequences, FiniteSetsExt, Functions

CONSTANTS
  THREADS,             \* threads that call gro_cli_send
  GRO_TICKET_PER_TAPE, \* 64
  NTAPES,              \* tapes of the context: NUMENT / 64
  SKIDS,               \* the SKIDLENs (in tapes) to configure
  ISEQS,               \* the ISEQs to configure
  RING,                \* messages the release ring holds
  XBUFS,               \* transfer buffers of the workers of GRO.OUT
  BUFFERS,             \* packets that can be under way: packet buffers
  MaxPackets           \* packets that arrive

T == GRO_TICKET_PER_TAPE
NUMENT == T * NTAPES
GRO_NUM_EPOCHS == 4
GRO_EPOCH_TICKET_SEQ_mul == 4 * T
GRO_SEQSKID_VALUE == T + 1
GRO_TICKET_ERROR == -1

ASSUME GroAssumption ==
  /\ {T, NTAPES, THREADS, RING, XBUFS, BUFFERS} \subseteq Nat \ {0}
  /\ SKIDS \subseteq 0 .. (NTAPES - 1)
  /\ ISEQS \subseteq 0 .. (NUMENT - 1)

Entries == 0 .. (NUMENT - 1)
Tapes == 0 .. (NTAPES - 1)
Epochs == 0 .. (GRO_NUM_EPOCHS - 1)
None == -1

VARIABLES
  skid,  \* SKIDLEN of the context, in tapes
  iseq,  \* ISEQ of the context
  next,  \* the sequence number of the next packet that arrives
  cli,   \* per packet in a thread's hands: where gro_cli_send is, its locals
  queue, \* per entry: the packet whose metadata was written last
  tape,  \* per tape: its sequence number and its bitmap
  ring,  \* the release ring: numbers of packets released
  cntrs, \* gro_cli_cntrs: packets enqueued and packets released
  disp,  \* the dispatcher's context (LM_CTX_*)
  rst,   \* resets of tapes in flight
  xbuf,  \* the transfer buffers in use, in order: entries and what was read
  sent   \* the packets sent, in order

vars == <<skid, iseq, next, cli, queue, tape, ring, cntrs, disp, rst, xbuf, sent>>
config == <<skid, iseq>>
out == <<disp, rst, xbuf, sent>>

-----------------------------------------------------------------------------
(* Tickets                                                                 *)

Stamp(ticket, epoch) == ticket + epoch * GRO_EPOCH_TICKET_SEQ_mul
Fresh(epoch) == [seq |-> Stamp(0, epoch), bits |-> {}]
PrevEpoch(epoch) == (epoch - 1) % GRO_NUM_EPOCHS
SkidMarker(epoch) == Stamp(GRO_SEQSKID_VALUE, PrevEpoch(epoch))

(* The release_ticket command on a tape t: the ticket whose turn it is     *)
(* comes back with the number of tickets it releases, one that is early    *)
(* leaves a bit and comes back as 0, any other one is an error.            *)
Distance(t, ticket) == (ticket - t.seq) % Stamp(0, GRO_NUM_EPOCHS)
Run(t) == Max({n \in 0 .. T : \A i \in 0 .. (n - 1) : i \in t.bits})
Result(t, ticket) ==
  LET d == Distance(t, ticket) IN
  IF d = 0 THEN 1 + Run(t)
  ELSE IF d <= T /\ (d - 1) \notin t.bits THEN 0
  ELSE GRO_TICKET_ERROR
After(t, ticket) ==
  LET n == Result(t, ticket) IN
  CASE n = GRO_TICKET_ERROR -> t
    [] n = 0 -> [t EXCEPT !.bits = @ \cup {Distance(t, ticket) - 1}]
    [] OTHER -> [seq |-> (t.seq + n) % Stamp(0, GRO_NUM_EPOCHS),
                 bits |-> {i \in 0 .. (T - 1) : (i + n) \in t.bits}]

TapeEpoch(t) == t.seq \div GRO_EPOCH_TICKET_SEQ_mul
TapeSeq(t) == t.seq % GRO_EPOCH_TICKET_SEQ_mul

(* The skid taken for an error.                                            *)
TicketErrorInSkid(t, ticket, epoch) ==
  \/ TapeEpoch(t) # epoch
  \/ TapeSeq(t) > ticket
  \/ TapeSeq(t) < ticket /\ (ticket - TapeSeq(t) - 1) \in t.bits

(* ticket_error_is_fatal                                                   *)
TicketErrorIsFatal(t, ticket, epoch) ==
  /\ t.seq # SkidMarker(epoch)
  /\ \/ TapeEpoch(t) # epoch
     \/ TapeSeq(t) > ticket
     \/ /\ TapeSeq(t) < ticket
        /\ (ticket - TapeSeq(t) - 1) \in t.bits

(* cascaded_ticket_error_is_fatal                                          *)
CascadedTicketErrorIsFatal(t, epoch) ==
  t.seq \notin {SkidMarker(epoch), Stamp(0, epoch)}

-----------------------------------------------------------------------------
(* Clients                                                                 *)

TicketSeq(seq) == (seq % T) + 1

(* The thread that has packet s goes on to be in state k; it returns from  *)
(* gro_cli_send when k is Done.                                            *)
Done == [pc |-> "done"]
Becomes(s, k) == cli' = IF k = Done THEN Restrict(cli, DOMAIN cli \ {s})
                        ELSE [cli EXCEPT ![s] = k]

(* A packet arrives: a thread has a buffer for it and its number.          *)
Arrive ==
  /\ Cardinality(DOMAIN cli) < THREADS
  /\ next - iseq < MaxPackets
  /\ next - (iseq + Len(sent)) < BUFFERS
  /\ next' = next + 1
  /\ cli' = [s \in DOMAIN cli \cup {next} |->
       IF s # next THEN cli[s]
       ELSE [pc |-> "write", tape |-> (next % NUMENT) \div T,
             epoch |-> (next \div NUMENT) % GRO_NUM_EPOCHS, nrel |-> 0,
             more |-> FALSE]]
  /\ UNCHANGED <<config, queue, tape, ring, cntrs, out>>

(* gro_cli_send writes the metadata of the packet.                         *)
WriteMeta(s) ==
  /\ cli[s].pc = "write"
  /\ queue' = [queue EXCEPT ![s % NUMENT] = s]
  /\ cli' = [cli EXCEPT ![s].pc = "ticket"]
  /\ UNCHANGED <<config, next, tape, ring, cntrs, out>>

(* The end of the tape missed by one.                                      *)
TicketDoneLate(s, k, n) ==
  CASE n = GRO_TICKET_ERROR -> [k EXCEPT !.pc = "error"]
    [] n = 0 -> Done
    [] OTHER -> [k EXCEPT !.pc = "put", !.nrel = n,
                          !.more = n + TicketSeq(s) > T + 1]

(* What the client does with the n it gets for its own ticket.             *)
TicketDone(s, k, n) ==
  CASE n = GRO_TICKET_ERROR -> [k EXCEPT !.pc = "error"]
    [] n = 0 -> Done
    [] OTHER -> [k EXCEPT !.pc = "put", !.nrel = n,
                          !.more = n + TicketSeq(s) > T]

(* It releases the packet's ticket.                                        *)
ReleaseTicket(s) ==
  LET k == cli[s]
      ticket == Stamp(TicketSeq(s), k.epoch)
      n == Result(tape[k.tape], ticket)
  IN /\ k.pc = "ticket"
     /\ tape' = [tape EXCEPT ![k.tape] = After(@, ticket)]
     /\ Becomes(s, TicketDone(s, k, n))
     /\ cntrs' = IF n = GRO_TICKET_ERROR THEN cntrs
                 ELSE [cntrs EXCEPT !.enqueued = @ + 1]
     /\ UNCHANGED <<config, next, queue, ring, out>>

(* The ticket was refused: it looks at the tape, and tries again later.    *)
TicketError(s) ==
  LET k == cli[s] IN
  /\ k.pc = "error"
  /\ cli' = [cli EXCEPT ![s].pc =
       IF TicketErrorIsFatal(tape[k.tape], TicketSeq(s), k.epoch)
       THEN "abort" ELSE "ticket"]
  /\ UNCHANGED <<config, next, queue, tape, ring, cntrs, out>>

(* The client goes on to the next tape.                                    *)
NextTape(k) ==
  IF k.tape + 1 >= NTAPES
  THEN [k EXCEPT !.pc = "cascade", !.tape = 0,
                 !.epoch = (@ + 1) % GRO_NUM_EPOCHS]
  ELSE [k EXCEPT !.pc = "cascade", !.tape = @ + 1]

(* One try to put the message on the ring.                                 *)
ReleaseOnce(s) ==
  LET k == cli[s] IN
  /\ k.pc = "put"
  /\ ring' = IF Len(ring) < RING THEN Append(ring, k.nrel) ELSE ring
  /\ cntrs' = [cntrs EXCEPT !.released = @ + k.nrel]
  /\ Becomes(s, IF k.more THEN NextTape(k) ELSE Done)
  /\ UNCHANGED <<config, next, queue, tape, out>>

(* _gro_cli_release, tried until the ring has room.                        *)
Release(s) ==
  LET k == cli[s] IN
  /\ k.pc = "put"
  /\ Len(ring) < RING
  /\ ring' = Append(ring, k.nrel)
  /\ cntrs' = [cntrs EXCEPT !.released = @ + k.nrel]
  /\ Becomes(s, IF k.more THEN NextTape(k) ELSE Done)
  /\ UNCHANGED <<config, next, queue, tape, out>>

(* Ticket 0 counted as a packet.                                           *)
CascadeDoneAll(k, n) ==
  CASE n = GRO_TICKET_ERROR -> [k EXCEPT !.pc = "cascade_error"]
    [] n = 0 -> [k EXCEPT !.pc = "abort"]
    [] OTHER -> [k EXCEPT !.pc = "put", !.nrel = n, !.more = n - 1 >= T]

(* What the client does with the n it gets for ticket 0 of the next tape.  *)
CascadeDone(k, n) ==
  CASE n = GRO_TICKET_ERROR -> [k EXCEPT !.pc = "cascade_error"]
    [] n = 0 -> [k EXCEPT !.pc = "abort"]
    [] n = 1 -> Done
    [] OTHER -> [k EXCEPT !.pc = "put", !.nrel = n - 1, !.more = n - 1 >= T]

(* It releases ticket 0 of the next tape.                                  *)
Cascade(s) ==
  LET k == cli[s]
      ticket == Stamp(0, k.epoch)
  IN /\ k.pc = "cascade"
     /\ tape' = [tape EXCEPT ![k.tape] = After(@, ticket)]
     /\ Becomes(s, CascadeDone(k, Result(tape[k.tape], ticket)))
     /\ UNCHANGED <<config, next, queue, ring, cntrs, out>>

CascadeError(s) ==
  LET k == cli[s] IN
  /\ k.pc = "cascade_error"
  /\ cli' = [cli EXCEPT ![s].pc =
       IF CascadedTicketErrorIsFatal(tape[k.tape], k.epoch)
       THEN "abort" ELSE "cascade"]
  /\ UNCHANGED <<config, next, queue, tape, ring, cntrs, out>>

-----------------------------------------------------------------------------
(* GRO.OUT                                                                 *)

(* The epoch of the resets never advanced.                                 *)
ResetNextStale(d) ==
  [d EXCEPT !.bmReset = (IF @ = NUMENT THEN 0 ELSE @) + T,
            !.bmNext = IF @ + 1 = NTAPES THEN 0 ELSE @ + 1]

(* reset_next_bitmap: the dispatcher's context after it.                   *)
ResetNext(d) ==
  LET last == d.bmNext + 1 = NTAPES IN
  [d EXCEPT !.bmReset = (IF @ = NUMENT THEN 0 ELSE @) + T,
            !.bmNext = IF last THEN 0 ELSE @ + 1,
            !.epoch = IF last THEN (@ + 1) % GRO_NUM_EPOCHS ELSE @]

(* Two packets taken of a release of one.                                  *)
TwoAlways == disp.nrel >= 1 /\ ~disp.wrap

(* release_two takes two packets of a release, release_one the last one.   *)
Two == disp.nrel >= 2 /\ ~disp.wrap
Resets ==
  IF Two THEN disp.q + 2 >= disp.bmReset
  ELSE disp.q + 1 = disp.bmReset /\ ~disp.wrap

(* A read of n packets from entry q on.                                    *)
Read(q, n) == [entries |-> [i \in 1 .. n |-> q + i - 1], data |-> <<>>]

(* The dispatcher takes a message from the release ring.                   *)
GetRelease ==
  /\ disp.nrel = 0
  /\ ring # <<>>
  /\ disp' = [disp EXCEPT !.nrel = Head(ring)]
  /\ ring' = Tail(ring)
  /\ UNCHANGED <<config, next, cli, queue, tape, cntrs, rst, xbuf, sent>>

(* It starts the read of the next packet, or of the next two, into the    *)
(* next transfer buffer, and resets a tape when it reaches LM_CTX_BM_RESET.*)
(* Two packets that run past the end of the queue are read one by one      *)
(* (overflow_wrap).                                                        *)
Dispatch ==
  LET over == Two /\ disp.q + 2 > NUMENT
      n == IF Two /\ ~over THEN 2 ELSE 1
      d == IF Resets THEN ResetNext(disp) ELSE disp
  IN /\ disp.nrel > 0
     /\ Len(xbuf) < XBUFS
     /\ xbuf' = Append(xbuf, Read(disp.q, n))
     /\ disp' = [d EXCEPT !.q = IF Resets /\ @ + n = NUMENT THEN 0 ELSE @ + n,
                          !.nrel = @ - n,
                          !.wrap = over]
     /\ rst' = IF Resets
               THEN Append(rst, [tape |-> disp.bmNext, epoch |-> disp.epoch])
               ELSE rst
     /\ UNCHANGED <<config, next, cli, queue, tape, ring, cntrs, sent>>

(* A reset arrives at its tape.                                            *)
ResetTape ==
  /\ rst # <<>>
  /\ tape' = [tape EXCEPT ![Head(rst).tape] = Fresh(Head(rst).epoch)]
  /\ rst' = Tail(rst)
  /\ UNCHANGED <<config, next, cli, queue, ring, cntrs, disp, xbuf, sent>>

(* A read of metadata completes.                                           *)
ReadDone(i) ==
  /\ i \in DOMAIN xbuf
  /\ xbuf[i].data = <<>>
  /\ xbuf' = [xbuf EXCEPT ![i].data =
       [j \in DOMAIN xbuf[i].entries |-> queue[xbuf[i].entries[j]]]]
  /\ UNCHANGED <<config, next, cli, queue, tape, ring, cntrs, disp, rst, sent>>

(* The worker whose turn it is sends what is in its buffer.                *)
Send ==
  /\ xbuf # <<>>
  /\ Head(xbuf).data # <<>>
  /\ sent' = sent \o Head(xbuf).data
  /\ xbuf' = Tail(xbuf)
  /\ UNCHANGED <<config, next, cli, queue, tape, ring, cntrs, disp, rst>>

-----------------------------------------------------------------------------
(* The tapes of a context as gro_declare_ctx initialises them: the one of  *)
(* the first packet expects it, those in the skid wait for a reset, the    *)
(* others are fresh.                                                       *)
InSkid(i) ==
  LET first == iseq \div T
  IN \/ i < first /\ (first < skid \/ i >= first - skid)
     \/ first < skid /\ i >= first + NTAPES - skid
InitTape(i) ==
  IF i * 16 = iseq \div T THEN [seq |-> (iseq % T) + 1, bits |-> {}]
  ELSE IF skid > 0 /\ InSkid(i) THEN [seq |-> SkidMarker(0), bits |-> {}]
  ELSE Fresh(0)

Init ==
  /\ skid \in SKIDS
  /\ iseq \in ISEQS
  /\ next = iseq
  /\ cli = <<>>
  /\ queue = [e \in Entries |-> None]
  /\ tape = [i \in Tapes |-> InitTape(i)]
  /\ ring = <<>>
  /\ cntrs = [enqueued |-> 0, released |-> 0]
  /\ disp = [nrel |-> 0, wrap |-> FALSE, q |-> iseq,
             bmReset |-> (iseq \div T + 1) * T,
             bmNext |-> (iseq \div T + NTAPES - skid) % NTAPES,
             epoch |-> IF iseq \div T + NTAPES - skid < NTAPES THEN 0 ELSE 1]
  /\ rst = <<>>
  /\ xbuf = <<>>
  /\ sent = <<>>

Step(s) ==
  /\ s \in DOMAIN cli
  /\ \/ WriteMeta(s) \/ ReleaseTicket(s) \/ TicketError(s)
     \/ Release(s) \/ Cascade(s) \/ CascadeError(s)

Packets == 0 .. (NUMENT + MaxPackets)

Next ==
  \/ Arrive \/ \E s \in Packets : Step(s)
  \/ GetRelease \/ Dispatch \/ ResetTape \/ Send
  \/ \E i \in 1 .. XBUFS : ReadDone(i)

Spec == Init /\ [][Next]_vars

(* Threads run, commands complete, and GRO.OUT polls the release ring.     *)
Fairness ==
  /\ \A s \in Packets : WF_vars(Step(s))
  /\ WF_vars(GetRelease) /\ WF_vars(Dispatch) /\ WF_vars(ResetTape)
  /\ WF_vars(Send)
  /\ \A i \in 1 .. XBUFS : WF_vars(ReadDone(i))

FairSpec == Spec /\ Fairness

-----------------------------------------------------------------------------
(* Types.  A release is of 1 to GRO_TICKET_PER_TAPE packets: the field of  *)
(* the message has 7 bits (gro.h:293).                                     *)
TypeOK ==
  /\ skid \in SKIDS /\ iseq \in ISEQS
  /\ next - iseq \in 0 .. MaxPackets
  /\ \A s \in DOMAIN cli :
       /\ s \in iseq .. (next - 1)
       /\ cli[s].pc \in {"write", "ticket", "error", "put", "cascade",
                         "cascade_error", "abort"}
       /\ cli[s].tape \in Tapes /\ cli[s].epoch \in Epochs
       /\ cli[s].pc = "put" => cli[s].nrel \in 1 .. T
  /\ \A e \in Entries : queue[e] \in {None} \cup (iseq .. (next - 1))
  /\ \A i \in Tapes : /\ TapeEpoch(tape[i]) \in Epochs
                       /\ TapeSeq(tape[i]) \in 0 .. (T + 1)
                       /\ tape[i].bits \subseteq 0 .. (T - 1)
  /\ Len(ring) <= RING /\ \A m \in DOMAIN ring : ring[m] \in 1 .. T
  /\ disp.nrel \in 0 .. T /\ disp.q \in Entries /\ disp.wrap \in BOOLEAN
  /\ disp.bmReset \in 1 .. NUMENT /\ disp.bmNext \in Tapes
  /\ disp.epoch \in Epochs
  /\ Len(xbuf) <= XBUFS

(* Packets are sent in the order of their sequence numbers, each once and  *)
(* with its own metadata, whatever order the clients finish in.            *)
InOrder == \A i \in DOMAIN sent : sent[i] = iseq + i - 1

(* No client meets a tape it takes for a fatal error (gro_cli_abort_ticket *)
(* and gro_cli_abort_tape stop the thread for good) while the packets      *)
(* under way fit in the queue less the rest of a tape.                     *)
NoAbort == \A s \in DOMAIN cli : cli[s].pc # "abort"

(* A reset finds its tape used up or in the skid: never one with a ticket  *)
(* of the round before still out (reset_next_bitmap writes without a look  *)
(* at the tape).                                                           *)
ResetsUsedTapes ==
  \A r \in DOMAIN rst :
    tape[rst[r].tape] = [seq |-> SkidMarker(rst[r].epoch), bits |-> {}]

(* When no client is inside gro_cli_send every packet enqueued has been    *)
(* released: the two counters the monitoring script compares meet.         *)
CountersMeet ==
  DOMAIN cli = {} =>
    /\ cntrs.enqueued = next - iseq
    /\ cntrs.released = cntrs.enqueued

(* Every packet that arrives is sent: from any state the ones under way    *)
(* drain, through full rings, refused tickets and tapes not yet reset.     *)
AllSent == []<>(Len(sent) = next - iseq)
=============================================================================
