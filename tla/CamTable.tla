------------------------------ MODULE CamTable ------------------------------
(***************************************************************************)
(* The table of the FPGA target: cam_arbiter.sv with cam_warpper.v, the    *)
(* CAM of cam_bram.v and ram.sv.  Updates and lookups pass one axis_mux,   *)
(* are matched in the CAM one clock later, and then write a slot (the CAM  *)
(* takes four more clocks, covered by a stall) or read the value RAM.      *)
(*                                                                         *)
(* A step is one clock edge.  Registers are variables, wires are           *)
(* operators.  The port multiplexers of cam_arbiter offer at most one      *)
(* update and one lookup at a time.                                        *)
(***************************************************************************)
EXTENDS Integers, Sequences, FiniteSetsExt

CONSTANTS
  Keys,
  Values,
  SLOTS,        \* 2**CAM_ADDR_WIDTH
  LOOKUP_PORTS,
  RES_SIZE,     \* results a result FIFO holds
  INIT_CYCLES,  \* clocks the CAM clears its RAM after the reset
  None          \* no key; the RAM's initial value

ASSUME CamAssumption ==
  /\ {SLOTS, LOOKUP_PORTS, RES_SIZE} \subseteq Nat \ {0}
  /\ INIT_CYCLES \in Nat
  /\ None \notin Keys \cup Values

Slots == 0 .. (SLOTS - 1)
Ports == 0 .. (LOOKUP_PORTS - 1)
NoSlot == -1
Update(k, v) == [kind |-> "update", key |-> k, val |-> v]
Lookup(k, p) == [kind |-> "lookup", key |-> k, port |-> p]
Idle == [kind |-> "none"]

VARIABLES
  pend,       \* the update and the lookup offered to match_mux
  frame,      \* frame_reg of match_mux
  sel,        \* select_reg
  tready,     \* s_axis_tready_reg, of the selected input
  pre_select, \* the input that was served last
  outq,       \* output and skid register of match_mux
  res,        \* match_result_*_reg with the slot that matched
  stall,      \* stall_count
  cam_state,  \* state_reg of the CAM
  cam_count,  \* count_reg of the CAM
  cam,        \* per slot: its key
  cam_write,  \* cam_write_addr and cam_write_key; forgotten when the CAM has
              \* written them, it does not look at them any more
  free_slot,  \* free_slot_id
  ram,        \* per slot: its value
  read_ready, \* s_read_ready of the RAM
  read,       \* m_read_valid and port: the RAM holds the result of a lookup
  fifo,       \* per lookup port: results in its FIFO
  latest      \* history: per key that is not evicted, the value last written

vars == <<pend, frame, sel, tready, pre_select, outq, res, stall, cam_state,
          cam_count, cam, cam_write, free_slot, ram, read_ready, read, fifo,
          latest>>

Kinds == {"update", "lookup"}

-----------------------------------------------------------------------------
(* Wires of cam_warpper.                                                   *)
ResultReady ==
  IF res.kind = "update" THEN cam_state = "IDLE" ELSE read_ready
MatchReady == stall = 0 /\ ResultReady
Matching == MatchReady /\ outq # <<>>

(* The input match_mux turns to: the only one with a request, lookups      *)
(* during a stall, otherwise the one that was not served last.             *)
MatchSelect ==
  LET u == pend["update"] # Idle
      l == pend["lookup"] # Idle
  IN  IF u # l THEN IF u THEN "update" ELSE "lookup"
      ELSE IF stall > 0 \/ pre_select = "update" THEN "lookup" ELSE "update"

Match(k) ==
  LET hits == {s \in Slots : cam[s] = k}
  IN  IF hits = {} THEN NoSlot ELSE Min(hits)

(* The clocks after an update's match.                                     *)
StallShort == 4
StallLoad == 5

(* An update that matched writes its slot, another the next free one.      *)
Writing == res.kind = "update" /\ ResultReady
WriteSlotNew == free_slot
WriteSlot == IF res.slot # NoSlot THEN res.slot ELSE free_slot

NextFree ==
  IF res.slot = NoSlot THEN (free_slot + 1) % SLOTS ELSE free_slot

(* A lookup without a match reads slot 2.                                  *)
Reading == res.kind = "lookup" /\ ResultReady
ReadSlot == IF res.slot # NoSlot THEN res.slot ELSE 2 % SLOTS

(* lookup_result_ready: a single full FIFO holds up all ports.             *)
ResultsReadyEmpty == \A p \in Ports : fifo[p] = 0
ResultsReady == \A p \in Ports : fifo[p] < RES_SIZE

-----------------------------------------------------------------------------
(* match_mux: start a frame, pass one request per frame.                   *)
Passing == tready /\ pend[sel] # Idle
Starting == ~frame /\ pend[MatchSelect] # Idle

Mux ==
  LET room == Len(outq) < 2 /\ (outq = <<>> \/ ~Passing) IN
  /\ frame' = (Starting \/ (frame /\ ~Passing))
  /\ sel' = IF Starting THEN MatchSelect ELSE sel
  /\ tready' = ((MatchReady \/ room) /\ frame')
  /\ outq' = (IF Matching THEN Tail(outq) ELSE outq)
             \o (IF Passing THEN <<pend[sel]>> ELSE <<>>)
  /\ pre_select' = IF Passing THEN sel ELSE pre_select

(* A source keeps up its request until it is taken, then offers any of R.  *)
Offers(k, R) ==
  IF pend[k] # Idle /\ ~(Passing /\ sel = k) THEN {pend[k]} ELSE R \cup {Idle}

Offer(u, l) == pend' = [k \in Kinds |-> IF k = "update" THEN u ELSE l]

(* The match stage.  A result that is not used at once is overwritten.     *)
MatchStage ==
  LET req == Head(outq)
      m   == Match(req.key)
  IN
  /\ res' = IF ~Matching THEN Idle
            ELSE IF req.kind = "update"
                 THEN [kind |-> "update", key |-> req.key, val |-> req.val,
                       slot |-> m]
                 ELSE [kind |-> "lookup", key |-> req.key, port |-> req.port,
                       slot |-> m]
  /\ stall' = IF Matching
              THEN IF req.kind = "update" THEN StallLoad ELSE 0
              ELSE IF stall > 0 THEN stall - 1 ELSE 0

(* The write of a slot: RAM and free_slot_id at once, then the CAM clears  *)
(* the slot's old key and sets the new one.                                *)
WriteStage ==
  /\ latest' = IF Writing
               THEN [k \in Keys |-> CASE k = res.key -> res.val
                                      [] k # res.key /\ cam[WriteSlot] = k -> None
                                      [] OTHER -> latest[k]]
               ELSE latest
  /\ ram' = IF Writing THEN [ram EXCEPT ![WriteSlot] = res.val] ELSE ram
  /\ free_slot' = IF Writing THEN NextFree ELSE free_slot
  /\ cam_write' = CASE Writing -> <<WriteSlot, res.key>>
                    [] cam_state = "WRITE_2" -> <<0, None>>
                    [] OTHER -> cam_write
  /\ cam_count' = IF cam_state = "INIT" /\ cam_count > 0
                  THEN cam_count - 1 ELSE cam_count
  /\ cam_state' =
       CASE cam_state = "INIT"     -> IF cam_count = 0 THEN "IDLE" ELSE "INIT"
         [] cam_state = "IDLE"     -> IF Writing THEN "DELETE_1" ELSE "IDLE"
         [] cam_state = "DELETE_1" -> "DELETE_2"
         [] cam_state = "DELETE_2" -> "WRITE_1"
         [] cam_state = "WRITE_1"  -> "WRITE_2"
         [] cam_state = "WRITE_2"  -> "IDLE"
  /\ cam' = CASE cam_state = "DELETE_2" -> [cam EXCEPT ![cam_write[1]] = None]
              [] cam_state = "WRITE_2"  ->
                   [cam EXCEPT ![cam_write[1]] = cam_write[2]]
              [] OTHER -> cam

(* A result is stored in its port's FIFO; one that finds it full is lost.  *)
Stored(p) == read.kind = "result" /\ read.port = p /\ fifo[p] < RES_SIZE

(* The RAM read and the result FIFOs; the ports in taken take a result.    *)
ReadStage(taken) ==
  /\ read_ready' = ResultsReady
  /\ read' = IF Reading
             THEN [kind |-> "result", port |-> res.port] ELSE Idle
  /\ fifo' = [p \in Ports |-> fifo[p] + (IF Stored(p) THEN 1 ELSE 0)
                                      - (IF p \in taken THEN 1 ELSE 0)]

Clock(u, l, taken) ==
  Offer(u, l) /\ Mux /\ MatchStage /\ WriteStage /\ ReadStage(taken)

-----------------------------------------------------------------------------
Updates == {Update(k, v) : k \in Keys, v \in Values}
Lookups == {Lookup(k, p) : k \in Keys, p \in Ports}

Init ==
  /\ pend = [k \in Kinds |-> Idle]
  /\ frame = FALSE /\ sel = "lookup" /\ tready = FALSE
  /\ pre_select = "lookup"
  /\ outq = <<>>
  /\ res = Idle
  /\ stall = 0
  /\ cam_state = IF INIT_CYCLES > 0 THEN "INIT" ELSE "IDLE"
  /\ cam_count = IF INIT_CYCLES > 0 THEN INIT_CYCLES - 1 ELSE 0
  /\ cam = [s \in Slots |-> None]
  /\ cam_write = <<0, None>>
  /\ free_slot = 0
  /\ ram = [s \in Slots |-> None]
  /\ read_ready = FALSE
  /\ read = Idle
  /\ fifo = [p \in Ports |-> 0]
  /\ latest = [k \in Keys |-> None]

Next ==
  \E u \in Offers("update", Updates), l \in Offers("lookup", Lookups),
     taken \in SUBSET {p \in Ports : fifo[p] > 0} : Clock(u, l, taken)

Spec == Init /\ [][Next]_vars

-----------------------------------------------------------------------------

(* A lookup reads what the last completed update of its key wrote, even    *)
(* right behind the update.                                                *)
LookupFresh ==
  Reading /\ latest[res.key] # None => ram[ReadSlot] = latest[res.key]

(* No key is in two slots.                                                 *)
OneSlotPerKey ==
  \A s, t \in Slots : cam[s] = cam[t] /\ cam[s] # None => s = t

(* Requests of a kind between match_mux and the stage that completes them, *)
(* those that enter in this clock, and those that are completed in it: an  *)
(* update writes a slot, a lookup leaves its result in a FIFO.             *)
InFlight(k) ==
  Len(SelectSeq(outq, LAMBDA r : r.kind = k))
  + (IF res.kind = k THEN 1 ELSE 0)
  + (IF k = "lookup" /\ read.kind = "result" THEN 1 ELSE 0)

Entering(k) == IF Passing /\ sel = k THEN 1 ELSE 0

Completing(k) ==
  IF \/ k = "update" /\ Writing
     \/ k = "lookup" /\ \E p \in Ports : Stored(p)
  THEN 1 ELSE 0

(* The table drops an update only while the CAM still clears its RAM after *)
(* the reset ("UPDATE = 1 MATCH + 1 SET", cam_warpper.v:11), and a lookup  *)
(* only when some result FIFO has room for at most one more result         *)
(* ("LOOKUP = 1 MATCH", cam_warpper.v:19).  Any other request it took      *)
(* stays on its way until it is completed.                                 *)
DropsExplained ==
  [][\A k \in Kinds :
       \/ InFlight(k)' = InFlight(k) + Entering(k) - Completing(k)
       \/ k = "update" /\ cam_state = "INIT"
       \/ k = "lookup" /\ \E p \in Ports : fifo[p] >= RES_SIZE - 1]_vars
=============================================================================
