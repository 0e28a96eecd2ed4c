----------------------------- MODULE SubsQueue ------------------------------
(***************************************************************************)
(* How a message for a subscribed topic gets from the MQTT thread to the   *)
(* callback: the handler of MQTT_EVT_PUBLISH takes a block of the slab     *)
(* SubsQueueSlab, fills it from the socket and puts its address into the   *)
(* message queue SubsQueue; the thread SubsTid (subscribe_proc) gets it,   *)
(* calls SubsCb and frees the block.  Every wait has a timeout of a second *)
(* and expires only while what is waited for is not there; the wait of     *)
(* subscribe_proc then begins again.                                       *)
(***************************************************************************)
EXTENDS Naturals, Sequences

CONSTANTS
  NumBlocks,   (* blocks of SubsQueueSlab: 4                                 *)
  QueueLen,    (* capacity of SubsQueue: 4, no less than the slab has blocks *)
  MaxMsgs      (* bound: messages that arrive                                *)

ASSUME SizesOK == /\ NumBlocks \in Nat \ {0} /\ QueueLen \in Nat
                  /\ NumBlocks <= QueueLen /\ MaxMsgs \in Nat

VARIABLES
  free,       (* the blocks on the slab's free list                          *)
  content,    (* the number of the message each block holds, 0 if none       *)
  SubsQueue,  (* the blocks whose addresses are queued                       *)
  handler,    (* mqtt_evt_handler at MQTT_EVT_PUBLISH                        *)
  subs,       (* subscribe_proc                                              *)
  Connected,  (* the flag of mqtt_worker.c                                   *)
  arrived,    (* number of messages the library has announced                *)
  handled     (* history: what SubsCb was called with                        *)

vars == <<free, content, SubsQueue, handler, subs, Connected, arrived, handled>>

Blocks  == 1 .. NumBlocks
NoBlock == 0
(* A message by what the handler tells apart: "long" exceeds the limit on   *)
(* the payload or on the topic, "empty" has no payload.                     *)
Kinds   == {"normal", "empty", "long"}

TypeOK ==
  /\ free \subseteq Blocks
  /\ content \in [Blocks -> Nat]
  /\ SubsQueue \in Seq(Blocks)
  /\ handler \in [pc : {"idle", "alloc", "check", "drain", "read", "put"},
                  n : Nat, kind : Kinds, block : Blocks \cup {NoBlock}]
  /\ subs \in [pc : {"get", "callback", "free"},
               block : Blocks \cup {NoBlock}]
  /\ Connected \in BOOLEAN /\ arrived \in Nat
  /\ handled \in Seq(Nat)

Idle == [pc |-> "idle", n |-> 0, kind |-> "normal", block |-> NoBlock]

Init ==
  /\ free = Blocks /\ SubsQueue = <<>> /\ handled = <<>>
  /\ content = [b \in Blocks |-> 0]
  /\ handler = Idle /\ subs = [pc |-> "get", block |-> NoBlock]
  /\ Connected = TRUE /\ arrived = 0

-----------------------------------------------------------------------------
(* mqtt_evt_handler *)

Receive ==
  /\ handler.pc = "idle" /\ arrived < MaxMsgs
  /\ arrived' = arrived + 1
  /\ \E k \in Kinds :
       handler' = [pc |-> "alloc", n |-> arrived + 1, kind |-> k,
                   block |-> NoBlock]
  /\ UNCHANGED <<free, content, SubsQueue, subs, Connected, handled>>

(* Mutant: the block stays on the free list.                                *)
AllocKeepsFree ==
  /\ handler.pc = "alloc"
  /\ \E b \in free : handler' = [handler EXCEPT !.pc = "check", !.block = b]
  /\ UNCHANGED <<free, content, SubsQueue, subs, Connected, arrived, handled>>
AllocBlock ==
  /\ handler.pc = "alloc"
  /\ \E b \in free :
       /\ free' = free \ {b}
       /\ handler' = [handler EXCEPT !.pc = "check", !.block = b]
  /\ UNCHANGED <<content, SubsQueue, subs, Connected, arrived, handled>>

(* Mutant: the clean-up frees the block it did not get.                     *)
AllocTimeoutFrees ==
  /\ handler.pc = "alloc" /\ free = {}
  /\ handler' = [handler EXCEPT !.pc = "drain"]
  /\ free' = free \cup {handler.block}
  /\ UNCHANGED <<content, SubsQueue, subs, Connected, arrived, handled>>
AllocTimeout ==
  /\ handler.pc = "alloc" /\ free = {}
  /\ handler' = [handler EXCEPT !.pc = "drain"]
  /\ UNCHANGED <<free, content, SubsQueue, subs, Connected, arrived, handled>>

Refused == handler.kind = "long" \/ ~Connected

Check ==
  /\ handler.pc = "check"
  /\ \/ /\ Refused /\ free' = free \cup {handler.block}
        /\ handler' = [handler EXCEPT !.pc = "drain", !.block = NoBlock]
     \/ /\ ~Refused /\ UNCHANGED free
        /\ handler' = [handler EXCEPT !.pc = "read"]
  /\ UNCHANGED <<content, SubsQueue, subs, Connected, arrived, handled>>

(* The payload of a refused message is read and thrown away, or the read    *)
(* fails, and the library has then disconnected.                            *)
Drain ==
  /\ handler.pc = "drain"
  /\ Connected' \in {Connected, FALSE}
  /\ handler' = Idle
  /\ UNCHANGED <<free, content, SubsQueue, subs, arrived, handled>>

ReadPayload ==
  /\ handler.pc = "read" /\ handler.kind # "empty" /\ Connected
  /\ content' = [content EXCEPT ![handler.block] = handler.n]
  /\ handler' = [handler EXCEPT !.pc = "put"]
  /\ UNCHANGED <<free, SubsQueue, subs, Connected, arrived, handled>>

(* A read fails after some of the payload, or there is no payload to read   *)
(* and bytes_read is still INT32_MIN: the block is neither queued nor freed.*)
ReadNothing ==
  /\ handler.pc = "read"
  /\ \/ handler.kind = "empty" /\ UNCHANGED Connected
     \/ handler.kind # "empty" /\ Connected' = FALSE
  /\ content' = [content EXCEPT ![handler.block] = 0]
  /\ handler' = Idle
  /\ UNCHANGED <<free, SubsQueue, subs, arrived, handled>>

(* Mutant: the newest message overtakes the queued ones.                    *)
PutFront ==
  /\ handler.pc = "put" /\ Len(SubsQueue) < QueueLen
  /\ SubsQueue' = <<handler.block>> \o SubsQueue
  /\ handler' = Idle
  /\ UNCHANGED <<free, content, subs, Connected, arrived, handled>>
(* SubsQueue has room for every block there is (PutNeverWaits), so that the *)
(* timeout of k_msgq_put needs no action.                                   *)
Put ==
  /\ handler.pc = "put" /\ Len(SubsQueue) < QueueLen
  /\ SubsQueue' = Append(SubsQueue, handler.block)
  /\ handler' = Idle
  /\ UNCHANGED <<free, content, subs, Connected, arrived, handled>>

-----------------------------------------------------------------------------
(* subscribe_proc *)

(* Mutant: the block is freed before the callback has read it.              *)
GetFreesEarly ==
  /\ subs.pc = "get" /\ SubsQueue # <<>>
  /\ subs' = [pc |-> "callback", block |-> Head(SubsQueue)]
  /\ SubsQueue' = Tail(SubsQueue)
  /\ free' = free \cup {Head(SubsQueue)}
  /\ UNCHANGED <<content, handler, Connected, arrived, handled>>
Get ==
  /\ subs.pc = "get" /\ SubsQueue # <<>>
  /\ subs' = [pc |-> "callback", block |-> Head(SubsQueue)]
  /\ SubsQueue' = Tail(SubsQueue)
  /\ UNCHANGED <<free, content, handler, Connected, arrived, handled>>

Callback ==
  /\ subs.pc = "callback"
  /\ handled' = Append(handled, content[subs.block])
  /\ subs' = [subs EXCEPT !.pc = "free"]
  /\ UNCHANGED <<free, content, SubsQueue, handler, Connected, arrived>>

Free ==
  /\ subs.pc = "free"
  /\ free' = free \cup {subs.block}
  /\ subs' = [pc |-> "get", block |-> NoBlock]
  /\ UNCHANGED <<content, SubsQueue, handler, Connected, arrived, handled>>

-----------------------------------------------------------------------------
(* The session ends at any time (main's publish runs the DISCONNECT handler *)
(* too); a new one begins on the MQTT thread, between two events.           *)
SessionChange ==
  /\ \/ Connected' = FALSE
     \/ handler.pc = "idle" /\ Connected' = TRUE
  /\ UNCHANGED <<free, content, SubsQueue, handler, subs, arrived, handled>>

HandlerStep == \/ AllocBlock \/ AllocTimeout \/ Check \/ Drain \/ ReadPayload
               \/ ReadNothing \/ Put
SubsStep    == Get \/ Callback \/ Free

Next == Receive \/ HandlerStep \/ SubsStep \/ SessionChange

(* SubsTid runs whenever it has something to do.                            *)
Spec == Init /\ [][Next]_vars /\ WF_vars(SubsStep)

-----------------------------------------------------------------------------
Queued  == {SubsQueue[i] : i \in 1 .. Len(SubsQueue)}
Holding == {handler.block, subs.block} \ {NoBlock}
QueuedOnce ==
  \A i, j \in 1 .. Len(SubsQueue) : SubsQueue[i] = SubsQueue[j] => i = j

(* A block has one owner at a time, the free list, the handler, the queue   *)
(* or subscribe_proc, and is queued once: nobody writes a message that      *)
(* another thread still reads (k_mem_slab_alloc, k_msgq, k_mem_slab_free).  *)
Ownership ==
  /\ free \cap Queued = {} /\ free \cap Holding = {} /\ Queued \cap Holding = {}
  /\ handler.block # NoBlock => handler.block # subs.block
  /\ QueuedOnce

(* k_msgq_put never waits, and so never fails: with a block in the handler's *)
(* hands and none queued twice, the slab runs out before the queue is full.  *)
PutNeverWaits == handler.pc = "put" => Len(SubsQueue) < QueueLen

(* At rest every block is on the free list.  A payload of length 0 or a     *)
(* failed read breaks this for good.                                        *)
PoolRestored ==
  (handler.pc = "idle" /\ subs.pc = "get" /\ SubsQueue = <<>>) => free = Blocks

(* What is queued, or held by subscribe_proc and not yet handed over.       *)
Accepted ==
  (IF subs.pc = "callback" THEN <<content[subs.block]>> ELSE <<>>)
    \o [i \in 1 .. Len(SubsQueue) |-> content[SubsQueue[i]]]

Fifo == INSTANCE SubsFifo WITH
          Messages <- 1 .. MaxMsgs,
          pending <- Accepted,
          handled <- handled

(* The pipeline implements a queue that loses nothing it accepted.          *)
ImplementsFifo == Fifo!Spec
=============================================================================
