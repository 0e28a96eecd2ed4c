-------------------------- MODULE SubsQueueProofs ---------------------------
(* Theorems about SubsQueue for every number of blocks, every queue at      *)
(* least as long, and any number of messages.                               *)
EXTENDS SubsQueue, FiniteSetTheorems, SequenceTheorems, TLAPS

(* A thread has a block in hand exactly between taking and passing it on.   *)
Places ==
  /\ handler.block # NoBlock <=> handler.pc \in {"check", "read", "put"}
  /\ subs.block # NoBlock <=> subs.pc \in {"callback", "free"}

Safe == TypeOK /\ Places /\ Ownership

USE DEF Blocks, NoBlock, Kinds

-----------------------------------------------------------------------------
(* What the steps on the queue do to the set of queued blocks.              *)

LEMMA QueueSame ==
  ASSUME UNCHANGED SubsQueue
  PROVE  Queued' = Queued /\ QueuedOnce' = QueuedOnce
BY DEF Queued, QueuedOnce

LEMMA QueueType ==
  ASSUME NEW q \in Seq(Blocks)
  PROVE  Len(q) \in Nat /\ \A i \in 1 .. Len(q) : q[i] \in Blocks
BY LenProperties

LEMMA QueuePut ==
  ASSUME SubsQueue \in Seq(Blocks), NEW b \in Blocks,
         SubsQueue' = Append(SubsQueue, b)
  PROVE  /\ SubsQueue' \in Seq(Blocks) /\ Queued' = Queued \cup {b}
         /\ QueuedOnce /\ b \notin Queued => QueuedOnce'
<1>1. /\ SubsQueue' \in Seq(Blocks) /\ Len(SubsQueue') = Len(SubsQueue) + 1
      /\ Len(SubsQueue) \in Nat /\ SubsQueue'[Len(SubsQueue) + 1] = b
      /\ \A i \in 1 .. Len(SubsQueue) : SubsQueue'[i] = SubsQueue[i]
  BY AppendProperties, LenProperties
<1>2. Queued' = Queued \cup {b}
  BY <1>1, Z3 DEF Queued
<1>3. QueuedOnce /\ b \notin Queued => QueuedOnce'
  BY <1>1 DEF QueuedOnce, Queued
<1> QED
  BY <1>1, <1>2, <1>3

LEMMA QueueGet ==
  ASSUME SubsQueue \in Seq(Blocks), SubsQueue # <<>>,
         SubsQueue' = Tail(SubsQueue)
  PROVE  /\ SubsQueue' \in Seq(Blocks) /\ Queued' \subseteq Queued
         /\ Head(SubsQueue) \in Queued \cap Blocks
         /\ QueuedOnce => QueuedOnce' /\ Head(SubsQueue) \notin Queued'
<1>1. /\ SubsQueue' \in Seq(Blocks) /\ Len(SubsQueue') = Len(SubsQueue) - 1
      /\ Len(SubsQueue) \in Nat \ {0}
      /\ Head(SubsQueue) = SubsQueue[1] /\ Head(SubsQueue) \in Blocks
      /\ \A i \in 1 .. Len(SubsQueue') : SubsQueue'[i] = SubsQueue[i + 1]
  <2>1. /\ Head(SubsQueue) \in Blocks /\ Tail(SubsQueue) \in Seq(Blocks)
        /\ Len(Tail(SubsQueue)) = Len(SubsQueue) - 1
        /\ \A i \in 1 .. Len(Tail(SubsQueue)) :
             Tail(SubsQueue)[i] = SubsQueue[i + 1]
    BY HeadTailProperties
  <2>2. Len(SubsQueue) \in Nat \ {0}
    BY EmptySeq
  <2>3. Head(SubsQueue) = SubsQueue[1]
    BY <2>2
  <2> QED
    BY <2>1, <2>2, <2>3
<1>2. \A i \in 1 .. Len(SubsQueue') : i + 1 \in 1 .. Len(SubsQueue) /\ i + 1 # 1
  BY <1>1
<1>3. 1 \in 1 .. Len(SubsQueue)
  BY <1>1
<1>4. Queued' \subseteq Queued /\ Head(SubsQueue) \in Queued
  BY <1>1, <1>2, <1>3 DEF Queued
<1>5. QueuedOnce => QueuedOnce'
  BY <1>1, <1>2 DEF QueuedOnce
<1>6. QueuedOnce => Head(SubsQueue) \notin Queued'
  BY <1>1, <1>2, <1>3 DEF QueuedOnce, Queued
<1> QED
  BY <1>1, <1>4, <1>5, <1>6

-----------------------------------------------------------------------------
(* Ownership is inductive once it is known which thread holds a block.      *)

LEMMA SafeInit == Init => Safe
<1> SUFFICES ASSUME Init PROVE Safe
  OBVIOUS
<1>1. <<>> \in Seq(Blocks) /\ <<>> \in Seq(Nat) /\ Len(<<>>) = 0
  BY EmptySeq
<1>2. TypeOK /\ Places
  BY <1>1, SizesOK DEF Init, TypeOK, Places, Idle
<1>3. Queued = {} /\ QueuedOnce
  BY <1>1 DEF Init, Queued, QueuedOnce
<1> QED
  BY <1>2, <1>3 DEF Init, Safe, Ownership, Holding, Idle

LEMMA SafeHandler == Safe /\ (Receive \/ HandlerStep) => Safe'
<1> SUFFICES ASSUME Safe, Receive \/ HandlerStep PROVE Safe'
  OBVIOUS
<1> USE DEF Safe, TypeOK, Places, Ownership, Holding
<1>1. CASE Receive
  BY <1>1, QueueSame DEF Receive
<1>2. CASE AllocBlock
  <2>1. PICK b \in free : /\ free' = free \ {b}
                          /\ handler' = [handler EXCEPT !.pc = "check",
                                                        !.block = b]
    BY <1>2 DEF AllocBlock
  <2>2. /\ handler.pc = "alloc"
        /\ UNCHANGED <<content, SubsQueue, subs, Connected, arrived, handled>>
    BY <1>2 DEF AllocBlock
  <2>3. TypeOK'
    BY <2>1, <2>2
  <2>4. Places'
    BY <2>1, <2>2
  <2>5. free' \subseteq free /\ b \notin free'
    BY <2>1
  <2>6. handler'.block = b /\ subs'.block = subs.block
    BY <2>1, <2>2
  <2>7. b \notin Queued /\ b # subs.block
    BY <2>1
  <2>8. handler.block = NoBlock
    BY <2>2
  <2>9. Queued' = Queued /\ QueuedOnce'
    BY <2>2, QueueSame
  <2>10. Holding' = {b, subs.block} \ {NoBlock} /\ Holding = {subs.block} \ {NoBlock}
    BY <2>6, <2>8
  <2>11. free \cap Queued = {} /\ free \cap Holding = {} /\ Queued \cap Holding = {}
    OBVIOUS
  <2>12. Ownership'
    <3> HIDE DEF Safe, TypeOK, Places, Holding
    <3>1. free' \cap Queued' = {} /\ free' \cap Holding' = {}
      BY <2>5, <2>9, <2>10, <2>11
    <3>2. Queued' \cap Holding' = {}
      BY <2>7, <2>9, <2>10, <2>11
    <3> QED
      BY <2>6, <2>7, <2>9, <3>1, <3>2
  <2> QED
    BY <2>3, <2>4, <2>12
<1>3. CASE AllocTimeout
  BY <1>3, QueueSame DEF AllocTimeout
<1>4. CASE Check
  BY <1>4, QueueSame DEF Check
<1>5. CASE Drain
  BY <1>5, QueueSame DEF Drain, Idle
<1>6. CASE ReadPayload
  BY <1>6, QueueSame DEF ReadPayload
<1>7. CASE ReadNothing
  BY <1>7, QueueSame DEF ReadNothing, Idle
<1>8. CASE Put
  BY <1>8, QueuePut DEF Put, Idle
<1> QED
  BY <1>1, <1>2, <1>3, <1>4, <1>5, <1>6, <1>7, <1>8 DEF HandlerStep

LEMMA SafeSubs == Safe /\ (SubsStep \/ SessionChange) => Safe'
<1> SUFFICES ASSUME Safe, SubsStep \/ SessionChange PROVE Safe'
  OBVIOUS
<1> USE DEF Safe, TypeOK, Places, Ownership, Holding
<1>1. CASE Get
  BY <1>1, QueueGet DEF Get
<1>2. CASE Callback
  <2>1. handled' \in Seq(Nat)
    BY <1>2, AppendProperties DEF Callback
  <2> QED
    BY <1>2, <2>1, QueueSame DEF Callback
<1>3. CASE Free
  BY <1>3, QueueSame DEF Free
<1>4. CASE SessionChange
  BY <1>4, QueueSame DEF SessionChange
<1> QED
  BY <1>1, <1>2, <1>3, <1>4 DEF SubsStep

LEMMA SafeStep == Safe /\ [Next]_vars => Safe'
<1>1. Safe /\ UNCHANGED vars => Safe'
  BY QueueSame DEF Safe, TypeOK, Places, Ownership, Holding, vars
<1> QED
  BY <1>1, SafeHandler, SafeSubs DEF Next

LEMMA SafeAlways == Spec => []Safe
BY SafeInit, SafeStep, PTL DEF Spec

-----------------------------------------------------------------------------
(* Every variable keeps its type; in particular the handler and             *)
(* subscribe_proc only ever use addresses of blocks of the slab.            *)
THEOREM TypeCorrect == Spec => []TypeOK
<1>1. Safe => TypeOK
  BY DEF Safe
<1> QED
  BY <1>1, SafeAlways, PTL

(* A block has one owner at a time and is queued once, whatever the order   *)
(* of the two threads' steps and whatever fails.                            *)
THEOREM OneOwner == Spec => []Ownership
<1>1. Safe => Ownership
  BY DEF Safe
<1> QED
  BY <1>1, SafeAlways, PTL

(* The queued blocks and the one in the handler's hands are different       *)
(* blocks of the slab, so that fewer than NumBlocks are queued.             *)
THEOREM PutSucceeds == Spec => []PutNeverWaits
<1>1. Safe => PutNeverWaits
  <2> SUFFICES ASSUME Safe, handler.pc = "put"
               PROVE  Len(SubsQueue) < QueueLen
    BY DEF PutNeverWaits
  <2> DEFINE Others == Blocks \ {handler.block}
  <2>1. handler.block \in Blocks /\ handler.block \notin Queued
    BY DEF Safe, TypeOK, Places, Ownership, Holding
  <2>2. IsFiniteSet(Blocks) /\ Cardinality(Blocks) = NumBlocks
    BY SizesOK, FS_Interval
  <2>3. IsFiniteSet(Others) /\ Cardinality(Others) = NumBlocks - 1
    BY <2>1, <2>2, FS_RemoveElement
  <2>4. SubsQueue \in [1 .. Len(SubsQueue) -> Others] /\ Len(SubsQueue) \in Nat
    <3>1. SubsQueue \in [1 .. Len(SubsQueue) -> Blocks] /\ Len(SubsQueue) \in Nat
      BY LenProperties DEF Safe, TypeOK
    <3>2. \A i \in 1 .. Len(SubsQueue) : SubsQueue[i] # handler.block
      BY <2>1 DEF Queued
    <3> QED
      BY <3>1, <3>2
  <2>5. SubsQueue \in Injection(1 .. Len(SubsQueue), Others)
    BY <2>4 DEF Injection, IsInjective, Safe, Ownership, QueuedOnce
  <2>6. Cardinality(1 .. Len(SubsQueue)) <= NumBlocks - 1
    BY <2>3, <2>5, FS_Injection
  <2>7. Cardinality(1 .. Len(SubsQueue)) = Len(SubsQueue)
    <3>1. Len(SubsQueue) \in Int /\ 1 \in Int
      BY <2>4
    <3>2. Cardinality(1 .. Len(SubsQueue))
            = IF 1 > Len(SubsQueue) THEN 0 ELSE Len(SubsQueue) - 1 + 1
      BY <3>1, FS_Interval
    <3> QED
      BY <2>4, <3>2
  <2> QED
    BY <2>4, <2>6, <2>7, SizesOK
<1> QED
  BY <1>1, SafeAlways, PTL

-----------------------------------------------------------------------------
(* SubsQueue implements the safety part of SubsFifo: its initial states are  *)
(* initial there, and each of its steps accepts a message, hands one over,   *)
(* or changes nothing that SubsFifo sees.                                    *)
HIDE DEF Blocks, NoBlock, Kinds

(* A number given to an earlier message than the one the handler works on.   *)
Old(k) == IF handler.pc = "idle" THEN k <= arrived ELSE k < arrived

(* Messages are numbered as they arrive: what is queued, in the hands of     *)
(* subscribe_proc or handed over is older than the handler's message.        *)
Numbered ==
  /\ arrived <= MaxMsgs
  /\ handler.pc # "idle" => handler.n = arrived /\ arrived >= 1
  /\ handler.pc = "put" => content[handler.block] = handler.n
  /\ subs.pc = "callback" => Old(content[subs.block])
  /\ \A i \in 1 .. Len(SubsQueue) : Old(content[SubsQueue[i]])
  /\ \A i \in 1 .. Len(handled) : Old(handled[i])

(* The sequence Accepted, element by element.                                *)
Front == IF subs.pc = "callback" THEN 1 ELSE 0
Shape ==
  /\ Accepted \in Seq(Nat) /\ Front \in 0 .. 1 /\ Len(SubsQueue) \in Nat
  /\ Len(Accepted) = Front + Len(SubsQueue)
  /\ \A i \in 1 .. Len(Accepted) :
       Accepted[i] = IF i <= Front THEN content[subs.block]
                                   ELSE content[SubsQueue[i - Front]]

-----------------------------------------------------------------------------
LEMMA ShapeHolds == Safe => Shape
<1> SUFFICES ASSUME Safe PROVE Shape
  OBVIOUS
<1> DEFINE f == IF subs.pc = "callback" THEN <<content[subs.block]>> ELSE <<>>
           g == [i \in 1 .. Len(SubsQueue) |-> content[SubsQueue[i]]]
<1>1. Len(SubsQueue) \in Nat /\ \A i \in 1 .. Len(SubsQueue) : SubsQueue[i] \in Blocks
  BY QueueType DEF Safe, TypeOK
<1>2. g \in Seq(Nat) /\ Len(g) = Len(SubsQueue)
      /\ \A i \in 1 .. Len(SubsQueue) : g[i] = content[SubsQueue[i]]
  BY <1>1 DEF Safe, TypeOK
<1>3. f \in Seq(Nat) /\ Len(f) = Front /\ (Front = 1 => f[1] = content[subs.block])
      /\ Front \in 0 .. 1
  BY DEF Safe, TypeOK, Places, Front
<1>4. Accepted = f \o g
  BY DEF Accepted
<1> HIDE DEF f, g
<1>5. /\ f \o g \in Seq(Nat) /\ Len(f \o g) = Len(f) + Len(g)
      /\ \A i \in 1 .. Len(f) + Len(g) :
           (f \o g)[i] = IF i <= Len(f) THEN f[i] ELSE g[i - Len(f)]
  BY <1>2, <1>3, ConcatProperties
<1>6. \A i \in 1 .. Len(Accepted) :
        Accepted[i] = IF i <= Front THEN content[subs.block]
                                    ELSE content[SubsQueue[i - Front]]
  <2> SUFFICES ASSUME NEW i \in 1 .. Front + Len(SubsQueue)
               PROVE  Accepted[i] = IF i <= Front THEN content[subs.block]
                                    ELSE content[SubsQueue[i - Front]]
    BY <1>2, <1>3, <1>4, <1>5
  <2>1. CASE i <= Front
    BY <1>2, <1>3, <1>4, <1>5, <2>1
  <2>2. CASE ~(i <= Front)
    <3>1. i - Front \in 1 .. Len(SubsQueue)
      BY <1>1, <1>3, <2>2
    <3> QED
      BY <1>2, <1>3, <1>4, <1>5, <2>2, <3>1
  <2> QED
    BY <2>1, <2>2
<1> QED
  BY <1>1, <1>2, <1>3, <1>4, <1>5, <1>6 DEF Shape

LEMMA ShapeNext == Safe' => Shape'
BY ShapeHolds, PTL

-----------------------------------------------------------------------------
(* The numbers.                                                              *)

LEMMA NumberedInit == Init => Numbered
BY EmptySeq, SizesOK DEF Init, Numbered, Old, Idle

(* The contents a thread other than the handler can reach.                   *)
LEMMA OthersKept ==
  ASSUME Safe, ReadPayload \/ ReadNothing
  PROVE  /\ \A i \in 1 .. Len(SubsQueue) : content'[SubsQueue[i]] = content[SubsQueue[i]]
         /\ subs.pc = "callback" => content'[subs.block] = content[subs.block]
<1>1. handler.block \in Blocks /\ handler.block \notin Queued
      /\ handler.block # subs.block
  BY DEF Safe, TypeOK, Places, Ownership, Holding, ReadPayload, ReadNothing
<1>2. \A b \in Blocks : b # handler.block => content'[b] = content[b]
  BY <1>1 DEF Safe, TypeOK, ReadPayload, ReadNothing
<1>3. \A i \in 1 .. Len(SubsQueue) : SubsQueue[i] \in Blocks /\ SubsQueue[i] \in Queued
  BY QueueType DEF Safe, TypeOK, Queued
<1>4. subs.pc = "callback" => subs.block \in Blocks
  BY DEF Safe, TypeOK, Places
<1> QED
  BY <1>1, <1>2, <1>3, <1>4

LEMMA NumberedHandler == Safe /\ Numbered /\ (Receive \/ HandlerStep) => Numbered'
<1> SUFFICES ASSUME Safe, Numbered, Receive \/ HandlerStep PROVE Numbered'
  OBVIOUS
<1>1. /\ arrived \in Nat /\ Len(SubsQueue) \in Nat /\ Len(handled) \in Nat
      /\ MaxMsgs \in Nat
      /\ \A i \in 1 .. Len(SubsQueue) : content[SubsQueue[i]] \in Nat
      /\ \A i \in 1 .. Len(handled) : handled[i] \in Nat
      /\ subs.pc = "callback" => content[subs.block] \in Nat
  BY QueueType, LenProperties, SizesOK DEF Safe, TypeOK, Places
<1>2. CASE Receive
  BY <1>1, <1>2 DEF Numbered, Old, Receive
<1>3. CASE AllocBlock \/ AllocTimeout \/ Check
  BY <1>1, <1>3 DEF Numbered, Old, AllocBlock, AllocTimeout, Check, Safe, TypeOK
<1>4. CASE Drain
  BY <1>1, <1>4 DEF Numbered, Old, Drain, Idle
<1>5. CASE ReadPayload
  <2>1. handler.block \in Blocks
    BY <1>5 DEF Safe, TypeOK, Places, ReadPayload
  <2>2. /\ handler'.pc = "put" /\ handler'.n = handler.n
        /\ handler'.block = handler.block /\ content'[handler.block] = handler.n
    BY <1>5, <2>1 DEF Safe, TypeOK, ReadPayload
  <2> QED
    BY <1>1, <1>5, <2>2, OthersKept DEF Numbered, Old, ReadPayload
<1>6. CASE ReadNothing
  BY <1>1, <1>6, OthersKept DEF Numbered, Old, ReadNothing, Idle
<1>7. CASE Put
  <2>1. /\ Len(SubsQueue') = Len(SubsQueue) + 1
        /\ SubsQueue'[Len(SubsQueue) + 1] = handler.block
        /\ \A i \in 1 .. Len(SubsQueue) : SubsQueue'[i] = SubsQueue[i]
    BY <1>7, AppendProperties DEF Safe, TypeOK, Places, Put
  <2>2. content[handler.block] = arrived
    BY <1>7 DEF Numbered, Put
  <2> QED
    BY <1>1, <1>7, <2>1, <2>2 DEF Numbered, Old, Put, Idle
<1> QED
  BY <1>2, <1>3, <1>4, <1>5, <1>6, <1>7 DEF HandlerStep

LEMMA NumberedSubs == Safe /\ Numbered /\ (SubsStep \/ SessionChange) => Numbered'
<1> SUFFICES ASSUME Safe, Numbered, SubsStep \/ SessionChange PROVE Numbered'
  OBVIOUS
<1>1. CASE Get
  <2>1. /\ Len(SubsQueue) \in Nat \ {0} /\ Len(SubsQueue') = Len(SubsQueue) - 1
        /\ Head(SubsQueue) = SubsQueue[1]
        /\ \A i \in 1 .. Len(SubsQueue') : SubsQueue'[i] = SubsQueue[i + 1]
    BY <1>1, EmptySeq, HeadTailProperties DEF Get, Safe, TypeOK
  <2>2. /\ 1 \in 1 .. Len(SubsQueue)
        /\ \A i \in 1 .. Len(SubsQueue') : i + 1 \in 1 .. Len(SubsQueue)
    BY <2>1
  <2> QED
    BY <1>1, <2>1, <2>2 DEF Numbered, Old, Get
<1>2. CASE Callback
  <2>1. /\ Len(handled) \in Nat /\ Len(handled') = Len(handled) + 1
        /\ handled'[Len(handled) + 1] = content[subs.block]
        /\ \A i \in 1 .. Len(handled) : handled'[i] = handled[i]
    BY <1>2, AppendProperties, LenProperties DEF Callback, Safe, TypeOK, Places
  <2>2. subs'.pc = "free"
    BY <1>2 DEF Callback, Safe, TypeOK
  <2> QED
    BY <1>2, <2>1, <2>2 DEF Numbered, Old, Callback
<1>3. CASE Free \/ SessionChange
  BY <1>3 DEF Numbered, Old, Free, SessionChange
<1> QED
  BY <1>1, <1>2, <1>3 DEF SubsStep

LEMMA NumberedStep == Safe /\ Numbered /\ [Next]_vars => Numbered'
<1>1. Numbered /\ UNCHANGED vars => Numbered'
  BY DEF Numbered, Old, vars
<1> QED
  BY <1>1, NumberedHandler, NumberedSubs DEF Next

-----------------------------------------------------------------------------
(* What the steps are for SubsFifo.                                          *)

LEMMA SameAccepted ==
  ASSUME Shape, Shape', Front' = Front, UNCHANGED SubsQueue,
         \A i \in 1 .. Len(SubsQueue) : content'[SubsQueue[i]] = content[SubsQueue[i]],
         Front = 1 => content'[subs'.block] = content[subs.block]
  PROVE  Accepted' = Accepted
<1>1. Len(Accepted') = Len(Accepted) /\ Accepted' \in Seq(Nat) /\ Accepted \in Seq(Nat)
  BY DEF Shape
<1>2. \A i \in 1 .. Len(Accepted) : Accepted'[i] = Accepted[i]
  <2> SUFFICES ASSUME NEW i \in 1 .. Len(Accepted) PROVE Accepted'[i] = Accepted[i]
    OBVIOUS
  <2>1. CASE i <= Front
    BY <1>1, <2>1 DEF Shape
  <2>2. CASE ~(i <= Front)
    <3>1. i - Front \in 1 .. Len(SubsQueue)
      BY <2>2 DEF Shape
    <3> QED
      BY <1>1, <2>2, <3>1 DEF Shape
  <2> QED
    BY <2>1, <2>2
<1> QED
  BY <1>1, <1>2, SeqEqual

LEMMA PutAccepts ==
  ASSUME Safe, Numbered, Shape, Shape', Put PROVE Fifo!Accept
<1> DEFINE n == handler.n
<1>1. /\ Len(SubsQueue') = Len(SubsQueue) + 1
      /\ SubsQueue'[Len(SubsQueue) + 1] = handler.block
      /\ \A i \in 1 .. Len(SubsQueue) : SubsQueue'[i] = SubsQueue[i]
  BY AppendProperties DEF Safe, TypeOK, Places, Put
<1>2. /\ n \in 1 .. MaxMsgs /\ n = arrived /\ content[handler.block] = n
      /\ n \in Nat
  BY SizesOK DEF Numbered, Put, Safe, TypeOK
<1>3. UNCHANGED <<content, subs, handled>> /\ Front' = Front
  BY DEF Put, Front
<1> HIDE DEF n
<1>4. Accepted' = Append(Accepted, n)
  <2>1. /\ Append(Accepted, n) \in Seq(Nat)
        /\ Len(Append(Accepted, n)) = Len(Accepted) + 1
        /\ Append(Accepted, n)[Len(Accepted) + 1] = n
        /\ \A i \in 1 .. Len(Accepted) : Append(Accepted, n)[i] = Accepted[i]
    BY <1>2, AppendProperties DEF Shape
  <2>2. Len(Accepted') = Len(Accepted) + 1 /\ Accepted' \in Seq(Nat)
    BY <1>1, <1>3 DEF Shape
  <2>3. \A i \in 1 .. Len(Accepted) + 1 : Accepted'[i] = Append(Accepted, n)[i]
    <3> SUFFICES ASSUME NEW i \in 1 .. Len(Accepted) + 1
                 PROVE  Accepted'[i] = Append(Accepted, n)[i]
      OBVIOUS
    <3> DEFINE Place(q) == IF i <= Front THEN content[subs.block]
                                         ELSE content[q[i - Front]]
    <3>0. Accepted'[i] = Place(SubsQueue')
      BY <1>3, <2>2 DEF Shape
    <3>1. CASE i <= Front
      <4>1. i \in 1 .. Len(Accepted)
        BY <3>1 DEF Shape
      <4>2. Accepted[i] = content[subs.block] /\ Append(Accepted, n)[i] = Accepted[i]
        BY <2>1, <3>1, <4>1 DEF Shape
      <4> QED
        BY <3>0, <3>1, <4>2
    <3>2. CASE i > Front /\ i <= Len(Accepted)
      <4>1. i - Front \in 1 .. Len(SubsQueue) /\ i \in 1 .. Len(Accepted) /\ ~(i <= Front)
        BY <3>2 DEF Shape
      <4>2. Accepted[i] = content[SubsQueue[i - Front]]
        BY <4>1 DEF Shape
      <4>3. Append(Accepted, n)[i] = Accepted[i] /\ SubsQueue'[i - Front] = SubsQueue[i - Front]
        BY <1>1, <2>1, <4>1
      <4> QED
        BY <3>0, <4>1, <4>2, <4>3
    <3>3. CASE i = Len(Accepted) + 1
      <4>1. i - Front = Len(SubsQueue) + 1 /\ ~(i <= Front)
        BY <3>3 DEF Shape
      <4>2. Accepted'[i] = content[handler.block]
        BY <1>1, <1>3, <2>2, <3>3, <4>1 DEF Shape
      <4> QED
        BY <1>2, <2>1, <3>3, <4>2
    <3> QED
      BY <3>1, <3>2, <3>3 DEF Shape
  <2> QED
    BY <2>1, <2>2, <2>3, SeqEqual
<1>5. \A k \in Fifo!Numbers(Accepted) \cup Fifo!Numbers(handled) : k < n
  <2>1. \A i \in 1 .. Len(Accepted) : Accepted[i] < n
    <3> SUFFICES ASSUME NEW i \in 1 .. Len(Accepted) PROVE Accepted[i] < n
      OBVIOUS
    <3>1. CASE i <= Front
      <4>1. Front = 1 /\ subs.pc = "callback"
        BY <3>1 DEF Shape, Front
      <4> QED
        BY <1>2, <3>1, <4>1 DEF Shape, Numbered, Old, Put
    <3>2. CASE ~(i <= Front)
      <4>1. i - Front \in 1 .. Len(SubsQueue)
        BY <3>2 DEF Shape
      <4> QED
        BY <1>2, <3>2, <4>1 DEF Shape, Numbered, Old, Put
    <3> QED
      BY <3>1, <3>2
  <2>2. \A i \in 1 .. Len(handled) : handled[i] < n
    BY <1>2 DEF Numbered, Old, Put
  <2>3. DOMAIN Accepted = 1 .. Len(Accepted) /\ DOMAIN handled = 1 .. Len(handled)
    BY LenProperties DEF Shape, Safe, TypeOK
  <2> QED
    BY <2>1, <2>2, <2>3 DEF Fifo!Numbers
<1> QED
  BY <1>2, <1>3, <1>4, <1>5 DEF Fifo!Accept

LEMMA GetStutters ==
  ASSUME Safe, Shape, Shape', Get PROVE Accepted' = Accepted
<1>1. /\ Len(SubsQueue) \in Nat \ {0} /\ Len(SubsQueue') = Len(SubsQueue) - 1
      /\ Head(SubsQueue) = SubsQueue[1]
      /\ \A i \in 1 .. Len(SubsQueue') : SubsQueue'[i] = SubsQueue[i + 1]
  BY EmptySeq, HeadTailProperties DEF Get, Safe, TypeOK
<1>2. Front = 0 /\ Front' = 1 /\ subs'.block = SubsQueue[1] /\ content' = content
  BY <1>1 DEF Get, Front
<1>3. Len(Accepted') = Len(Accepted) /\ Accepted' \in Seq(Nat) /\ Accepted \in Seq(Nat)
  BY <1>1, <1>2 DEF Shape
<1>4. \A i \in 1 .. Len(Accepted) : Accepted'[i] = Accepted[i]
  <2> SUFFICES ASSUME NEW i \in 1 .. Len(Accepted) PROVE Accepted'[i] = Accepted[i]
    OBVIOUS
  <2>1. Accepted[i] = content[SubsQueue[i]]
    BY <1>2 DEF Shape
  <2>2. CASE i = 1
    BY <1>2, <1>3, <2>1, <2>2 DEF Shape
  <2>3. CASE i # 1
    <3>1. i - 1 \in 1 .. Len(SubsQueue') /\ ~(i <= 1) /\ (i - 1) + 1 = i
      BY <1>1, <1>2, <2>3 DEF Shape
    <3>2. Accepted'[i] = content[SubsQueue'[i - 1]]
      BY <1>2, <1>3, <3>1 DEF Shape
    <3> QED
      BY <1>1, <2>1, <3>1, <3>2
  <2> QED
    BY <2>2, <2>3
<1> QED
  BY <1>3, <1>4, SeqEqual

LEMMA CallbackHandles ==
  ASSUME Safe, Shape, Shape', Callback PROVE Fifo!Handle
<1>1. /\ Front = 1 /\ Front' = 0 /\ UNCHANGED <<content, SubsQueue>>
      /\ handled' = Append(handled, content[subs.block])
  BY DEF Callback, Front, Safe, TypeOK
<1>2. /\ Len(Accepted) = Len(SubsQueue) + 1 /\ Len(Accepted') = Len(SubsQueue)
      /\ Len(SubsQueue) \in Nat /\ Accepted \in Seq(Nat) /\ Accepted' \in Seq(Nat)
  BY <1>1 DEF Shape
<1>3. Accepted # <<>> /\ Head(Accepted) = content[subs.block]
  <2>1. Accepted # <<>>
    BY <1>2, EmptySeq
  <2>2. Accepted[1] = content[subs.block]
    BY <1>1, <1>2 DEF Shape
  <2> QED
    BY <1>2, <2>1, <2>2
<1>4. /\ Tail(Accepted) \in Seq(Nat) /\ Len(Tail(Accepted)) = Len(Accepted) - 1
      /\ \A i \in 1 .. Len(Tail(Accepted)) : Tail(Accepted)[i] = Accepted[i + 1]
  BY <1>2, <1>3, HeadTailProperties
<1>5. \A i \in 1 .. Len(SubsQueue) : Accepted'[i] = Tail(Accepted)[i]
  <2> SUFFICES ASSUME NEW i \in 1 .. Len(SubsQueue)
               PROVE  Accepted'[i] = Tail(Accepted)[i]
    OBVIOUS
  <2>1. Accepted'[i] = content[SubsQueue[i]]
    BY <1>1, <1>2 DEF Shape
  <2>2. i + 1 \in 1 .. Len(Accepted) /\ ~(i + 1 <= 1) /\ (i + 1) - 1 = i
    BY <1>2
  <2>3. Accepted[i + 1] = content[SubsQueue[i]]
    BY <1>1, <2>2 DEF Shape
  <2> QED
    BY <1>2, <1>4, <2>1, <2>3
<1>6. Accepted' = Tail(Accepted)
  <2>1. Len(Tail(Accepted)) = Len(Accepted')
    BY <1>2, <1>4
  <2>2. \A i \in 1 .. Len(Accepted') : Accepted'[i] = Tail(Accepted)[i]
    BY <1>2, <1>5
  <2> QED
    BY <1>2, <1>4, <2>1, <2>2, SeqEqual
<1> QED
  BY <1>1, <1>3, <1>6 DEF Fifo!Handle

LEMMA StepRefines ==
  Safe /\ Safe' /\ Numbered /\ [Next]_vars => [Fifo!Next]_<<Accepted, handled>>
<1> SUFFICES ASSUME Safe, Safe', Numbered, [Next]_vars
             PROVE  Fifo!Next \/ UNCHANGED <<Accepted, handled>>
  OBVIOUS
<1>1. Shape /\ Shape'
  BY ShapeHolds, ShapeNext
<1>2. CASE Put
  BY <1>1, <1>2, PutAccepts DEF Fifo!Next
<1>3. CASE Callback
  BY <1>1, <1>3, CallbackHandles DEF Fifo!Next
<1>4. CASE Get
  BY <1>1, <1>4, GetStutters DEF Get
<1>5. CASE ReadPayload \/ ReadNothing
  <2>1. UNCHANGED <<SubsQueue, subs, handled>>
    BY <1>5 DEF ReadPayload, ReadNothing
  <2>2. Front' = Front /\ (Front = 1 => subs.pc = "callback")
    BY <2>1 DEF Front
  <2> QED
    BY <1>1, <1>5, <2>1, <2>2, OthersKept, SameAccepted
<1>6. CASE Receive \/ AllocBlock \/ AllocTimeout \/ Check \/ Drain
           \/ SessionChange \/ UNCHANGED vars
  <2>1. UNCHANGED <<content, SubsQueue, subs, handled>>
    BY <1>6 DEF Receive, AllocBlock, AllocTimeout, Check, Drain, SessionChange, vars
  <2>2. Front' = Front
    BY <2>1 DEF Front
  <2> QED
    BY <1>1, <2>1, <2>2, SameAccepted
<1>7. CASE Free
  <2>1. UNCHANGED <<content, SubsQueue, handled>> /\ Front' = Front /\ Front = 0
    BY <1>7 DEF Free, Front
  <2> QED
    BY <1>1, <2>1, SameAccepted
<1> QED
  BY <1>2, <1>3, <1>4, <1>5, <1>6, <1>7 DEF Next, HandlerStep, SubsStep

-----------------------------------------------------------------------------
(* Whatever the interleaving, refusals, failed reads and ends of sessions,   *)
(* the callback is called with the accepted messages once each and in order: *)
(* the safety part of ImplementsFifo, for any sizes and number of messages.  *)
THEOREM Refines == Spec => Fifo!Init /\ [][Fifo!Next]_<<Accepted, handled>>
<1>1. Init => Fifo!Init
  <2> SUFFICES ASSUME Init PROVE Accepted = <<>> /\ handled = <<>>
    BY DEF Fifo!Init
  <2>1. Shape /\ Len(Accepted) = 0
    BY SafeInit, ShapeHolds, EmptySeq DEF Shape, Front, Init
  <2> QED
    BY <2>1, EmptySeq DEF Shape, Init
<1>2. Init => Safe /\ Numbered
  BY SafeInit, NumberedInit
<1>3. Safe /\ Numbered /\ [Next]_vars => Safe' /\ Numbered'
  BY SafeStep, NumberedStep
<1> QED
  BY <1>1, <1>2, <1>3, StepRefines, PTL DEF Spec
=============================================================================
