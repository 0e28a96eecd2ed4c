---------------------------- MODULE WifiNetProofs ---------------------------
(***************************************************************************)
(* Proofs about WifiNet: type correctness, at most one retry on its way,   *)
(* exactly one when the driver refuses nothing and the link is down, and   *)
(* that the MQTT worker is told of a loss before another connection is     *)
(* asked for, for any number of events under way.                          *)
(***************************************************************************)
EXTENDS WifiNet, FiniteSetTheorems, TLAPS

Announced(i) ==
  i \in 1 .. Len(events) /\ events[i] \in {"failed", "disconnected"}

(* OneRetry without counting.                                                *)
RetryInv ==
  /\ \A i, j : Announced(i) /\ Announced(j) => i = j
  /\ timer => ~work /\ \A i : ~Announced(i)
  /\ work => ~timer /\ \A i : ~Announced(i)
  /\ link # "down" \/ main.pc = "request"
       => ~timer /\ ~work /\ \A i : ~Announced(i)
  /\ main.pc = "request" => link = "down"

(* A loss that is owed to the MQTT worker is still among the events.         *)
OwedInv ==
  owed => DiscoCb /\ \E i : i \in 1 .. Len(events) /\ events[i] = "disconnected"

Inv == TypeOK /\ RetryInv /\ OwedInv

(* Without refused requests, a link that is down has its retry.              *)
TriedAgain ==
  link = "down" => main.pc = "request" \/ timer \/ work \/ \E i : Announced(i)

-----------------------------------------------------------------------------
LEMMA TailAnnounced ==
  ASSUME TypeOK, events # <<>>, events' = Tail(events)
  PROVE  /\ events' \in Seq(EventTypes) /\ Len(events') <= EventsMax
         /\ Len(events) \in Nat \ {0} /\ Len(events') = Len(events) - 1
         /\ \A i \in 1 .. Len(events') :
              i + 1 \in 1 .. Len(events) /\ events'[i] = events[i + 1]
BY ConstantsOK DEF TypeOK

LEMMA AppendAnnounced ==
  ASSUME TypeOK, NEW e \in EventTypes, Raise(e)
  PROVE  /\ events' \in Seq(EventTypes) /\ Len(events') <= EventsMax
         /\ Len(events) \in Nat /\ Len(events') = Len(events) + 1
         /\ events'[Len(events')] = e
         /\ \A i \in 1 .. Len(events) :
              i \in 1 .. Len(events') /\ events'[i] = events[i]
BY ConstantsOK DEF TypeOK, Raise

LEMMA InitInv == Init => Inv
<1> SUFFICES ASSUME Init PROVE Inv
  OBVIOUS
<1>1. TypeOK
  <2>1. /\ timer \in BOOLEAN /\ work \in BOOLEAN
        /\ DiscoCb \in BOOLEAN /\ owed \in BOOLEAN
    BY Zenon DEF Init
  <2>2. main = Boot /\ link = "down" /\ events = <<>> /\ FirstConnSem = 0
    BY DEF Init
  <2> QED
    BY <2>1, <2>2, ConstantsOK DEF TypeOK, Boot
<1>2. RetryInv /\ OwedInv
  BY DEF Init, RetryInv, OwedInv, Announced, Boot
<1> QED
  BY <1>1, <1>2 DEF Inv

LEMMA ResetInv == Reset => Inv'
<1> SUFFICES ASSUME Reset PROVE Inv'
  OBVIOUS
<1>1. TypeOK'
  <2>1. /\ timer' \in BOOLEAN /\ work' \in BOOLEAN
        /\ DiscoCb' \in BOOLEAN /\ owed' \in BOOLEAN
    BY Zenon DEF Reset
  <2>2. main' = Boot /\ link' = "down" /\ events' = <<>> /\ FirstConnSem' = 0
    BY DEF Reset
  <2> QED
    BY <2>1, <2>2, ConstantsOK DEF TypeOK, Boot
<1>2. RetryInv' /\ OwedInv'
  BY DEF Reset, RetryInv, OwedInv, Announced, Boot
<1> QED
  BY <1>1, <1>2 DEF Inv

(* main, the timer and the work item raise no event.                         *)
LEMMA QuietInv ==
  ASSUME Inv, UNCHANGED events,
         \/ FirstRequest \/ TakeFirstConnSem \/ WaitSecond
         \/ RegisterDiscoCb \/ TimerExpires \/ Reconnect
  PROVE  Inv'
<1>1. TypeOK'
  <2>1. /\ timer' \in BOOLEAN /\ work' \in BOOLEAN
        /\ DiscoCb' \in BOOLEAN /\ owed' \in BOOLEAN
    BY Zenon DEF Inv, TypeOK, FirstRequest, TakeFirstConnSem, WaitSecond,
       RegisterDiscoCb, TimerExpires, Reconnect, cb
  <2>2. /\ main' \in [pc : {"request", "wait", "run"}, sec : 0 .. FirstConnTimeout]
        /\ link' \in {"down", "joining", "up"} /\ FirstConnSem' \in 0 .. 1
    BY ConstantsOK DEF Inv, TypeOK, FirstRequest, TakeFirstConnSem, WaitSecond,
       RegisterDiscoCb, TimerExpires, Reconnect, Request, cb
  <2> QED
    BY <2>1, <2>2 DEF Inv, TypeOK
<1>2. OwedInv'
  BY DEF Inv, OwedInv, FirstRequest, TakeFirstConnSem, WaitSecond,
     RegisterDiscoCb, TimerExpires, Reconnect, cb
<1>3. \A i : Announced(i)' <=> Announced(i)
  BY DEF Announced
<1>4. RetryInv'
  BY <1>3 DEF Inv, TypeOK, RetryInv, FirstRequest, TakeFirstConnSem, WaitSecond,
     RegisterDiscoCb, TimerExpires, Reconnect, Request, cb
<1> QED
  BY <1>1, <1>2, <1>4 DEF Inv

LEMMA HandlerInv == Inv /\ HandlerStep => Inv'
<1> SUFFICES ASSUME Inv, HandlerStep PROVE Inv'
  OBVIOUS
<1>1. /\ events # <<>> /\ events' = Tail(events) /\ UNCHANGED <<main, link, work>>
      /\ Head(events) \in EventTypes
  BY DEF HandlerStep, OnConnected, OnFailed, OnDisconnected, OnAddress, Handle, EventTypes
<1>2. /\ events' \in Seq(EventTypes) /\ Len(events') <= EventsMax
      /\ Len(events) \in Nat \ {0} /\ Len(events') = Len(events) - 1
      /\ \A i \in 1 .. Len(events') :
           i + 1 \in 1 .. Len(events) /\ events'[i] = events[i + 1]
  BY <1>1, TailAnnounced DEF Inv
<1>3. TypeOK'
  <2>1. timer' \in BOOLEAN /\ DiscoCb' \in BOOLEAN /\ owed' \in BOOLEAN
    BY Zenon DEF Inv, TypeOK, HandlerStep, OnConnected, OnFailed,
       OnDisconnected, OnAddress, cb
  <2>2. FirstConnSem' \in 0 .. 1
    BY DEF Inv, TypeOK, HandlerStep, OnConnected, OnFailed, OnDisconnected,
       OnAddress
  <2> QED
    BY <1>1, <1>2, <2>1, <2>2 DEF Inv, TypeOK
<1>4. \A i : Announced(i)' => Announced(i + 1) /\ i # 0 /\ i \in Nat
  BY <1>2 DEF Announced
<1>5. Announced(1) <=> Head(events) \in {"failed", "disconnected"}
  BY <1>1, <1>2 DEF Announced, Inv, TypeOK
<1>6. Announced(1) => \A i : ~Announced(i)'
  BY <1>4 DEF Inv, RetryInv
<1>7. \A i, j : Announced(i)' /\ Announced(j)' => i = j
  <2> SUFFICES ASSUME NEW i, NEW j, Announced(i)', Announced(j)' PROVE i = j
    OBVIOUS
  <2>1. i + 1 = j + 1 /\ i \in Nat /\ j \in Nat
    BY <1>4 DEF Inv, RetryInv
  <2> QED
    BY <2>1
<1>8. timer' => timer \/ Announced(1)
  BY <1>5 DEF HandlerStep, OnConnected, OnFailed, OnDisconnected, OnAddress, Handle
<1>9. RetryInv'
  BY <1>1, <1>4, <1>6, <1>7, <1>8 DEF Inv, RetryInv
<1>10. OwedInv'
  <2> SUFFICES ASSUME owed' PROVE OwedInv'
    BY DEF OwedInv
  <2>1. owed /\ DiscoCb /\ DiscoCb' /\ ~OnDisconnected
    BY DEF Inv, OwedInv, HandlerStep, OnConnected, OnFailed, OnDisconnected,
       OnAddress, Handle, cb
  <2>2. PICK i : i \in 1 .. Len(events) /\ events[i] = "disconnected"
    BY <2>1 DEF Inv, OwedInv
  <2>3. i # 1
    BY <1>1, <1>2, <2>1, <2>2 DEF HandlerStep, OnConnected, OnFailed, OnAddress,
       Handle, Inv, TypeOK
  <2>4. i - 1 \in 1 .. Len(events') /\ events'[i - 1] = "disconnected"
    BY <1>2, <2>2, <2>3
  <2> QED
    BY <2>1, <2>4 DEF OwedInv
<1> QED
  BY <1>3, <1>9, <1>10 DEF Inv

LEMMA DriverInv == Inv /\ Driver => Inv'
<1> SUFFICES ASSUME Inv, Driver PROVE Inv'
  OBVIOUS
<1>1. PICK e \in EventTypes :
        /\ Raise(e) /\ link # "down"
        /\ e \in {"failed", "disconnected"} => link' = "down"
        /\ link' \in {"down", "joining", "up"}
        /\ owed' \in BOOLEAN
        /\ owed' /\ e = "disconnected" => DiscoCb
        /\ owed' /\ e # "disconnected" => owed
  <2>1. CASE Joined
    BY <2>1 DEF Joined, EventTypes, Inv, TypeOK
  <2>2. CASE Failed
    BY <2>2 DEF Failed, EventTypes, Inv, TypeOK
  <2>3. CASE Lost
    BY <2>3 DEF Lost, EventTypes, Inv, TypeOK
  <2>4. CASE Address
    BY <2>4 DEF Address, EventTypes, Inv, TypeOK
  <2> QED
    BY <2>1, <2>2, <2>3, <2>4 DEF Driver
<1>2. /\ events' \in Seq(EventTypes) /\ Len(events') <= EventsMax
      /\ Len(events) \in Nat /\ Len(events') = Len(events) + 1
      /\ events'[Len(events')] = e
      /\ \A i \in 1 .. Len(events) :
           i \in 1 .. Len(events') /\ events'[i] = events[i]
  BY <1>1, AppendAnnounced DEF Inv
<1>3. UNCHANGED <<main, timer, work, FirstConnSem, DiscoCb>>
  BY <1>1 DEF Raise
<1>4. TypeOK'
  <2>1. owed' \in BOOLEAN
    BY <1>1 DEF Inv, TypeOK
  <2> QED
    BY <1>1, <1>2, <1>3, <2>1 DEF Inv, TypeOK
<1>5. ~timer /\ ~work /\ main.pc # "request" /\ \A i : ~Announced(i)
  BY <1>1 DEF Inv, RetryInv
<1>6. \A i : Announced(i)' => i = Len(events') /\ e \in {"failed", "disconnected"}
  BY <1>2, <1>5 DEF Announced
<1>7. RetryInv'
  BY <1>1, <1>3, <1>5, <1>6 DEF RetryInv
<1>8. OwedInv'
  <2>1. CASE e = "disconnected"
    BY <1>1, <1>2, <1>3, <2>1 DEF OwedInv
  <2>2. CASE e # "disconnected"
    BY <1>1, <1>2, <1>3, <2>2 DEF OwedInv, Inv
  <2> QED
    BY <2>1, <2>2
<1> QED
  BY <1>4, <1>7, <1>8 DEF Inv

LEMMA NextInv == Inv /\ [Next]_vars => Inv'
<1> SUFFICES ASSUME Inv, [Next]_vars PROVE Inv'
  OBVIOUS
<1>1. CASE FirstRequest \/ TakeFirstConnSem \/ WaitSecond
           \/ RegisterDiscoCb \/ TimerExpires \/ Reconnect
  <2>1. UNCHANGED events
    BY <1>1 DEF FirstRequest, TakeFirstConnSem, WaitSecond, RegisterDiscoCb,
       TimerExpires, Reconnect
  <2> QED
    BY <1>1, <2>1, QuietInv
<1>2. CASE TimeUp \/ OtherReset
  BY <1>2, ResetInv DEF TimeUp, OtherReset
<1>3. CASE HandlerStep
  BY <1>3, HandlerInv
<1>4. CASE Driver
  BY <1>4, DriverInv
<1>5. CASE UNCHANGED vars
  BY <1>5 DEF vars, Inv, TypeOK, RetryInv, OwedInv, Announced
<1> QED
  BY <1>1, <1>2, <1>3, <1>4, <1>5 DEF Next, MainStep

LEMMA InvHolds == Spec => []Inv
BY InitInv, NextInv, PTL DEF Spec

-----------------------------------------------------------------------------
(* Every variable keeps its type, for any time-out and number of events.     *)
THEOREM TypeCorrect == Spec => []TypeOK
<1>1. Inv => TypeOK
  BY DEF Inv
<1> QED
  BY <1>1, InvHolds, PTL

LEMMA Counted == TypeOK /\ RetryInv => OneRetry
<1> SUFFICES ASSUME TypeOK, RetryInv PROVE OneRetry
  OBVIOUS
<1> DEFINE A == {i \in 1 .. Len(events) : events[i] \in {"failed", "disconnected"}}
<1>1. \A i : i \in A <=> Announced(i)
  BY DEF Announced
<1>2. CASE A = {}
  <2>1. Cardinality(A) = 0
    BY <1>2, FS_EmptySet
  <2> HIDE DEF A
  <2>2. Retries = (IF timer THEN 1 ELSE 0) + (IF work THEN 1 ELSE 0)
    BY <2>1 DEF Retries, A
  <2> QED
    BY <2>2 DEF OneRetry, RetryInv
<1>3. CASE A # {}
  <2>1. PICK i : i \in A
    BY <1>3
  <2>2. A = {i}
    BY <1>1, <2>1 DEF RetryInv
  <2>3. Cardinality(A) = 1
    BY <2>2, FS_Singleton
  <2>4. ~timer /\ ~work /\ link = "down"
    BY <1>1, <2>1 DEF RetryInv
  <2> QED
    BY <2>3, <2>4 DEF OneRetry, Retries
<1> QED
  BY <1>2, <1>3

(* At most one retry is announced, timed or queued, and none while the       *)
(* driver is busy: for any number of events under way.                       *)
THEOREM Retry == Spec => []OneRetry
<1>1. Inv => OneRetry
  BY Counted DEF Inv
<1> QED
  BY <1>1, InvHolds, PTL

LEMMA TriedAgainInv ==
  ASSUME ~MayRefuse, Inv, TriedAgain, [Next]_vars
  PROVE  TriedAgain'
<1> SUFFICES ASSUME link' = "down"
             PROVE  main'.pc = "request" \/ timer' \/ work' \/ \E i : Announced(i)'
  BY DEF TriedAgain
<1>1. CASE UNCHANGED events /\ (FirstRequest \/ Reconnect)
  BY <1>1 DEF FirstRequest, Reconnect, Request
<1>2. CASE UNCHANGED <<events, link, work>> /\ (TakeFirstConnSem \/ WaitSecond \/ RegisterDiscoCb)
  <2>1. main.pc # "request" /\ UNCHANGED timer
    BY <1>2 DEF TakeFirstConnSem, WaitSecond, RegisterDiscoCb, cb
  <2>2. \A i : Announced(i) => Announced(i)'
    BY <1>2 DEF Announced
  <2> QED
    BY <1>2, <2>1, <2>2 DEF TriedAgain
<1>3. CASE TimerExpires
  BY <1>3 DEF TimerExpires
<1>4. CASE TimeUp \/ OtherReset
  BY <1>4 DEF TimeUp, OtherReset, Reset, Boot
<1>5. CASE HandlerStep
  <2>1. /\ events # <<>> /\ events' = Tail(events) /\ UNCHANGED <<main, link, work>>
    BY <1>5 DEF HandlerStep, OnConnected, OnFailed, OnDisconnected, OnAddress, Handle
  <2>2. CASE OnFailed \/ OnDisconnected
    BY <2>2 DEF OnFailed, OnDisconnected
  <2>3. CASE OnConnected \/ OnAddress
    <3>1. ~Announced(1) /\ UNCHANGED timer
      BY <2>1, <2>3 DEF OnConnected, OnAddress, Handle, Announced, Inv, TypeOK
    <3>2. ASSUME NEW i, Announced(i) PROVE Announced(i - 1)'
      <4>1. i \in 1 .. Len(events) /\ i # 1
        BY <3>1, <3>2 DEF Announced
      <4>2. /\ Len(events) \in Nat /\ Len(events') = Len(events) - 1
            /\ \A j \in 1 .. Len(events') : events'[j] = events[j + 1]
        BY <2>1, TailAnnounced DEF Inv
      <4>3. i - 1 \in 1 .. Len(events') /\ (i - 1) + 1 = i
        BY <4>1, <4>2
      <4> QED
        BY <3>2, <4>2, <4>3 DEF Announced
    <3> QED
      BY <2>1, <3>1, <3>2 DEF TriedAgain
  <2> QED
    BY <1>5, <2>2, <2>3 DEF HandlerStep
<1>6. CASE Driver
  <2>1. CASE Joined \/ Address
    BY <2>1 DEF Joined, Address
  <2>2. CASE Failed \/ Lost
    <3>1. PICK e \in {"failed", "disconnected"} : Raise(e)
      BY <2>2 DEF Failed, Lost
    <3>2. Len(events') = Len(events) + 1 /\ Len(events) \in Nat /\ events'[Len(events')] = e
      BY <3>1, AppendAnnounced DEF Inv, EventTypes
    <3> DEFINE i == Len(events) + 1
    <3>3. i \in 1 .. Len(events') /\ events'[i] \in {"failed", "disconnected"}
      BY <3>2
    <3>4. \E j : Announced(j)'
      BY <3>3 DEF Announced
    <3> QED
      BY <3>4
  <2> QED
    BY <1>6, <2>1, <2>2 DEF Driver
<1>7. CASE UNCHANGED vars
  <2>1. \A i : Announced(i) => Announced(i)'
    BY <1>7 DEF vars, Announced
  <2> QED
    BY <1>7, <2>1 DEF vars, TriedAgain
<1>8. /\ FirstRequest \/ Reconnect => UNCHANGED events
      /\ TakeFirstConnSem \/ WaitSecond \/ RegisterDiscoCb => UNCHANGED <<events, link, work>>
  BY DEF FirstRequest, Reconnect, TakeFirstConnSem, WaitSecond, RegisterDiscoCb, cb
<1> QED
  BY <1>1, <1>2, <1>3, <1>4, <1>5, <1>6, <1>7, <1>8 DEF Next, MainStep

LEMMA CountedOnce ==
  ASSUME TypeOK, RetryInv, TriedAgain
  PROVE  RetryUnderWay
<1> SUFFICES ASSUME main.pc = "run", link = "down" PROVE Retries = 1
  BY DEF RetryUnderWay
<1> DEFINE A == {i \in 1 .. Len(events) : events[i] \in {"failed", "disconnected"}}
<1>1. \A i : i \in A <=> Announced(i)
  BY DEF Announced
<1>2. Retries = Cardinality(A) + (IF timer THEN 1 ELSE 0) + (IF work THEN 1 ELSE 0)
  BY DEF Retries
<1> HIDE DEF A
<1>3. CASE A = {}
  <2>1. Cardinality(A) = 0
    BY <1>3, FS_EmptySet
  <2>2. (timer \/ work) /\ ~(timer /\ work)
    BY <1>1, <1>3 DEF TriedAgain, RetryInv
  <2> QED
    BY <1>2, <2>1, <2>2
<1>4. CASE A # {}
  <2>1. PICK i : i \in A
    BY <1>4
  <2>2. A = {i}
    BY <1>1, <2>1 DEF RetryInv
  <2>3. Cardinality(A) = 1
    BY <2>2, FS_Singleton
  <2>4. ~timer /\ ~work
    BY <1>1, <2>1 DEF RetryInv
  <2> QED
    BY <1>2, <2>3, <2>4
<1> QED
  BY <1>3, <1>4

(* With a driver that refuses no request it could take, a station that is    *)
(* down in main's loop has exactly one retry under way: none is forgotten by *)
(* the handlers, the timer or the work item, for any number of events.       *)
THEOREM Retrying == ASSUME ~MayRefuse PROVE Spec => []RetryUnderWay
<1>1. Init => TriedAgain
  BY DEF Init, TriedAgain, Boot
<1>2. Inv /\ TriedAgain /\ [Next]_vars => TriedAgain'
  BY TriedAgainInv
<1>3. Inv /\ TriedAgain => RetryUnderWay
  BY CountedOnce DEF Inv
<1> QED
  BY <1>1, <1>2, <1>3, InvHolds, PTL DEF Spec

(* The MQTT worker is told of a loss before the next connection is asked     *)
(* for: the loss is still among the events, so that no retry is under way.   *)
THEOREM Told == Spec => []ToldBeforeRetry
<1>1. Inv => ToldBeforeRetry
  BY DEF Inv, OwedInv, RetryInv, Announced, ToldBeforeRetry
<1> QED
  BY <1>1, InvHolds, PTL
=============================================================================
