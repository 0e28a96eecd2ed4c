-------------------------- MODULE MqttWorkerProofs --------------------------
(* Theorems about MqttWorker for every value of its constants.              *)
EXTENDS MqttWorker, TLAPS

(* TypeOK is not inductive alone: the attempt counter of wlab_init stays in *)
(* range only because the loop is left at its last attempt.                 *)
AuthBound == (main.phase = "auth" /\ main.pc # "assert")
               => main.authAttempts < MaxAuth
TypeInv == TypeOK /\ AuthBound

USE DEF Ids, EventTypes, RequestTypes, DownTypes, Packet, Pkt, BackPcs,
        WorkerPcs, MainPcs, NoEvt

-----------------------------------------------------------------------------
(* What the model is built from keeps its type.                             *)

LEMMA BootType ==
  /\ WorkerBoot \in WorkerType /\ MainBoot \in MainType
  /\ MwBoot \in MwType /\ NetBoot \in NetType /\ 0 < MaxAuth
BY ConstantsOK DEF WorkerBoot, MainBoot, MwBoot, NetBoot,
                   WorkerType, MainType, MwType, NetType

LEMMA RebootType == Reboot => TypeInv'
BY BootType DEF Reboot, TypeInv, TypeOK, AuthBound, MainBoot

LEMMA ClosedType == TypeOK => Closed \in NetType
<1>1. \A T : <<>> \in Seq(T)
  OBVIOUS
<1> QED
  BY <1>1 DEF TypeOK, NetType, Closed

LEMMA NetMade ==
  ASSUME NEW c \in {"idle", "tcp", "connected"}, NEW l \in BOOLEAN,
         NEW u \in Seq(Packet(RequestTypes)), NEW d \in Seq(Packet(DownTypes))
  PROVE  [client |-> c, up |-> u, down |-> d, answered |-> FALSE,
          leaked |-> l] \in NetType
BY DEF NetType

(* Appending to a queue or taking its head off keeps its element type.      *)
LEMMA WrittenType ==
  ASSUME TypeOK, NEW p \in Packet(RequestTypes)
  PROVE  Written(p) \in NetType
<1>1. Append(net.up, p) \in Seq(Packet(RequestTypes))
  BY DEF TypeOK, NetType
<1> QED
  BY <1>1 DEF TypeOK, NetType, Written

LEMMA GotoType ==
  ASSUME TypeOK, NEW l \in WorkerPcs, Goto(l)
  PROVE  worker' \in WorkerType
BY DEF TypeOK, WorkerType, Goto

LEMMA RaiseType ==
  ASSUME TypeOK, NEW e \in Packet(EventTypes), NEW r \in BackPcs, Raise(e, r)
  PROVE  worker' \in WorkerType
BY DEF TypeOK, WorkerType, Raise

LEMMA ReturnType ==
  ASSUME TypeOK, Return, 0 \in Ids
  PROVE  worker' \in WorkerType
BY DEF TypeOK, WorkerType, Return

LEMMA DropEvtType == 0 \in Ids /\ DropEvt \in Packet(EventTypes)
BY ConstantsOK DEF DropEvt

LEMMA BrokenType ==
  ASSUME TypeOK, NEW r \in BackPcs, Broken(r)
  PROVE  worker' \in WorkerType /\ net' \in NetType
BY ClosedType, RaiseType, DropEvtType DEF Broken

LEMMA UndecodedType ==
  ASSUME TypeOK, Undecoded
  PROVE  worker' \in WorkerType /\ net' \in NetType
<1>1. worker.back \in BackPcs
  BY DEF TypeOK, WorkerType
<1> QED
  BY <1>1, ClosedType, RaiseType, DropEvtType DEF Undecoded

LEMMA InputType ==
  ASSUME TypeOK, NEW r \in BackPcs, MqttInput(r)
  PROVE  worker' \in WorkerType /\ net' \in NetType
<1> DEFINE p == Head(net.down)
<1>1. p \in Packet(DownTypes) /\ Tail(net.down) \in Seq(Packet(DownTypes))
  <2>1. net.down \in Seq(Packet(DownTypes)) /\ net.down # <<>>
    BY DEF TypeOK, NetType, MqttInput
  <2>2. \A T : \A s \in Seq(T) :
          s # <<>> => Head(s) \in T /\ Tail(s) \in Seq(T)
    OBVIOUS
  <2> QED
    BY <2>1, <2>2
<1>2. CASE p.type \in {"FIN", "REFUSED"}
  BY <1>2, ClosedType, RaiseType, DropEvtType DEF MqttInput
<1>3. CASE p.type \notin {"FIN", "REFUSED"}
  <2>1. p \in Packet(EventTypes)
    BY <1>1, <1>3
  <2>2. Raise(p, r) /\ net' = [net EXCEPT !.down = Tail(@),
              !.client = IF p.type = "CONNACK" THEN "connected" ELSE @]
    BY <1>3 DEF MqttInput
  <2> QED
    BY <1>1, <2>1, <2>2, RaiseType DEF TypeOK, NetType
<1> QED
  BY <1>2, <1>3

LEMMA PollType ==
  ASSUME TypeOK, NEW r \in BackPcs,
         PollReady(r) \/ PollTimeout(r) \/ PollError(r)
  PROVE  worker' \in WorkerType /\ net' \in NetType
BY InputType, GotoType DEF PollReady, PollTimeout, PollError, TypeOK

LEMMA TrialType ==
  ASSUME NEW n \in 0 .. MaxTrials - 1
  PROVE  NextTrial(n) \in 0 .. MaxTrials - 1
BY ConstantsOK DEF NextTrial

LEMMA NextIdType == \A n \in Ids : (n + 1) % IdMod \in Ids
BY ConstantsOK

LEMMA PublishReturnType ==
  ASSUME NEW m \in MainType, NEW ok \in BOOLEAN,
         m.phase = "auth" => m.authAttempts < MaxAuth
  PROVE  /\ PublishReturn(m, ok) \in MainType
         /\ (PublishReturn(m, ok).phase = "auth"
              /\ PublishReturn(m, ok).pc # "assert")
               => PublishReturn(m, ok).authAttempts < MaxAuth
<1>1. CASE m.phase = "run"
  BY <1>1 DEF PublishReturn, MainType
<1>2. CASE m.phase = "auth" /\ ok
  BY <1>2 DEF PublishReturn, MainType
<1>3. CASE m.phase = "auth" /\ ~ok
  <2>1. /\ MaxAuth \in Nat /\ m.authAttempts \in 0 .. MaxAuth
        /\ m.authAttempts < MaxAuth
    BY <1>3, ConstantsOK DEF MainType
  <2>2. /\ m.authAttempts + 1 \in 0 .. MaxAuth
        /\ m.authAttempts + 1 # MaxAuth => m.authAttempts + 1 < MaxAuth
    BY <2>1
  <2>3. PublishReturn(m, ok)
          = [m EXCEPT !.authAttempts = m.authAttempts + 1,
                      !.pc = IF m.authAttempts + 1 = MaxAuth THEN "assert"
                                                             ELSE "auth"]
    BY <1>3 DEF PublishReturn
  <2> QED
    BY <2>2, <2>3 DEF MainType
<1>4. m.phase \in {"auth", "run"}
  BY DEF MainType
<1> QED
  BY <1>1, <1>2, <1>3, <1>4

-----------------------------------------------------------------------------
(* Type correctness, one group of actions at a time.                        *)

LEMMA ConnectingType == TypeInv /\ Connecting => TypeInv'
<1> SUFFICES ASSUME TypeInv, Connecting PROVE TypeInv'
  OBVIOUS
<1> USE DEF TypeInv, AuthBound
<1>1. CASE WorkerStart
  BY <1>1, GotoType DEF WorkerStart, TypeOK, MwType
<1>2. CASE DnsResolve
  BY <1>2, GotoType DEF DnsResolve, TypeOK, WorkerType
<1>3. CASE Nap
  BY <1>3, GotoType DEF Nap, TypeOK
<1>4. CASE ConnectBegin
  BY <1>4, GotoType DEF ConnectBegin, TypeOK, MwType
<1>5. CASE MqttConnect
  <2>1. worker' \in WorkerType
    BY <1>5, GotoType DEF MqttConnect
  <2>2. main' \in MainType /\ AuthBound'
    BY <1>5 DEF MqttConnect, TypeOK, MainType
  <2>3. <<Pkt("CONNECT")>> \in Seq(Packet(RequestTypes))
    BY DropEvtType
  <2>4. <<>> \in Seq(Packet(DownTypes)) /\ Closed \in NetType
    BY ClosedType
  <2>5. net' = [client |-> IF net.client = "idle" THEN "tcp" ELSE net.client,
                up |-> <<Pkt("CONNECT")>>, down |-> <<>>, answered |-> FALSE,
                leaked |-> net.leaked \/ net.client # "idle"]
        \/ net' = [Closed EXCEPT !.leaked = @ \/ net.client # "idle"]
    BY <1>5 DEF MqttConnect
  <2>6. net.client \in {"idle", "tcp", "connected"}
        /\ (net.leaked \/ net.client # "idle") \in BOOLEAN
    BY DEF TypeOK, NetType
  <2>7. net' \in NetType
    <3> DEFINE l == net.leaked \/ net.client # "idle"
               c == IF net.client = "idle" THEN "tcp" ELSE net.client
    <3>1. l \in BOOLEAN /\ c \in {"idle", "tcp", "connected"}
      BY <2>6
    <3>2. [client |-> c, up |-> <<Pkt("CONNECT")>>, down |-> <<>>,
           answered |-> FALSE, leaked |-> l] \in NetType
      BY <2>3, <2>4, <3>1, NetMade
    <3>3. [Closed EXCEPT !.leaked = l] \in NetType
      BY <2>4, <3>1 DEF NetType
    <3>4. [Closed EXCEPT !.leaked = @ \/ net.client # "idle"]
            = [Closed EXCEPT !.leaked = l]
      BY DEF Closed
    <3> QED
      BY <2>5, <3>2, <3>3, <3>4
  <2> QED
    BY <1>5, <2>1, <2>2, <2>7 DEF MqttConnect, TypeOK
<1>6. CASE ConnectPoll
  BY <1>6, PollType DEF ConnectPoll, TypeOK
<1>7. CASE ConnectCheck
  <2>1. CASE mw.Connected
    <3>1. 0 \in 0 .. MaxTrials - 1
      BY ConstantsOK
    <3> QED
      BY <1>7, <2>1, <3>1 DEF ConnectCheck, TypeOK, WorkerType
  <2>2. CASE ~mw.Connected
    BY <1>7, <2>2, GotoType, RaiseType, DropEvtType, ClosedType
      DEF ConnectCheck, TypeOK
  <2> QED
    BY <2>1, <2>2
<1>8. CASE ConnectFailed
  <2>1. NextTrial(worker.errConn) \in 0 .. MaxTrials - 1
    BY TrialType DEF TypeOK, WorkerType
  <2>2. GiveUp(worker.errConn) \in {"DNS_RESOLVE", "CONNECT_TO_BROKER",
                                   "SUBSCRIBE", "CONNECTED"}
    BY DEF GiveUp, TypeOK, WorkerType
  <2> QED
    BY <1>8, <2>1, <2>2 DEF ConnectFailed, TypeOK, WorkerType
<1> QED
  BY <1>1, <1>2, <1>3, <1>4, <1>5, <1>6, <1>7, <1>8 DEF Connecting

LEMMA SubscribingType == TypeInv /\ Subscribing => TypeInv'
<1> SUFFICES ASSUME TypeInv, Subscribing PROVE TypeInv'
  OBVIOUS
<1> USE DEF TypeInv, AuthBound
<1>1. CASE SubscribeBegin
  <2>1. mw' \in MwType
    BY <1>1 DEF SubscribeBegin, TypeOK, MwType
  <2>2. Pkt("SUBSCRIBE") \in Packet(RequestTypes)
    BY DropEvtType
  <2>3. worker' \in WorkerType /\ net' \in NetType
    BY <1>1, <2>2, GotoType, WrittenType, BrokenType
      DEF SubscribeBegin, TypeOK
  <2> QED
    BY <1>1, <2>1, <2>3 DEF SubscribeBegin, TypeOK
<1>2. CASE SubscribeWait
  BY <1>2, GotoType DEF SubscribeWait, TypeOK, MwType
<1>3. CASE SubscribePoll
  BY <1>3, InputType, GotoType
    DEF SubscribePoll, PollReady, PollTimeout, PollError, TypeOK
<1>4. CASE SubscribeCheck
  BY <1>4, GotoType DEF SubscribeCheck, TypeOK
<1>5. CASE SubscribeReturn
  <2>1. 0 \in 0 .. MaxTrials - 1
    BY ConstantsOK
  <2>2. worker' = [worker EXCEPT !.pc = "input", !.errSub = 0,
                                 !.StateMachine = "CONNECTED"]
        \/ Goto("sub_failed")
    BY <1>5 DEF SubscribeReturn
  <2>3. CASE Goto("sub_failed")
    BY <1>5, <2>3, GotoType DEF SubscribeReturn, TypeOK
  <2>4. [worker EXCEPT !.pc = "input", !.errSub = 0,
                       !.StateMachine = "CONNECTED"] \in WorkerType
    BY <2>1 DEF TypeOK, WorkerType
  <2> QED
    BY <1>5, <2>2, <2>3, <2>4 DEF SubscribeReturn, TypeOK
<1>6. CASE SubscribeFailed
  <2>1. NextTrial(worker.errSub) \in 0 .. MaxTrials - 1
    BY TrialType DEF TypeOK, WorkerType
  <2>2. GiveUp(worker.errSub) \in {"DNS_RESOLVE", "CONNECT_TO_BROKER",
                                  "SUBSCRIBE", "CONNECTED"}
    BY DEF GiveUp, TypeOK, WorkerType
  <2> QED
    BY <1>6, <2>1, <2>2 DEF SubscribeFailed, TypeOK, WorkerType
<1> QED
  BY <1>1, <1>2, <1>3, <1>4, <1>5, <1>6 DEF Subscribing

LEMMA ServingType == TypeInv /\ Serving => TypeInv'
<1> SUFFICES ASSUME TypeInv, Serving PROVE TypeInv'
  OBVIOUS
<1> USE DEF TypeInv, AuthBound
<1>1. CASE InputLive
  <2>1. Pkt("PINGREQ") \in Packet(RequestTypes)
        /\ Pkt("DISCONNECT") \in Packet(EventTypes)
    BY DropEvtType
  <2>2. worker' \in WorkerType
    <3> DEFINE w == [worker EXCEPT !.pc = "loop",
                                   !.aliveDue = (PingPeriodSec = 0)]
    <3>1. w \in WorkerType
      BY DEF TypeOK, WorkerType
    <3>2. worker' = w
          \/ worker' = [w EXCEPT !.pc = "evt", !.evt = Pkt("DISCONNECT")]
      BY <1>1 DEF InputLive
    <3> HIDE DEF w
    <3> QED
      BY <2>1, <3>1, <3>2 DEF WorkerType
  <2>3. net' \in NetType
    BY <1>1, <2>1, WrittenType, ClosedType DEF InputLive, TypeOK
  <2> QED
    BY <1>1, <2>2, <2>3 DEF InputLive, TypeOK
<1>2. CASE InputWait
  BY <1>2, GotoType DEF InputWait, TypeOK
<1>3. CASE InputPoll
  BY <1>3, PollType DEF InputPoll, TypeOK
<1>4. CASE InputCheck
  <2>1. CASE ~mw.Connected
    BY <1>4, <2>1 DEF InputCheck, TypeOK, WorkerType
  <2>2. CASE mw.Connected
    BY <1>4, <2>2, GotoType, BrokenType DEF InputCheck, TypeOK
  <2> QED
    BY <2>1, <2>2
<1>5. CASE Bye
  BY <1>5 DEF Bye, TypeOK, WorkerType, MwType
<1> QED
  BY <1>1, <1>2, <1>3, <1>4, <1>5 DEF Serving

LEMMA HandlingType == TypeInv /\ Handling => TypeInv'
<1> SUFFICES ASSUME TypeInv, Handling PROVE TypeInv'
  OBVIOUS
<1> USE DEF TypeInv, AuthBound
<1>1. 0 \in Ids
  BY DropEvtType
<1>2. worker.evt.id \in Ids /\ 0 \in 0 .. MaxPingNoAns + 1
  BY ConstantsOK DEF TypeOK, WorkerType
<1>3. CASE OnRefused \/ OnSuback \/ OnPuback \/ OnPingresp \/ OnPublish
  <2>1. worker' \in WorkerType /\ net' \in NetType
    BY <1>1, <1>3, ReturnType, UndecodedType
      DEF OnRefused, OnSuback, OnPuback, OnPingresp, OnPublish, TypeOK
  <2>2. mw' \in MwType
    <3>1. mw.ackIds \cup {worker.evt.id} \in SUBSET Ids
      BY <1>2 DEF TypeOK, MwType
    <3>2. mw \in MwType
      BY DEF TypeOK
    <3>3. CASE OnPuback
      <4> HIDE DEF Ids
      <4> QED
        BY <3>1, <3>2, <3>3 DEF OnPuback, MwType
    <3>4. CASE OnRefused \/ OnSuback \/ OnPingresp \/ OnPublish
      BY <1>2, <3>2, <3>4 DEF OnRefused, OnSuback, OnPingresp, OnPublish, MwType
    <3> QED
      BY <1>3, <3>3, <3>4
  <2> QED
    BY <1>3, <2>1, <2>2
      DEF OnRefused, OnSuback, OnPuback, OnPingresp, OnPublish, TypeOK
<1>4. CASE OnConnack \/ OnDisconnect
  BY <1>4, GotoType DEF OnConnack, OnDisconnect, TypeOK, MwType
<1>5. CASE OnConnackDone \/ OnDisconnectDone
  BY <1>1, <1>2, <1>5, ReturnType
    DEF OnConnackDone, OnDisconnectDone, TypeOK, MwType
<1> QED
  BY <1>3, <1>4, <1>5 DEF Handling

LEMMA MainStepType == TypeInv /\ MainStep => TypeInv'
<1> SUFFICES ASSUME TypeInv, MainStep PROVE TypeInv'
  OBVIOUS
<1> USE DEF TypeInv
<1>1. /\ main \in MainType /\ mw \in MwType
      /\ main.phase = "auth" /\ main.pc # "assert"
           => main.authAttempts < MaxAuth
  BY DEF TypeOK, AuthBound
<1>2. CASE InitWorker \/ FirstConnected \/ NothingToPublish
  BY <1>2 DEF InitWorker, FirstConnected, NothingToPublish,
              TypeOK, AuthBound, MainType, MwType
<1>3. CASE FirstConnSecond
  <2>1. main.secCnt + 1 # FirstConnTimeout
          => main.secCnt + 1 \in 0 .. FirstConnTimeout - 1
    BY <1>1, ConstantsOK DEF MainType
  <2> QED
    BY <1>3, <2>1 DEF FirstConnSecond, TypeOK, AuthBound, MainType
<1>4. CASE TimestampInit
  BY <1>4, RebootType DEF TimestampInit, TypeOK, AuthBound, MainType
<1>5. CASE PublishRefused
  BY <1>1, <1>5, PublishReturnType DEF PublishRefused, TypeOK, AuthBound
<1>6. CASE PublishSend
  <2> DEFINE m == [main EXCEPT !.messageId = (@ + 1) % IdMod]
             p == [type |-> "PUBLISH", id |-> m.messageId]
  <2>1. /\ m \in MainType /\ m.phase = main.phase
        /\ m.authAttempts = main.authAttempts
        /\ main.pc # "assert" /\ p \in Packet(RequestTypes)
    BY <1>1, <1>6, NextIdType DEF PublishSend, MainType
  <2>2. /\ PublishReturn(m, FALSE) \in MainType
        /\ (PublishReturn(m, FALSE).phase = "auth"
             /\ PublishReturn(m, FALSE).pc # "assert")
              => PublishReturn(m, FALSE).authAttempts < MaxAuth
    BY <1>1, <2>1, PublishReturnType
  <2>3. main' = PublishReturn(m, FALSE) \/ main' = [m EXCEPT !.pc = "wait_ack"]
    BY <1>6 DEF PublishSend
  <2>4. main' \in MainType /\ AuthBound'
    BY <1>1, <2>1, <2>2, <2>3 DEF MainType, AuthBound
  <2>5. mw' \in MwType
    BY <1>1, <1>6 DEF PublishSend, Drained, AckTaken, MwType
  <2>6. net' \in NetType
    BY <1>6, <2>1, WrittenType, ClosedType DEF PublishSend, TypeOK
  <2> QED
    BY <1>6, <2>4, <2>5, <2>6 DEF PublishSend, TypeOK
<1>7. CASE PublishAcked
  BY <1>1, <1>7, PublishReturnType DEF PublishAcked, Drained, AckTaken, TypeOK, AuthBound, MwType
<1>8. CASE PublishTimeout
  <2> DEFINE m == [main EXCEPT !.timedOut = TRUE]
  <2>1. m \in MainType /\ m.phase = main.phase
        /\ m.authAttempts = main.authAttempts
    BY <1>1 DEF MainType
  <2> QED
    BY <1>1, <1>8, <2>1, PublishReturnType DEF PublishTimeout, TypeOK, AuthBound
<1>9. CASE KeepaliveTest
  BY <1>9, RebootType DEF KeepaliveTest, TypeOK, AuthBound, MainType
<1>10. CASE AssertFailed
  BY <1>10, RebootType DEF AssertFailed
<1> QED
  BY <1>2, <1>3, <1>4, <1>5, <1>6, <1>7, <1>8, <1>9, <1>10 DEF MainStep

LEMMA EnvironmentType == TypeInv /\ Environment => TypeInv'
<1> SUFFICES ASSUME TypeInv, Environment PROVE TypeInv'
  OBVIOUS
<1> USE DEF TypeInv, AuthBound
<1>1. CASE WatchdogReset
  BY <1>1, RebootType DEF WatchdogReset
<1>2. CASE BrokerAnswer
  <2>1. net.up \in Seq(Packet(RequestTypes)) /\ net.up # <<>>
        /\ net.down \in Seq(Packet(DownTypes))
    BY <1>2 DEF BrokerAnswer, TypeOK, NetType
  <2>2. \A T : \A s \in Seq(T) :
          s # <<>> => Head(s) \in T /\ Tail(s) \in Seq(T)
    OBVIOUS
  <2>3. Head(net.up) \in Packet(RequestTypes)
        /\ Tail(net.up) \in Seq(Packet(RequestTypes))
    BY <2>1, <2>2
  <2>4. \A a \in Answer(Head(net.up)) : a \in Packet(DownTypes)
    BY <2>3, DropEvtType DEF Answer
  <2>5. \A a \in Packet(DownTypes) :
          Append(net.down, a) \in Seq(Packet(DownTypes))
    BY <2>1
  <2>6. PICK a \in Answer(Head(net.up)) :
          net' = [net EXCEPT !.up = Tail(@), !.down = Append(@, a),
                             !.answered = @ \/ a.type = "SUBACK"]
    BY <1>2 DEF BrokerAnswer
  <2>7. Append(net.down, a) \in Seq(Packet(DownTypes))
    BY <2>4, <2>5
  <2>8. net' \in NetType
    BY <2>3, <2>6, <2>7 DEF TypeOK, NetType
  <2> QED
    BY <1>2, <2>8 DEF BrokerAnswer, TypeOK
<1>3. CASE BrokerSend
  <2>1. Pkt("PUBLISH") \in Packet(DownTypes) /\ Pkt("FIN") \in Packet(DownTypes)
    BY DropEvtType
  <2>2. \A a \in Packet(DownTypes) :
          Append(net.down, a) \in Seq(Packet(DownTypes))
    BY DEF TypeOK, NetType
  <2> QED
    BY <1>3, <2>1, <2>2 DEF BrokerSend, TypeOK, NetType
<1>4. CASE WifiDrop
  BY <1>4 DEF WifiDrop, TypeOK, MwType
<1>5. CASE Tick
  BY <1>5, ConstantsOK DEF Tick, TypeOK, MwType
<1>6. CASE PingPeriodEnds
  BY <1>6 DEF PingPeriodEnds, TypeOK, WorkerType
<1> QED
  BY <1>1, <1>2, <1>3, <1>4, <1>5, <1>6 DEF Environment

LEMMA TypeInit == Init => TypeInv
BY BootType DEF Init, TypeInv, TypeOK, AuthBound, MainBoot

LEMMA TypeStep == TypeInv /\ [Next]_vars => TypeInv'
<1>1. TypeInv /\ UNCHANGED vars => TypeInv'
  BY DEF TypeInv, TypeOK, AuthBound, vars
<1> QED
  BY <1>1, ConnectingType, SubscribingType, ServingType, HandlingType,
     MainStepType, EnvironmentType DEF Next, WorkerStep

(* Every variable keeps its type in every reachable state, whatever the     *)
(* bounds: in particular no counter of the worker or of wlab_init leaves    *)
(* the range its code compares it with.                                     *)
THEOREM TypeCorrect == Spec => []TypeOK
<1>1. Spec => []TypeInv
  BY TypeInit, TypeStep, PTL DEF Spec
<1> QED
  BY <1>1, PTL DEF TypeInv
=============================================================================
