--------------------------- MODULE MqttWorkerSafety ---------------------------
(* The safety invariants of MqttWorker, for every value of its constants.   *)
(* None of them is inductive.  The strengthening has five parts, each       *)
(* resting on the ones before it: where the worker may be (Places), which   *)
(* connection it is then over (Session), what the first release of main     *)
(* means (Released), whose ack is in flight (Acks) and whose subscription   *)
(* is remembered (Subs).                                                    *)
EXTENDS MqttWorkerProofs, SequenceTheorems

(* The packets of a queue whose type is in T: none, or no two.              *)
Any(q, T) == \E i \in DOMAIN q : q[i].type \in T
One(q, T) == \A i, j \in DOMAIN q :
               q[i].type \in T /\ q[j].type \in T => i = j
Bears(q, T, n) == \A i \in DOMAIN q : q[i].type \in T => q[i].id = n

InHandler  == worker.pc \in {"evt", "connack2", "disc2"}
Handshaken == {"CONNACK", "REFUSED"}

(* A call into the library is recorded only while the handler runs for it;  *)
(* connect_to_broker runs in its own state, and without a subscription list *)
(* the subscribing states are passed through and input_handle is reached in *)
(* the CONNECTED state alone.                                               *)
Places ==
  /\ ~InHandler => worker.back = "loop"
  /\ (worker.pc \in {"mqtt_connect", "conn_poll", "conn_check", "conn_failed"}
        \/ worker.back \in {"conn_check", "conn_failed"})
       => worker.StateMachine = "CONNECT_TO_BROKER"
  /\ ~HasSubs =>
       /\ worker.pc \notin {"sub_wait", "sub_poll", "sub_check", "sub_retN",
                            "sub_failed"}
       /\ worker.back \notin {"sub_check", "sub_failed"}
       /\ (worker.pc \in {"input", "poll", "in_check", "bye"}
             \/ worker.back \in {"in_check", "bye"}
             \/ (InHandler /\ worker.back = "loop"))
            => worker.StateMachine = "CONNECTED"

(* The connection is being opened: the CONNECT or its answer is under way,  *)
(* or the library waits for it.                                             *)
Opening == \/ net.client = "tcp" \/ Any(net.up, {"CONNECT"})
           \/ Any(net.down, Handshaken)

Session ==
  /\ net.client = "idle" => net.up = <<>> /\ net.down = <<>>
  /\ One(net.up, {"CONNECT"}) /\ One(net.down, Handshaken)
  /\ ~(Any(net.up, {"CONNECT"}) /\ Any(net.down, Handshaken))
  /\ Opening => /\ ~mw.Connected
                /\ \/ worker.pc \in {"conn_poll", "conn_check"}
                   \/ worker.pc = "evt" /\ worker.back = "conn_check"
  /\ Pending("CONNACK") => /\ net.client = "connected" /\ ~mw.Connected
                           /\ ~Opening /\ worker.back = "conn_check"
  /\ (\/ Pending("DISCONNECT") \/ Pending("REFUSED")
      \/ worker.pc \in {"disc2", "bye", "conn_failed"}
      \/ worker.back \in {"bye", "conn_failed"}) => net.client = "idle"
  /\ worker.pc = "mqtt_connect" => ~mw.Connected
  /\ SessionAgreement
  /\ (~HasSubs /\ net.client # "idle"
      /\ worker.StateMachine \in {"DNS_RESOLVE", "CONNECT_TO_BROKER"})
       => worker.pc \in {"conn_poll", "conn_check"} \/ worker.back = "conn_check"
  /\ NoSocketLeak

Released ==
  /\ main.pc = "boot" => /\ worker.pc = "wait_start"
                         /\ mw.ConectedAckSem = 0
  /\ (main.pc = "first_conn"
      /\ (worker.pc = "connack2" \/ mw.ConectedAckSem = 1))
       => mw.Connected /\ net.client = "connected"

(* The publications of this session that are not yet acknowledged.          *)
Unacked == \/ Any(net.up, {"PUBLISH"}) \/ Any(net.down, {"PUBACK"})
           \/ Pending("PUBACK")

Acks ==
  /\ mw.PublishAckSem = 1 <=> mw.ackIds # {}
  /\ (~main.timedOut /\ main.pc # "wait_ack") => ~Unacked
  /\ (~main.timedOut /\ main.pc = "wait_ack") =>
       /\ One(net.up, {"PUBLISH"}) /\ One(net.down, {"PUBACK"})
       /\ ~(Any(net.up, {"PUBLISH"}) /\ Any(net.down, {"PUBACK"}))
       /\ Pending("PUBACK") => /\ ~Any(net.up, {"PUBLISH"})
                               /\ ~Any(net.down, {"PUBACK"})
                               /\ worker.evt.id = main.messageId
       /\ Bears(net.up, {"PUBLISH"}, main.messageId)
       /\ Bears(net.down, {"PUBACK"}, main.messageId)
       /\ mw.ackIds # {} => ~Unacked /\ mw.ackIds = {main.messageId}

(* subscribe has been called in this session, and cleared the flag.         *)
AfterSubscribe ==
  \/ worker.StateMachine = "CONNECTED"
  \/ worker.pc \in {"sub_wait", "sub_poll", "sub_check", "sub_ret0",
                    "sub_retN", "sub_failed"}
  \/ worker.back \in {"sub_check", "sub_failed"}

Subs ==
  /\ Any(net.down, {"SUBACK"}) => net.answered
  /\ Pending("SUBACK") => net.answered \/ net.client = "idle"
  /\ (mw.Subscribed /\ AfterSubscribe /\ net.client = "connected")
       => net.answered
  /\ ~HasSubs => /\ ~mw.Subscribed /\ ~Pending("SUBACK")
                 /\ ~Any(net.up, {"SUBSCRIBE"}) /\ ~Any(net.down, {"SUBACK"})

-----------------------------------------------------------------------------
(* Fields after a step of the worker.                                       *)

LEMMA GotoFields ==
  ASSUME TypeOK, NEW l, Goto(l)
  PROVE  /\ worker'.pc = l /\ worker'.evt = worker.evt
         /\ worker'.back = worker.back
         /\ worker'.StateMachine = worker.StateMachine
BY DEF TypeOK, WorkerType, Goto

LEMMA RaiseFields ==
  ASSUME TypeOK, NEW e, NEW r, Raise(e, r)
  PROVE  /\ worker'.pc = "evt" /\ worker'.evt = e /\ worker'.back = r
         /\ worker'.StateMachine = worker.StateMachine
BY DEF TypeOK, WorkerType, Raise

LEMMA UndecodedFields ==
  ASSUME TypeOK, Undecoded
  PROVE  /\ net' = Closed /\ worker'.pc = "evt" /\ worker'.evt = DropEvt
         /\ worker'.back = worker.back /\ worker.back \in BackPcs
         /\ worker'.StateMachine = worker.StateMachine
         /\ DropEvt.type \in {"DISCONNECT", "REFUSED"}
BY RaiseFields DEF Undecoded, DropEvt, Pkt, TypeOK, WorkerType

LEMMA ReturnFields ==
  ASSUME TypeOK, Return
  PROVE  /\ worker'.pc = worker.back /\ worker'.evt = NoEvt
         /\ worker'.back = "loop" /\ worker.back \in BackPcs
         /\ worker'.StateMachine = worker.StateMachine
BY DEF TypeOK, WorkerType, Return

LEMMA PollFields ==
  ASSUME TypeOK, NEW r, PollReady(r)
  PROVE  /\ \/ worker'.pc = "evt" /\ worker'.back = r
            \/ worker'.pc = r /\ worker'.back = worker.back
         /\ worker'.StateMachine = worker.StateMachine
BY GotoFields, RaiseFields DEF PollReady, MqttInput

LEMMA PlacesConnecting == TypeOK /\ Places /\ Connecting => Places'
<1> SUFFICES ASSUME TypeOK, Places, Connecting PROVE Places'
  OBVIOUS
<1> USE DEF Places, InHandler
<1>1. CASE WorkerStart
  BY <1>1, GotoFields DEF WorkerStart
<1>2. CASE DnsResolve
  BY <1>2, GotoFields DEF DnsResolve, At, TypeOK, WorkerType
<1>3. CASE Nap
  BY <1>3, GotoFields DEF Nap
<1>4. CASE ConnectBegin
  BY <1>4, GotoFields DEF ConnectBegin, At
<1>5. CASE MqttConnect
  BY <1>5, GotoFields DEF MqttConnect
<1>6. CASE ConnectPoll
  BY <1>6, GotoFields, PollFields DEF ConnectPoll, PollTimeout, PollError
<1>7. CASE ConnectCheck
  <2>1. CASE worker' = [worker EXCEPT !.pc = "loop", !.errConn = 0,
                                      !.StateMachine = "SUBSCRIBE"]
    BY <1>7, <2>1 DEF ConnectCheck, TypeOK, WorkerType
  <2>2. CASE Raise(DropEvt, "conn_failed") \/ Goto("conn_failed")
    BY <1>7, <2>2, GotoFields, RaiseFields DEF ConnectCheck
  <2> QED
    BY <1>7, <2>1, <2>2 DEF ConnectCheck
<1>8. CASE ConnectFailed
  BY <1>8 DEF ConnectFailed, TypeOK, WorkerType
<1> QED
  BY <1>1, <1>2, <1>3, <1>4, <1>5, <1>6, <1>7, <1>8 DEF Connecting

LEMMA PlacesSubscribing == TypeOK /\ Places /\ Subscribing => Places'
<1> SUFFICES ASSUME TypeOK, Places, Subscribing PROVE Places'
  OBVIOUS
<1> USE DEF Places, InHandler
<1>1. CASE SubscribeBegin
  BY <1>1, GotoFields, RaiseFields DEF SubscribeBegin, At, Broken
<1>2. CASE SubscribeWait
  BY <1>2, GotoFields DEF SubscribeWait
<1>3. CASE SubscribePoll
  BY <1>3, GotoFields, PollFields DEF SubscribePoll, PollTimeout, PollError
<1>4. CASE SubscribeCheck
  BY <1>4, GotoFields DEF SubscribeCheck
<1>5. CASE SubscribeReturn
  <2>1. CASE worker' = [worker EXCEPT !.pc = "input", !.errSub = 0,
                                      !.StateMachine = "CONNECTED"]
    BY <1>5, <2>1 DEF SubscribeReturn, TypeOK, WorkerType
  <2>2. CASE worker.pc = "sub_retN" /\ Goto("sub_failed")
    BY <1>5, <2>2, GotoFields
  <2> QED
    BY <1>5, <2>1, <2>2 DEF SubscribeReturn
<1>6. CASE SubscribeFailed
  BY <1>6 DEF SubscribeFailed, TypeOK, WorkerType
<1> QED
  BY <1>1, <1>2, <1>3, <1>4, <1>5, <1>6 DEF Subscribing

LEMMA PlacesServing == TypeOK /\ Places /\ Serving => Places'
<1> SUFFICES ASSUME TypeOK, Places, Serving PROVE Places'
  OBVIOUS
<1> USE DEF Places, InHandler
<1>1. CASE InputLive
  <2> DEFINE w == [worker EXCEPT !.pc = "loop",
                                 !.aliveDue = (PingPeriodSec = 0)]
  <2>1. worker' = w
        \/ worker' = [w EXCEPT !.pc = "evt", !.evt = Pkt("DISCONNECT")]
    BY <1>1 DEF InputLive
  <2>2. /\ worker'.pc \in {"loop", "evt"} /\ worker'.back = worker.back
        /\ worker'.StateMachine = worker.StateMachine
    BY <2>1 DEF TypeOK, WorkerType
  <2>3. AtInput
    BY <1>1 DEF InputLive
  <2> QED
    BY <2>2, <2>3 DEF AtInput, At
<1>2. CASE InputWait
  BY <1>2, GotoFields DEF InputWait, AtInput, At
<1>3. CASE InputPoll
  BY <1>3, GotoFields, PollFields DEF InputPoll, PollTimeout, PollError
<1>4. CASE InputCheck
  <2>1. CASE worker' = [worker EXCEPT !.pc = "loop",
                                      !.StateMachine = "DNS_RESOLVE"]
    BY <1>4, <2>1 DEF InputCheck, TypeOK, WorkerType
  <2>2. CASE Broken("bye") \/ Goto("bye") \/ Goto("loop")
    BY <1>4, <2>2, GotoFields, RaiseFields DEF InputCheck, Broken
  <2> QED
    BY <1>4, <2>1, <2>2 DEF InputCheck
<1>5. CASE Bye
  BY <1>5 DEF Bye, TypeOK, WorkerType
<1> QED
  BY <1>1, <1>2, <1>3, <1>4, <1>5 DEF Serving

LEMMA HandlingFields ==
  ASSUME TypeOK, Handling
  PROVE  /\ \/ worker'.pc = worker.back /\ worker'.back = "loop"
            \/ InHandler' /\ worker'.back = worker.back
         /\ InHandler /\ worker.back \in BackPcs
         /\ worker'.StateMachine = worker.StateMachine
<1>1. CASE OnRefused \/ OnConnackDone \/ OnDisconnectDone \/ OnPingresp
  BY <1>1, ReturnFields
    DEF OnRefused, OnConnackDone, OnDisconnectDone, OnPingresp, Got, InHandler
<1>2. CASE OnConnack \/ OnDisconnect
  BY <1>2, GotoFields
    DEF OnConnack, OnDisconnect, Got, InHandler, TypeOK, WorkerType
<1>3. CASE OnSuback \/ OnPuback \/ OnPublish
  BY <1>3, ReturnFields, UndecodedFields
    DEF OnSuback, OnPuback, OnPublish, Got, InHandler, TypeOK, WorkerType
<1> QED
  BY <1>1, <1>2, <1>3 DEF Handling

LEMMA PlacesStep == TypeOK /\ Places /\ [Next]_vars => Places'
<1> SUFFICES ASSUME TypeOK, Places, [Next]_vars PROVE Places'
  OBVIOUS
<1>1. CASE Handling
  BY <1>1, HandlingFields DEF Places, InHandler, BackPcs
<1>2. CASE UNCHANGED worker
  BY <1>2 DEF Places, InHandler
<1>3. CASE Reboot
  BY <1>3 DEF Reboot, WorkerBoot, Places, InHandler
<1>4. CASE PingPeriodEnds
  BY <1>4 DEF PingPeriodEnds, Places, InHandler, TypeOK, WorkerType
<1>5. CASE MainStep \/ Environment
  BY <1>2, <1>3, <1>4, <1>5
    DEF MainStep, InitWorker, FirstConnected, FirstConnSecond, TimestampInit,
        PublishRefused, PublishSend, PublishAcked, PublishTimeout,
        NothingToPublish, KeepaliveTest, AssertFailed, Environment,
        WatchdogReset, BrokerAnswer, BrokerSend, WifiDrop, Tick
<1> QED
  BY <1>1, <1>2, <1>5, PlacesConnecting, PlacesSubscribing, PlacesServing
    DEF Next, WorkerStep, vars

-----------------------------------------------------------------------------
(* What the queues hold after a packet is added or taken.                   *)

LEMMA AnyEmpty == \A T, n : ~Any(<<>>, T) /\ One(<<>>, T) /\ Bears(<<>>, T, n)
BY DEF Any, One, Bears

LEMMA AnySingle ==
  ASSUME NEW p, NEW T
  PROVE  (Any(<<p>>, T) <=> p.type \in T) /\ One(<<p>>, T)
<1>1. DOMAIN <<p>> = {1} /\ <<p>>[1] = p
  OBVIOUS
<1> QED
  BY <1>1 DEF Any, One

LEMMA AnyAppend ==
  ASSUME NEW S, NEW q \in Seq(S), NEW p \in S, NEW T, NEW n
  PROVE  /\ Any(Append(q, p), T) <=> Any(q, T) \/ p.type \in T
         /\ (One(q, T) /\ ~(Any(q, T) /\ p.type \in T)) => One(Append(q, p), T)
         /\ (Bears(q, T, n) /\ (p.type \in T => p.id = n))
              => Bears(Append(q, p), T, n)
<1> DEFINE r == Append(q, p)
<1>1. /\ Len(q) \in Nat /\ DOMAIN q = 1 .. Len(q)
      /\ r \in Seq(S) /\ Len(r) = Len(q) + 1 /\ DOMAIN r = 1 .. Len(q) + 1
      /\ \A i \in 1 .. Len(q) : r[i] = q[i]
      /\ r[Len(q) + 1] = p
  BY AppendProperties, LenProperties
<1> HIDE DEF r
<1>2. DOMAIN r = DOMAIN q \cup {Len(q) + 1} /\ Len(q) + 1 \notin DOMAIN q
  BY <1>1
<1> QED
  BY <1>1, <1>2 DEF Any, One, Bears, r

LEMMA AnyTail ==
  ASSUME NEW S, NEW q \in Seq(S), q # <<>>, NEW T, NEW n
  PROVE  /\ Any(q, T) <=> Any(Tail(q), T) \/ Head(q).type \in T
         /\ One(q, T) => /\ One(Tail(q), T)
                         /\ ~(Any(Tail(q), T) /\ Head(q).type \in T)
         /\ Bears(q, T, n) => /\ Bears(Tail(q), T, n)
                              /\ Head(q).type \in T => Head(q).id = n
<1> DEFINE r == Tail(q)
           k == Len(q)
<1>1. /\ k \in Nat \ {0} /\ DOMAIN q = 1 .. k
      /\ r \in Seq(S) /\ Len(r) = k - 1 /\ DOMAIN r = 1 .. k - 1
      /\ \A i \in 1 .. k - 1 : r[i] = q[i + 1]
      /\ Head(q) = q[1]
  BY HeadTailProperties, LenProperties, EmptySeq
<1> HIDE DEF r, k
<1>2. \A i \in DOMAIN r : i + 1 \in DOMAIN q /\ r[i] = q[i + 1] /\ i + 1 # 1
  BY <1>1
<1>3. 1 \in DOMAIN q /\ \A j \in DOMAIN q :
                          j = 1 \/ (j - 1 \in DOMAIN r /\ q[j] = r[j - 1])
  BY <1>1
<1>4. \A i, j \in DOMAIN r : i + 1 = j + 1 => i = j
  BY <1>1
<1>5. Any(q, T) <=> Any(r, T) \/ Head(q).type \in T
  BY <1>1, <1>2, <1>3 DEF Any
<1>6. One(q, T) => One(r, T) /\ ~(Any(r, T) /\ Head(q).type \in T)
  BY <1>1, <1>2, <1>3, <1>4 DEF Any, One
<1>7. Bears(q, T, n) => Bears(r, T, n) /\ (Head(q).type \in T => Head(q).id = n)
  BY <1>1, <1>2, <1>3 DEF Bears
<1> QED
  BY <1>5, <1>6, <1>7 DEF r

LEMMA ClosedFields ==
  ASSUME TypeOK, net' = Closed
  PROVE  /\ net'.client = "idle" /\ net'.up = <<>> /\ net'.down = <<>>
         /\ ~net'.answered /\ net'.leaked = net.leaked
         /\ \A T, n : /\ ~Any(net'.up, T) /\ One(net'.up, T)
                      /\ ~Any(net'.down, T) /\ One(net'.down, T)
                      /\ Bears(net'.up, T, n) /\ Bears(net'.down, T, n)
<1>1. /\ net'.client = "idle" /\ net'.up = <<>> /\ net'.down = <<>>
      /\ ~net'.answered /\ net'.leaked = net.leaked
  BY DEF Closed, TypeOK, NetType
<1> QED
  BY <1>1, AnyEmpty, Zenon

LEMMA WrittenFields ==
  ASSUME TypeOK, NEW p \in Packet(RequestTypes), net' = Written(p)
  PROVE  /\ net'.client = net.client /\ net'.down = net.down
         /\ net'.answered = net.answered /\ net'.leaked = net.leaked
         /\ \A T, n :
              /\ Any(net'.up, T) <=> Any(net.up, T) \/ p.type \in T
              /\ (One(net.up, T) /\ ~(Any(net.up, T) /\ p.type \in T))
                   => One(net'.up, T)
              /\ (Bears(net.up, T, n) /\ (p.type \in T => p.id = n))
                   => Bears(net'.up, T, n)
<1>1. /\ net'.client = net.client /\ net'.down = net.down
      /\ net'.answered = net.answered /\ net'.leaked = net.leaked
      /\ net'.up = Append(net.up, p)
      /\ net.up \in Seq(Packet(RequestTypes))
  BY DEF Written, TypeOK, NetType
<1>2. ASSUME NEW T, NEW n
      PROVE  /\ Any(net'.up, T) <=> Any(net.up, T) \/ p.type \in T
             /\ (One(net.up, T) /\ ~(Any(net.up, T) /\ p.type \in T))
                  => One(net'.up, T)
             /\ (Bears(net.up, T, n) /\ (p.type \in T => p.id = n))
                  => Bears(net'.up, T, n)
  <2> DEFINE q == net.up
             r == Append(q, p)
  <2>1. q \in Seq(Packet(RequestTypes))
    BY <1>1
  <2> HIDE DEF q
  <2>2. /\ Any(r, T) <=> Any(q, T) \/ p.type \in T
        /\ (One(q, T) /\ ~(Any(q, T) /\ p.type \in T)) => One(r, T)
        /\ (Bears(q, T, n) /\ (p.type \in T => p.id = n)) => Bears(r, T, n)
    BY <2>1, AnyAppend
  <2>3. net'.up = r
    BY <1>1 DEF q
  <2> QED
    BY <2>2, <2>3 DEF q
<1> QED
  BY <1>1, <1>2

(* mqtt_input drops the session, or takes one packet as the event.          *)
Taken(p) ==
  /\ net'.client = IF p.type = "CONNACK" THEN "connected" ELSE net.client
  /\ net'.up = net.up /\ net'.answered = net.answered
  /\ net'.leaked = net.leaked
  /\ net.client = "idle" => net.down # <<>>
  /\ \A T, n : /\ Any(net.down, T) <=> Any(net'.down, T) \/ p.type \in T
               /\ One(net.down, T) => /\ One(net'.down, T)
                                      /\ ~(Any(net'.down, T) /\ p.type \in T)
               /\ Bears(net.down, T, n) => /\ Bears(net'.down, T, n)
                                           /\ p.type \in T => p.id = n

LEMMA InputFields ==
  ASSUME TypeOK, NEW r, MqttInput(r)
  PROVE  \/ net' = Closed /\ Raise(DropEvt, r)
         \/ \E p \in Packet(EventTypes \ {"DISCONNECT", "REFUSED"}) :
              Raise(p, r) /\ Taken(p)
<1> DEFINE p == Head(net.down)
<1>1. net.down \in Seq(Packet(DownTypes)) /\ net.down # <<>>
  BY DEF TypeOK, NetType, MqttInput
<1>2. p \in Packet(DownTypes)
  BY <1>1, HeadTailProperties
<1>3. CASE p.type \in {"FIN", "REFUSED"}
  BY <1>3 DEF MqttInput
<1>4. CASE p.type \notin {"FIN", "REFUSED"}
  <2>1. p \in Packet(EventTypes \ {"DISCONNECT", "REFUSED"})
    BY <1>2, <1>4 DEF Packet, DownTypes, EventTypes
  <2>2. Raise(p, r) /\ net' = [net EXCEPT !.down = Tail(@),
              !.client = IF p.type = "CONNACK" THEN "connected" ELSE @]
    BY <1>4 DEF MqttInput
  <2>3. /\ net'.client = IF p.type = "CONNACK" THEN "connected" ELSE net.client
        /\ net'.up = net.up /\ net'.answered = net.answered
        /\ net'.leaked = net.leaked /\ net'.down = Tail(net.down)
    BY <2>2 DEF TypeOK, NetType
  <2>4. ASSUME NEW T, NEW n
        PROVE  /\ Any(net.down, T) <=> Any(net'.down, T) \/ p.type \in T
               /\ One(net.down, T) => /\ One(net'.down, T)
                                      /\ ~(Any(net'.down, T) /\ p.type \in T)
               /\ Bears(net.down, T, n) => /\ Bears(net'.down, T, n)
                                           /\ p.type \in T => p.id = n
    <3> DEFINE q == net.down
               s == Tail(q)
               h == Head(q)
    <3>1. q \in Seq(Packet(DownTypes)) /\ q # <<>>
      BY <1>1
    <3> HIDE DEF q
    <3>2. /\ Any(q, T) <=> Any(s, T) \/ h.type \in T
          /\ One(q, T) => One(s, T) /\ ~(Any(s, T) /\ h.type \in T)
          /\ Bears(q, T, n) => Bears(s, T, n) /\ (h.type \in T => h.id = n)
      BY <3>1, AnyTail
    <3>3. net'.down = s /\ p = h
      BY <2>3 DEF q
    <3> QED
      BY <3>2, <3>3 DEF q
  <2>5. Taken(p)
    BY <1>1, <2>3, <2>4 DEF Taken
  <2> QED
    BY <2>1, <2>2, <2>5
<1> QED
  BY <1>3, <1>4

-----------------------------------------------------------------------------
(* Session is kept: first the steps that look alike.                        *)

LEMMA SessionDropped ==
  ASSUME TypeOK, Session, ~Pending("DISCONNECT"), net' = Closed,
         mw'.Connected = mw.Connected,
         worker'.pc = "evt", worker'.evt = DropEvt
  PROVE  Session'
<1>1. /\ net'.client = "idle" /\ net'.up = <<>> /\ net'.down = <<>>
      /\ net'.leaked = net.leaked
      /\ \A T : /\ ~Any(net'.up, T) /\ One(net'.up, T)
                /\ ~Any(net'.down, T) /\ One(net'.down, T)
  BY ClosedFields
<1>2. mw.Connected => DropEvt.type = "DISCONNECT"
  BY DEF Session, SessionAgreement, DropEvt, Pkt
<1>3. DropEvt.type \in {"DISCONNECT", "REFUSED"}
  BY DEF DropEvt, Pkt
<1> QED
  BY <1>1, <1>2, <1>3 DEF Session, SessionAgreement, NoSocketLeak, Opening,
                          Pending

LEMMA SessionTaken ==
  ASSUME TypeOK, Places, Session, NEW r \in {"conn_check", "sub_check", "in_check"},
         NEW p \in Packet(EventTypes \ {"DISCONNECT", "REFUSED"}),
         ~InHandler, worker.pc # "conn_check",
         r = "conn_check" <=> worker.pc = "conn_poll",
         Raise(p, r), Taken(p), mw' = mw
  PROVE  Session'
<1>1. /\ worker'.pc = "evt" /\ worker'.back = r /\ worker'.evt = p
      /\ worker'.StateMachine = worker.StateMachine /\ worker.back = "loop"
      /\ worker.pc # "evt"
  BY RaiseFields DEF Places, InHandler
<1>2. p.type \notin {"DISCONNECT", "REFUSED"} /\ p.type \in EventTypes
  BY DEF Packet, EventTypes
<1>3. net.client \in {"idle", "tcp", "connected"}
  BY DEF TypeOK, NetType
<1>4. /\ Any(net.down, Handshaken) <=> Any(net'.down, Handshaken)
                                      \/ p.type \in Handshaken
      /\ One(net.down, Handshaken) => One(net'.down, Handshaken)
      /\ One(net.down, Handshaken)
           => ~(Any(net'.down, Handshaken) /\ p.type \in Handshaken)
  BY DEF Taken
<1>5. /\ net'.client = IF p.type = "CONNACK" THEN "connected" ELSE net.client
      /\ net'.up = net.up /\ net'.leaked = net.leaked
      /\ net.client = "idle" => net.down # <<>>
  BY DEF Taken
<1>6. p.type \in Handshaken <=> p.type = "CONNACK"
  BY <1>2 DEF Handshaken
<1> HIDE DEF Handshaken
<1> QED
  BY <1>1, <1>2, <1>3, <1>4, <1>5, <1>6
    DEF Session, SessionAgreement, NoSocketLeak, Opening, Pending

(* A call that moves the worker on and touches nothing else.                *)
LEMMA SessionMoved ==
  ASSUME TypeOK, Places, Session, NEW l, Goto(l), net' = net,
         mw'.Connected = mw.Connected,
         worker.pc \notin {"conn_poll", "conn_check", "evt"},
         l \notin {"mqtt_connect", "evt", "disc2", "bye", "conn_failed"}
  PROVE  Session'
BY GotoFields DEF Session, SessionAgreement, NoSocketLeak, Opening, Pending,
                  Places, InHandler

LEMMA SessionPoll ==
  ASSUME TypeOK, Places, Session, UNCHANGED mw,
         NEW r \in {"conn_check", "sub_check", "in_check"},
         ~InHandler, worker.pc # "conn_check",
         r = "conn_check" <=> worker.pc = "conn_poll",
         NEW l \in {r, "sub_ret0", "sub_retN"},
         l # r => worker.pc # "conn_poll",
         PollReady(r) \/ PollTimeout(l) \/ PollError(l)
  PROVE  Session'
<1>1. CASE MqttInput(r)
  BY <1>1, InputFields, SessionDropped, SessionTaken, RaiseFields
    DEF Pending, InHandler
<1>2. CASE Goto(l) /\ UNCHANGED net
  BY <1>2, GotoFields
    DEF Session, SessionAgreement, NoSocketLeak, Opening, Pending, Places,
        InHandler
<1>3. CASE Goto(r) /\ UNCHANGED net
  BY <1>3, GotoFields
    DEF Session, SessionAgreement, NoSocketLeak, Opening, Pending, Places,
        InHandler
<1> QED
  BY <1>1, <1>2, <1>3 DEF PollReady, PollTimeout, PollError

LEMMA SessionConnecting ==
  TypeOK /\ Places /\ Session /\ Connecting => Session'
<1> SUFFICES ASSUME TypeOK, Places, Session, Connecting PROVE Session'
  OBVIOUS
<1>1. CASE WorkerStart
  BY <1>1, SessionMoved DEF WorkerStart, TypeOK, MwType
<1>2. CASE DnsResolve
  <2>1. CASE Goto("nap")
    BY <1>2, <2>1, SessionMoved DEF DnsResolve, At
  <2>2. CASE worker' = [worker EXCEPT !.StateMachine = "CONNECT_TO_BROKER"]
    BY <1>2, <2>2
      DEF DnsResolve, At, Session, SessionAgreement, NoSocketLeak, Opening,
          Pending, TypeOK, WorkerType
  <2> QED
    BY <1>2, <2>1, <2>2 DEF DnsResolve
<1>3. CASE Nap
  BY <1>3, SessionMoved DEF Nap
<1>4. CASE ConnectBegin
  BY <1>4, GotoFields
    DEF ConnectBegin, At, Session, SessionAgreement, NoSocketLeak, Opening,
        Pending, Places, InHandler, TypeOK, MwType, NetType
<1>5. CASE MqttConnect
  <2>1. CASE Goto("conn_poll")
    <3>1. /\ net'.client = IF net.client = "idle" THEN "tcp" ELSE net.client
          /\ net'.up = <<Pkt("CONNECT")>> /\ net'.down = <<>>
          /\ net'.leaked => net.leaked \/ net.client # "idle"
      <4>1. net' = [client |-> IF net.client = "idle" THEN "tcp" ELSE net.client,
                    up |-> <<Pkt("CONNECT")>>, down |-> <<>>, answered |-> FALSE,
                    leaked |-> net.leaked \/ net.client # "idle"]
        BY <1>5, <2>1 DEF MqttConnect, Goto, TypeOK, WorkerType
      <4> QED
        BY <4>1, Zenon
    <3>2. /\ \A T : ~Any(net'.down, T) /\ One(net'.down, T)
          /\ \A T : One(net'.up, T)
      BY <3>1, AnyEmpty, AnySingle
    <3>3. /\ worker'.pc = "conn_poll" /\ worker'.back = "loop"
          /\ worker'.StateMachine = "CONNECT_TO_BROKER"
          /\ worker.pc = "mqtt_connect" /\ mw' = mw
          /\ worker.back = "loop"
          /\ worker.StateMachine = "CONNECT_TO_BROKER"
      BY <1>5, <2>1, GotoFields DEF MqttConnect, Places, InHandler
    <3> QED
      BY <3>1, <3>2, <3>3
        DEF Session, SessionAgreement, NoSocketLeak, Opening, Pending
  <2>2. CASE Goto("conn_failed")
    <3>1. net' = [Closed EXCEPT !.leaked = @ \/ net.client # "idle"]
      BY <1>5, <2>2 DEF MqttConnect, Goto, TypeOK, WorkerType
    <3>2. /\ net'.client = "idle" /\ net'.up = <<>> /\ net'.down = <<>>
          /\ net'.leaked => net.leaked \/ net.client # "idle"
      BY <3>1 DEF Closed, TypeOK, NetType
    <3>3. \A T : /\ ~Any(net'.down, T) /\ One(net'.down, T)
                 /\ ~Any(net'.up, T) /\ One(net'.up, T)
      BY <3>2, AnyEmpty
    <3>4. /\ worker'.pc = "conn_failed" /\ worker'.back = "loop"
          /\ worker'.StateMachine = "CONNECT_TO_BROKER"
          /\ worker.pc = "mqtt_connect" /\ mw' = mw
          /\ worker.back = "loop"
          /\ worker.StateMachine = "CONNECT_TO_BROKER"
      BY <1>5, <2>2, GotoFields DEF MqttConnect, Places, InHandler
    <3> QED
      BY <3>2, <3>3, <3>4
        DEF Session, SessionAgreement, NoSocketLeak, Opening, Pending
  <2> QED
    BY <1>5, <2>1, <2>2 DEF MqttConnect
<1>6. CASE ConnectPoll
  BY <1>6, SessionPoll DEF ConnectPoll, InHandler
<1>7. CASE ConnectCheck
  <2>1. CASE worker' = [worker EXCEPT !.pc = "loop", !.errConn = 0,
                                      !.StateMachine = "SUBSCRIBE"]
                 /\ mw.Connected /\ UNCHANGED net
    BY <1>7, <2>1
      DEF ConnectCheck, Session, SessionAgreement, NoSocketLeak, Opening,
          Pending, Places, InHandler, TypeOK, WorkerType
  <2>2. CASE Raise(DropEvt, "conn_failed") /\ net' = Closed
    BY <1>7, <2>2, RaiseFields, SessionDropped DEF ConnectCheck, Pending
  <2>3. CASE net.client = "idle" /\ UNCHANGED net /\ Goto("conn_failed")
    BY <1>7, <2>3, GotoFields, AnyEmpty
      DEF ConnectCheck, Session, SessionAgreement, NoSocketLeak, Opening,
          Pending, Places, InHandler
  <2> QED
    BY <1>7, <2>1, <2>2, <2>3 DEF ConnectCheck
<1>8. CASE ConnectFailed
  BY <1>8
    DEF ConnectFailed, Session, SessionAgreement, NoSocketLeak, Opening,
        Pending, Places, InHandler, TypeOK, WorkerType
<1> QED
  BY <1>1, <1>2, <1>3, <1>4, <1>5, <1>6, <1>7, <1>8 DEF Connecting

LEMMA SessionSubscribing ==
  TypeOK /\ Places /\ Session /\ Subscribing => Session'
<1> SUFFICES ASSUME TypeOK, Places, Session, Subscribing PROVE Session'
  OBVIOUS
<1>1. CASE SubscribeBegin
  <2>1. mw'.Connected = mw.Connected
    BY <1>1 DEF SubscribeBegin, TypeOK, MwType
  <2>2. CASE Goto("sub_ret0") /\ UNCHANGED net
    BY <1>1, <2>1, <2>2, SessionMoved DEF SubscribeBegin, At
  <2>3. CASE CanWrite /\ net' = Written(Pkt("SUBSCRIBE")) /\ Goto("sub_wait")
    <3>1. Pkt("SUBSCRIBE") \in Packet(RequestTypes)
      BY DropEvtType DEF Pkt, Packet, RequestTypes
    <3> QED
      BY <1>1, <2>1, <2>3, <3>1, WrittenFields, GotoFields
        DEF SubscribeBegin, At, CanWrite, Session, SessionAgreement,
            NoSocketLeak, Opening, Pending, Places, InHandler, Pkt
  <2>4. CASE Broken("sub_failed")
    BY <1>1, <2>1, <2>4, RaiseFields, SessionDropped
      DEF SubscribeBegin, At, Broken, Pending, DropEvt
  <2>5. CASE net.client # "connected" /\ Goto("sub_failed") /\ UNCHANGED net
    BY <1>1, <2>1, <2>5, SessionMoved DEF SubscribeBegin, At
  <2> QED
    BY <1>1, <2>2, <2>3, <2>4, <2>5 DEF SubscribeBegin
<1>2. CASE SubscribeWait
  BY <1>2, SessionMoved DEF SubscribeWait, TypeOK, MwType
<1>3. CASE SubscribePoll
  BY <1>3, SessionPoll DEF SubscribePoll, InHandler
<1>4. CASE SubscribeCheck
  BY <1>4, SessionMoved DEF SubscribeCheck
<1>5. CASE SubscribeReturn
  <2>1. CASE worker' = [worker EXCEPT !.pc = "input", !.errSub = 0,
                                      !.StateMachine = "CONNECTED"]
    BY <1>5, <2>1
      DEF SubscribeReturn, Session, SessionAgreement, NoSocketLeak, Opening,
          Pending, Places, InHandler, TypeOK, WorkerType
  <2>2. CASE Goto("sub_failed")
    BY <1>5, <2>2, SessionMoved DEF SubscribeReturn
  <2> QED
    BY <1>5, <2>1, <2>2 DEF SubscribeReturn
<1>6. CASE SubscribeFailed
  BY <1>6
    DEF SubscribeFailed, Session, SessionAgreement, NoSocketLeak, Opening,
        Pending, Places, InHandler, TypeOK, WorkerType
<1> QED
  BY <1>1, <1>2, <1>3, <1>4, <1>5, <1>6 DEF Subscribing

LEMMA SessionServing == TypeOK /\ Places /\ Session /\ Serving => Session'
<1> SUFFICES ASSUME TypeOK, Places, Session, Serving PROVE Session'
  OBVIOUS
<1>1. CASE InputLive
  <2> DEFINE w == [worker EXCEPT !.pc = "loop",
                                 !.aliveDue = (PingPeriodSec = 0)]
  <2>1. /\ w.pc = "loop" /\ w.back = worker.back
        /\ w.StateMachine = worker.StateMachine
        /\ worker.pc \in {"input", "loop"} /\ worker.back = "loop"
    BY <1>1 DEF TypeOK, WorkerType, InputLive, AtInput, At, Places, InHandler
  <2>2. CASE CanWrite /\ net' = Written(Pkt("PINGREQ")) /\ worker' = w
    <3>1. Pkt("PINGREQ") \in Packet(RequestTypes)
      BY DropEvtType DEF Pkt, Packet, RequestTypes
    <3> HIDE DEF w
    <3> QED
      BY <1>1, <2>1, <2>2, <3>1, WrittenFields
        DEF InputLive, CanWrite, Session, SessionAgreement, NoSocketLeak,
            Opening, Pending, Pkt
  <2>3. CASE /\ net.client = "connected" /\ net' = Closed
             /\ worker' = [w EXCEPT !.pc = "evt", !.evt = Pkt("DISCONNECT")]
    <3>1. worker'.pc = "evt" /\ worker'.evt = DropEvt
      BY <2>3 DEF DropEvt, TypeOK, WorkerType
    <3> QED
      BY <1>1, <2>1, <2>3, <3>1, SessionDropped DEF InputLive, Pending
  <2>4. CASE UNCHANGED net /\ worker' = w
    <3> HIDE DEF w
    <3> QED
      BY <1>1, <2>1, <2>4
        DEF InputLive, Session, SessionAgreement, NoSocketLeak, Opening,
            Pending
  <2> QED
    BY <1>1, <2>2, <2>3, <2>4 DEF InputLive
<1>2. CASE InputWait
  BY <1>2, SessionMoved DEF InputWait, AtInput, At
<1>3. CASE InputPoll
  BY <1>3, SessionPoll DEF InputPoll, InHandler
<1>4. CASE InputCheck
  <2>1. CASE ~mw.Connected /\ UNCHANGED net
             /\ worker' = [worker EXCEPT !.pc = "loop",
                                         !.StateMachine = "DNS_RESOLVE"]
    BY <1>4, <2>1
      DEF InputCheck, Session, SessionAgreement, NoSocketLeak, Opening,
          Pending, Places, InHandler, TypeOK, WorkerType, NetType
  <2>2. CASE Broken("bye")
    BY <1>4, <2>2, RaiseFields, SessionDropped
      DEF InputCheck, Broken, Pending, DropEvt
  <2>3. CASE mw.Connected /\ net.client # "connected" /\ Goto("bye")
             /\ UNCHANGED net
    BY <1>4, <2>3, GotoFields
      DEF InputCheck, Session, SessionAgreement, NoSocketLeak, Opening,
          Pending, Places, InHandler, TypeOK, NetType
  <2>4. CASE Goto("loop") /\ UNCHANGED net
    BY <1>4, <2>4, SessionMoved DEF InputCheck
  <2> QED
    BY <1>4, <2>1, <2>2, <2>3, <2>4 DEF InputCheck
<1>5. CASE Bye
  BY <1>5
    DEF Bye, Session, SessionAgreement, NoSocketLeak, Opening, Pending,
        Places, InHandler, TypeOK, WorkerType, MwType
<1> QED
  BY <1>1, <1>2, <1>3, <1>4, <1>5 DEF Serving

LEMMA SessionHandling == TypeOK /\ Places /\ Session /\ Handling => Session'
<1> SUFFICES ASSUME TypeOK, Places, Session, Handling PROVE Session'
  OBVIOUS
<1> USE DEF Pending, Got
<1>1. CASE OnRefused \/ OnPingresp
  <2>1. mw'.Connected = mw.Connected /\ UNCHANGED net
    BY <1>1 DEF OnRefused, OnPingresp, TypeOK, MwType
  <2>2. worker.pc = "evt" /\ worker.evt.type \notin {"CONNACK", "DISCONNECT"}
        /\ Return
    BY <1>1 DEF OnRefused, OnPingresp
  <2> QED
    BY <2>1, <2>2, ReturnFields
      DEF Session, SessionAgreement, NoSocketLeak, Opening, Places, InHandler,
          BackPcs
<1>2. CASE OnConnack
  BY <1>2, GotoFields
    DEF OnConnack, Session, SessionAgreement, NoSocketLeak, Opening, Places,
        InHandler, TypeOK, MwType
<1>3. CASE OnConnackDone
  BY <1>3, ReturnFields
    DEF OnConnackDone, Session, SessionAgreement, NoSocketLeak, Opening,
        Places, InHandler, TypeOK, MwType, BackPcs
<1>4. CASE OnDisconnect
  BY <1>4, GotoFields, AnyEmpty
    DEF OnDisconnect, Session, SessionAgreement, NoSocketLeak, Opening,
        Places, InHandler, TypeOK, MwType
<1>5. CASE OnDisconnectDone
  BY <1>5, ReturnFields, AnyEmpty
    DEF OnDisconnectDone, Session, SessionAgreement, NoSocketLeak, Opening,
        Places, InHandler, TypeOK, MwType, BackPcs
<1>6. CASE OnSuback \/ OnPuback \/ OnPublish
  <2>1. /\ mw'.Connected = mw.Connected
        /\ worker.pc = "evt" /\ worker.evt.type \notin {"CONNACK", "DISCONNECT"}
        /\ (Return /\ UNCHANGED net) \/ Undecoded
    BY <1>6 DEF OnSuback, OnPuback, OnPublish, TypeOK, MwType
  <2>2. CASE Return /\ UNCHANGED net
    BY <2>1, <2>2, ReturnFields
      DEF Session, SessionAgreement, NoSocketLeak, Opening, Places,
          InHandler, BackPcs
  <2>3. CASE Undecoded
    BY <2>1, <2>3, UndecodedFields, SessionDropped
  <2> QED
    BY <2>1, <2>2, <2>3
<1> QED
  BY <1>1, <1>2, <1>3, <1>4, <1>5, <1>6 DEF Handling

(* A step that neither thread's session code sees.                          *)
LEMMA SessionUnseen ==
  ASSUME Session, UNCHANGED net, mw'.Connected = mw.Connected,
         worker'.pc = worker.pc, worker'.evt = worker.evt,
         worker'.back = worker.back,
         worker'.StateMachine = worker.StateMachine
  PROVE  Session'
BY DEF Session, SessionAgreement, NoSocketLeak, Opening, Pending

LEMMA SessionBoot ==
  ASSUME worker = WorkerBoot, mw = MwBoot, net = NetBoot
  PROVE  Session
BY AnyEmpty DEF WorkerBoot, MwBoot, NetBoot, Session, SessionAgreement,
                NoSocketLeak, Opening, Pending

LEMMA SessionReboot == Reboot => Session'
<1> SUFFICES ASSUME Reboot PROVE Session'
  OBVIOUS
<1>1. /\ worker'.pc = "wait_start" /\ worker'.back = "loop"
      /\ worker'.StateMachine = "DNS_RESOLVE"
      /\ ~mw'.Connected
      /\ net'.client = "idle" /\ net'.up = <<>> /\ net'.down = <<>>
      /\ ~net'.leaked
  BY DEF Reboot, WorkerBoot, MwBoot, NetBoot
<1> QED
  BY <1>1, AnyEmpty DEF Session, SessionAgreement, NoSocketLeak, Opening,
                        Pending

LEMMA SessionMain == TypeOK /\ Session /\ MainStep => Session'
<1> SUFFICES ASSUME TypeOK, Session, MainStep PROVE Session'
  OBVIOUS
<1>1. CASE InitWorker \/ FirstConnected \/ FirstConnSecond \/ PublishRefused
           \/ PublishAcked \/ PublishTimeout \/ NothingToPublish
  BY <1>1, SessionUnseen
    DEF InitWorker, FirstConnected, FirstConnSecond, PublishRefused,
        PublishAcked, PublishTimeout, NothingToPublish, Drained, AckTaken, TypeOK, MwType
<1>2. CASE TimestampInit \/ KeepaliveTest \/ AssertFailed
  BY <1>2, SessionUnseen, SessionReboot
    DEF TimestampInit, KeepaliveTest, AssertFailed
<1>3. CASE PublishSend
  <2> DEFINE id == (main.messageId + 1) % IdMod
             p == [type |-> "PUBLISH", id |-> id]
  <2>1. /\ p \in Packet(RequestTypes)
        /\ UNCHANGED worker /\ mw.Connected
    BY <1>3, NextIdType DEF PublishSend, TypeOK, MainType, Packet, RequestTypes
  <2>2. CASE mw' = Drained /\ UNCHANGED net
    BY <2>1, <2>2, SessionUnseen DEF Drained, AckTaken, TypeOK, MwType
  <2>3. CASE CanWrite /\ net' = Written(p) /\ mw' = Drained
    <3>1. mw'.Connected = mw.Connected
      BY <2>3 DEF Drained, AckTaken, TypeOK, MwType
    <3> HIDE DEF id
    <3> QED
      BY <2>1, <2>3, <3>1, WrittenFields
        DEF Session, SessionAgreement, NoSocketLeak, Opening, Pending,
            CanWrite
  <2>4. CASE net' = Closed
             /\ mw' = [Drained EXCEPT !.LastEvt = "DISCONNECT",
                                 !.Connected = FALSE, !.ConectedAckSem = 0]
    <3>1. ~mw'.Connected
      BY <2>4 DEF Drained, AckTaken, TypeOK, MwType
    <3>2. /\ net'.client = "idle" /\ net'.up = <<>> /\ net'.down = <<>>
          /\ net'.leaked = net.leaked
          /\ \A T : /\ ~Any(net'.up, T) /\ One(net'.up, T)
                    /\ ~Any(net'.down, T) /\ One(net'.down, T)
      BY <2>4, ClosedFields
    <3> QED
      BY <2>1, <3>1, <3>2
        DEF Session, SessionAgreement, NoSocketLeak, Opening, Pending
  <2>5. main.messageId \in Nat
           /\ [main EXCEPT !.messageId = (@ + 1) % IdMod].messageId = id
    BY ConstantsOK DEF TypeOK, MainType, Ids
  <2> HIDE DEF id
  <2> QED
    BY <1>3, <2>2, <2>3, <2>4, <2>5 DEF PublishSend
<1> QED
  BY <1>1, <1>2, <1>3 DEF MainStep

(* What the broker may add to the packets that come down.                   *)
LEMMA DownAppended ==
  ASSUME TypeOK, NEW p \in Packet(DownTypes),
         net'.down = Append(net.down, p)
  PROVE  \A T, n :
           /\ Any(net'.down, T) <=> Any(net.down, T) \/ p.type \in T
           /\ (One(net.down, T) /\ ~(Any(net.down, T) /\ p.type \in T))
                => One(net'.down, T)
           /\ (Bears(net.down, T, n) /\ (p.type \in T => p.id = n))
                => Bears(net'.down, T, n)
<1> SUFFICES ASSUME NEW T, NEW n
             PROVE  /\ Any(net'.down, T) <=> Any(net.down, T) \/ p.type \in T
                    /\ (One(net.down, T) /\ ~(Any(net.down, T) /\ p.type \in T))
                         => One(net'.down, T)
                    /\ (Bears(net.down, T, n) /\ (p.type \in T => p.id = n))
                         => Bears(net'.down, T, n)
  OBVIOUS
<1> DEFINE q == net.down
           r == Append(q, p)
<1>1. q \in Seq(Packet(DownTypes))
  BY DEF TypeOK, NetType
<1> HIDE DEF q
<1>2. /\ Any(r, T) <=> Any(q, T) \/ p.type \in T
      /\ (One(q, T) /\ ~(Any(q, T) /\ p.type \in T)) => One(r, T)
      /\ (Bears(q, T, n) /\ (p.type \in T => p.id = n)) => Bears(r, T, n)
  BY <1>1, AnyAppend
<1>3. net'.down = r
  BY DEF q
<1> QED
  BY <1>2, <1>3 DEF q

LEMMA UpTaken ==
  ASSUME TypeOK, net.up # <<>>, net'.up = Tail(net.up)
  PROVE  /\ Head(net.up) \in Packet(RequestTypes)
         /\ \A T, n :
              LET p == Head(net.up) IN
              /\ Any(net.up, T) <=> Any(net'.up, T) \/ p.type \in T
              /\ One(net.up, T) => /\ One(net'.up, T)
                                   /\ ~(Any(net'.up, T) /\ p.type \in T)
              /\ Bears(net.up, T, n) => /\ Bears(net'.up, T, n)
                                        /\ p.type \in T => p.id = n
<1> DEFINE q == net.up
           s == Tail(q)
           h == Head(q)
<1>1. q \in Seq(Packet(RequestTypes)) /\ q # <<>>
  BY DEF TypeOK, NetType
<1>2. net'.up = s
  OBVIOUS
<1>3. h \in Packet(RequestTypes)
  BY <1>1, HeadTailProperties
<1>4. ASSUME NEW T, NEW n
      PROVE  /\ Any(q, T) <=> Any(s, T) \/ h.type \in T
             /\ One(q, T) => One(s, T) /\ ~(Any(s, T) /\ h.type \in T)
             /\ Bears(q, T, n) => Bears(s, T, n) /\ (h.type \in T => h.id = n)
  <2> HIDE DEF q
  <2> QED
    BY <1>1, AnyTail
<1>5. \A T, n : /\ Any(q, T) <=> Any(s, T) \/ h.type \in T
                /\ One(q, T) => One(s, T) /\ ~(Any(s, T) /\ h.type \in T)
                /\ Bears(q, T, n)
                     => Bears(s, T, n) /\ (h.type \in T => h.id = n)
  BY <1>4
<1> QED
  BY <1>2, <1>3, <1>5

(* The broker's answer to the oldest packet that went up.                   *)
LEMMA AnswerFields ==
  ASSUME TypeOK, BrokerAnswer
  PROVE  \E p \in Packet(RequestTypes), a \in Packet(DownTypes) :
           /\ a \in Answer(p)
           /\ p = Head(net.up) /\ net.up # <<>> /\ net'.up = Tail(net.up)
           /\ net'.down = Append(net.down, a)
           /\ net'.client = net.client /\ net'.leaked = net.leaked
           /\ a.type = "SUBACK" => net'.answered
           /\ a.type # "SUBACK" => net'.answered = net.answered
           /\ net.answered => net'.answered
<1> DEFINE p == Head(net.up)
<1>1. net.up \in Seq(Packet(RequestTypes)) /\ net.up # <<>>
  BY DEF TypeOK, NetType, BrokerAnswer
<1>2. p \in Packet(RequestTypes)
  BY <1>1, HeadTailProperties
<1>3. PICK a \in Answer(p) :
        net' = [net EXCEPT !.up = Tail(@), !.down = Append(@, a),
                           !.answered = @ \/ a.type = "SUBACK"]
  BY DEF BrokerAnswer
<1>4. a \in Packet(DownTypes)
  <2>1. 0 \in Ids
    BY DropEvtType
  <2> HIDE DEF p
  <2> QED
    BY <1>2, <1>3, <2>1
      DEF Answer, Packet, RequestTypes, DownTypes, EventTypes, Pkt
<1>5. /\ net'.up = Tail(net.up) /\ net'.down = Append(net.down, a)
      /\ net'.client = net.client /\ net'.leaked = net.leaked
  BY <1>3 DEF TypeOK, NetType
<1>6. net'.answered = (net.answered \/ a.type = "SUBACK")
  BY <1>3, Zenon DEF TypeOK, NetType
<1>7. /\ a.type = "SUBACK" => net'.answered
      /\ a.type # "SUBACK" => net'.answered = net.answered
      /\ net.answered => net'.answered
  <2>1. net.answered \in BOOLEAN
    BY DEF TypeOK, NetType
  <2> QED
    BY <1>6, <2>1, Zenon
<1> QED
  BY <1>1, <1>2, <1>3, <1>4, <1>5, <1>7

LEMMA SendFields ==
  ASSUME TypeOK, BrokerSend
  PROVE  \E p \in Packet(DownTypes) :
           /\ \/ p.type = "PUBLISH" /\ net.client = "connected" /\ HasSubs
              \/ p.type = "FIN" /\ net.client # "idle"
           /\ net'.down = Append(net.down, p) /\ net'.up = net.up
           /\ net'.client = net.client /\ net'.leaked = net.leaked
           /\ net'.answered = net.answered
           /\ UNCHANGED <<worker, main, mw>>
<1>1. 0 \in Ids
  BY DropEvtType
<1>2. Pkt("PUBLISH") \in Packet(DownTypes) /\ Pkt("FIN") \in Packet(DownTypes)
  BY <1>1 DEF Pkt, Packet, DownTypes, EventTypes
<1>3. CASE HasSubs /\ net.client = "connected"
           /\ net' = [net EXCEPT !.down = Append(@, Pkt("PUBLISH"))]
  BY <1>2, <1>3 DEF BrokerSend, TypeOK, NetType, Pkt
<1>4. CASE net.client # "idle"
           /\ net' = [net EXCEPT !.down = Append(@, Pkt("FIN"))]
  BY <1>2, <1>4 DEF BrokerSend, TypeOK, NetType, Pkt
<1> QED
  BY <1>3, <1>4 DEF BrokerSend

LEMMA SessionEnvironment == TypeOK /\ Session /\ Environment => Session'
<1> SUFFICES ASSUME TypeOK, Session, Environment PROVE Session'
  OBVIOUS
<1>1. CASE WatchdogReset
  BY <1>1, SessionReboot DEF WatchdogReset
<1>2. CASE BrokerAnswer
  <2>1. PICK p \in Packet(RequestTypes), a \in Packet(DownTypes) :
           /\ a \in Answer(p)
           /\ p = Head(net.up) /\ net.up # <<>> /\ net'.up = Tail(net.up)
           /\ net'.down = Append(net.down, a)
           /\ net'.client = net.client /\ net'.leaked = net.leaked
    BY <1>2, AnswerFields
  <2>2. /\ a.type \in Handshaken <=> p.type = "CONNECT"
    BY <2>1 DEF Answer, Packet, RequestTypes, Pkt, Handshaken
  <2>3. UNCHANGED <<worker, main, mw>>
    BY <1>2 DEF BrokerAnswer
  <2>4. /\ Any(net.up, {"CONNECT"}) <=> \/ Any(net'.up, {"CONNECT"})
                                        \/ p.type \in {"CONNECT"}
        /\ One(net.up, {"CONNECT"}) =>
             /\ One(net'.up, {"CONNECT"})
             /\ ~(Any(net'.up, {"CONNECT"}) /\ p.type \in {"CONNECT"})
    BY <2>1, UpTaken
  <2>5. /\ Any(net'.down, Handshaken) <=> \/ Any(net.down, Handshaken)
                                          \/ a.type \in Handshaken
        /\ (One(net.down, Handshaken)
            /\ ~(Any(net.down, Handshaken) /\ a.type \in Handshaken))
              => One(net'.down, Handshaken)
    BY <2>1, DownAppended
  <2> HIDE DEF Handshaken
  <2> QED
    BY <2>1, <2>2, <2>3, <2>4, <2>5
      DEF Session, SessionAgreement, NoSocketLeak, Opening, Pending
<1>3. CASE BrokerSend
  <2>1. PICK p \in Packet(DownTypes) :
           /\ \/ p.type = "PUBLISH" /\ net.client = "connected" /\ HasSubs
              \/ p.type = "FIN" /\ net.client # "idle"
           /\ net'.down = Append(net.down, p) /\ net'.up = net.up
           /\ net'.client = net.client /\ net'.leaked = net.leaked
           /\ UNCHANGED <<worker, main, mw>>
    BY <1>3, SendFields
  <2>2. /\ Any(net'.down, Handshaken) <=> Any(net.down, Handshaken)
        /\ One(net.down, Handshaken) => One(net'.down, Handshaken)
    BY <2>1, DownAppended DEF Handshaken
  <2> HIDE DEF Handshaken
  <2> QED
    BY <2>1, <2>2
      DEF Session, SessionAgreement, NoSocketLeak, Opening, Pending
<1>4. CASE WifiDrop \/ Tick
  BY <1>4, SessionUnseen DEF WifiDrop, Tick, TypeOK, MwType
<1>5. CASE PingPeriodEnds
  BY <1>5, SessionUnseen DEF PingPeriodEnds, TypeOK, WorkerType
<1> QED
  BY <1>1, <1>2, <1>3, <1>4, <1>5 DEF Environment

LEMMA SessionStep == TypeOK /\ Places /\ Session /\ [Next]_vars => Session'
<1>1. TypeOK /\ Places /\ Session /\ UNCHANGED vars => Session'
  BY SessionUnseen DEF vars
<1> QED
  BY <1>1, SessionConnecting, SessionSubscribing, SessionServing,
     SessionHandling, SessionMain, SessionEnvironment DEF Next, WorkerStep

-----------------------------------------------------------------------------
(* Released is kept.                                                        *)

(* Only the handler comes to the second half of a CONNACK, or gives the     *)
(* semaphore that main first waits for.                                     *)
LEMMA NotReleasing ==
  ASSUME TypeOK, ~InHandler, Connecting \/ Subscribing \/ Serving
  PROVE  /\ worker'.pc # "connack2" /\ main'.pc = main.pc
         /\ mw'.ConectedAckSem = mw.ConectedAckSem \/ mw'.ConectedAckSem = 0
<1>1. ASSUME NEW r \in BackPcs, NEW l \in BackPcs \cup {"sub_ret0", "sub_retN"},
             PollReady(r) \/ PollTimeout(l) \/ PollError(l)
      PROVE  worker'.pc # "connack2"
  BY <1>1, GotoFields, PollFields DEF PollTimeout, PollError, BackPcs
<1>2. ASSUME NEW l, l # "connack2", Goto(l)
      PROVE  worker'.pc # "connack2"
  BY <1>2, GotoFields
<1>3. ASSUME NEW e, NEW r, Raise(e, r)
      PROVE  worker'.pc # "connack2"
  BY <1>3, RaiseFields
<1>4. CASE Connecting
  <2>1. worker'.pc # "connack2"
    <3>1. CASE ConnectPoll
      BY <1>1, <3>1 DEF ConnectPoll, BackPcs
    <3>2. CASE WorkerStart \/ Nap \/ ConnectBegin \/ MqttConnect
      BY <1>2, <3>2 DEF WorkerStart, Nap, ConnectBegin, MqttConnect
    <3>3. CASE DnsResolve
      BY <1>2, <3>3 DEF DnsResolve, At, TypeOK, WorkerType
    <3>4. CASE ConnectCheck
      <4>1. CASE worker' = [worker EXCEPT !.pc = "loop", !.errConn = 0,
                                          !.StateMachine = "SUBSCRIBE"]
        BY <4>1 DEF TypeOK, WorkerType
      <4> QED
        BY <1>2, <1>3, <3>4, <4>1 DEF ConnectCheck
    <3>5. CASE ConnectFailed
      BY <3>5 DEF ConnectFailed, TypeOK, WorkerType
    <3> QED
      BY <1>4, <3>1, <3>2, <3>3, <3>4, <3>5 DEF Connecting
  <2>2. main'.pc = main.pc /\ mw'.ConectedAckSem = mw.ConectedAckSem
    BY <1>4
      DEF Connecting, WorkerStart, DnsResolve, Nap, ConnectBegin, MqttConnect,
          ConnectPoll, ConnectCheck, ConnectFailed, TypeOK, MainType, MwType
  <2> QED
    BY <2>1, <2>2
<1>5. CASE Subscribing
  <2>1. worker'.pc # "connack2"
    <3>1. CASE SubscribePoll
      BY <1>1, <3>1 DEF SubscribePoll, BackPcs
    <3>2. CASE SubscribeBegin \/ SubscribeWait \/ SubscribeCheck
      BY <1>2, <1>3, <3>2
        DEF SubscribeBegin, SubscribeWait, SubscribeCheck, Broken
    <3>3. CASE SubscribeReturn
      BY <1>2, <3>3 DEF SubscribeReturn, TypeOK, WorkerType
    <3>4. CASE SubscribeFailed
      BY <3>4 DEF SubscribeFailed, TypeOK, WorkerType
    <3> QED
      BY <1>5, <3>1, <3>2, <3>3, <3>4 DEF Subscribing
  <2>2. main'.pc = main.pc /\ mw'.ConectedAckSem = mw.ConectedAckSem
    BY <1>5
      DEF Subscribing, SubscribeBegin, SubscribeWait, SubscribePoll,
          SubscribeCheck, SubscribeReturn, SubscribeFailed, TypeOK, MwType
  <2> QED
    BY <2>1, <2>2
<1>6. CASE Serving
  <2>1. worker'.pc # "connack2"
    <3>1. CASE InputPoll
      BY <1>1, <3>1 DEF InputPoll, BackPcs
    <3>2. CASE InputWait
      BY <1>2, <3>2 DEF InputWait
    <3>3. CASE InputCheck
      <4>1. CASE worker' = [worker EXCEPT !.pc = "loop",
                                          !.StateMachine = "DNS_RESOLVE"]
        BY <4>1 DEF TypeOK, WorkerType
      <4> QED
        BY <1>2, <1>3, <3>3, <4>1 DEF InputCheck, Broken
    <3>4. CASE Bye
      BY <3>4 DEF Bye, TypeOK, WorkerType
    <3>5. CASE InputLive
      <4> DEFINE w == [worker EXCEPT !.pc = "loop",
                                     !.aliveDue = (PingPeriodSec = 0)]
      <4>1. worker' = w
            \/ worker' = [w EXCEPT !.pc = "evt", !.evt = Pkt("DISCONNECT")]
        BY <3>5 DEF InputLive
      <4> QED
        BY <4>1 DEF TypeOK, WorkerType
    <3> QED
      BY <1>6, <3>1, <3>2, <3>3, <3>4, <3>5 DEF Serving
  <2>2. /\ main'.pc = main.pc
        /\ mw'.ConectedAckSem = mw.ConectedAckSem \/ mw'.ConectedAckSem = 0
    BY <1>6
      DEF Serving, InputLive, InputWait, InputPoll, InputCheck, Bye,
          TypeOK, MwType
  <2> QED
    BY <2>1, <2>2
<1> QED
  BY <1>4, <1>5, <1>6

LEMMA ReleasedWorker ==
  TypeOK /\ Places /\ Session /\ Released /\ WorkerStep => Released'
<1> SUFFICES ASSUME TypeOK, Places, Session, Released, WorkerStep
             PROVE  Released'
  OBVIOUS
<1>1. main.pc # "boot" /\ (main.pc = "first_conn" => mw.ConectedAckSem = 0)
  BY DEF WorkerStep, MainBlocked
<1>2. mw.ConectedAckSem \in {0, 1}
  BY DEF TypeOK, MwType
<1>3. CASE Connecting \/ Subscribing \/ Serving
  <2>1. ~InHandler
    BY <1>3
      DEF InHandler, Connecting, WorkerStart, DnsResolve, At, Nap,
          ConnectBegin, MqttConnect, ConnectPoll, ConnectCheck, ConnectFailed,
          Subscribing, SubscribeBegin, SubscribeWait, SubscribePoll,
          SubscribeCheck, SubscribeReturn, SubscribeFailed, Serving,
          InputLive, AtInput, InputWait, InputPoll, InputCheck, Bye
  <2> QED
    BY <1>1, <1>2, <1>3, <2>1, NotReleasing DEF Released
<1>4. CASE OnConnack
  BY <1>1, <1>4 DEF OnConnack, Got, Pending, Session, Released, TypeOK, MwType
<1>5. CASE OnConnackDone
  BY <1>1, <1>5, ReturnFields
    DEF OnConnackDone, Released, TypeOK, MwType, BackPcs
<1>6. ASSUME Return \/ Goto("disc2") \/ Undecoded,
             \/ mw'.ConectedAckSem = mw.ConectedAckSem
             \/ mw'.ConectedAckSem = 0,
             UNCHANGED main
      PROVE  Released'
  BY <1>1, <1>2, <1>6, ReturnFields, UndecodedFields, GotoFields
    DEF Released, BackPcs
<1>7. CASE OnDisconnect \/ OnDisconnectDone
  BY <1>6, <1>7 DEF OnDisconnect, OnDisconnectDone, TypeOK, MwType
<1>8. CASE OnRefused \/ OnSuback \/ OnPuback \/ OnPingresp \/ OnPublish
  BY <1>6, <1>8
    DEF OnRefused, OnSuback, OnPuback, OnPingresp, OnPublish, TypeOK, MwType
<1> QED
  BY <1>3, <1>4, <1>5, <1>7, <1>8 DEF WorkerStep, Handling

LEMMA ReleasedReboot == Reboot => Released'
BY DEF Reboot, WorkerBoot, MwBoot, MainBoot, Released

LEMMA ReleasedMain == TypeOK /\ Released /\ MainStep => Released'
<1> SUFFICES ASSUME TypeOK, Released, MainStep PROVE Released'
  OBVIOUS
<1>1. CASE InitWorker
  BY <1>1 DEF InitWorker, Released, TypeOK, MainType, MwType
<1>2. CASE FirstConnected \/ FirstConnSecond \/ NothingToPublish
  BY <1>2 DEF FirstConnected, FirstConnSecond, NothingToPublish, Released,
              TypeOK, MainType, MwType
<1>3. CASE TimestampInit \/ KeepaliveTest \/ AssertFailed
  BY <1>3, ReleasedReboot
    DEF TimestampInit, KeepaliveTest, AssertFailed, Released, TypeOK, MainType
<1>4. CASE PublishRefused \/ PublishSend \/ PublishAcked \/ PublishTimeout
  <2>1. ASSUME NEW m \in MainType, NEW ok \in BOOLEAN
        PROVE  PublishReturn(m, ok).pc \notin {"boot", "first_conn"}
    BY DEF PublishReturn, MainType
  <2>2. [main EXCEPT !.timedOut = TRUE] \in MainType
        /\ [main EXCEPT !.messageId = (@ + 1) % IdMod] \in MainType
    BY NextIdType DEF TypeOK, MainType
  <2>3. main'.pc \notin {"boot", "first_conn"}
    <3>1. main' \in {PublishReturn(main, FALSE), PublishReturn(main, TRUE),
             PublishReturn([main EXCEPT !.timedOut = TRUE], FALSE),
             PublishReturn([main EXCEPT !.messageId = (@ + 1) % IdMod], FALSE)}
          \/ main' = [[main EXCEPT !.messageId = (@ + 1) % IdMod]
                         EXCEPT !.pc = "wait_ack"]
      BY <1>4 DEF PublishRefused, PublishSend, PublishAcked, PublishTimeout
    <3> HIDE DEF MainType
    <3>2. main \in MainType
      BY DEF TypeOK
    <3>3. [[main EXCEPT !.messageId = (@ + 1) % IdMod]
                         EXCEPT !.pc = "wait_ack"].pc = "wait_ack"
      BY <2>2 DEF MainType
    <3> QED
      BY <2>1, <2>2, <3>1, <3>2, <3>3
  <2> QED
    BY <2>3 DEF Released
<1> QED
  BY <1>1, <1>2, <1>3, <1>4 DEF MainStep

LEMMA ReleasedStep ==
  TypeOK /\ Places /\ Session /\ Released /\ [Next]_vars => Released'
<1> SUFFICES ASSUME TypeOK, Places, Session, Released, [Next]_vars
             PROVE  Released'
  OBVIOUS
<1>1. CASE WatchdogReset
  BY <1>1, ReleasedReboot DEF WatchdogReset
<1>2. CASE BrokerAnswer \/ BrokerSend
  BY <1>2 DEF BrokerAnswer, BrokerSend, Released, TypeOK, NetType
<1>3. CASE WifiDrop \/ Tick
  BY <1>3 DEF WifiDrop, Tick, Released, TypeOK, MwType
<1>4. CASE PingPeriodEnds
  BY <1>4 DEF PingPeriodEnds, Released, TypeOK, WorkerType
<1>5. CASE UNCHANGED vars
  BY <1>5 DEF vars, Released
<1> QED
  BY <1>1, <1>2, <1>3, <1>4, <1>5, ReleasedWorker, ReleasedMain
    DEF Next, Environment

-----------------------------------------------------------------------------
(* Acks is kept: first the steps that look alike.                           *)

SameAcks == /\ mw'.PublishAckSem = mw.PublishAckSem /\ mw'.ackIds = mw.ackIds
            /\ main'.timedOut = main.timedOut
            /\ main'.messageId = main.messageId
            /\ main'.pc = "wait_ack" <=> main.pc = "wait_ack"

LEMMA AcksMoved ==
  ASSUME Acks, SameAcks, UNCHANGED net,
         ~Pending("PUBACK")' \/ UNCHANGED worker
  PROVE  Acks'
BY DEF Acks, SameAcks, Unacked, Pending

LEMMA AcksDropped ==
  ASSUME TypeOK, Acks, SameAcks, net' = Closed, ~Pending("PUBACK")'
  PROVE  Acks'
<1>1. \A T, n : /\ ~Any(net'.up, T) /\ One(net'.up, T) /\ Bears(net'.up, T, n)
                /\ ~Any(net'.down, T) /\ One(net'.down, T)
                /\ Bears(net'.down, T, n)
  BY ClosedFields
<1> QED
  BY <1>1 DEF Acks, SameAcks, Unacked, Pending

LEMMA AcksWritten ==
  ASSUME TypeOK, Acks, SameAcks, ~Pending("PUBACK")',
         NEW p \in Packet(RequestTypes), p.type # "PUBLISH", net' = Written(p)
  PROVE  Acks'
<1>1. /\ net'.down = net.down
      /\ Any(net'.up, {"PUBLISH"}) <=> Any(net.up, {"PUBLISH"})
      /\ One(net.up, {"PUBLISH"}) => One(net'.up, {"PUBLISH"})
      /\ Bears(net.up, {"PUBLISH"}, main.messageId)
           => Bears(net'.up, {"PUBLISH"}, main.messageId)
  BY WrittenFields
<1> QED
  BY <1>1 DEF Acks, SameAcks, Unacked, Pending

LEMMA AcksTaken ==
  ASSUME TypeOK, Acks, SameAcks, worker.pc # "evt",
         NEW p, NEW r, Raise(p, r), Taken(p)
  PROVE  Acks'
<1>1. worker'.pc = "evt" /\ worker'.evt = p
  BY RaiseFields
<1>2. /\ net'.up = net.up
      /\ Any(net.down, {"PUBACK"}) <=> Any(net'.down, {"PUBACK"})
                                       \/ p.type \in {"PUBACK"}
      /\ One(net.down, {"PUBACK"})
           => /\ One(net'.down, {"PUBACK"})
              /\ ~(Any(net'.down, {"PUBACK"}) /\ p.type \in {"PUBACK"})
      /\ Bears(net.down, {"PUBACK"}, main.messageId)
           => /\ Bears(net'.down, {"PUBACK"}, main.messageId)
              /\ p.type \in {"PUBACK"} => p.id = main.messageId
  BY Zenon DEF Taken
<1> QED
  BY <1>1, <1>2 DEF Acks, SameAcks, Unacked, Pending

LEMMA AcksPoll ==
  ASSUME TypeOK, Acks, UNCHANGED <<main, mw>>, worker.pc # "evt",
         NEW r \in BackPcs, NEW l \in BackPcs \cup {"sub_ret0", "sub_retN"},
         PollReady(r) \/ PollTimeout(l) \/ PollError(l)
  PROVE  Acks'
<1>1. SameAcks
  BY DEF SameAcks
<1>2. CASE MqttInput(r)
  <2>1. CASE net' = Closed /\ Raise(DropEvt, r)
    BY <1>1, <2>1, RaiseFields, AcksDropped DEF Pending, DropEvt, Pkt
  <2>2. CASE \E p \in Packet(EventTypes \ {"DISCONNECT", "REFUSED"}) :
               Raise(p, r) /\ Taken(p)
    BY <1>1, <2>2, AcksTaken
  <2> QED
    BY <1>2, <2>1, <2>2, InputFields
<1>3. CASE (Goto(r) \/ Goto(l)) /\ UNCHANGED net
  BY <1>1, <1>3, GotoFields, AcksMoved DEF Pending, BackPcs
<1> QED
  BY <1>2, <1>3 DEF PollReady, PollTimeout, PollError

LEMMA AcksConnecting == TypeOK /\ Acks /\ MainBlocked /\ Connecting => Acks'
<1> SUFFICES ASSUME TypeOK, Acks, MainBlocked, Connecting PROVE Acks'
  OBVIOUS
<1>1. CASE WorkerStart \/ Nap \/ ConnectBegin
  <2>1. SameAcks /\ UNCHANGED net
    BY <1>1 DEF WorkerStart, Nap, ConnectBegin, SameAcks, TypeOK, MwType
  <2>2. ~Pending("PUBACK")'
    BY <1>1, GotoFields DEF WorkerStart, Nap, ConnectBegin, Pending
  <2> QED
    BY <2>1, <2>2, AcksMoved
<1>2. CASE DnsResolve
  BY <1>2, GotoFields, AcksMoved
    DEF DnsResolve, At, SameAcks, Pending, TypeOK, WorkerType
<1>3. CASE MqttConnect
  <2>1. CASE Goto("conn_poll")
    <3>1. /\ net'.up = <<Pkt("CONNECT")>> /\ net'.down = <<>>
          /\ main' = [main EXCEPT !.timedOut = FALSE] /\ mw' = mw
      BY <1>3, <2>1 DEF MqttConnect, Goto, TypeOK, WorkerType
    <3>2. \A n : /\ ~Any(net'.down, {"PUBACK"}) /\ One(net'.down, {"PUBACK"})
                 /\ Bears(net'.down, {"PUBACK"}, n)
      BY <3>1, AnyEmpty
    <3>3. \A n : /\ ~Any(net'.up, {"PUBLISH"}) /\ One(net'.up, {"PUBLISH"})
                 /\ Bears(net'.up, {"PUBLISH"}, n)
      <4>1. ~Any(net'.up, {"PUBLISH"}) /\ One(net'.up, {"PUBLISH"})
        BY <3>1, AnySingle DEF Pkt
      <4> QED
        BY <4>1 DEF Any, Bears
    <3>4. ~Pending("PUBACK")'
      BY <2>1, GotoFields DEF Pending
    <3>5. /\ main'.pc = main.pc /\ main'.messageId = main.messageId
          /\ main.pc = "wait_ack" => mw.PublishAckSem = 0
      BY <3>1 DEF MainBlocked, TypeOK, MainType
    <3> QED
      BY <3>1, <3>2, <3>3, <3>4, <3>5 DEF Acks, Unacked
  <2>2. CASE Goto("conn_failed")
    <3>1. /\ net' = [Closed EXCEPT !.leaked = @ \/ net.client # "idle"]
          /\ UNCHANGED <<main, mw>>
      BY <1>3, <2>2 DEF MqttConnect, Goto, TypeOK, WorkerType
    <3>2. net'.up = <<>> /\ net'.down = <<>>
      BY <3>1 DEF Closed, TypeOK, NetType
    <3>3. \A T, n : /\ ~Any(net'.up, T) /\ One(net'.up, T)
                    /\ ~Any(net'.down, T) /\ One(net'.down, T)
                    /\ Bears(net'.up, T, n) /\ Bears(net'.down, T, n)
      BY <3>2, AnyEmpty
    <3>4. ~Pending("PUBACK")'
      BY <2>2, GotoFields DEF Pending
    <3> QED
      BY <3>1, <3>3, <3>4 DEF Acks, Unacked
  <2> QED
    BY <1>3, <2>1, <2>2 DEF MqttConnect
<1>4. CASE ConnectPoll
  BY <1>4, AcksPoll DEF ConnectPoll, BackPcs
<1>5. CASE ConnectCheck
  <2>1. SameAcks
    BY <1>5 DEF ConnectCheck, SameAcks
  <2>2. CASE UNCHANGED net
             /\ worker' = [worker EXCEPT !.pc = "loop", !.errConn = 0,
                                         !.StateMachine = "SUBSCRIBE"]
    BY <2>1, <2>2, AcksMoved DEF Pending, TypeOK, WorkerType
  <2>3. CASE UNCHANGED net /\ Goto("conn_failed")
    BY <2>1, <2>3, AcksMoved, GotoFields DEF Pending
  <2>4. CASE net' = Closed /\ Raise(DropEvt, "conn_failed")
    BY <2>1, <2>4, AcksDropped, RaiseFields DEF Pending, DropEvt, Pkt
  <2> QED
    BY <1>5, <2>2, <2>3, <2>4 DEF ConnectCheck
<1>6. CASE ConnectFailed
  BY <1>6, AcksMoved DEF ConnectFailed, SameAcks, Pending, TypeOK, WorkerType
<1> QED
  BY <1>1, <1>2, <1>3, <1>4, <1>5, <1>6 DEF Connecting

LEMMA AcksSubscribing == TypeOK /\ Acks /\ Subscribing => Acks'
<1> SUFFICES ASSUME TypeOK, Acks, Subscribing PROVE Acks'
  OBVIOUS
<1>1. SameAcks
  BY DEF Subscribing, SubscribeBegin, SubscribeWait, SubscribePoll,
         SubscribeCheck, SubscribeReturn, SubscribeFailed, SameAcks, TypeOK,
         MwType
<1>2. ASSUME NEW l, l # "evt", Goto(l), UNCHANGED net
      PROVE  Acks'
  BY <1>1, <1>2, GotoFields, AcksMoved DEF Pending
<1>3. ASSUME NEW r, Broken(r)
      PROVE  Acks'
  BY <1>1, <1>3, RaiseFields, AcksDropped DEF Broken, Pending, Pkt
<1>4. CASE SubscribeBegin
  <2>1. CASE net' = Written(Pkt("SUBSCRIBE")) /\ Goto("sub_wait")
    <3>1. Pkt("SUBSCRIBE") \in Packet(RequestTypes)
      BY DropEvtType DEF Pkt, Packet, RequestTypes
    <3> QED
      BY <1>1, <2>1, <3>1, GotoFields, AcksWritten DEF Pending, Pkt
  <2> QED
    BY <1>2, <1>3, <1>4, <2>1 DEF SubscribeBegin
<1>5. CASE SubscribePoll
  BY <1>5, AcksPoll DEF SubscribePoll, BackPcs
<1>6. CASE SubscribeWait \/ SubscribeCheck
  BY <1>2, <1>6 DEF SubscribeWait, SubscribeCheck
<1>7. CASE SubscribeReturn \/ SubscribeFailed
  BY <1>1, <1>2, <1>7, AcksMoved
    DEF SubscribeReturn, SubscribeFailed, Pending, TypeOK, WorkerType
<1> QED
  BY <1>4, <1>5, <1>6, <1>7 DEF Subscribing

LEMMA AcksServing == TypeOK /\ Acks /\ Serving => Acks'
<1> SUFFICES ASSUME TypeOK, Acks, Serving PROVE Acks'
  OBVIOUS
<1>1. SameAcks
  BY DEF Serving, InputLive, InputWait, InputPoll, InputCheck, Bye, SameAcks,
         TypeOK, MwType
<1>2. ASSUME NEW l, l # "evt", Goto(l), UNCHANGED net
      PROVE  Acks'
  BY <1>1, <1>2, GotoFields, AcksMoved DEF Pending
<1>3. ASSUME NEW r, Broken(r)
      PROVE  Acks'
  BY <1>1, <1>3, RaiseFields, AcksDropped DEF Broken, Pending, Pkt
<1>4. CASE InputLive
  <2> DEFINE w == [worker EXCEPT !.pc = "loop",
                                 !.aliveDue = (PingPeriodSec = 0)]
  <2>1. w.pc = "loop"
    BY DEF TypeOK, WorkerType
  <2>2. CASE net' = Written(Pkt("PINGREQ")) /\ worker' = w
    <3>1. Pkt("PINGREQ") \in Packet(RequestTypes)
      BY DropEvtType DEF Pkt, Packet, RequestTypes
    <3> HIDE DEF w
    <3> QED
      BY <1>1, <2>1, <2>2, <3>1, AcksWritten DEF Pending, Pkt
  <2>3. CASE /\ net' = Closed
             /\ worker' = [w EXCEPT !.pc = "evt", !.evt = Pkt("DISCONNECT")]
    <3>1. worker'.evt.type = "DISCONNECT"
      BY <2>3 DEF TypeOK, WorkerType, Pkt
    <3> QED
      BY <1>1, <2>3, <3>1, AcksDropped DEF Pending
  <2>4. CASE UNCHANGED net /\ worker' = w
    <3> HIDE DEF w
    <3> QED
      BY <1>1, <2>1, <2>4, AcksMoved DEF Pending
  <2> QED
    BY <1>4, <2>2, <2>3, <2>4 DEF InputLive
<1>5. CASE InputWait
  BY <1>2, <1>5 DEF InputWait
<1>6. CASE InputPoll
  BY <1>6, AcksPoll DEF InputPoll, BackPcs
<1>7. CASE InputCheck
  <2>1. CASE UNCHANGED net
             /\ worker' = [worker EXCEPT !.pc = "loop",
                                         !.StateMachine = "DNS_RESOLVE"]
    BY <1>1, <2>1, AcksMoved DEF Pending, TypeOK, WorkerType
  <2> QED
    BY <1>2, <1>3, <1>7, <2>1 DEF InputCheck
<1>8. CASE Bye
  BY <1>1, <1>8, AcksMoved DEF Bye, Pending, TypeOK, WorkerType
<1> QED
  BY <1>4, <1>5, <1>6, <1>7, <1>8 DEF Serving

LEMMA AcksHandling == TypeOK /\ Acks /\ Handling => Acks'
<1> SUFFICES ASSUME TypeOK, Acks, Handling PROVE Acks'
  OBVIOUS
<1>1. CASE OnPuback /\ ~Undecoded
  <2>1. /\ worker.pc = "evt" /\ worker.evt.type = "PUBACK"
        /\ mw'.PublishAckSem = 1
        /\ mw'.ackIds = mw.ackIds \cup {worker.evt.id}
        /\ UNCHANGED <<main, net>>
    BY <1>1 DEF OnPuback, Got, TypeOK, MwType
  <2>2. worker'.evt = NoEvt
    BY <1>1, ReturnFields DEF OnPuback
  <2>3. ~Pending("PUBACK")'
    BY <2>2 DEF Pending, NoEvt, Pkt
  <2>4. (~main.timedOut /\ main.pc = "wait_ack")
          => mw'.ackIds = {main.messageId}
    <3>1. (~main.timedOut /\ main.pc = "wait_ack")
             => mw.ackIds = {} /\ worker.evt.id = main.messageId
      BY <2>1 DEF Acks, Unacked, Pending
    <3> QED
      BY <2>1, <3>1
  <2>5. mw'.ackIds # {}
    BY <2>1
  <2> QED
    BY <2>1, <2>3, <2>4, <2>5 DEF Acks, Unacked, Pending
<1>2. CASE OnRefused \/ OnConnackDone \/ OnDisconnectDone \/ OnPingresp
  <2>1. SameAcks /\ UNCHANGED net /\ Return
    BY <1>2 DEF OnRefused, OnConnackDone, OnDisconnectDone, OnPingresp,
                SameAcks, TypeOK, MwType
  <2> QED
    BY <2>1, ReturnFields, AcksMoved DEF Pending, NoEvt, Pkt
<1>3. CASE OnConnack \/ OnDisconnect
  <2>1. SameAcks /\ UNCHANGED net /\ (Goto("connack2") \/ Goto("disc2"))
    BY <1>3 DEF OnConnack, OnDisconnect, SameAcks, TypeOK, MwType
  <2> QED
    BY <2>1, GotoFields, AcksMoved DEF Pending
<1>4. CASE OnSuback \/ OnPublish \/ (OnPuback /\ Undecoded)
  <2>1. CASE Undecoded
    <3>1. \/ /\ mw'.PublishAckSem = mw.PublishAckSem /\ mw'.ackIds = mw.ackIds
             /\ main' = main
          \/ Return
      BY <1>4, <2>1 DEF OnSuback, OnPublish, OnPuback, TypeOK, MwType
    <3>2. ~ Return
      BY <2>1, ReturnFields, UndecodedFields DEF BackPcs
    <3>3. SameAcks /\ ~Pending("PUBACK")'
      BY <2>1, <3>1, <3>2, UndecodedFields DEF SameAcks, Pending
    <3> QED
      BY <2>1, <3>3, UndecodedFields, AcksDropped
  <2>2. CASE ~Undecoded
    <3>1. SameAcks /\ Return /\ UNCHANGED net
      BY <1>4, <2>2 DEF OnSuback, OnPublish, SameAcks, TypeOK, MwType
    <3> QED
      BY <3>1, ReturnFields, AcksMoved DEF Pending, NoEvt, Pkt
  <2> QED
    BY <2>1, <2>2
<1> QED
  BY <1>1, <1>2, <1>3, <1>4 DEF Handling

LEMMA AcksReboot == Reboot => Acks'
<1> SUFFICES ASSUME Reboot PROVE Acks'
  OBVIOUS
<1>1. /\ worker'.pc = "wait_start" /\ mw'.PublishAckSem = 0 /\ mw'.ackIds = {}
      /\ net'.up = <<>> /\ net'.down = <<>> /\ main'.pc = "boot"
  BY DEF Reboot, WorkerBoot, MwBoot, NetBoot, MainBoot
<1> QED
  BY <1>1, AnyEmpty DEF Acks, Unacked, Pending

LEMMA PublishReturnFields ==
  ASSUME NEW m \in MainType, NEW ok \in BOOLEAN
  PROVE  /\ PublishReturn(m, ok).pc # "wait_ack"
         /\ PublishReturn(m, ok).timedOut = m.timedOut
         /\ PublishReturn(m, ok).messageId = m.messageId
BY DEF PublishReturn, MainType

LEMMA NoneBears ==
  ASSUME NEW q, NEW T, NEW n, ~Any(q, T)
  PROVE  Bears(q, T, n) /\ One(q, T)
BY DEF Any, Bears, One

LEMMA AcksMain == TypeOK /\ Acks /\ MainStep => Acks'
<1> SUFFICES ASSUME TypeOK, Acks, MainStep PROVE Acks'
  OBVIOUS
<1>1. CASE InitWorker \/ FirstConnected \/ FirstConnSecond \/ NothingToPublish
  <2>1. SameAcks /\ UNCHANGED <<worker, net>>
    BY <1>1 DEF InitWorker, FirstConnected, FirstConnSecond, NothingToPublish,
                SameAcks, TypeOK, MainType, MwType
  <2> QED
    BY <2>1, AcksMoved
<1>2. CASE TimestampInit \/ KeepaliveTest \/ AssertFailed
  <2>1. CASE Reboot
    BY <2>1, AcksReboot
  <2>2. CASE ~Reboot
    <3>1. SameAcks /\ UNCHANGED <<worker, net>>
      BY <1>2, <2>2 DEF TimestampInit, KeepaliveTest, AssertFailed, SameAcks,
                        TypeOK, MainType
    <3> QED
      BY <3>1, AcksMoved
  <2> QED
    BY <2>1, <2>2
<1>3. CASE PublishRefused
  <2>1. main \in MainType /\ main.pc # "wait_ack"
    BY <1>3 DEF PublishRefused, TypeOK
  <2>2. SameAcks /\ UNCHANGED <<worker, net>>
    BY <1>3, <2>1, PublishReturnFields DEF PublishRefused, SameAcks
  <2> QED
    BY <2>2, AcksMoved
<1>4. CASE PublishSend
  <2> DEFINE m == [main EXCEPT !.messageId = (@ + 1) % IdMod]
             p == [type |-> "PUBLISH", id |-> m.messageId]
  <2>1. /\ m \in MainType /\ main.pc # "wait_ack" /\ UNCHANGED worker
        /\ m.timedOut = main.timedOut /\ p \in Packet(RequestTypes)
    BY <1>4, NextIdType
      DEF PublishSend, TypeOK, MainType, Packet, RequestTypes
  <2>2. mw'.ackIds = {} /\ mw'.PublishAckSem = 0
    BY <1>4 DEF PublishSend, Drained, AckTaken, TypeOK, MwType
  <2>3. CASE UNCHANGED net /\ main' = PublishReturn(m, FALSE)
    <3>1. main'.pc # "wait_ack" /\ main'.timedOut = main.timedOut
      BY <2>1, <2>3, PublishReturnFields
    <3>2. UNCHANGED <<worker, net>> /\ main.pc # "wait_ack"
      BY <2>1, <2>3
    <3> QED
      BY <2>2, <3>1, <3>2 DEF Acks, Unacked, Pending
  <2>4. CASE net' = Written(p) /\ main' = [m EXCEPT !.pc = "wait_ack"]
    <3>1. /\ main'.pc = "wait_ack" /\ main'.timedOut = main.timedOut
          /\ main'.messageId = m.messageId
      BY <2>1, <2>4 DEF MainType
    <3> DEFINE n == main'.messageId
               T == {"PUBLISH"}
               A == {"PUBACK"}
    <3>2. p.type \in T => p.id = n
      BY <3>1
    <3>3. ~main.timedOut => ~Any(net.up, T) /\ ~Any(net.down, A)
                            /\ ~Pending("PUBACK")
      BY <2>1 DEF Acks, Unacked
    <3>4. Pending("PUBACK")' = Pending("PUBACK")
      BY <2>1 DEF Pending
    <3> HIDE DEF n, T, A, m, p
    <3>5. net'.down = net.down
      BY <2>1, <2>4, WrittenFields
    <3>6. ~main.timedOut => One(net.up, T) /\ Bears(net.up, T, n)
      BY <3>3, NoneBears
    <3>7. (One(net.up, T) /\ ~(Any(net.up, T) /\ p.type \in T))
             => One(net'.up, T)
      BY <2>1, <2>4, WrittenFields
    <3>8. (Bears(net.up, T, n) /\ (p.type \in T => p.id = n))
             => Bears(net'.up, T, n)
      BY <2>1, <2>4, WrittenFields
    <3>9. ~main.timedOut => One(net'.up, T) /\ Bears(net'.up, T, n)
      BY <3>2, <3>3, <3>6, <3>7, <3>8
    <3>10. ~main.timedOut => /\ ~Any(net'.down, A) /\ One(net'.down, A)
                             /\ Bears(net'.down, A, n)
      BY <3>3, <3>5, NoneBears
    <3> QED
      BY <2>2, <3>1, <3>3, <3>4, <3>9, <3>10 DEF Acks, Unacked, n, T, A
  <2>5. CASE net' = Closed /\ main' = PublishReturn(m, FALSE)
    <3>1. /\ main'.pc # "wait_ack" /\ main'.timedOut = main.timedOut
      BY <2>1, <2>5, PublishReturnFields
    <3>2. ~Any(net'.up, {"PUBLISH"}) /\ ~Any(net'.down, {"PUBACK"})
      BY <2>5, ClosedFields
    <3> QED
      BY <2>1, <2>2, <3>1, <3>2 DEF Acks, Unacked, Pending
  <2> QED
    BY <1>4, <2>3, <2>4, <2>5 DEF PublishSend
<1>5. CASE PublishAcked
  <2>1. main \in MainType /\ main.pc = "wait_ack" /\ mw.PublishAckSem = 1
    BY <1>5 DEF PublishAcked, TypeOK
  <2>2. /\ main'.pc # "wait_ack" /\ main'.timedOut = main.timedOut
        /\ UNCHANGED <<worker, net>>
    BY <1>5, <2>1, PublishReturnFields DEF PublishAcked
  <2>3. mw'.ackIds = {} /\ mw'.PublishAckSem = 0
    BY <1>5 DEF PublishAcked, Drained, AckTaken, TypeOK, MwType
  <2> QED
    BY <2>1, <2>2, <2>3 DEF Acks, Unacked, Pending
<1>6. CASE PublishTimeout
  <2>1. /\ [main EXCEPT !.timedOut = TRUE] \in MainType
        /\ [main EXCEPT !.timedOut = TRUE].timedOut = TRUE
    BY DEF TypeOK, MainType
  <2>2. main'.timedOut = TRUE /\ UNCHANGED <<worker, mw, net>>
    BY <1>6, <2>1, PublishReturnFields DEF PublishTimeout
  <2> QED
    BY <2>2 DEF Acks
<1> QED
  BY <1>1, <1>2, <1>3, <1>4, <1>5, <1>6 DEF MainStep

LEMMA AcksEnvironment == TypeOK /\ Acks /\ Environment => Acks'
<1> SUFFICES ASSUME TypeOK, Acks, Environment PROVE Acks'
  OBVIOUS
<1> DEFINE n == main.messageId
           T == {"PUBLISH"}
           A == {"PUBACK"}
<1>1. CASE WatchdogReset
  BY <1>1, AcksReboot DEF WatchdogReset
<1>2. CASE BrokerAnswer
  <2>1. PICK p \in Packet(RequestTypes), a \in Packet(DownTypes) :
           /\ a \in Answer(p)
           /\ p = Head(net.up) /\ net.up # <<>> /\ net'.up = Tail(net.up)
           /\ net'.down = Append(net.down, a)
    BY <1>2, AnswerFields
  <2>2. (a.type \in A <=> p.type \in T) /\ (a.type \in A => a.id = p.id)
    BY <2>1 DEF Answer, Packet, RequestTypes, Pkt
  <2>3. UNCHANGED <<worker, main, mw>>
    BY <1>2 DEF BrokerAnswer
  <2>4. /\ Any(net.up, T) <=> Any(net'.up, T) \/ p.type \in T
        /\ One(net.up, T) => One(net'.up, T)
        /\ One(net.up, T) => ~(Any(net'.up, T) /\ p.type \in T)
        /\ Bears(net.up, T, n) => Bears(net'.up, T, n)
        /\ Bears(net.up, T, n) => (p.type \in T => p.id = n)
    <3> HIDE DEF T, n
    <3> QED
      BY <2>1, UpTaken
  <2>5. /\ Any(net'.down, A) <=> Any(net.down, A) \/ a.type \in A
        /\ (One(net.down, A) /\ ~(Any(net.down, A) /\ a.type \in A))
              => One(net'.down, A)
        /\ (Bears(net.down, A, n) /\ (a.type \in A => a.id = n))
              => Bears(net'.down, A, n)
    <3> HIDE DEF A, n
    <3> QED
      BY <2>1, DownAppended
  <2>6. /\ main'.messageId = n /\ main'.timedOut = main.timedOut
        /\ main'.pc = main.pc /\ mw' = mw
        /\ Pending("PUBACK")' = Pending("PUBACK")
        /\ worker' = worker
    BY <2>3 DEF Pending
  <2> USE DEF Acks, Unacked
  <2>7. CASE main.timedOut
    BY <2>6, <2>7
  <2>8. CASE ~main.timedOut /\ main.pc # "wait_ack"
    BY <2>2, <2>4, <2>5, <2>6, <2>8
  <2>9. CASE ~main.timedOut /\ main.pc = "wait_ack"
    BY <2>2, <2>4, <2>5, <2>6, <2>9
  <2> QED
    BY <2>7, <2>8, <2>9
<1>3. CASE BrokerSend
  <2>1. PICK p \in Packet(DownTypes) :
           /\ p.type \in {"PUBLISH", "FIN"}
           /\ net'.down = Append(net.down, p) /\ net'.up = net.up
           /\ UNCHANGED <<worker, main, mw>>
    BY <1>3, SendFields
  <2>2. /\ Any(net'.down, A) <=> Any(net.down, A)
        /\ One(net.down, A) => One(net'.down, A)
        /\ Bears(net.down, A, n) => Bears(net'.down, A, n)
    <3>1. p.type \notin A
      BY <2>1
    <3> HIDE DEF A, n
    <3> QED
      BY <2>1, <3>1, DownAppended
  <2> QED
    BY <2>1, <2>2 DEF Acks, Unacked, Pending
<1>4. CASE WifiDrop \/ Tick \/ PingPeriodEnds
  <2>1. SameAcks /\ UNCHANGED net
        /\ worker'.pc = worker.pc /\ worker'.evt = worker.evt
    BY <1>4 DEF WifiDrop, Tick, PingPeriodEnds, SameAcks, TypeOK, WorkerType,
                MwType
  <2> QED
    BY <2>1 DEF Acks, SameAcks, Unacked, Pending
<1> QED
  BY <1>1, <1>2, <1>3, <1>4 DEF Environment

LEMMA AcksStep == TypeOK /\ Acks /\ [Next]_vars => Acks'
<1>1. TypeOK /\ Acks /\ UNCHANGED vars => Acks'
  BY AcksMoved DEF vars, SameAcks
<1> QED
  BY <1>1, AcksConnecting, AcksSubscribing, AcksServing, AcksHandling,
     AcksMain, AcksEnvironment DEF Next, WorkerStep

-----------------------------------------------------------------------------
(* Subs is kept: first the steps that look alike.                           *)

(* The flag is as it was or cleared, and nothing calls for it that did not. *)
SameSubs ==
  /\ mw'.Subscribed => mw.Subscribed
  /\ AfterSubscribe' /\ mw'.Subscribed => AfterSubscribe

LEMMA SubsMoved ==
  ASSUME Subs, SameSubs, UNCHANGED net,
         Pending("SUBACK")' => Pending("SUBACK")
  PROVE  Subs'
BY DEF Subs, SameSubs

LEMMA SubsDropped ==
  ASSUME TypeOK, Subs, net' = Closed, ~Pending("SUBACK")',
         mw'.Subscribed => mw.Subscribed
  PROVE  Subs'
<1>1. /\ net'.client = "idle"
      /\ ~Any(net'.up, {"SUBSCRIBE"}) /\ ~Any(net'.down, {"SUBACK"})
  BY ClosedFields
<1> QED
  BY <1>1 DEF Subs

LEMMA SubsWritten ==
  ASSUME TypeOK, Subs, SameSubs, ~Pending("SUBACK")' \/ UNCHANGED worker,
         NEW p \in Packet(RequestTypes), p.type = "SUBSCRIBE" => HasSubs,
         net' = Written(p)
  PROVE  Subs'
<1>1. /\ net'.client = net.client /\ net'.down = net.down
      /\ net'.answered = net.answered
      /\ Any(net'.up, {"SUBSCRIBE"}) <=>
           Any(net.up, {"SUBSCRIBE"}) \/ p.type \in {"SUBSCRIBE"}
  BY WrittenFields
<1>2. Pending("SUBACK")' => Pending("SUBACK")
  BY DEF Pending
<1> QED
  BY <1>1, <1>2 DEF Subs, SameSubs

LEMMA SubsTaken ==
  ASSUME TypeOK, Places, Session, Subs, UNCHANGED mw, worker.pc # "evt",
         worker.pc # "conn_check",
         NEW p \in Packet(EventTypes \ {"DISCONNECT", "REFUSED"}),
         NEW r \in {"conn_check", "sub_check", "in_check"},
         r = "sub_check" => worker.pc = "sub_poll",
         Raise(p, r), Taken(p)
  PROVE  Subs'
<1>1. /\ worker'.pc = "evt" /\ worker'.evt = p /\ worker'.back = r
      /\ worker'.StateMachine = worker.StateMachine
  BY RaiseFields
<1>2. AfterSubscribe' => AfterSubscribe
  BY <1>1 DEF AfterSubscribe
<1>3. /\ net'.up = net.up /\ net'.answered = net.answered
      /\ net'.client = IF p.type = "CONNACK" THEN "connected" ELSE net.client
      /\ Any(net.down, {"SUBACK"}) <=> \/ Any(net'.down, {"SUBACK"})
                                       \/ p.type \in {"SUBACK"}
      /\ Any(net.down, Handshaken) <=> \/ Any(net'.down, Handshaken)
                                       \/ p.type \in Handshaken
  BY DEF Taken
<1>4. CASE p.type = "CONNACK"
  <2>1. worker.pc = "conn_poll"
    BY <1>3, <1>4 DEF Session, Opening, Handshaken
  <2>2. r # "sub_check" /\ worker.StateMachine = "CONNECT_TO_BROKER"
    BY <2>1 DEF Places
  <2>3. ~AfterSubscribe'
    BY <1>1, <2>2 DEF AfterSubscribe
  <2>4. ~Pending("SUBACK")'
    BY <1>1, <1>4 DEF Pending
  <2> QED
    BY <1>3, <2>3, <2>4 DEF Subs
<1>5. CASE p.type # "CONNACK"
  <2>1. Pending("SUBACK")' => Any(net.down, {"SUBACK"})
    BY <1>1, <1>3 DEF Pending
  <2> QED
    BY <1>2, <1>3, <1>5, <2>1 DEF Subs
<1> QED
  BY <1>4, <1>5

LEMMA SubsPoll ==
  ASSUME TypeOK, Places, Session, Subs, UNCHANGED mw, worker.pc # "evt",
         worker.pc # "conn_check",
         NEW r \in {"conn_check", "sub_check", "in_check"},
         NEW l \in {r, "sub_ret0", "sub_retN"},
         (r = "sub_check" \/ l # r) => worker.pc = "sub_poll",
         PollReady(r) \/ PollTimeout(l) \/ PollError(l)
  PROVE  Subs'
<1>1. CASE MqttInput(r)
  <2>1. CASE net' = Closed /\ Raise(DropEvt, r)
    BY <2>1, RaiseFields, SubsDropped DEF Pending, DropEvt, Pkt
  <2>2. CASE \E p \in Packet(EventTypes \ {"DISCONNECT", "REFUSED"}) :
               Raise(p, r) /\ Taken(p)
    BY <2>2, SubsTaken
  <2> QED
    BY <1>1, <2>1, <2>2, InputFields
<1>2. CASE (Goto(r) \/ Goto(l)) /\ UNCHANGED net
  <2>1. /\ worker'.pc \in {r, l} /\ worker'.back = worker.back
        /\ worker'.StateMachine = worker.StateMachine
    BY <1>2, GotoFields
  <2>2. AfterSubscribe' => AfterSubscribe
    BY <2>1 DEF AfterSubscribe
  <2>3. ~Pending("SUBACK")'
    BY <2>1 DEF Pending
  <2> QED
    BY <1>2, <2>2, <2>3, SubsMoved DEF SameSubs
<1> QED
  BY <1>1, <1>2 DEF PollReady, PollTimeout, PollError

LEMMA SubsConnecting ==
  TypeOK /\ Places /\ Session /\ Subs /\ Connecting => Subs'
<1> SUFFICES ASSUME TypeOK, Places, Session, Subs, Connecting PROVE Subs'
  OBVIOUS
<1>1. mw'.Subscribed = mw.Subscribed
  BY DEF Connecting, WorkerStart, DnsResolve, Nap, ConnectBegin, MqttConnect,
         ConnectPoll, ConnectCheck, ConnectFailed, TypeOK, MwType
<1>2. ASSUME NEW l \in {"loop", "nap", "mqtt_connect", "conn_failed"},
             Goto(l), UNCHANGED net
      PROVE  Subs'
  <2>1. /\ worker'.pc = l /\ worker'.back = worker.back
        /\ worker'.StateMachine = worker.StateMachine
    BY <1>2, GotoFields
  <2>2. SameSubs /\ ~Pending("SUBACK")'
    BY <1>1, <2>1 DEF SameSubs, AfterSubscribe, Pending
  <2> QED
    BY <1>2, <2>2, SubsMoved
<1>3. CASE WorkerStart \/ Nap \/ ConnectBegin
  BY <1>2, <1>3 DEF WorkerStart, Nap, ConnectBegin
<1>4. CASE DnsResolve
  <2>1. CASE worker' = [worker EXCEPT !.StateMachine = "CONNECT_TO_BROKER"]
    BY <1>1, <1>4, <2>1, SubsMoved
      DEF DnsResolve, At, SameSubs, AfterSubscribe, Pending, TypeOK, WorkerType
  <2> QED
    BY <1>2, <1>4, <2>1 DEF DnsResolve
<1>5. CASE MqttConnect
  <2>1. worker'.StateMachine = "CONNECT_TO_BROKER" /\ worker'.back = "loop"
        /\ worker'.pc \in {"conn_poll", "conn_failed"}
    BY <1>5, GotoFields DEF MqttConnect, Places, InHandler
  <2>2. ~AfterSubscribe' /\ ~Pending("SUBACK")'
    BY <2>1 DEF AfterSubscribe, Pending
  <2>3. net'.down = <<>> /\ net'.up \in {<<>>, <<Pkt("CONNECT")>>}
    <3>1. CASE net' = [Closed EXCEPT !.leaked = @ \/ net.client # "idle"]
      BY <3>1 DEF Closed, TypeOK, NetType
    <3>2. CASE net' = [client |-> IF net.client = "idle" THEN "tcp"
                                                        ELSE net.client,
                       up |-> <<Pkt("CONNECT")>>, down |-> <<>>,
                       answered |-> FALSE,
                       leaked |-> net.leaked \/ net.client # "idle"]
      BY <3>2
    <3> QED
      BY <1>5, <3>1, <3>2 DEF MqttConnect
  <2>4. ~Any(net'.down, {"SUBACK"}) /\ ~Any(net'.up, {"SUBSCRIBE"})
    BY <2>3, AnyEmpty, AnySingle DEF Pkt
  <2> QED
    BY <1>1, <2>2, <2>4 DEF Subs
<1>6. CASE ConnectPoll
  BY <1>6, SubsPoll DEF ConnectPoll
<1>7. CASE ConnectCheck
  <2>1. CASE UNCHANGED net
             /\ worker' = [worker EXCEPT !.pc = "loop", !.errConn = 0,
                                         !.StateMachine = "SUBSCRIBE"]
    BY <1>1, <2>1, SubsMoved
      DEF SameSubs, AfterSubscribe, Pending, TypeOK, WorkerType
  <2>2. CASE net' = Closed /\ Raise(DropEvt, "conn_failed")
    BY <1>1, <2>2, SubsDropped, RaiseFields DEF Pending, DropEvt, Pkt
  <2> QED
    BY <1>2, <1>7, <2>1, <2>2 DEF ConnectCheck
<1>8. CASE ConnectFailed
  <2>1. /\ worker'.pc = "nap" /\ worker'.back = worker.back
        /\ worker'.StateMachine \in {"DNS_RESOLVE", "CONNECT_TO_BROKER"}
    BY <1>8 DEF ConnectFailed, GiveUp, Places, TypeOK, WorkerType
  <2> QED
    BY <1>1, <1>8, <2>1, SubsMoved
      DEF ConnectFailed, SameSubs, AfterSubscribe, Pending
<1> QED
  BY <1>3, <1>4, <1>5, <1>6, <1>7, <1>8 DEF Connecting

LEMMA SubsSubscribing ==
  TypeOK /\ Places /\ Session /\ Subs /\ Subscribing => Subs'
<1> SUFFICES ASSUME TypeOK, Places, Session, Subs, Subscribing PROVE Subs'
  OBVIOUS
<1>1. /\ mw'.Subscribed => mw.Subscribed
      /\ ~SubscribeBegin => mw'.Subscribed = mw.Subscribed
  BY DEF Subscribing, SubscribeBegin, SubscribeWait, SubscribePoll,
         SubscribeCheck, SubscribeReturn, SubscribeFailed, TypeOK, MwType
<1>2. CASE SubscribeBegin
  <2>1. ~mw'.Subscribed
    <3>1. CASE HasSubs
      BY <1>2, <3>1 DEF SubscribeBegin, TypeOK, MwType
    <3>2. CASE ~HasSubs
      BY <1>1, <3>2 DEF Subs
    <3> QED
      BY <3>1, <3>2
  <2>2. SameSubs
    BY <2>1 DEF SameSubs
  <2>3. CASE (Goto("sub_ret0") \/ Goto("sub_failed")) /\ UNCHANGED net
    BY <2>2, <2>3, GotoFields, SubsMoved DEF Pending
  <2>4. CASE HasSubs /\ net' = Written(Pkt("SUBSCRIBE")) /\ Goto("sub_wait")
    <3>1. Pkt("SUBSCRIBE") \in Packet(RequestTypes)
      BY DropEvtType DEF Pkt, Packet, RequestTypes
    <3> QED
      BY <2>2, <2>4, <3>1, GotoFields, SubsWritten DEF Pending
  <2>5. CASE Broken("sub_failed")
    BY <1>1, <2>5, RaiseFields, SubsDropped DEF Broken, Pending, Pkt
  <2> QED
    BY <1>2, <2>3, <2>4, <2>5 DEF SubscribeBegin
<1>3. CASE SubscribePoll
  BY <1>3, SubsPoll DEF SubscribePoll
<1>4. CASE SubscribeWait \/ SubscribeCheck
  <2>1. /\ worker.pc \in {"sub_wait", "sub_check"} /\ worker'.pc # "evt"
        /\ UNCHANGED net
    BY <1>4, GotoFields DEF SubscribeWait, SubscribeCheck
  <2> QED
    BY <1>1, <2>1, SubsMoved DEF SameSubs, AfterSubscribe, Pending
<1>5. CASE SubscribeReturn \/ SubscribeFailed
  <2>1. /\ worker.pc \in {"sub_ret0", "sub_retN", "sub_failed"}
        /\ UNCHANGED net
    BY <1>5 DEF SubscribeReturn, SubscribeFailed
  <2>2. worker'.pc # "evt"
    BY <1>5, GotoFields DEF SubscribeReturn, SubscribeFailed, TypeOK, WorkerType
  <2> QED
    BY <1>1, <2>1, <2>2, SubsMoved DEF SameSubs, AfterSubscribe, Pending
<1> QED
  BY <1>2, <1>3, <1>4, <1>5 DEF Subscribing

LEMMA SubsServing == TypeOK /\ Places /\ Session /\ Subs /\ Serving => Subs'
<1> SUFFICES ASSUME TypeOK, Places, Session, Subs, Serving PROVE Subs'
  OBVIOUS
<1>1. mw'.Subscribed = mw.Subscribed
  BY DEF Serving, InputLive, InputWait, InputPoll, InputCheck, Bye, TypeOK,
         MwType
<1>2. ASSUME NEW l \in {"loop", "poll", "bye"}, Goto(l), UNCHANGED net
      PROVE  Subs'
  <2>1. /\ worker'.pc = l /\ worker'.back = worker.back
        /\ worker'.StateMachine = worker.StateMachine
    BY <1>2, GotoFields
  <2> QED
    BY <1>1, <1>2, <2>1, SubsMoved DEF SameSubs, AfterSubscribe, Pending
<1>3. CASE InputLive
  <2> DEFINE w == [worker EXCEPT !.pc = "loop",
                                 !.aliveDue = (PingPeriodSec = 0)]
  <2>1. w.pc = "loop" /\ w.back = worker.back
        /\ w.StateMachine = worker.StateMachine
    BY DEF TypeOK, WorkerType
  <2>2. CASE net' = Written(Pkt("PINGREQ")) /\ worker' = w
    <3>1. Pkt("PINGREQ") \in Packet(RequestTypes)
          /\ Pkt("PINGREQ").type # "SUBSCRIBE"
      BY DropEvtType DEF Pkt, Packet, RequestTypes
    <3> HIDE DEF w
    <3>2. SameSubs /\ ~Pending("SUBACK")'
      BY <1>1, <2>1, <2>2 DEF SameSubs, AfterSubscribe, Pending
    <3> QED
      BY <2>2, <3>1, <3>2, SubsWritten
  <2>3. CASE /\ net' = Closed
             /\ worker' = [w EXCEPT !.pc = "evt", !.evt = Pkt("DISCONNECT")]
    <3>1. worker'.evt.type = "DISCONNECT"
      BY <2>3 DEF TypeOK, WorkerType, Pkt
    <3> QED
      BY <1>1, <2>3, <3>1, SubsDropped DEF Pending
  <2>4. CASE UNCHANGED net /\ worker' = w
    <3> HIDE DEF w
    <3> QED
      BY <1>1, <2>1, <2>4, SubsMoved DEF SameSubs, AfterSubscribe, Pending
  <2> QED
    BY <1>3, <2>2, <2>3, <2>4 DEF InputLive
<1>4. CASE InputWait
  BY <1>2, <1>4 DEF InputWait
<1>5. CASE InputPoll
  BY <1>5, SubsPoll DEF InputPoll
<1>6. CASE InputCheck
  <2>1. CASE UNCHANGED net
             /\ worker' = [worker EXCEPT !.pc = "loop",
                                         !.StateMachine = "DNS_RESOLVE"]
    BY <1>1, <2>1, SubsMoved
      DEF SameSubs, AfterSubscribe, Pending, TypeOK, WorkerType
  <2>2. CASE Broken("bye")
    BY <1>1, <2>2, RaiseFields, SubsDropped DEF Broken, Pending, Pkt
  <2> QED
    BY <1>2, <1>6, <2>1, <2>2 DEF InputCheck
<1>7. CASE Bye
  BY <1>1, <1>7, SubsMoved
    DEF Bye, SameSubs, AfterSubscribe, Pending, TypeOK, WorkerType
<1> QED
  BY <1>3, <1>4, <1>5, <1>6, <1>7 DEF Serving

LEMMA SubsHandling == TypeOK /\ Subs /\ Handling => Subs'
<1> SUFFICES ASSUME TypeOK, Subs, Handling PROVE Subs'
  OBVIOUS
<1>1. ASSUME Return
      PROVE  (AfterSubscribe' => AfterSubscribe) /\ ~Pending("SUBACK")'
  BY <1>1, ReturnFields DEF AfterSubscribe, Pending, NoEvt, Pkt, BackPcs
<1>2. CASE OnSuback
  <2>1. mw'.Subscribed /\ Pending("SUBACK") /\ ((Return /\ UNCHANGED net) \/ Undecoded)
    BY <1>2 DEF OnSuback, Got, Pending, TypeOK, MwType
  <2>2. CASE Return /\ UNCHANGED net
    BY <1>1, <2>1, <2>2 DEF Subs
  <2>3. CASE Undecoded
    <3>1. HasSubs
      BY <2>1 DEF Subs
    <3>2. net'.client = "idle" /\ ~Any(net'.down, {"SUBACK"}) /\ ~Pending("SUBACK")'
      BY <2>3, UndecodedFields, ClosedFields DEF Pending
    <3> QED
      BY <3>1, <3>2 DEF Subs
  <2> QED
    BY <2>1, <2>2, <2>3
<1>3. CASE OnRefused \/ OnConnackDone \/ OnDisconnectDone \/ OnPingresp
  <2>1. mw'.Subscribed = mw.Subscribed /\ UNCHANGED net /\ Return
    BY <1>3 DEF OnRefused, OnConnackDone, OnDisconnectDone, OnPingresp, TypeOK,
                MwType
  <2> QED
    BY <1>1, <2>1, SubsMoved DEF SameSubs
<1>4. CASE OnConnack \/ OnDisconnect
  <2>1. /\ mw'.Subscribed = mw.Subscribed /\ UNCHANGED net
        /\ worker'.pc \in {"connack2", "disc2"} /\ worker'.back = worker.back
        /\ worker'.StateMachine = worker.StateMachine
    BY <1>4, GotoFields DEF OnConnack, OnDisconnect, TypeOK, MwType
  <2> QED
    BY <2>1, SubsMoved DEF SameSubs, AfterSubscribe, Pending
<1>5. CASE OnPublish \/ OnPuback
  <2>1. /\ mw'.Subscribed = mw.Subscribed
        /\ (Return /\ UNCHANGED net) \/ Undecoded
    BY <1>5 DEF OnPublish, OnPuback, TypeOK, MwType
  <2>2. CASE Return /\ UNCHANGED net
    BY <1>1, <2>1, <2>2, SubsMoved DEF SameSubs
  <2>3. CASE Undecoded
    BY <2>1, <2>3, UndecodedFields, SubsDropped DEF Pending
  <2> QED
    BY <2>1, <2>2, <2>3
<1> QED
  BY <1>2, <1>3, <1>4, <1>5 DEF Handling

LEMMA SubsReboot == Reboot => Subs'
<1> SUFFICES ASSUME Reboot PROVE Subs'
  OBVIOUS
<1>1. /\ worker'.pc = "wait_start" /\ ~mw'.Subscribed
      /\ net'.up = <<>> /\ net'.down = <<>>
  BY DEF Reboot, WorkerBoot, MwBoot, NetBoot
<1> QED
  BY <1>1, AnyEmpty DEF Subs, Pending

LEMMA SubsMain == TypeOK /\ Subs /\ MainStep => Subs'
<1> SUFFICES ASSUME TypeOK, Subs, MainStep PROVE Subs'
  OBVIOUS
<1>1. ASSUME UNCHANGED worker, mw'.Subscribed = mw.Subscribed
      PROVE  /\ SameSubs /\ Pending("SUBACK")' = Pending("SUBACK")
             /\ AfterSubscribe' = AfterSubscribe
  BY <1>1 DEF SameSubs, AfterSubscribe, Pending
<1>2. CASE InitWorker \/ FirstConnected \/ FirstConnSecond \/ PublishRefused
           \/ PublishAcked \/ PublishTimeout \/ NothingToPublish
  <2>1. UNCHANGED <<worker, net>> /\ mw'.Subscribed = mw.Subscribed
    BY <1>2
      DEF InitWorker, FirstConnected, FirstConnSecond, PublishRefused,
          PublishAcked, PublishTimeout, NothingToPublish, Drained, AckTaken, TypeOK,
          MwType
  <2> QED
    BY <1>1, <2>1, SubsMoved
<1>3. CASE TimestampInit \/ KeepaliveTest \/ AssertFailed
  BY <1>1, <1>3, SubsMoved, SubsReboot
    DEF TimestampInit, KeepaliveTest, AssertFailed
<1>4. CASE PublishSend
  <2> DEFINE p == [type |-> "PUBLISH", id |-> (main.messageId + 1) % IdMod]
  <2>1. p \in Packet(RequestTypes) /\ UNCHANGED worker
        /\ mw'.Subscribed = mw.Subscribed
    BY <1>4, NextIdType
      DEF PublishSend, Drained, AckTaken, TypeOK, MainType, MwType, Packet, RequestTypes
  <2>2. net' = net \/ net' = Written(p) \/ net' = Closed
    BY <1>4 DEF PublishSend, TypeOK, MainType
  <2>3. CASE net' = net
    BY <1>1, <2>1, <2>3, SubsMoved
  <2>4. CASE net' = Written(p)
    BY <1>1, <2>1, <2>4, SubsWritten
  <2>5. CASE net' = Closed
    <3>1. /\ net'.client = "idle"
          /\ ~Any(net'.up, {"SUBSCRIBE"}) /\ ~Any(net'.down, {"SUBACK"})
      BY <2>5, ClosedFields
    <3> QED
      BY <1>1, <2>1, <3>1 DEF Subs
  <2> QED
    BY <2>2, <2>3, <2>4, <2>5
<1> QED
  BY <1>2, <1>3, <1>4 DEF MainStep

LEMMA SubsEnvironment == TypeOK /\ Subs /\ Environment => Subs'
<1> SUFFICES ASSUME TypeOK, Subs, Environment PROVE Subs'
  OBVIOUS
<1>1. CASE WatchdogReset
  BY <1>1, SubsReboot DEF WatchdogReset
<1>2. CASE BrokerAnswer
  <2> DEFINE T == {"SUBSCRIBE"}
             A == {"SUBACK"}
  <2>1. PICK p \in Packet(RequestTypes), a \in Packet(DownTypes) :
           /\ a \in Answer(p)
           /\ p = Head(net.up) /\ net.up # <<>> /\ net'.up = Tail(net.up)
           /\ net'.down = Append(net.down, a)
           /\ net'.client = net.client
           /\ a.type = "SUBACK" => net'.answered
           /\ net.answered => net'.answered
    BY <1>2, AnswerFields
  <2>2. a.type \in A <=> p.type \in T
    BY <2>1 DEF Answer, Packet, RequestTypes, Pkt
  <2>3. Any(net.up, T) <=> Any(net'.up, T) \/ p.type \in T
    <3> HIDE DEF T
    <3> QED
      BY <2>1, UpTaken
  <2>4. Any(net'.down, A) <=> Any(net.down, A) \/ a.type \in A
    <3> HIDE DEF A
    <3> QED
      BY <2>1, DownAppended
  <2>5. /\ mw' = mw /\ Pending("SUBACK")' = Pending("SUBACK")
        /\ AfterSubscribe' = AfterSubscribe
    BY <1>2 DEF BrokerAnswer, Pending, AfterSubscribe
  <2> QED
    BY <2>1, <2>2, <2>3, <2>4, <2>5 DEF Subs
<1>3. CASE BrokerSend
  <2>1. PICK p \in Packet(DownTypes) :
           /\ p.type \in {"PUBLISH", "FIN"}
           /\ net'.down = Append(net.down, p) /\ net'.up = net.up
           /\ net'.client = net.client /\ net'.answered = net.answered
           /\ UNCHANGED <<worker, main, mw>>
    BY <1>3, SendFields
  <2>2. Any(net'.down, {"SUBACK"}) <=> Any(net.down, {"SUBACK"})
    BY <2>1, DownAppended
  <2> QED
    BY <2>1, <2>2 DEF Subs, Pending, AfterSubscribe
<1>4. CASE WifiDrop \/ Tick \/ PingPeriodEnds
  <2>1. /\ mw'.Subscribed = mw.Subscribed /\ UNCHANGED net
        /\ worker'.pc = worker.pc /\ worker'.evt = worker.evt
        /\ worker'.back = worker.back
        /\ worker'.StateMachine = worker.StateMachine
    BY <1>4 DEF WifiDrop, Tick, PingPeriodEnds, TypeOK, WorkerType, MwType
  <2> QED
    BY <2>1 DEF Subs, Pending, AfterSubscribe
<1> QED
  BY <1>1, <1>2, <1>3, <1>4 DEF Environment

LEMMA SubsStep ==
  TypeOK /\ Places /\ Session /\ Subs /\ [Next]_vars => Subs'
<1>1. TypeOK /\ Subs /\ UNCHANGED vars => Subs'
  BY DEF vars, Subs, Pending, AfterSubscribe
<1> QED
  BY <1>1, SubsConnecting, SubsSubscribing, SubsServing, SubsHandling,
     SubsMain, SubsEnvironment DEF Next, WorkerStep

-----------------------------------------------------------------------------
(* The inductive invariant and what follows from it.                        *)

IInv == TypeInv /\ Places /\ Session /\ Released /\ Acks /\ Subs

LEMMA IInvInit == Init => IInv
<1> SUFFICES ASSUME Init PROVE IInv
  OBVIOUS
<1>1. TypeInv
  BY TypeInit
<1>2. Session
  BY SessionBoot DEF Init
<1>3. /\ worker.pc = "wait_start" /\ worker.back = "loop"
      /\ worker.StateMachine = "DNS_RESOLVE"
      /\ ~mw.Subscribed /\ mw.ConectedAckSem = 0
      /\ mw.PublishAckSem = 0 /\ mw.ackIds = {}
      /\ net.up = <<>> /\ net.down = <<>> /\ main.pc = "boot"
  BY DEF Init, WorkerBoot, MwBoot, NetBoot, MainBoot
<1>4. Places /\ Released
  BY <1>3 DEF Places, InHandler, Released
<1>5. /\ ~Any(net.up, {"PUBLISH"}) /\ ~Any(net.down, {"PUBACK"})
      /\ ~Any(net.up, {"SUBSCRIBE"}) /\ ~Any(net.down, {"SUBACK"})
      /\ ~Pending("PUBACK") /\ ~Pending("SUBACK")
  BY <1>3, AnyEmpty DEF Pending
<1>6. Acks
  BY <1>3, <1>5 DEF Acks, Unacked
<1>7. Subs
  BY <1>3, <1>5 DEF Subs
<1> QED
  BY <1>1, <1>2, <1>4, <1>6, <1>7 DEF IInv

LEMMA IInvStep == IInv /\ [Next]_vars => IInv'
BY TypeStep, PlacesStep, SessionStep, ReleasedStep, AcksStep, SubsStep
  DEF IInv, TypeInv

LEMMA IInvAlways == Spec => []IInv
BY IInvInit, IInvStep, PTL DEF Spec

(* mw.Connected, by which publish and the worker decide, and the library's  *)
(* own view of the session never part for longer than an event the handler  *)
(* is about to be called with, whichever thread drops the session.          *)
THEOREM Agreement == Spec => []SessionAgreement
<1>1. IInv => SessionAgreement
  BY DEF IInv, Session
<1> QED
  BY <1>1, IInvAlways, PTL

(* Without a subscription list, mqtt_connect never overwrites the socket of *)
(* a connection that is still open.                                         *)
THEOREM SocketsClosed == Spec => []NoSocketLeak
<1>1. IInv => NoSocketLeak
  BY DEF IInv, Session
<1> QED
  BY <1>1, IInvAlways, PTL

(* mqtt_worker_init finds the semaphore of the first connection given only  *)
(* while that connection is up.                                             *)
THEOREM FirstRelease == Spec => []ReleasedWhileConnected
<1>1. IInv => ReleasedWhileConnected
  BY DEF IInv, Released, ReleasedWhileConnected
<1> QED
  BY <1>1, IInvAlways, PTL

(* publish returns 0 only on the ack of its own message, for any number of  *)
(* ids, as long as no publish of this session was given up on.              *)
THEOREM OwnAck == Spec => []AckOwnership
<1>1. IInv => AckOwnership
  <2> SUFFICES ASSUME IInv, main.pc = "wait_ack", mw.PublishAckSem = 1,
                      ~main.timedOut
               PROVE  mw.ackIds = {main.messageId}
    BY DEF AckOwnership
  <2> QED
    BY DEF IInv, Acks
<1> QED
  BY <1>1, IInvAlways, PTL

(* A Subscribed flag that is set while a session is served is the word of   *)
(* this session's broker, whatever survived from the sessions before.       *)
THEOREM FreshSubscription == Spec => []SubscribedIsFresh
<1>1. IInv => SubscribedIsFresh
  BY DEF IInv, Subs, AfterSubscribe, SubscribedIsFresh
<1> QED
  BY <1>1, IInvAlways, PTL

LEMMA DropKeptStep ==
  ASSUME IInv, [Next]_vars, mw.DisconnectReqExternal,
         ~mw'.DisconnectReqExternal, net.client = "connected", ~HasSubs
  PROVE  main'.pc = "boot"
<1>1. TypeOK /\ Session
  BY DEF IInv, TypeInv
<1>2. CASE Reboot
  BY <1>2 DEF Reboot, MainBoot
<1>3. CASE ConnectBegin
  BY <1>1, <1>3 DEF ConnectBegin, At, Session, IInv, Places, InHandler
<1>4. CASE Connecting /\ ~ConnectBegin
  BY <1>1, <1>4
    DEF Connecting, WorkerStart, DnsResolve, Nap, MqttConnect, ConnectPoll,
        ConnectCheck, ConnectFailed, TypeOK, MwType
<1>5. CASE Subscribing
  BY <1>1, <1>5
    DEF Subscribing, SubscribeBegin, SubscribeWait, SubscribePoll,
        SubscribeCheck, SubscribeReturn, SubscribeFailed, TypeOK, MwType
<1>6. CASE Serving
  BY <1>1, <1>6
    DEF Serving, InputLive, InputWait, InputPoll, InputCheck, Bye, TypeOK,
        MwType
<1>7. CASE Handling
  BY <1>1, <1>7
    DEF Handling, OnRefused, OnConnack, OnConnackDone, OnDisconnect,
        OnDisconnectDone, OnSuback, OnPuback, OnPingresp, OnPublish, TypeOK,
        MwType
<1>8. CASE MainStep /\ ~Reboot
  BY <1>1, <1>8
    DEF MainStep, InitWorker, FirstConnected, FirstConnSecond, TimestampInit,
        PublishRefused, PublishSend, PublishAcked, PublishTimeout,
        NothingToPublish, KeepaliveTest, AssertFailed, Drained, AckTaken, TypeOK, MwType
<1>9. CASE Environment /\ ~Reboot
  BY <1>1, <1>9
    DEF Environment, WatchdogReset, BrokerAnswer, BrokerSend, WifiDrop, Tick,
        PingPeriodEnds, TypeOK, MwType
<1> QED
  BY <1>2, <1>3, <1>4, <1>5, <1>6, <1>7, <1>8, <1>9
    DEF Next, WorkerStep, vars

(* Without a subscription list, a Wi-Fi drop reported during a session is   *)
(* never cleared while that session lives, but by a reboot.                 *)
THEOREM DropKept == Spec => DropNotForgotten
<1>1. IInv /\ [Next]_vars =>
        [(mw.DisconnectReqExternal /\ ~mw'.DisconnectReqExternal
          /\ net.client = "connected") => HasSubs \/ main'.pc = "boot"]_vars
  BY DropKeptStep
<1> QED
  BY <1>1, IInvAlways, PTL DEF Spec, DropNotForgotten

=============================================================================
