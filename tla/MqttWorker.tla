----------------------------- MODULE MqttWorker -----------------------------
(***************************************************************************)
(* The MQTT session of the station: the worker thread (mqtt_proc), the     *)
(* event handler it shares with its callers, the publish call made by the  *)
(* main thread, and the main thread's own life around them (first          *)
(* connection, authorisation, measuring loop, keepalive test, reboot).     *)
(*                                                                         *)
(* Threads.  main has priority 0, mqtt_proc priority 5, on one core: main  *)
(* preempts the worker between any two of its steps, and the worker runs   *)
(* only while main is blocked (MainBlocked).  Hence main's stretches of    *)
(* code between two blocking calls are single actions, and the worker's    *)
(* are cut at every access to shared state.  A call into the MQTT library  *)
(* holds the client mutex, so its effect is one step; the event callback   *)
(* is invoked with the mutex released, so it is a step of its own: evt is  *)
(* the event the library has raised and the handler has not yet seen.      *)
(***************************************************************************)
EXTENDS Naturals, Sequences

CONSTANTS
  HasSubs,           (* a subscription list was passed to mqtt_worker_init   *)
  PingPeriodSec,     (* configured ping period; only 0 and non-0 differ      *)
  MaxPingNoAns,      (* MaxPingNoAnsMins, in ticks of respAge                *)
  MaxTrials,         (* failed trials before DNS is resolved again: 4        *)
  FirstConnTimeout,  (* CONFIG_MQTT_FIRST_CONN_TIMEOUT_SEC                   *)
  MaxAuth,           (* attempts of wlab_authorize: 8                        *)
  IdMod,             (* 2^16: message_id is a uint16_t                       *)
  QueueMax           (* bound: packets in flight in one direction            *)

ASSUME ConstantsOK ==
  /\ HasSubs \in BOOLEAN
  /\ PingPeriodSec \in Nat /\ MaxPingNoAns \in Nat
  /\ MaxTrials \in Nat \ {0} /\ FirstConnTimeout \in Nat \ {0}
  /\ MaxAuth \in Nat \ {0} /\ QueueMax \in Nat \ {0}
  /\ IdMod \in Nat \ {0, 1}

VARIABLES
  worker,  (* the worker thread: its place and its own statics               *)
  main,    (* the main thread: its place, its counters, PubData.message_id   *)
  mw,      (* the statics of mqtt_worker.c that both threads touch           *)
  net      (* the library's client and the packets in flight                 *)

vars == <<worker, main, mw, net>>

Ids == 0 .. IdMod - 1
EventTypes   == {"CONNACK", "REFUSED", "SUBACK", "PUBACK", "PINGRESP",
                 "PUBLISH", "DISCONNECT"}
RequestTypes == {"CONNECT", "SUBSCRIBE", "PUBLISH", "PINGREQ"}
DownTypes    == (EventTypes \ {"DISCONNECT"}) \cup {"FIN"}
Packet(T)    == [type : T, id : Ids]
Pkt(t)       == [type |-> t, id |-> 0]

BackPcs   == {"loop", "conn_check", "conn_failed", "sub_check", "sub_failed",
              "in_check", "bye"}
WorkerPcs == BackPcs \cup {"wait_start", "nap", "mqtt_connect", "conn_poll",
              "sub_wait", "sub_poll", "sub_ret0", "sub_retN", "input", "poll",
              "evt", "connack2", "disc2"}
MainPcs   == {"boot", "first_conn", "ts_init", "auth", "sleep", "wait_ack",
              "sync", "assert"}

WorkerType ==
  [pc : WorkerPcs,
   evt : Packet(EventTypes),       (* the event the handler is called with   *)
   back : BackPcs,                 (* where the call that raised it returns  *)
   StateMachine : {"DNS_RESOLVE", "CONNECT_TO_BROKER", "SUBSCRIBE",
                   "CONNECTED"},
   errConn : 0 .. MaxTrials - 1,   (* the two static err_trials              *)
   errSub : 0 .. MaxTrials - 1,
   aliveDue : BOOLEAN]             (* k_uptime_get() >= next_alive           *)

MainType ==
  [pc : MainPcs,
   phase : {"auth", "run"},        (* in wlab_init's loop or in main's       *)
   secCnt : 0 .. FirstConnTimeout - 1,
   authAttempts : 0 .. MaxAuth,
   messageId : Ids,
   timedOut : BOOLEAN]             (* history: a publish was given up on     *)
                                   (* since the last connect                 *)
MwType ==
  [Connected : BOOLEAN, DisconnectReqExternal : BOOLEAN, Subscribed : BOOLEAN,
   LastEvt : EventTypes \cup {"NONE"},
   respAge : 0 .. MaxPingNoAns + 1, (* ticks since LastKeepaliveResp         *)
   PublishAckSem : {0, 1}, ConectedAckSem : {0, 1},
   WorkerProcStartSem : {0, 1},
   ackIds : SUBSET Ids]            (* history: the acks received since       *)
                                   (* PublishAckSem was last taken           *)
NetType ==
  [client : {"idle", "tcp", "connected"},
   up : Seq(Packet(RequestTypes)), down : Seq(Packet(DownTypes)),
   answered : BOOLEAN,             (* history: this connection's broker has  *)
                                   (* answered a subscribe request           *)
   leaked : BOOLEAN]               (* history: a socket was overwritten      *)
                                   (* while open                             *)

TypeOK == /\ worker \in WorkerType /\ main \in MainType
          /\ mw \in MwType /\ net \in NetType

NoEvt == Pkt("DISCONNECT")
WorkerBoot == [pc |-> "wait_start", evt |-> NoEvt, back |-> "loop",
               StateMachine |-> "DNS_RESOLVE", errConn |-> 0, errSub |-> 0,
               aliveDue |-> TRUE]
MainBoot == [pc |-> "boot", phase |-> "auth", secCnt |-> 0, authAttempts |-> 0,
             messageId |-> 1, timedOut |-> FALSE]
MwBoot == [Connected |-> FALSE, DisconnectReqExternal |-> FALSE,
           Subscribed |-> FALSE, LastEvt |-> "NONE", respAge |-> 0,
           PublishAckSem |-> 0, ConectedAckSem |-> 0, WorkerProcStartSem |-> 0,
           ackIds |-> {}]
NetBoot == [client |-> "idle", up |-> <<>>, down |-> <<>>, answered |-> FALSE,
            leaked |-> FALSE]

Init == /\ worker = WorkerBoot /\ main = MainBoot
        /\ mw = MwBoot /\ net = NetBoot

(* A cold reboot: RAM is initialised again and the connection is gone.      *)
Reboot == /\ worker' = WorkerBoot /\ main' = MainBoot
          /\ mw' = MwBoot /\ net' = NetBoot

-----------------------------------------------------------------------------
(* The MQTT library, as the worker and publish use it.                      *)

Closed == [net EXCEPT !.client = "idle", !.up = <<>>, !.down = <<>>,
                      !.answered = FALSE]

(* What client_disconnect reports: a session that was up is disconnected,   *)
(* one still waiting for its CONNACK is refused.                            *)
DropEvt == Pkt(IF net.client = "connected" THEN "DISCONNECT" ELSE "REFUSED")

Goto(l) == worker' = [worker EXCEPT !.pc = l]

(* The library calls mqtt_evt_handler from a call that returns to r.        *)
Raise(e, r) == worker' = [worker EXCEPT !.pc = "evt", !.evt = e, !.back = r]

(* The handler returns.                                                     *)
Return == worker' = [worker EXCEPT !.pc = worker.back, !.evt = NoEvt,
                                   !.back = "loop"]

CanWrite   == net.client = "connected" /\ Len(net.up) < QueueMax
Written(p) == [net EXCEPT !.up = Append(@, p)]

(* A write or a read fails: the library drops the session.                  *)
Broken(r) == /\ net.client = "connected" /\ net' = Closed
             /\ Raise(Pkt("DISCONNECT"), r)

(* A packet that cannot be decoded: evt->result is not 0, and once the      *)
(* handler has returned, the library drops the session.                     *)
Undecoded == net' = Closed /\ Raise(DropEvt, worker.back)

(* mqtt_input: at most one packet is read and turned into an event.         *)
MqttInput(r) ==
  LET p == Head(net.down) IN
  /\ net.down # <<>>
  /\ \/ /\ p.type \in {"FIN", "REFUSED"}
        /\ net' = Closed /\ Raise(DropEvt, r)
     \/ /\ p.type \notin {"FIN", "REFUSED"}
        /\ net' = [net EXCEPT !.down = Tail(@),
                     !.client = IF p.type = "CONNACK" THEN "connected" ELSE @]
        /\ Raise(p, r)

(* wait_for_input says there is input: mqtt_input reads it, or finds the    *)
(* client already dropped by main and raises nothing.                       *)
PollReady(r) == \/ MqttInput(r)
                \/ net.client = "idle" /\ Goto(r) /\ UNCHANGED net

(* wait_for_input times out, which it does only while nothing is there.     *)
PollTimeout(r) == net.down = <<>> /\ Goto(r) /\ UNCHANGED net

(* zsock_poll fails: nothing is read.                                       *)
PollError(r) == Goto(r) /\ UNCHANGED net

-----------------------------------------------------------------------------
(* mqtt_proc: connecting *)

At(s) == worker.pc = "loop" /\ worker.StateMachine = s

WorkerStart ==
  /\ worker.pc = "wait_start" /\ mw.WorkerProcStartSem = 1
  /\ mw' = [mw EXCEPT !.WorkerProcStartSem = 0]
  /\ Goto("loop") /\ UNCHANGED <<main, net>>

DnsResolve ==
  /\ At("DNS_RESOLVE")
  /\ \/ worker' = [worker EXCEPT !.StateMachine = "CONNECT_TO_BROKER"]
     \/ Goto("nap")
  /\ UNCHANGED <<main, mw, net>>

(* k_sleep of two seconds after a failed trial.                             *)
Nap == worker.pc = "nap" /\ Goto("loop") /\ UNCHANGED <<main, mw, net>>

ConnectBegin ==
  /\ At("CONNECT_TO_BROKER")
  /\ mw' = [mw EXCEPT !.DisconnectReqExternal = FALSE, !.Connected = FALSE]
  /\ Goto("mqtt_connect") /\ UNCHANGED <<main, net>>

(* mqtt_connect opens a new socket whatever the client's state; when it     *)
(* fails the client is reset, and mqtt_disconnect then has nothing to do.   *)
MqttConnect ==
  /\ worker.pc = "mqtt_connect"
  /\ \/ /\ net' = [client |-> IF net.client = "idle" THEN "tcp" ELSE net.client,
                   up |-> <<Pkt("CONNECT")>>, down |-> <<>>, answered |-> FALSE,
                   leaked |-> net.leaked \/ net.client # "idle"]
        /\ main' = [main EXCEPT !.timedOut = FALSE]
        /\ Goto("conn_poll")
     \/ /\ net' = [Closed EXCEPT !.leaked = @ \/ net.client # "idle"]
        /\ Goto("conn_failed") /\ UNCHANGED main
  /\ UNCHANGED mw

ConnectPoll ==
  /\ worker.pc = "conn_poll"
  /\ \/ PollReady("conn_check")
     \/ PollTimeout("conn_check")
     \/ PollError("conn_check")
  /\ UNCHANGED <<main, mw>>

(* Mutant: no mqtt_abort after a connection that was not acknowledged.      *)
ConnectCheckNoAbort ==
  /\ worker.pc = "conn_check"
  /\ IF mw.Connected
       THEN worker' = [worker EXCEPT !.pc = "loop", !.errConn = 0,
                                     !.StateMachine = "SUBSCRIBE"]
       ELSE Goto("conn_failed")
  /\ UNCHANGED <<main, mw, net>>
(* Connected by the handler meanwhile, or mqtt_abort.                       *)
ConnectCheck ==
  /\ worker.pc = "conn_check"
  /\ \/ /\ mw.Connected /\ UNCHANGED net
        /\ worker' = [worker EXCEPT !.pc = "loop", !.errConn = 0,
                                    !.StateMachine = "SUBSCRIBE"]
     \/ /\ ~mw.Connected /\ net.client # "idle"
        /\ net' = Closed /\ Raise(DropEvt, "conn_failed")
     \/ /\ ~mw.Connected /\ net.client = "idle" /\ UNCHANGED net
        /\ Goto("conn_failed")
  /\ UNCHANGED <<main, mw>>

(* One more failed trial; the last of a series goes back to the resolver.   *)
NextTrialUnreset(n) == n + 1   (* mutant: err_trials is not reset             *)
NextTrial(n) == IF n + 1 = MaxTrials THEN 0 ELSE n + 1
GiveUp(n) == IF n + 1 = MaxTrials THEN "DNS_RESOLVE" ELSE worker.StateMachine

ConnectFailed ==
  /\ worker.pc = "conn_failed"
  /\ worker' = [worker EXCEPT !.pc = "nap", !.errConn = NextTrial(@),
                              !.StateMachine = GiveUp(worker.errConn)]
  /\ UNCHANGED <<main, mw, net>>

-----------------------------------------------------------------------------
(* mqtt_proc: subscribing.  ret is 0 at sub_ret0 and not 0 at sub_retN.     *)

(* Mutant: Subscribed is not cleared before the request.                    *)
SubscribeBeginStale ==
  /\ At("SUBSCRIBE")
  /\ \/ ~HasSubs /\ Goto("sub_ret0") /\ UNCHANGED net
     \/ /\ HasSubs
        /\ \/ CanWrite /\ net' = Written(Pkt("SUBSCRIBE")) /\ Goto("sub_wait")
           \/ Broken("sub_failed")
           \/ /\ net.client # "connected"
              /\ Goto("sub_failed") /\ UNCHANGED net
  /\ UNCHANGED <<main, mw>>
SubscribeBegin ==
  /\ At("SUBSCRIBE")
  /\ \/ /\ ~HasSubs
        /\ Goto("sub_ret0") /\ UNCHANGED <<mw, net>>
     \/ /\ HasSubs
        /\ mw' = [mw EXCEPT !.Subscribed = FALSE]
        /\ \/ CanWrite /\ net' = Written(Pkt("SUBSCRIBE")) /\ Goto("sub_wait")
           \/ Broken("sub_failed")
           \/ /\ net.client # "connected"
              /\ Goto("sub_failed") /\ UNCHANGED net
  /\ UNCHANGED main

SubscribeWait ==
  /\ worker.pc = "sub_wait"
  /\ mw' = [mw EXCEPT !.LastEvt = "NONE"]
  /\ Goto("sub_poll") /\ UNCHANGED <<main, net>>

SubscribePoll ==
  /\ worker.pc = "sub_poll"
  /\ \/ PollReady("sub_check")
     \/ PollTimeout("sub_ret0")
     \/ PollError("sub_retN")
  /\ UNCHANGED <<main, mw>>

SubscribeCheck ==
  /\ worker.pc = "sub_check"
  /\ Goto(IF mw.LastEvt \in {"SUBACK", "NONE"} THEN "sub_retN" ELSE "sub_wait")
  /\ UNCHANGED <<main, mw, net>>

(* Subscribed sets ret to 0; otherwise wait_for_input's result is returned, *)
(* and that is 0 after a timeout.  Falls through to the CONNECTED case.     *)
SubscribeReturn ==
  /\ worker.pc \in {"sub_ret0", "sub_retN"}
  /\ IF mw.Subscribed \/ worker.pc = "sub_ret0"
       THEN worker' = [worker EXCEPT !.pc = "input", !.errSub = 0,
                                     !.StateMachine = "CONNECTED"]
       ELSE Goto("sub_failed")
  /\ UNCHANGED <<main, mw, net>>

SubscribeFailed ==
  /\ worker.pc = "sub_failed"
  /\ worker' = [worker EXCEPT !.pc = "input", !.errSub = NextTrial(@),
                              !.StateMachine = GiveUp(worker.errSub)]
  /\ UNCHANGED <<main, mw, net>>

-----------------------------------------------------------------------------
(* mqtt_proc: input_handle *)

AtInput == worker.pc = "input" \/ At("CONNECTED")

(* The keepalive branch: mqtt_live pings only when the session has been     *)
(* silent for the library's own keepalive time.                             *)
InputLive ==
  LET w == [worker EXCEPT !.pc = "loop", !.aliveDue = (PingPeriodSec = 0)] IN
  /\ AtInput /\ worker.aliveDue
  /\ \/ CanWrite /\ net' = Written(Pkt("PINGREQ")) /\ worker' = w
     \/ /\ net.client = "connected" /\ net' = Closed
        /\ worker' = [w EXCEPT !.pc = "evt", !.evt = Pkt("DISCONNECT")]
     \/ UNCHANGED net /\ worker' = w
  /\ UNCHANGED <<main, mw>>

InputWait ==
  /\ AtInput /\ ~worker.aliveDue
  /\ Goto("poll") /\ UNCHANGED <<main, mw, net>>

InputPoll ==
  /\ worker.pc = "poll"
  /\ \/ PollReady("in_check")
     \/ PollTimeout("in_check")
     \/ PollError("in_check")
  /\ UNCHANGED <<main, mw>>

(* Mutant: the disconnect request is not looked at.                         *)
InputCheckDeaf ==
  /\ worker.pc = "in_check"
  /\ worker' = [worker EXCEPT !.pc = "loop",
                   !.StateMachine = IF mw.Connected THEN @ ELSE "DNS_RESOLVE"]
  /\ UNCHANGED <<main, mw, net>>
InputCheck ==
  /\ worker.pc = "in_check"
  /\ \/ /\ ~mw.Connected /\ UNCHANGED net
        /\ worker' = [worker EXCEPT !.pc = "loop",
                                    !.StateMachine = "DNS_RESOLVE"]
     \/ /\ mw.Connected /\ mw.DisconnectReqExternal
        /\ \/ Broken("bye")      (* mqtt_disconnect *)
           \/ net.client # "connected" /\ Goto("bye") /\ UNCHANGED net
     \/ /\ mw.Connected /\ ~mw.DisconnectReqExternal
        /\ Goto("loop") /\ UNCHANGED net
  /\ UNCHANGED <<main, mw>>

(* After mqtt_disconnect on an external request.                            *)
Bye ==
  /\ worker.pc = "bye"
  /\ mw' = [mw EXCEPT !.ConectedAckSem = 0, !.Connected = FALSE]
  /\ worker' = [worker EXCEPT !.pc = "loop", !.StateMachine = "DNS_RESOLVE"]
  /\ UNCHANGED <<main, net>>

-----------------------------------------------------------------------------
(* mqtt_evt_handler, on the worker's thread *)

Got(t) == worker.pc = "evt" /\ worker.evt.type = t

(* Mutant: evt->result is not looked at before the semaphore is given.      *)
OnRefusedGives ==
  /\ Got("REFUSED")
  /\ mw' = [mw EXCEPT !.LastEvt = "CONNACK", !.ConectedAckSem = 1]
  /\ Return /\ UNCHANGED <<main, net>>
OnRefused ==
  /\ Got("REFUSED")
  /\ mw' = [mw EXCEPT !.LastEvt = "CONNACK"]
  /\ Return /\ UNCHANGED <<main, net>>

OnConnack ==
  /\ Got("CONNACK")
  /\ mw' = [mw EXCEPT !.LastEvt = "CONNACK", !.Connected = TRUE]
  /\ Goto("connack2") /\ UNCHANGED <<main, net>>

(* Mutant: a new session clears the disconnect request as well.             *)
OnConnackDoneClears ==
  /\ worker.pc = "connack2"
  /\ mw' = [mw EXCEPT !.respAge = 0, !.ConectedAckSem = 1,
                      !.DisconnectReqExternal = FALSE]
  /\ Return /\ UNCHANGED <<main, net>>
OnConnackDone ==
  /\ worker.pc = "connack2"
  /\ mw' = [mw EXCEPT !.respAge = 0, !.ConectedAckSem = 1]
  /\ Return /\ UNCHANGED <<main, net>>

(* Mutant: the handler leaves Connected set.                                *)
OnDisconnectKept ==
  /\ Got("DISCONNECT")
  /\ mw' = [mw EXCEPT !.LastEvt = "DISCONNECT"]
  /\ Goto("disc2") /\ UNCHANGED <<main, net>>
OnDisconnect ==
  /\ Got("DISCONNECT")
  /\ mw' = [mw EXCEPT !.LastEvt = "DISCONNECT", !.Connected = FALSE]
  /\ Goto("disc2") /\ UNCHANGED <<main, net>>

OnDisconnectDone ==
  /\ worker.pc = "disc2"
  /\ mw' = [mw EXCEPT !.ConectedAckSem = 0]
  /\ Return /\ UNCHANGED <<main, net>>

(* Neither evt->result nor the return codes of the topics are looked at.    *)
OnSuback ==
  /\ Got("SUBACK")
  /\ mw' = [mw EXCEPT !.LastEvt = "SUBACK", !.Subscribed = TRUE]
  /\ (Return /\ UNCHANGED net) \/ Undecoded
  /\ UNCHANGED main

OnPuback ==
  /\ Got("PUBACK")
  /\ \/ /\ mw' = [mw EXCEPT !.LastEvt = "PUBACK", !.PublishAckSem = 1,
                            !.ackIds = @ \cup {worker.evt.id}]
        /\ Return /\ UNCHANGED net
     \/ mw' = [mw EXCEPT !.LastEvt = "PUBACK"] /\ Undecoded
  /\ UNCHANGED main

OnPingresp ==
  /\ Got("PINGRESP")
  /\ mw' = [mw EXCEPT !.LastEvt = "PINGRESP", !.respAge = 0]
  /\ Return /\ UNCHANGED <<main, net>>

(* Reading the payload may find the connection broken as well: the library  *)
(* raises DISCONNECT from inside the handler.                               *)
OnPublish ==
  /\ Got("PUBLISH")
  /\ mw' = [mw EXCEPT !.LastEvt = "PUBLISH"]
  /\ (Return /\ UNCHANGED net) \/ Undecoded
  /\ UNCHANGED main

-----------------------------------------------------------------------------
(* The main thread *)

(* main is waiting for something that has not come: lower priorities run.   *)
MainBlocked ==
  \/ main.pc \in {"ts_init", "sleep", "sync"}
  \/ main.pc = "first_conn" /\ mw.ConectedAckSem = 0
  \/ main.pc = "wait_ack" /\ mw.PublishAckSem = 0

InitWorker ==
  /\ main.pc = "boot"
  /\ mw' = [mw EXCEPT !.WorkerProcStartSem = 1]
  /\ main' = [main EXCEPT !.pc = "first_conn"]
  /\ UNCHANGED <<worker, net>>

FirstConnected ==
  /\ main.pc = "first_conn" /\ mw.ConectedAckSem = 1
  /\ mw' = [mw EXCEPT !.ConectedAckSem = 0]
  /\ main' = [main EXCEPT !.pc = "ts_init"]
  /\ UNCHANGED <<worker, net>>

(* One second without a connection; the last one fails the assertion.       *)
FirstConnSecond ==
  /\ main.pc = "first_conn" /\ mw.ConectedAckSem = 0
  /\ main' = IF main.secCnt + 1 = FirstConnTimeout
               THEN [main EXCEPT !.pc = "assert"]
               ELSE [main EXCEPT !.secCnt = @ + 1]
  /\ UNCHANGED <<worker, mw, net>>

(* timestamp_init: synchronised, or the eighth failure reboots.             *)
TimestampInit ==
  /\ main.pc = "ts_init"
  /\ \/ main' = [main EXCEPT !.pc = "auth"] /\ UNCHANGED <<worker, mw, net>>
     \/ Reboot

(* m, once mqtt_worker_publish_qos1 has returned to its caller: wlab_init's *)
(* loop or main's.  ok is ret = 0.                                          *)
PublishReturn(m, ok) ==
  CASE m.phase = "run" -> [m EXCEPT !.pc = "sync"]
    [] m.phase = "auth" /\ ok -> [m EXCEPT !.pc = "sleep", !.phase = "run"]
    [] m.phase = "auth" /\ ~ok ->
         [m EXCEPT !.authAttempts = @ + 1,
                   !.pc = IF m.authAttempts + 1 = MaxAuth THEN "assert"
                                                          ELSE "auth"]

(* k_sem_take(&PublishAckSem, ...): what taking it leaves.                   *)
AckTaken == [mw EXCEPT !.PublishAckSem = 0, !.ackIds = {}]

NotDrained == mw    (* mutant: the semaphore is not drained before a publish *)
Drained == AckTaken

PublishRefused ==
  /\ main.pc \in {"auth", "sleep"}
  /\ ~mw.Connected \/ mw.DisconnectReqExternal
  /\ main' = PublishReturn(main, FALSE)
  /\ UNCHANGED <<worker, mw, net>>

(* The next message id, the drained semaphore, and mqtt_publish: rejected   *)
(* (0 is not a legal id, or the client is no longer connected), written, or *)
(* failed while writing, in which case the library runs the DISCONNECT      *)
(* handler on this thread, before anything else can.                        *)
PublishSend ==
  LET m == [main EXCEPT !.messageId = (@ + 1) % IdMod]
      legal == net.client = "connected" /\ m.messageId # 0
  IN
  /\ main.pc \in {"auth", "sleep"}
  /\ mw.Connected /\ ~mw.DisconnectReqExternal
  /\ \/ /\ ~legal
        /\ main' = PublishReturn(m, FALSE) /\ mw' = Drained /\ UNCHANGED net
     \/ /\ legal /\ CanWrite
        /\ net' = Written([type |-> "PUBLISH", id |-> m.messageId])
        /\ main' = [m EXCEPT !.pc = "wait_ack"] /\ mw' = Drained
     \/ /\ legal /\ net' = Closed
        /\ main' = PublishReturn(m, FALSE)
        /\ mw' = [Drained EXCEPT !.LastEvt = "DISCONNECT", !.Connected = FALSE,
                                 !.ConectedAckSem = 0]
  /\ UNCHANGED worker

PublishAcked ==
  /\ main.pc = "wait_ack" /\ mw.PublishAckSem = 1
  /\ mw' = AckTaken
  /\ main' = PublishReturn(main, TRUE)
  /\ UNCHANGED <<worker, net>>

(* Mutant: publish waits K_FOREVER.                                         *)
PublishTimeoutNever == main.pc = "wait_ack" /\ FALSE /\ UNCHANGED vars
PublishTimeout ==
  /\ main.pc = "wait_ack" /\ mw.PublishAckSem = 0
  /\ main' = PublishReturn([main EXCEPT !.timedOut = TRUE], FALSE)
  /\ UNCHANGED <<worker, mw, net>>

(* A round of the loop with no sample to publish.                           *)
NothingToPublish ==
  /\ main.pc = "sleep" /\ main.phase = "run"
  /\ main' = [main EXCEPT !.pc = "sync"]
  /\ UNCHANGED <<worker, mw, net>>

(* Mutant: a test against the time of the last test, which never expires.   *)
KeepaliveTestBlind ==
  /\ main.pc = "sync"
  /\ main' = [main EXCEPT !.pc = "sleep"] /\ UNCHANGED <<worker, mw, net>>
(* mqtt_worker_keepalive_test, after timestamp_update.                      *)
KeepaliveTest ==
  /\ main.pc = "sync"
  /\ \/ mw.respAge > MaxPingNoAns /\ Reboot
     \/ /\ mw.respAge <= MaxPingNoAns
        /\ main' = [main EXCEPT !.pc = "sleep"]
        /\ UNCHANGED <<worker, mw, net>>

(* A failed __ASSERT stops the system; nothing feeds the watchdog then.     *)
AssertFailed == main.pc = "assert" /\ Reboot

(* main blocked for longer than CONFIG_WDG_TIMEOUT_SEC: an ack timeout or   *)
(* an SNTP request takes as long as the watchdog waits.                     *)
WatchdogReset == main.pc \in {"ts_init", "wait_ack", "sync"} /\ Reboot

-----------------------------------------------------------------------------
(* The environment: the broker, the radio and time.                         *)

(* A SUBACK grants each topic or refuses it (0x80): the handler reads no    *)
(* return code, so the packet has none here.                                *)
Answer(p) ==
  CASE p.type = "CONNECT"   -> {Pkt("CONNACK"), Pkt("REFUSED")}
    [] p.type = "SUBSCRIBE" -> {Pkt("SUBACK")}
    [] p.type = "PINGREQ"   -> {Pkt("PINGRESP")}
    [] p.type = "PUBLISH"   -> {[type |-> "PUBACK", id |-> p.id]}

(* Nothing follows the end of the stream.                                   *)
CanSend == /\ Len(net.down) < QueueMax
           /\ \A i \in DOMAIN net.down : net.down[i].type # "FIN"

BrokerAnswer ==
  /\ net.up # <<>> /\ CanSend
  /\ \E a \in Answer(Head(net.up)) :
       net' = [net EXCEPT !.up = Tail(@), !.down = Append(@, a),
                          !.answered = @ \/ a.type = "SUBACK"]
  /\ UNCHANGED <<worker, main, mw>>

(* A message for a topic of this or of an earlier, persistent session, or   *)
(* the end of the connection.                                               *)
BrokerSend ==
  /\ CanSend
  /\ \/ /\ HasSubs /\ net.client = "connected"
        /\ net' = [net EXCEPT !.down = Append(@, Pkt("PUBLISH"))]
     \/ /\ net.client # "idle"
        /\ net' = [net EXCEPT !.down = Append(@, Pkt("FIN"))]
  /\ UNCHANGED <<worker, main, mw>>

(* mqtt_worker_disconnect, called on the network management thread.         *)
WifiDrop ==
  /\ main.pc # "boot"
  /\ mw' = [mw EXCEPT !.DisconnectReqExternal = TRUE]
  /\ UNCHANGED <<worker, main, net>>

(* A tick without a keepalive response; ticks beyond the limit look alike.  *)
Tick ==
  /\ main.pc # "boot" /\ mw.respAge <= MaxPingNoAns
  /\ mw' = [mw EXCEPT !.respAge = @ + 1]
  /\ UNCHANGED <<worker, main, net>>

(* The ping period ends while the worker waits: it is at least a second,    *)
(* which a round of the loop without a wait never takes.                    *)
PingPeriodEnds ==
  /\ worker.pc \in {"mqtt_connect", "conn_poll", "sub_poll", "poll"}
  /\ worker' = [worker EXCEPT !.aliveDue = TRUE]
  /\ UNCHANGED <<main, mw, net>>

-----------------------------------------------------------------------------
Connecting  == \/ WorkerStart \/ DnsResolve \/ Nap \/ ConnectBegin
               \/ MqttConnect \/ ConnectPoll \/ ConnectCheck \/ ConnectFailed
Subscribing == \/ SubscribeBegin \/ SubscribeWait \/ SubscribePoll
               \/ SubscribeCheck \/ SubscribeReturn \/ SubscribeFailed
Serving     == InputLive \/ InputWait \/ InputPoll \/ InputCheck \/ Bye
Handling    == \/ OnRefused \/ OnConnack \/ OnConnackDone \/ OnDisconnect
               \/ OnDisconnectDone \/ OnSuback \/ OnPuback \/ OnPingresp
               \/ OnPublish

WorkerStep == MainBlocked /\ (Connecting \/ Subscribing \/ Serving \/ Handling)
MainStep   == \/ InitWorker \/ FirstConnected \/ FirstConnSecond
              \/ TimestampInit \/ PublishRefused \/ PublishSend \/ PublishAcked
              \/ PublishTimeout \/ NothingToPublish \/ KeepaliveTest
              \/ AssertFailed
Environment == \/ WatchdogReset \/ BrokerAnswer \/ BrokerSend \/ WifiDrop
               \/ Tick \/ PingPeriodEnds

Next == WorkerStep \/ MainStep \/ Environment

Spec == Init /\ [][Next]_vars

(* Both threads keep running and time passes; nothing is asked of the       *)
(* broker, the resolver or the radio.                                       *)
Fairness == WF_vars(WorkerStep) /\ WF_vars(MainStep) /\ WF_vars(Tick)
FairSpec == Spec /\ Fairness

-----------------------------------------------------------------------------
Pending(t) == worker.pc = "evt" /\ worker.evt.type = t

(* The flag publish relies on and the library's own view of the session     *)
(* never part for longer than an event that the worker is about to handle,  *)
(* although both threads may drop the session and either may be preempted   *)
(* anywhere (evt_handler, connect_to_broker, input_handle, publish).  That  *)
(* Connected implies a session holds with and without a subscription list;  *)
(* that a session implies Connected, only without one: with a list, the     *)
(* last of a series of failed subscriptions leads back to connect_to_broker,*)
(* which clears Connected while the session lives.                          *)
SessionAgreement ==
  /\ mw.Connected => net.client = "connected" \/ Pending("DISCONNECT")
  /\ (net.client = "connected" /\ ~mw.Connected /\ ~HasSubs)
       => Pending("CONNACK")

(* A connection is opened only over a closed one: without a subscription    *)
(* list no path leads from an open session back to mqtt_connect.            *)
NoSocketLeak == net.leaked => HasSubs

(* mqtt_worker_init is released only by a session that the broker accepted  *)
(* and that is still up, however often the first connections were refused,  *)
(* timed out or broke: the semaphore is given after the flag is set and     *)
(* main, which has the higher priority, takes it before it can be lost.     *)
ReleasedWhileConnected ==
  (main.pc = "first_conn" /\ mw.ConectedAckSem = 1)
    => mw.Connected /\ net.client = "connected"

(* publish takes for its own ack only an ack of its own message, as long as *)
(* no publish of this session was given up on.  (PUBACK ids are not         *)
(* compared: after a late ack, each publish is credited with the last one's *)
(* until the next connect.)                                                 *)
AckOwnership ==
  (main.pc = "wait_ack" /\ mw.PublishAckSem = 1 /\ ~main.timedOut)
    => mw.ackIds = {main.messageId}

(* Subscribed is never the word of an earlier connection: if it is set in   *)
(* the CONNECTED state of a live session, this session's broker has         *)
(* answered a subscribe request, although the flag survives the end of a    *)
(* session and is cleared only by the next subscribe call.  Whether the     *)
(* answer was a grant or a refusal the flag does not tell: the handler sets *)
(* it for both.                                                             *)
SubscribedIsFresh ==
  (mw.Subscribed /\ worker.StateMachine = "CONNECTED"
   /\ net.client = "connected") => net.answered

(* A session served in the CONNECTED state has the topics it was given:     *)
(* what mqtt_worker_init's "list of topics to be subscribed" promises, and  *)
(* the code breaks (a subscribe that times out returns 0).                  *)
SubscribedWhenConnected ==
  (HasSubs /\ worker.StateMachine = "CONNECTED" /\ net.client = "connected")
    => mw.Subscribed

(* A Wi-Fi drop reported during a session is not forgotten while the        *)
(* session lives: connect_to_broker clears the request only between two     *)
(* sessions (without a subscription list), a reboot with everything else.   *)
DropNotForgotten ==
  [][(mw.DisconnectReqExternal /\ ~mw'.DisconnectReqExternal
      /\ net.client = "connected") => HasSubs \/ main'.pc = "boot"]_vars

(* The station never stays without a session for ever: it gets one or       *)
(* reboots.                                                                 *)
Recovers == []<>(net.client = "connected" \/ main.pc = "boot")

(* A broker that has stopped answering pings does not hold the station:     *)
(* mqtt_worker_keepalive_test gets to run and reboots it, whatever main was *)
(* waiting for.                                                             *)
SilenceEnds == (mw.respAge > MaxPingNoAns) ~> (mw.respAge <= MaxPingNoAns)

(* A session whose radio has gone is torn down.                             *)
DropServed == (mw.DisconnectReqExternal /\ net.client = "connected")
                ~> net.client # "connected"
=============================================================================
