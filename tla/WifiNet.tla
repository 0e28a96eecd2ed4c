------------------------------ MODULE WifiNet -------------------------------
(***************************************************************************)
(* wifi_net.c: main asks for the first connection and waits for an address *)
(* in wifi_net_init; afterwards the connection is kept by the handlers of  *)
(* the network management thread, a one-shot timer and a work item of the  *)
(* system queue.  The driver and DHCP are external: a request it accepts   *)
(* is answered by a connect result, and the loss of a connection is        *)
(* announced by a disconnect result.                                       *)
(***************************************************************************)
EXTENDS Naturals, Sequences, FiniteSets

CONSTANTS
  FirstConnTimeout,  (* CONFIG_WIFI_FIRST_CONN_TIMEOUT_SEC: 20               *)
  MayRefuse,         (* whether net_mgmt(NET_REQUEST_WIFI_CONNECT) may fail  *)
  EventsMax          (* bound: events on their way to the handlers           *)

ASSUME ConstantsOK == /\ FirstConnTimeout \in Nat /\ MayRefuse \in BOOLEAN
                      /\ EventsMax \in Nat \ {0}

VARIABLES
  main,          (* pc of main in wifi_net_init, and sec_cnt                 *)
  link,          (* the station's side of the association                    *)
  events,        (* raised and not yet handled, oldest first                 *)
  timer,         (* ReconnectTimer is running                                *)
  work,          (* ReconnectWork is queued                                  *)
  FirstConnSem,
  DiscoCb,       (* TRUE once mqtt_worker_disconnect is registered           *)
  owed           (* history: a connection was lost while DiscoCb was there,  *)
                 (* and it has not been called since                         *)

vars == <<main, link, events, timer, work, FirstConnSem, DiscoCb, owed>>
cb   == <<DiscoCb, owed>>

EventTypes == {"connected", "failed", "disconnected", "ipv4"}

TypeOK ==
  /\ main \in [pc : {"request", "wait", "run"}, sec : 0 .. FirstConnTimeout]
  /\ link \in {"down", "joining", "up"}
  /\ events \in Seq(EventTypes) /\ Len(events) <= EventsMax
  /\ timer \in BOOLEAN /\ work \in BOOLEAN
  /\ FirstConnSem \in 0 .. 1
  /\ DiscoCb \in BOOLEAN /\ owed \in BOOLEAN

Boot == [pc |-> "request", sec |-> 0]

Init == /\ main = Boot /\ link = "down" /\ events = <<>>
        /\ timer = FALSE /\ work = FALSE /\ FirstConnSem = 0
        /\ DiscoCb = FALSE /\ owed = FALSE

-----------------------------------------------------------------------------
(* net_mgmt(NET_REQUEST_WIFI_CONNECT): the driver is busy with one request  *)
(* at a time and holds one association.                                     *)
Request == \/ link = "down" /\ link' = "joining"
           \/ (MayRefuse \/ link # "down") /\ UNCHANGED link

-----------------------------------------------------------------------------
(* wifi_net_init; a refused request is logged, and the wait runs out.       *)

FirstRequest ==
  /\ main.pc = "request"
  /\ Request
  /\ main' = [main EXCEPT !.pc = "wait"]
  /\ UNCHANGED <<events, timer, work, FirstConnSem, cb>>

TakeFirstConnSem ==
  /\ main.pc = "wait" /\ main.sec < FirstConnTimeout /\ FirstConnSem = 1
  /\ FirstConnSem' = 0
  /\ main' = [main EXCEPT !.pc = "run"]
  /\ UNCHANGED <<link, events, timer, work, cb>>

(* Mutant: one round more than sec_cnt should allow.                        *)
WaitOneMore ==
  /\ main.pc = "wait" /\ main.sec <= FirstConnTimeout /\ FirstConnSem = 0
  /\ main' = [main EXCEPT !.sec = @ + 1]
  /\ UNCHANGED <<link, events, timer, work, FirstConnSem, cb>>
(* Mutant: the loop never counts its rounds.                                *)
WaitUncounted ==
  /\ main.pc = "wait" /\ main.sec < FirstConnTimeout /\ FirstConnSem = 0
  /\ UNCHANGED vars
WaitSecond ==
  /\ main.pc = "wait" /\ main.sec < FirstConnTimeout /\ FirstConnSem = 0
  /\ main' = [main EXCEPT !.sec = @ + 1]
  /\ UNCHANGED <<link, events, timer, work, FirstConnSem, cb>>

(* sys_reboot: by wifi_net_init when the time is up, and in main's loop by  *)
(* whatever else resets the station (see MqttWorker).                       *)
Reset == /\ main' = Boot /\ link' = "down" /\ events' = <<>>
         /\ timer' = FALSE /\ work' = FALSE /\ FirstConnSem' = 0
         /\ DiscoCb' = FALSE /\ owed' = FALSE

TimeUp == main.pc = "wait" /\ main.sec = FirstConnTimeout /\ Reset

OtherReset == main.pc = "run" /\ Reset

(* mqtt_worker_init, once wifi_net_init has returned.                       *)
RegisterDiscoCb ==
  /\ main.pc = "run" /\ ~DiscoCb
  /\ DiscoCb' = TRUE
  /\ UNCHANGED <<main, link, events, timer, work, FirstConnSem, owed>>

-----------------------------------------------------------------------------
(* wifi_mgmt_event_handler *)

Handle(e) == /\ events # <<>> /\ Head(events) = e
             /\ events' = Tail(events)
             /\ UNCHANGED <<main, link, work>>

OnConnected == Handle("connected") /\ UNCHANGED <<timer, FirstConnSem, cb>>

(* Mutant: only a lost connection is tried again.                           *)
OnFailedGivesUp == Handle("failed") /\ UNCHANGED <<timer, FirstConnSem, cb>>
OnFailed ==
  Handle("failed") /\ timer' = TRUE /\ UNCHANGED <<FirstConnSem, cb>>

(* Mutant: the callback is forgotten.                                       *)
OnDisconnectedSilent ==
  Handle("disconnected") /\ timer' = TRUE /\ UNCHANGED <<FirstConnSem, cb>>
(* Mutant: the handler returns at once while nobody wants to be told.       *)
OnDisconnectedUntold ==
  /\ Handle("disconnected")
  /\ owed' = (owed /\ ~DiscoCb) /\ timer' = (timer \/ DiscoCb)
  /\ UNCHANGED <<FirstConnSem, DiscoCb>>
(* DiscoCb asks the MQTT worker to end its session (MqttWorker, WifiDrop).  *)
OnDisconnected ==
  /\ Handle("disconnected")
  /\ owed' = (owed /\ ~DiscoCb) /\ timer' = TRUE
  /\ UNCHANGED <<FirstConnSem, DiscoCb>>

OnAddress ==
  Handle("ipv4") /\ FirstConnSem' = 1 /\ UNCHANGED <<timer, cb>>

TimerExpires ==
  /\ timer
  /\ timer' = FALSE /\ work' = TRUE
  /\ UNCHANGED <<main, link, events, FirstConnSem, cb>>

(* Mutant: the work item restarts the timer, to try again if need be.       *)
ReconnectRestartsTimer ==
  /\ work
  /\ work' = FALSE /\ timer' = TRUE
  /\ Request
  /\ UNCHANGED <<main, events, FirstConnSem, cb>>
(* A refused request is only logged.                                        *)
Reconnect ==
  /\ work
  /\ work' = FALSE
  /\ Request
  /\ UNCHANGED <<main, events, timer, FirstConnSem, cb>>

-----------------------------------------------------------------------------
(* The driver and DHCP *)

Raise(e) == /\ Len(events) < EventsMax /\ events' = Append(events, e)
            /\ UNCHANGED <<main, timer, work, FirstConnSem, DiscoCb>>

Joined ==
  link = "joining" /\ link' = "up" /\ Raise("connected") /\ UNCHANGED owed
Failed ==
  link = "joining" /\ link' = "down" /\ Raise("failed") /\ UNCHANGED owed
Lost ==
  link = "up" /\ link' = "down" /\ Raise("disconnected") /\ owed' = DiscoCb
Address == link = "up" /\ Raise("ipv4") /\ UNCHANGED <<link, owed>>

-----------------------------------------------------------------------------
MainStep    == FirstRequest \/ TakeFirstConnSem \/ WaitSecond \/ TimeUp
HandlerStep == OnConnected \/ OnFailed \/ OnDisconnected \/ OnAddress
Driver      == Joined \/ Failed \/ Lost \/ Address

Next == MainStep \/ HandlerStep \/ TimerExpires \/ Reconnect \/ Driver
          \/ OtherReset \/ RegisterDiscoCb

Spec == Init /\ [][Next]_vars

(* Threads that can run do run, a timer that runs expires, and the driver   *)
(* answers a request; nothing says that it succeeds.  OtherReset has no     *)
(* fairness, although main resets a station that hears nothing from its     *)
(* broker for too long: the connection has to come back without that help.  *)
FairSpec == /\ Spec
            /\ WF_vars(MainStep) /\ WF_vars(HandlerStep)
            /\ WF_vars(TimerExpires) /\ WF_vars(Reconnect)
            /\ WF_vars(Joined \/ Failed)

-----------------------------------------------------------------------------
(* The retries on their way: announced, timed, or queued.                   *)
Retries ==
  Cardinality({i \in 1 .. Len(events) : events[i] \in {"failed", "disconnected"}})
    + (IF timer THEN 1 ELSE 0) + (IF work THEN 1 ELSE 0)

(* However the handlers, the timer, the work item and the driver interleave, *)
(* there is at most one retry, and none while a request is being answered or *)
(* a connection stands: reconnect_work_handler never asks for a connection   *)
(* that exists or is being made.                                             *)
OneRetry == Retries <= 1 /\ (link # "down" => Retries = 0)

(* The MQTT worker is told of a lost connection before another one is asked  *)
(* for: it never takes the new connection for the one its socket was made on.*)
ToldBeforeRetry == owed => link = "down"

(* wifi_net_init ends, in a connection or in a reboot.                       *)
InitEnds == main.pc = "wait" ~> main.pc # "wait"

(* inc/wifi_net.h: everything is done in the background, with a            *)
(* reconnection if needed.  Once wifi_net_init has returned, a station that  *)
(* is neither connected nor joining has exactly one retry announced, timed   *)
(* or queued, whatever the handlers, the timer and the work item have done:  *)
(* nothing else would ask again, as inc/wifi_net.h leaves it to them.        *)
RetryUnderWay == main.pc = "run" /\ link = "down" => Retries = 1

(* That retry is made: a lost connection or a failed attempt leads to another *)
(* attempt, without a reset if there is none.                                *)
Reconnects == link = "down" ~> link = "joining"
=============================================================================
