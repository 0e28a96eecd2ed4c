------------------------------- MODULE Station ------------------------------
(***************************************************************************)
(* main.c with the waits of everything main calls and the watchdog of      *)
(* wdg.c: each stage of the boot, then the loop that sleeps, samples the   *)
(* sensor (Dht2x), publishes, keeps the clock and tests the session.  A    *)
(* step of main takes the time it waited; the watchdog resets the chip     *)
(* once Wdg has passed since it was fed.  What the network answers is any  *)
(* choice here: Settings, WifiNet, MqttWorker and WlabSampler model it.    *)
(***************************************************************************)
EXTENDS Dht2x

CONSTANTS
  Wdg,          (* CONFIG_WDG_TIMEOUT_SEC                                    *)
  Second,       (* a round of wifi_net_init and of mqtt_worker_init          *)
  Sleep,        (* k_sleep(K_MSEC(200))                                      *)
  ReadTime,     (* the longest dht2x_read                                    *)
  AckTimeout,   (* MQTT_WORKER_PUBLISH_ACK_TIMEOUT                           *)
  SntpTimeout,  (* the wait of sntp_simple                                   *)
  SyncPeriod,   (* CONFIG_TIMESTAMP_UPDATE_PERIOD_SEC                        *)
  FirstConn,    (* CONFIG_WIFI_/MQTT_FIRST_CONN_TIMEOUT_SEC: rounds          *)
  Attempts      (* of timestamp_init and of wlab_init: 8                     *)

ASSUME TimesAssumption ==
  /\ \A t \in {Wdg, Second, Sleep, ReadTime, AckTimeout, SntpTimeout, SyncPeriod,
               FirstConn, Attempts} : t \in Nat \ {0}
  /\ 2 * Second < Wdg /\ Sleep + ReadTime < Wdg
  /\ Attempts * AckTimeout <= SyncPeriod

VARIABLES
  pc,      (* where main is                                                  *)
  fed,     (* time since wdg_feed                                            *)
  tries,   (* sec_cnt, sntp_sync_attempts, auth_attempts                     *)
  age,     (* uptime less UptimeSyncMs                                       *)
  failed   (* history: the last timestamp_sync failed                        *)

clock == <<age, failed>>
vars  == <<pc, fed, tries, clock, dhtVars>>

OldAge == SyncPeriod + Wdg + 1   (* the bound of age: any older is as old    *)

Stages == {"boot", "spin", "config", "wifi", "mqtt", "sntp", "auth", "loop",
           "process", "publish", "update", "resync", "test", "halt"}

MainTypeOK ==
  /\ pc \in Stages /\ fed \in 0 .. Wdg
  /\ tries \in 0 .. IF pc \in {"sntp", "auth"} THEN Attempts - 1 ELSE FirstConn - 1
  /\ age \in 0 .. OldAge /\ failed \in BOOLEAN

TypeOK == MainTypeOK /\ DhtTypeOK

Init == /\ pc = "boot" /\ fed = 0 /\ tries = 0 /\ age = 0 /\ failed = FALSE
        /\ DhtInit

-----------------------------------------------------------------------------
(* Time.                                                                     *)

(* The longest a stage waits before it goes on by itself.                    *)
Limit ==
  CASE pc = "config"              -> 2 * Second
    [] pc \in {"wifi", "mqtt"}    -> Second
    [] pc \in {"sntp", "resync"}  -> SntpTimeout
    [] pc \in {"auth", "publish"} -> AckTimeout
    [] pc = "loop"                -> Sleep
    [] pc = "process"             -> ReadTime
    [] OTHER                      -> 0

(* A failed __ASSERT; mqtt_publish on a full socket or a mutex not released. *)
MayHang == pc \in {"auth", "publish", "halt"}

Waits(d) == d \in 0 .. Limit /\ fed + d <= Wdg

Aged(d) == IF age + d > OldAge THEN OldAge ELSE age + d

NoFeed(d) == fed' = fed + d
Feed(d) == fed' = 0

(* A reset: by the watchdog, by sys_reboot.                                  *)
Reset == /\ pc' = "boot" /\ fed' = 0 /\ tries' = 0 /\ age' = 0 /\ failed' = FALSE
         /\ DhtReset

Bite == /\ pc \notin {"boot", "spin"}
        /\ MayHang \/ fed + Limit >= Wdg
        /\ Reset

-----------------------------------------------------------------------------
(* The boot.                                                                 *)

(* Mutant: the counter of a loop is not the next loop's own.         *)
GoesOn(to) == pc' = to /\ tries' = tries

Goes(to) == pc' = to /\ tries' = 0

(* wdg_init, the pins, flash and the button; wdg_init spins when it fails.   *)
Boot == /\ pc = "boot"
        /\ \E to \in {"spin", "halt", "config", "wifi"} : Goes(to)
        /\ fed' = 0
        /\ UNCHANGED <<clock, dhtVars>>

Spin == pc = "spin" /\ UNCHANGED vars

Configure == /\ pc = "config" /\ fed + Limit <= Wdg
             /\ fed' = 0
             /\ UNCHANGED <<pc, tries, clock, dhtVars>>

(* Mutant: the wait for the broker starts over, for ever.      *)
RoundFailsAgain ==
  /\ pc \in {"wifi", "mqtt"} /\ Waits(Second)
  /\ IF tries + 1 = FirstConn /\ pc = "wifi"
       THEN Reset
       ELSE /\ tries' = (tries + 1) % FirstConn /\ Feed(Second)
            /\ UNCHANGED <<pc, clock, dhtVars>>

(* One more round, which feeds the watchdog first, or the last one's end.    *)
RoundFails == /\ pc \in {"wifi", "mqtt"} /\ Waits(Second)
              /\ \/ /\ tries + 1 < FirstConn
                    /\ tries' = tries + 1 /\ Feed(Second)
                    /\ UNCHANGED <<pc, clock, dhtVars>>
                 \/ tries + 1 = FirstConn /\ pc = "wifi" /\ Reset
                 \/ /\ tries + 1 = FirstConn /\ pc = "mqtt"
                    /\ Goes("halt") /\ NoFeed(Second)
                    /\ UNCHANGED <<clock, dhtVars>>

RoundSucceeds ==
  \E d \in 0 .. Second :
    /\ Waits(d)
    /\ \/ pc = "wifi" /\ Goes("mqtt") /\ Feed(d)
       \/ pc = "mqtt" /\ Goes("sntp") /\ NoFeed(d)
    /\ UNCHANGED <<clock, dhtVars>>

(* timestamp_init, then dht2x_init and the first round of wlab_init.         *)
SntpFails ==
  \E d \in 0 .. SntpTimeout :
    /\ pc = "sntp" /\ Waits(d)
    /\ \/ /\ tries + 1 < Attempts
          /\ tries' = tries + 1 /\ Feed(d)
          /\ UNCHANGED <<pc, clock, dhtVars>>
       \/ tries + 1 = Attempts /\ Reset

SntpSucceeds ==
  \E d \in 0 .. SntpTimeout :
    /\ pc = "sntp" /\ Waits(d)
    /\ \/ Goes("auth") /\ Feed(d)
       \/ Goes("halt") /\ NoFeed(d)
    /\ age' = 0 /\ failed' = FALSE
    /\ UNCHANGED dhtVars

AuthFails ==
  \E d \in 0 .. AckTimeout :
    /\ pc = "auth" /\ Waits(d)
    /\ \/ /\ tries + 1 < Attempts
          /\ tries' = tries + 1 /\ Feed(d)
          /\ UNCHANGED pc
       \/ tries + 1 = Attempts /\ Goes("halt") /\ NoFeed(d)
    /\ age' = Aged(d)
    /\ UNCHANGED <<failed, dhtVars>>

AuthSucceeds ==
  \E d \in 0 .. AckTimeout :
    /\ pc = "auth" /\ Waits(d)
    /\ Goes("loop") /\ Feed(d)
    /\ age' = Aged(d)
    /\ UNCHANGED <<failed, dhtVars>>

-----------------------------------------------------------------------------
(* The loop.                                                                 *)

Wakes == /\ pc = "loop" /\ Waits(Sleep)
         /\ Goes("process") /\ NoFeed(Sleep)
         /\ age' = Aged(Sleep)
         /\ UNCHANGED <<failed, dhtVars>>

(* wlab_process: the measure period has not passed, ...                      *)
NotDue == /\ pc = "process" /\ dht = Idle
          /\ Goes("update")
          /\ UNCHANGED <<fed, clock, dhtVars>>

(* ... or dht2x_read is called, ...                                          *)
Sample == /\ pc = "process" /\ (ReadBegin \/ Reading)
          /\ UNCHANGED <<pc, fed, tries, clock>>

(* ... and returns: a sample is put in the buffers, or they are published,   *)
(* or the division by a period that is 0 stops main.                         *)
Sampled ==
  \E d \in 0 .. ReadTime :
    /\ pc = "process" /\ Waits(d) /\ ReadDone
    /\ \/ Goes("update")
       \/ dht.ret = "ok" /\ \E to \in {"publish", "halt"} : Goes(to)
    /\ NoFeed(d) /\ age' = Aged(d)
    /\ UNCHANGED failed

Published ==
  \E d \in 0 .. AckTimeout :
    /\ pc = "publish" /\ Waits(d)
    /\ Goes("update") /\ NoFeed(d)
    /\ age' = Aged(d)
    /\ UNCHANGED <<failed, dhtVars>>

(* Mutant: the clock is asked for one unit of time later.          *)
UpdateLater ==
  /\ pc = "update"
  /\ Goes(IF age > SyncPeriod + 1 THEN "resync" ELSE "test")
  /\ UNCHANGED <<fed, clock, dhtVars>>

(* timestamp_update.                                                         *)
Update == /\ pc = "update"
          /\ Goes(IF age > SyncPeriod THEN "resync" ELSE "test")
          /\ UNCHANGED <<fed, clock, dhtVars>>

Resync ==
  \E d \in 0 .. SntpTimeout :
    /\ pc = "resync" /\ Waits(d)
    /\ Goes("test") /\ NoFeed(d)
    /\ \/ age' = 0 /\ failed' = FALSE
       \/ age' = Aged(d) /\ failed' = TRUE
    /\ UNCHANGED dhtVars

(* mqtt_worker_keepalive_test: the session is alive, or the station reboots. *)
KeepaliveTest ==
  /\ pc = "test"
  /\ \/ Goes("loop") /\ Feed(0) /\ UNCHANGED <<clock, dhtVars>>
     \/ Reset

Main == \/ Boot \/ Spin \/ Configure \/ RoundFails \/ RoundSucceeds
        \/ SntpFails \/ SntpSucceeds \/ AuthFails \/ AuthSucceeds
        \/ Wakes \/ NotDue \/ Sample \/ Sampled \/ Published
        \/ Update \/ Resync \/ KeepaliveTest

Next == Main \/ Bite

Spec == Init /\ [][Next]_vars

(* Time passes: a wait ends, or the watchdog ends it.                        *)
FairSpec == Spec /\ WF_vars(Next)

-----------------------------------------------------------------------------
(* The watchdog never ends what is not a wait for the network or a halt: the *)
(* rounds of the first connections, the sleeps and the reading of the sensor *)
(* are each reached soon enough after a wdg_feed, on every path.             *)
OwnWaitsAreFed ==
  pc \in {"config", "wifi", "mqtt", "loop", "process"} => fed + Limit < Wdg

(* In the loop the clock is never older than its period and a watchdog's     *)
(* time, however long publications take, unless the last request failed.     *)
ClockFresh ==
  pc \in {"loop", "process", "publish", "update", "resync", "test"} /\ ~failed
    => age <= SyncPeriod + Wdg

(* No wait, no failed assertion and no failing service holds the station for *)
(* ever: it comes back to its loop, or it boots again.  Only a watchdog that *)
(* wdg_init could not start leaves it spinning.                              *)
NeverStuck == []<>(pc \in {"boot", "config", "loop", "spin"})
=============================================================================
