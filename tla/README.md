# A TLA+ verification of wlab_station

`wlab_station` is the firmware of a weather station (Zephyr, ESP32): it joins a
Wi-Fi network, sets its clock by SNTP, reads a DHT sensor every four seconds,
and publishes a summary of the readings over MQTT in every minute that is a
multiple of a configured period.  This directory models the parts of it where
threads, time-outs, failures and arithmetic meet, checks them with TLC, and
proves the central invariants with TLAPS.

Paths below are relative to the repository.

## Inventory

### Threads and what they share

| Thread | Runs | Shares |
|---|---|---|
| main (priority 0) | `main.c`: initialization, then `wdg_feed`, 200 ms sleep, `wlab_process`, `timestamp_update`, `mqtt_worker_keepalive_test` | the flags and semaphores of `mqtt_worker.c`, the MQTT client |
| MQTT worker (`MqttNetTid`, priority 5) | `mqtt_proc`: a state machine DNS_RESOLVE, CONNECT_TO_BROKER, SUBSCRIBE, CONNECTED | the same, and the slab and queue of incoming messages |
| `SubsTid` | `subscribe_proc`: calls the subscription callback | slab and queue |
| network management | the handlers of `wifi_net.c`, and through `DiscoCb` `mqtt_worker_disconnect` | `DisconnectReqExternal`, the reconnection timer |
| system work queue, timer interrupt | `reconnect_work_handler`, `reconnect_timer_handler` | the Wi-Fi driver |
| GPIO interrupt | `gpio_callback` of `dht2x.c` | the bits of the frame, `DhtReadDone` |
| shell | the commands of `shell_commands.c`: setters and getters of `nvs_data.c` | flash, with main's getters at boot |

### Components

| Component | State | Operations | What makes it correct |
|---|---|---|---|
| `mqtt_worker.c`, session | `Connected`, `DisconnectReqExternal`, `Subscribed`, `LastEvt`, `LastKeepaliveResp`, three semaphores, the worker's state and its trial counters, the library's client | init, worker loop, event handler, publish with acknowledgement, keepalive test | the flags agree with the library's session; publish is credited with its own acknowledgement; a lost session is noticed and replaced; a silent broker leads to a reset |
| `mqtt_worker.c`, subscriptions | slab of 4 blocks, queue of 4 addresses | PUBLISH event, `subscribe_proc` | a block has one owner; accepted messages are handed over once, in order, all of them; the pool is not exhausted |
| `wlab.c` | two buffers, `last_secs`, `last_minutes`, the period | init (authorization), process (read, collect, publish) | a report describes exactly the samples of its slot; timestamps of reports increase; only outliers are skipped |
| `timestamp.c` | uptime and SNTP time of the last synchronization | init, get, update | the clock is set before use; steps do no harm |
| `wifi_net.c` | first-connection semaphore, timer, work item, callback | init, event handlers, timer, work | one attempt at a time; a lost connection is tried again; the MQTT worker is told |
| `wdg.c`, `main.c` | watchdog channel | init, feed | every wait of main is shorter than the watchdog's time-out |
| `dht2x.c` | pulse counter, bits, semaphore | read, edge interrupt | a frame is taken from the edges of one read only |
| `nvs_data.c`, `shell_commands.c` | records in flash | get with default, set | what is set is what is read; success is reported as success |

### What is hard here

* main preempts the worker anywhere and may itself run the library's event
  handler inline, when a write fails inside `mqtt_publish`.
* Acknowledgements may be late, and their identifiers are not compared.
* Three recoveries (MQTT reconnection, Wi-Fi reconnection, reset after silence)
  work side by side and share one flag.
* Failures in the middle of a handler: a payload that cannot be read, a
  subscription that is not answered, a connection request that is refused.
* Arithmetic: unsigned thresholds, divisions by a count or a period that may be
  0, minutes of the hour against slots since the epoch, a clock that steps.

`PROJECT.json` lists these hazards line by line with the properties that would
catch them.

## Modules

| Module | Models | Extends / composes |
|---|---|---|
| `MqttWorker` | the worker thread, the event handler, publish, main's life around them; the library, the broker and time as environment | |
| `MCMqttWorker` | instances of it | `MqttWorker` |
| `MqttWorkerProofs`, `MqttWorkerSafety` | type correctness, and every safety property of its runs, for all constants | `MqttWorker` |
| `SubsFifo` | abstract specification of the subscription pipeline | |
| `SubsQueue` | slab, queue, PUBLISH handler, `subscribe_proc`; refines `SubsFifo` | `INSTANCE SubsFifo` |
| `MCSubsQueue`, `SubsQueueProofs` | its instances; its theorems and the refinement | `SubsQueue` |
| `WlabSampler` | `wlab_process`, the buffers, the clock | |
| `MCWlabSampler`, `WlabSamplerProofs` | its instances and theorems | `WlabSampler`, `Arithmetic` |
| `WifiNet` | `wifi_net.c` with its timer and work item; driver and DHCP as environment | |
| `MCWifiNet`, `WifiNetProofs` | its instances and theorems | `WifiNet` |
| `Settings` | `nvs_data.c`, `shell_commands.c` and main's reads of the settings, its retries and resets; the flash file system as environment | |
| `MCSettings`, `SettingsProofs` | its instance and theorems | `Settings` |
| `Dht2x` | `dht2x.c`: the read and the edge interrupt; the sensor and lost edges as environment | |
| `Station` | `main.c` with the time of every wait it makes, `wdg.c` and `timestamp.c`, and the read of the sensor | extends `Dht2x` |
| `MCStation`, `StationProofs` | its instance and theorems, those about `Dht2x` among them | `Station`, `Arithmetic` |
| `Arithmetic` | lemmas on induction, extremes, sums, division and powers of two | |

### From code to model

**MqttWorker.** The variable `worker` holds the thread's place (`pc`), the event
the library has raised and the handler has not yet handled (`evt`), the place
the interrupted call returns to (`back`) and the statics only the worker uses.
`main` holds main's place and counters, `mw` the statics both threads touch,
`net` the library's client and the packets in flight.  One core and main's
higher priority give the granularity: the worker moves only while main is
blocked (`MainBlocked`), main's code between two blocking calls is one action,
and the worker's code is cut at every access to `mw`.  A call into the library
holds the client's mutex and is one step; its callback is a step of its own.
When main's write fails, the library calls the handler on main's thread, which
is part of `PublishSend`.  `respAge` counts ticks since `LastKeepaliveResp`;
`mw.ackIds`, `main.timedOut`, `net.answered` and `net.leaked` are history.  A
packet that cannot be decoded ends the session inside `mqtt_input`
(`Undecoded`): it may stand for any packet the broker sends.  A SUBACK carries
no return code, as the handler reads none: a refusal (0x80) sets `Subscribed`
like a grant, so that `net.answered` is all the flag can mean.  The step of the
clock that ends the ping period (`PingPeriodEnds`) happens while the
worker waits.  `WifiDrop` is the callback of `WifiNet.OnDisconnected`.

**SubsQueue.** `free` and `content` are the slab, `SubsQueue` the queue of block
addresses, `handler` and `subs` the places of the two threads.  A message is a
number with a kind: too long, empty, or normal.  A wait with a time-out expires
only while its condition is false.  The payload's and the topic's bytes are
abstracted.

**WlabSampler.** One action per way through `wlab_process` that changes state:
the read fails, the reading is committed, a report is published, the average
divides by zero.  `Threshold` is compared as in C, in arithmetic modulo
`2 * (IntMax + 1)`.  Readings are an `int16_t` (`ReadingMax`), within the extremes
of the integers, which `wlab_buffer_init` uses for an empty buffer; and a buffer
takes no more of them than have a sum of type `int32_t` (`MaxSamples`, in
`ConstantsOK`): 65535, where a slot of an hour has 900.
The clock ticks, and a synchronization sets it to any time.  A reset may come at
any point.  `taken`, `rejected`, `report` and `lastSlot` are history.

**WifiNet.** `link` is the driver's association, `events` the network management
events not yet handled, `timer` and `work` the timer and the work item.  Four
seconds are "later".  `OtherReset` stands for the watchdog and for
`mqtt_worker_keepalive_test`.  `Retries` counts the attempts that are announced by
an event, timed, or queued.

**Settings.** `flash` holds one value a record; a getter is a read and, when
that returned no length, a write of the default in a second step, on main's
thread or on the shell's.  A command is the setter it calls, with the answer it
prints.  `wanted`, `lost` and `misread` are history.  Between main's reads the
stages of the boot are abstract: with settings that work they pass, with others
they end in a reset (`GiveUp`) or use up the attempts of `wlab_init`.  With a
period of 0 the loop is reached, and left at the first reading of the sensor that
succeeds (`FirstSample`), as `wlab_process` divides only then.

**Dht2x.** `dht` is the place in `dht2x_read`, its return value and the values it
stores.  `ReadData` is read three times, for the test of the checksum and for each
value, and an edge may come in between.  The sensor's
edges are numbered: the first soon after the release, the second at the end of
its response, one at the end of each bit, and some after the frame; `Long` tells
the interval before each.  An interrupt measures the interval right, unless an
edge was missed or the counter wrapped since the last one (`skew`): then it is
long.  An edge may be missed at any time; this covers the moment between
`gpio_pin_interrupt_configure_dt` and `gpio_add_callback_dt`.  The time-out
comes between any two edges, and edges go on until the pin is an output again
(`ReadDone`), with the interrupt enabled: `gpio_callback` passes its third
argument, which Zephyr defines as a mask of pins (`BIT(4)`), for a pin number, and
so disables the interrupt of pin 16.  The edges after the frame are counted and
shifted in like the others; `overrun` tells a read in which one of them came
before its values were taken.  Bytes have `Width` bits, values
`ValueBytes` bytes, and the checksum and the sign are those of the frame.
`aligned`, `wrapped` and `overrun` are history.  The branch `1 == PulseCnt` and the one for
a failed bit timing are never taken: the counter goes from 0 to 2, and an
interval is either at most or above 110 us.

**Station.** One variable, `fed`, is the time since `wdg_feed`, and a step of
main adds the time it waited.  `Limit` is the longest wait of each stage, and
`MayHang` says which may not end at all: a failed `__ASSERT`, and a call of
`mqtt_publish` that waits for the socket or for the client's mutex.  The
watchdog bites (`Bite`) as soon as a wait may exceed its time; when they are
equal both outcomes exist.  What the network answers is any choice: `Settings`,
`WifiNet`, `MqttWorker` and `WlabSampler` have the details, and the condition of
each branch that this module leaves open (`NotDue`, the publication after
`Sampled`, the reset in `KeepaliveTest`).

## Runs

| Run | Instance | Shows |
|---|---|---|
| `session` | no subscription list (as `main.c` calls it), 2 trials, 2 s, 2 attempts, ids 0..2, 2 packets each way: 977,491 states | flags and library agree up to the event being handled (`SessionAgreement`); no socket is overwritten (`NoSocketLeak`); main is released by a standing session (`ReleasedWhileConnected`); an acknowledgement belongs to the publication unless one timed out (`AckOwnership`); a drop leads to the resolver before the next session (`DropNotForgotten`) |
| `subscription` | with a list, 1 packet each way: 1.2 million states | a session served with `Subscribed` set has had a SUBACK of its own: the flag is never left over from an earlier connection (`SubscribedIsFresh`) |
| `progress` | under fairness | the station always comes to a session or a reset again (`Recovers`), silence ends in a response or a reset (`SilenceEnds`), a requested disconnect is served (`DropServed`) |
| `unsubscribed` | violation | a subscription that is not answered is taken for a success |
| `pipeline` | 4 blocks, 4 entries, 5 messages: 415,746 states | ownership of blocks, a queue that is never full when put to, and the refinement of `SubsFifo`, its liveness included |
| `pool_leak` | violation | an empty or unreadable payload costs a block for good |
| `sampler` | integers of 6 bits, minutes of 3 s, an hour of 4 minutes, period 2, samples of two series on both sides of zero and far apart: 556,937 states | buffers are the summary of their samples, reports are coherent, their timestamps increase whatever the clock does, outliers are skipped exactly (for values of at least the threshold) |
| `threshold` | violation | near zero, readings between the extremes are skipped |
| `wifi` | driver that accepts requests, 4 events under way: 443 states | one retry at a time (`OneRetry`), and one whenever the station is down (`RetryUnderWay`); the MQTT worker told first (`ToldBeforeRetry`); initialization ends (`InitEnds`), lost connections are tried again, without a reset (`Reconnects`) |
| `wifi_refused` | violation of `RetryUnderWay` | after a refused request the station is down and nothing of `wifi_net.c` will ask again |
| `settings` | three records (`wifi`, `period`, `name`), 4 commands, 2 faults, 2 attempts: 356,294 states | a default is stored over a value that was answered "OK!" at most once a record, in the race of getter and setter, and once for each failed read (`LossesAccounted`); settings that work bring the station to its loop if its sensor is read with success some time (`Provisioned`) |
| `station` | bytes of 3 bits, values of a byte, 2 edges after the frame, three readings; sleep 1, second 2, watchdog, PUBACK and SNTP 5, period 10: 501,671 states | unless edges after the frame overran it, a reading returned is the one sent although edges come late, the first is lost or the counter wraps (`TrueReading`), and a frame heard in full is not refused (`NoFalseAlarm`); the watchdog never ends a wait of the station's own (`OwnWaitsAreFed`); the clock is kept (`ClockFresh`); nothing holds the station for ever (`NeverStuck`) |

### Why the bounds are enough

* `IdMod = 3` makes `message_id` wrap, to the illegal 0 as well, after two
  publications; a late acknowledgement needs two.
* `MaxTrials = 2` has a trial that is not the last and one that is; the same for
  the seconds and attempts.  `QueueMax` bounds packets in flight: two let an old
  acknowledgement be followed by the end of the stream.
* The pipeline has the code's sizes, and a message more than there are blocks.
* The sampler's three slots of six seconds give two reports and what lies before
  and after; `WarmUp = 1` and three samples let the third be skipped.  The type
  of 6 bits wraps below zero as the one of 32 does.  `MaxSamples` bounds the
  samples between two reports.
* The three records of `settings` are one main needs at once, one it needs in
  the loop, and one it does not need; the printing of two of them overlaps with
  main's reads.  Four commands set a value, another, and overwrite a default;
  two faults let a failure follow a failure or a reset.  No command or fault is
  left in the end: the deadlock check is off for that run alone.
* `station` keeps the order of the times: a sleep and a reading are shorter than
  a second, two seconds than the watchdog, which is equal to the waits for a
  PUBACK and for SNTP as in `prj.conf` (4 s), and the period of the clock is
  longer than all attempts of `wlab_init`.  Its readings have a negative
  temperature, all bits of the magnitude set, and a checksum of 0.  With 3 bits a
  byte every bit of the frame may be lost or falsified.  `OldAge` bounds the age
  of a clock that is not set.
* `EventsMax = 4` exceeds the events one connection raises before a handler must
  run for the next.

### Fairness

`MqttWorker.FairSpec` asks for weak fairness of both threads and of time: the
kernel runs a thread that is ready and `k_uptime_get` advances.  The broker, the
resolver and the radio owe nothing.  `SubsQueue.Spec` asks that `SubsTid` runs.
`WifiNet.FairSpec` asks that threads run, a started timer expires and the driver
answers a request, successfully or not; `OtherReset` has no fairness, although
the keep-alive test does reset a station that hears nothing for long enough:
`Reconnects` is to hold without it, and so is what `wifi_refused` violates, which
is an invariant.  `WlabSampler` has no fairness.
`Settings.FairSpec` asks that main runs and is reset where it gives up; nothing
of the user, the flash, the network or the sensor.  `Provisioned` states its
assumption on the sensor itself (`SensorAnswers`): a station that has loaded a
period of 0, and whose sensor never answers, stays in its loop for ever and does
not read the period typed meanwhile.  `Station.FairSpec` asks only that some step is
taken: time passes, and a wait ends by itself or by the watchdog.

`DropServed` and the other liveness properties are checked without a
subscription list: with one, `mqtt_worker_subscribe` waits for its SUBACK for as
long as other events keep coming.

## Findings

* `unsubscribed`, `mqtt_worker.c:321`: after a time-out `mqtt_worker_subscribe`
  returns the 0 of `wait_for_input`.
* `pool_leak`, `mqtt_worker.c:570`: a block is lost with each empty payload or
  failed read.
* `threshold`, `wlab.c:238`: `threshold` is a `uint32_t`, and so is the
  comparison.
* `wifi_refused`, `wifi_net.c:120`: a refused request is only logged; from then on
  it takes a reset of the station to connect again.

Met while modelling, and not the subject of a run:

* At a minute of publication with an empty buffer (a reset in such a minute, or
  no good reading for a whole slot) `wlab_process` divides by zero; it is the
  action `DivideByZero`, followed by a reset.
* While the client is not connected `mqtt_worker_publish_qos1` fails at once: a
  connection lost before `wlab_init` uses up its eight attempts within
  microseconds, and the assertion after them ends in a reset.
* The handler of a SUBACK looks at neither its result nor its return codes
  (`mqtt_worker.c:475`): a refused subscription is served as a granted one.
* With a subscription list, the last of a series of failed subscriptions leads
  back to `connect_to_broker` without a disconnect (`mqtt_worker.c:263`), which
  clears `Connected` over a live session and overwrites its socket.
* `gpio_callback` disables the interrupt of a pin number that is a mask
  (`dht2x.c:52`, `dht2x.c:60`), so that the sensor's stays on and an edge that
  follows the 40 bits falsifies `ReadData` while `dht2x_read` tests and reads it.
  The comment on `dht2x.c:34` says that the sensor sends 64 bits.
* A period of 0 divides by zero at the first sample; one of 60 or more never
  publishes; one that does not divide 60 gives two reports one timestamp.  The
  property `SlotsIncrease` is therefore about periods that divide the hour.
* With the watchdog of `prj.conf` (4 s; the default of `Kconfig` is 30 s), a
  publication in the loop whose PUBACK is lost always ends in a watchdog reset:
  `mqtt_worker_publish_qos1` waits 4 s after a sleep of 200 ms, so "publish ack
  timeout" is never logged there.  An SNTP request in the loop that is not
  answered ends in the same way.  In `wlab_init` the two are equal and either may
  come first.
* Where `wdg_init` fails it spins without a watchdog (`Spin`): the one state the
  station never leaves.
* A getter stores the default after any failure of `nvs_read`, although
  `nvs_data.h` says that it does so if the record does not exist; and a value set
  at the shell between its two calls is overwritten.
* A command that repeats the stored value prints "Failed!": `nvs_write` returns 0.
* `wificonf` with an SSID alone cannot join an open network: `passwd` is never
  NULL, so that `wifi_net_init` always asks for a PSK.
* The template of the authorization names longitude before latitude, its
  arguments come in the other order (`wlab.c:202`).
* `dht2x_us_now` wraps at 2^32 / cycles_per_us, not at 2^32: every 18 s an
  interval is measured as long.  The checksum refuses the frame (`TrueReading`),
  since one bit is wrong.
* `timestamp.h` speaks of milliseconds, the code of seconds; `nvs_data.h:78` of a
  default of UINT64_MAX, the code saves 0; the comment in
  `mqtt_worker_keepalive_test` of two hours and of samples stored in flash.

## Proofs

Every safety invariant and every action property that a passing run checks is
proved, for all values of the constants that satisfy the assumptions of its
module (`RetryUnderWay` for a driver that refuses nothing it could do, as in its
run); so is the safety part of the refinement of `SubsFifo`.  Each proof has
the same form: an inductive invariant, checked with TLC before it was proved, a
lemma for each group of actions, and a theorem that draws the property from the
invariant.

`MqttWorkerProofs`
: `TypeCorrect`: `Spec => []TypeOK`.  `TypeOK` is not inductive: wlab_init's
  counter stays in range only because the loop is left at its last attempt
  (`AuthBound`).  Lemmas give the type of what the operators build; the step is
  proved for one group of actions at a time.

`MqttWorkerSafety`
: `Agreement`, `SocketsClosed`, `FirstRelease`, `OwnAck`, `FreshSubscription`
  (`Spec => []SessionAgreement`, `NoSocketLeak`, `ReleasedWhileConnected`,
  `AckOwnership`, `SubscribedIsFresh`) and `DropKept` (`Spec =>
  DropNotForgotten`).  With a subscription list `SessionAgreement` says only that
  `Connected` implies a session, and `NoSocketLeak` and `DropNotForgotten` say
  nothing.  None of the five is inductive: each speaks of flags and
  library, and it is the worker's place in its code and the packets under way
  that decide what comes next.  The strengthening has a part for each:
  `Places` says in which state of the worker's machine each of its places is
  reached, and which places are left out without a subscription list.
  `Session` says that while a connection is being opened there is one CONNECT
  or one answer to it, the worker waits for it in `connect_to_broker` and
  `Connected` is clear; that an event whose handler has not run agrees with the
  client's state; and that the places which lead back to the resolver are
  reached with the socket closed.
  `Released` says what the semaphore of the first connection stands for.
  `Acks` says that, unless a publication timed out in this session, there is at
  most one PUBLISH or PUBACK under way, it bears the identifier of the
  publication main waits for, and an acknowledgement that is counted is the last
  trace of it.
  `Subs` says that a SUBACK under way was sent in this session, and that
  after `subscribe` has been called the flag can only come from one.

`SubsQueueProofs`
: `TypeCorrect`, `OneOwner` (`Spec => []Ownership`), `PutSucceeds`
  (`Spec => []PutNeverWaits`) and `Refines`, for every number of blocks, any queue at least
  as long (the assumption `SizesOK`), and any number of messages.  `Ownership` is
  inductive together with `Places`: a thread has a block in hand exactly between
  taking it and passing it on.  `PutSucceeds` then counts: the queue is an
  injection into the blocks that the handler does not hold.
  `Refines`: every behaviour of `SubsQueue` is one of `SubsFifo` but for the
  latter's fairness.  `Accepted` is described element by element (`Shape`), and
  `Numbered` says that messages in the queue or handed over are older than the
  handler's.  Put accepts, Callback hands over, Get passes a message from one
  place to the other and is a stutter.

`WlabSamplerProofs`
: `TypeCorrect`, `Summaries` (`Spec => []BufferSummarises`), `Coherence`
  (`Spec => []ReportCoherent`), `Band` (`Spec => []BandHeld`) and
  `ReportsAdvance` (`Spec => SlotsIncrease`), for integers of any width, any
  thresholds, periods and readings.  `Samples` says what the history of a
  buffer holds: proper samples, in the order of their times, none later than
  `last_secs`.
  `Together` ties the two buffers, which are cleared at the same time and skip
  different readings, so that the temperature's timestamp can stand for both.
  `Slots` orders the last report, the samples and the clock.  `BufferSummarises`
  is carried through `wlab_buffer_commit` one field at a time: the extremes and
  the first time they were seen (`FirstOf`) under one more sample, and the sum,
  a fold over the samples.  That the sum fits its type is an invariant of its own
  (`Sums`): it is within the count times the greatest magnitude of a reading.
  That the average lies between the extremes is a
  bound on that fold, divided.

`WifiNetProofs`
: `TypeCorrect`, `Retry` (`Spec => []OneRetry`), `Told`
  (`Spec => []ToldBeforeRetry`) and, for a driver that refuses nothing it could
  do (`~MayRefuse`), `Retrying` (`Spec => []RetryUnderWay`), for any time-out and
  number of events.
  `OneRetry` counts; the inductive `RetryInv` says instead that a retry announced
  by an event, one timed and one queued exclude each other, and `OwedInv` that a
  loss owed to the MQTT worker is still among the events; `TriedAgain` adds that a
  link that is down after the first request has one of the three.

`SettingsProofs`
: `TypeCorrect` and `Losses` (`Spec => []LossesAccounted`), for any records,
  values and bounds.

`StationProofs`
: `OwnWaits` (`Spec => []OwnWaitsAreFed`) and `Clock` (`Spec => []ClockFresh`), for
  any times within `TimesAssumption`.  The inductive invariant says that the
  stages that wait begin with a watchdog just fed (`FedInv`), and bounds the age of
  the clock at each: in `wlab_init` by the attempts made, in the loop by its
  period and the time since the last feed (`ClockInv`).
  `TypeCorrect`, `Truthful` (`Spec => []TrueReading`) and `Accepting`
  (`Spec => []NoFalseAlarm`), for bytes and values of any width and any readings
  they can express, and `NeverOverrun`: without edges after the frame
  (`Trailing = 0`) no read is overrun, and the two hold without that exception.
  The inductive invariant says what each stage of
  `dht2x_read` has set and that `PulseCnt` is the length of a frame or more once
  the semaphore is given (`Phases`), where
  a late or long edge can come from (`Skewed`), and that while only the first
  edge was missed, `ReadData` is the part of the frame already sent, or that part
  with one 0 turned into a 1 by the wrap of the counter (`Heard`).  The rest is
  arithmetic: a 0 is set without a carry, so one byte of the frame changes and no
  other (`BitInByte`), and the checksum or the byte that repeats it is wrong
  (`Detected`); what `Frame` encodes is what `Rh` and `Temp` read (`FrameRead`).

`Arithmetic`
: The lemmas these two share.  Induction is over a set of naturals: one that
  holds 0 and the successor of each of its elements is `Nat` (`SetInduction`),
  since otherwise the rest would have a least element (`LeastNatural`).  In this
  form it needs no operator as a parameter, and it reaches what the community
  modules define by recursion: `SumFunction` is unfolded, its sum does not depend
  on the order in which it takes its terms (`SumOrder`), and it grows by a term
  at a time (`SumExtends`).  `2 ^ n` is the number of subsets of a set of `n`
  elements, which gives the laws of powers.

Left to TLC: the liveness properties (`Recovers`, `SilenceEnds`, `DropServed`,
`InitEnds`, `Reconnects`, `Provisioned`, `NeverStuck`, and the liveness part of
`ImplementsFifo`), since the prover has no rules for fairness and ENABLED; and the
properties the code breaks (`RetryUnderWay` but for a driver that refuses nothing).

## Assumptions

* The library: `mqtt_input` reads one packet; the callback runs outside the
  mutex; a failing read or write closes the client and raises DISCONNECT, or a
  refused CONNACK before the session is up.  TCP keeps the order of packets.
* `k_mem_slab_free` takes the address of the pointer, as in Zephyr before 3.5,
  for which the code is written.
* `nvs_write` and `nvs_read` act on a whole record; `nvs_write` returns the length
  it wrote, or 0 for a value already stored.
* While the pin of the sensor is an output its input is switched off, as the
  ESP32's GPIO driver does: no edge is seen between two reads.
* A failed `__ASSERT` halts the processor (Zephyr's default fatal error handler).
* The driver answers an accepted request once, by a connect result, and a lost
  association by one disconnect result, as the ESP32 driver does.

## Not modelled

Texts and logs, `wlab_itostrf`, the LED, the configuration mode beyond its sleep
(it does nothing else yet), the boot counter, the layout of memory (a topic of
the greatest length, the period written with eight bytes), the widths of
counters of milliseconds, the parsing of the shell's arguments, build files.

A default ping period of 0 and a period of publication of 0 are values that do
not work in `Settings`; `MqttWorker` and `WlabSampler` take those of a station
that is provisioned.

## Plan

1. Done: `MqttWorker`, `SubsQueue` / `SubsFifo`, `WlabSampler`, `WifiNet`,
   `Settings`, `Dht2x`, `Station`.
2. Done: the theorems of every safety property the runs check.
3. Open: an abstract specification of the session of `MqttWorker`, of which it is
   a refinement as `SubsQueue` is of `SubsFifo`; and the proofs that lead from one
   module's theorem to the assumption of another (the wait of `KeepaliveTest` in
   `Station`, the drop of `WifiNet` in `MqttWorker`).
