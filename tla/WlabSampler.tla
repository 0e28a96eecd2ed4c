---------------------------- MODULE WlabSampler -----------------------------
(***************************************************************************)
(* wlab.c: wlab_process(timestamp_secs), called by main five times a       *)
(* second, reads the sensor every MeasurePeriod seconds, collects the      *)
(* readings of each series in a struct wlab_buffer and publishes a summary *)
(* of them in every minute that is a multiple of PublishPeriodMins.  The   *)
(* clock comes from timestamp.c and steps when SNTP is synchronized.       *)
(* Nothing depends on the result of the publication: the buffers begin     *)
(* anew whether the broker acknowledged it or not.                         *)
(***************************************************************************)
EXTENDS Integers, Sequences, FiniteSetsExt, Functions

CONSTANTS
  MeasurePeriod,      (* CONFIG_WLAB_MEASURE_PERIOD: 4 seconds               *)
  MinuteSecs,         (* seconds in a minute: 60                             *)
  HourMins,           (* minutes in an hour: 60                              *)
  PublishPeriodMins,  (* from NVS; 0 would divide by zero at the first sample*)
  WarmUp,             (* samples taken before any is skipped: 4              *)
  Threshold,          (* of each series: 8 and 40, in tenths                 *)
  IntMax,             (* INT32_MAX                                           *)
  ReadingMax,         (* magnitude of an int16_t: 32768                      *)
  Values,             (* what dht2x_read returns, for each series            *)
  FirstTime, MaxTime, (* bounds: the epoch times the clock shows             *)
  MaxSamples          (* bound: samples in a buffer                          *)

Series == {"Temperature", "Humidity"}

IntMin == - IntMax - 1
Int32  == IntMin .. IntMax

(* A reading is an int16_t, which is within the extremes of an int32_t, and *)
(* so is the sum of the readings of a buffer, if there are no more than     *)
(* 65535: three days of them, where a report is due every hour unless the   *)
(* period is 60 or more.                                                    *)
ASSUME ConstantsOK ==
  /\ {MeasurePeriod, MinuteSecs, HourMins, PublishPeriodMins} \subseteq Nat \ {0}
  /\ WarmUp \in Nat /\ IntMax \in Nat /\ MaxSamples \in Nat
  /\ Threshold \in [Series -> 0 .. IntMax]
  /\ FirstTime \in Nat /\ MaxTime \in Nat /\ MeasurePeriod <= FirstTime
  /\ DOMAIN Values = Series
  /\ ReadingMax \in Nat /\ ReadingMax < IntMax /\ MaxSamples * ReadingMax <= IntMax
  /\ \A s \in Series : Values[s] \subseteq -ReadingMax .. ReadingMax

Modulus == 2 * (IntMax + 1)

VARIABLES
  now,           (* what timestamp_get returns                               *)
  up,            (* FALSE between an exception and the reset it ends in      *)
  last_secs,     (* statics of wlab_process                                  *)
  last_minutes,
  buffer,        (* TempBuffer and RhBuffer                                  *)
  taken,         (* history: the samples that are in each buffer             *)
  rejected,      (* history: the readings that the last step skipped         *)
  report,        (* history: what the last step published                    *)
  lastSlot       (* history: the TS of the last report since the reset       *)

vars == <<now, up, last_secs, last_minutes, buffer, taken, rejected, report,
          lastSlot>>

Times   == FirstTime .. MaxTime
Never   == -1
Nothing == [s \in Series |-> <<>>]
None    == [slot |-> Never, at |-> Never, body |-> <<>>, of |-> Nothing]

Buffers == [min : Int32, max : Int32, min_ts : Nat, max_ts : Nat, buff : Int32,
            cnt : 0 .. MaxSamples, sample_ts : Nat, sample_ts_val : Int32]

TypeOK ==
  /\ now \in Times /\ up \in BOOLEAN
  /\ last_secs \in Times \cup {0} /\ last_minutes \in 0 .. HourMins - 1
  /\ buffer \in [Series -> Buffers]
  /\ taken \in [Series -> Seq([val : Int32, ts : Times])]
  /\ rejected \in [Series -> {<<>>} \cup {<<v>> : v \in Int32}]
  /\ lastSlot \in Nat \cup {Never}

(* wlab_buffer_init *)
EmptyBuffer == [min |-> IntMax, max |-> IntMin, min_ts |-> 0, max_ts |-> 0,
                buff |-> 0, cnt |-> 0, sample_ts |-> 0, sample_ts_val |-> IntMax]

Boot ==
  /\ up' = TRUE /\ last_secs' = 0 /\ last_minutes' = 0
  /\ buffer' = [s \in Series |-> EmptyBuffer]
  /\ taken' = Nothing /\ rejected' = Nothing
  /\ report' = None /\ lastSlot' = Never

Init ==
  /\ now \in Times /\ up = TRUE /\ last_secs = 0 /\ last_minutes = 0
  /\ buffer = [s \in Series |-> EmptyBuffer]
  /\ taken = Nothing /\ rejected = Nothing
  /\ report = None /\ lastSlot = Never

-----------------------------------------------------------------------------
(* Arithmetic of wlab.c *)

Minute(t) == t - (t % MinuteSecs)
Slot(t) == t - (t % (MinuteSecs * PublishPeriodMins))
(* Mutant: the minutes since the epoch.                                     *)
TmMinEpoch(t) == t \div MinuteSecs
TmMin(t) == (t \div MinuteSecs) % HourMins

(* An int32_t in an operation or a comparison with a uint32_t.              *)
Unsigned(v) == v % Modulus

(* Division of C: towards zero.                                             *)
Quotient(a, b) == IF 0 <= a THEN a \div b ELSE - ((- a) \div b)

(* val - threshold and val + threshold are uint32_t.                        *)
TooHigh(b, v, threshold) ==
  b.max # IntMin /\ Unsigned(v - threshold) > Unsigned(b.max)
TooLow(b, v, threshold) ==
  b.min # IntMax /\ Unsigned(v + threshold) < Unsigned(b.min)

(* Mutant: the test for low values lets through what it should stop.        *)
SkipsHighOnly(b, v, threshold) == b.cnt > WarmUp /\ TooHigh(b, v, threshold)
Skips(b, v, threshold) ==
  b.cnt > WarmUp /\ (TooHigh(b, v, threshold) \/ TooLow(b, v, threshold))

(* Mutant: a sample that is a new maximum is not compared with the minimum. *)
AddElseIf(b, v, t) ==
  [b EXCEPT
     !.sample_ts = IF b.sample_ts_val = IntMax THEN Slot(t) ELSE @,
     !.sample_ts_val = IF @ = IntMax THEN v ELSE @,
     !.max = IF v > @ THEN v ELSE @,
     !.max_ts = IF v > b.max THEN Minute(t) ELSE @,
     !.min = IF v < @ /\ v <= b.max THEN v ELSE @,
     !.min_ts = IF v < b.min /\ v <= b.max THEN Minute(t) ELSE @,
     !.buff = @ + v,
     !.cnt = @ + 1]
(* The rest of wlab_buffer_commit for a reading that is not skipped.        *)
Add(b, v, t) ==
  [b EXCEPT
     !.sample_ts = IF b.sample_ts_val = IntMax THEN Slot(t) ELSE @,
     !.sample_ts_val = IF @ = IntMax THEN v ELSE @,
     !.max = IF v > @ THEN v ELSE @,
     !.max_ts = IF v > b.max THEN Minute(t) ELSE @,
     !.min = IF v < @ THEN v ELSE @,
     !.min_ts = IF v < b.min THEN Minute(t) ELSE @,
     !.buff = @ + v,
     !.cnt = @ + 1]

-----------------------------------------------------------------------------
(* wlab_process *)

Readings == {r \in [Series -> UNION {Values[s] : s \in Series}] :
               \A s \in Series : r[s] \in Values[s]}

Measures == up /\ now - last_secs >= MeasurePeriod

(* The minute of the last report is a number of the hour, 0 at first.       *)
Due == TmMin(now) % PublishPeriodMins = 0 /\ TmMin(now) # last_minutes

ReadFails ==
  /\ Measures
  /\ last_secs' = now
  /\ rejected' = Nothing /\ report' = None
  /\ UNCHANGED <<now, up, last_minutes, buffer, taken, lastSlot>>

Commit ==
  /\ Measures /\ ~Due
  /\ \A s \in Series : buffer[s].cnt < MaxSamples
  /\ last_secs' = now
  /\ \E r \in Readings :
       LET Out(s) == Skips(buffer[s], r[s], Threshold[s]) IN
       /\ buffer' = [s \in Series |->
                       IF Out(s) THEN buffer[s] ELSE Add(buffer[s], r[s], now)]
       /\ taken' = [s \in Series |-> IF Out(s) THEN taken[s] ELSE
                      Append(taken[s], [val |-> r[s], ts |-> now])]
       /\ rejected' = [s \in Series |-> IF Out(s) THEN <<r[s]>> ELSE <<>>]
  /\ report' = None
  /\ UNCHANGED <<now, up, last_minutes, lastSlot>>

(* Mutant: the average is of the extremes.                                  *)
BodyOfExtremes(b) ==
  [avg |-> Quotient(b.min + b.max, 2), act |-> b.sample_ts_val, min |-> b.min,
   max |-> b.max, min_ts |-> b.min_ts, max_ts |-> b.max_ts]
Body(b) ==
  [avg |-> Quotient(b.buff, b.cnt), act |-> b.sample_ts_val, min |-> b.min,
   max |-> b.max, min_ts |-> b.min_ts, max_ts |-> b.max_ts]

(* Mutant: last_secs is kept, so that the clock may go back unnoticed.      *)
PublishKeepsTime ==
  /\ Measures /\ Due
  /\ \A s \in Series : buffer[s].cnt # 0
  /\ last_minutes' = TmMin(now)
  /\ report' = [slot |-> buffer["Temperature"].sample_ts, at |-> now,
                body |-> [s \in Series |-> Body(buffer[s])], of |-> taken]
  /\ lastSlot' = buffer["Temperature"].sample_ts
  /\ buffer' = [s \in Series |-> EmptyBuffer]
  /\ taken' = Nothing /\ rejected' = Nothing
  /\ UNCHANGED <<now, up, last_secs>>
(* Both series are published under the timestamp of the temperature; the    *)
(* reading of this step is in neither report.                               *)
Publish ==
  /\ Measures /\ Due
  /\ \A s \in Series : buffer[s].cnt # 0
  /\ last_secs' = now /\ last_minutes' = TmMin(now)
  /\ report' = [slot |-> buffer["Temperature"].sample_ts, at |-> now,
                body |-> [s \in Series |-> Body(buffer[s])], of |-> taken]
  /\ lastSlot' = buffer["Temperature"].sample_ts
  /\ buffer' = [s \in Series |-> EmptyBuffer]
  /\ taken' = Nothing /\ rejected' = Nothing
  /\ UNCHANGED <<now, up>>

(* buff / cnt with cnt = 0: the first reading after a reset is taken in a   *)
(* minute of publication, or no reading succeeded since the last report.    *)
DivideByZero ==
  /\ Measures /\ Due
  /\ \E s \in Series : buffer[s].cnt = 0
  /\ last_secs' = now /\ up' = FALSE
  /\ rejected' = Nothing /\ report' = None
  /\ UNCHANGED <<now, last_minutes, buffer, taken, lastSlot>>

-----------------------------------------------------------------------------
(* timestamp.c *)

Tick ==
  /\ now < MaxTime
  /\ now' = now + 1
  /\ rejected' = Nothing /\ report' = None
  /\ UNCHANGED <<up, last_secs, last_minutes, buffer, taken, lastSlot>>

(* timestamp_sync takes whatever time the server answers.                   *)
Synchronize ==
  /\ up
  /\ now' \in Times
  /\ rejected' = Nothing /\ report' = None
  /\ UNCHANGED <<up, last_secs, last_minutes, buffer, taken, lastSlot>>

(* The watchdog, a fatal error or sys_reboot; then wlab_init.               *)
Reset == Boot /\ UNCHANGED now

Next == \/ ReadFails \/ Commit \/ Publish \/ DivideByZero
        \/ Tick \/ Synchronize \/ Reset

Spec == Init /\ [][Next]_vars

-----------------------------------------------------------------------------
Vals(q) == {q[i].val : i \in 1 .. Len(q)}
FirstOf(q, v) == q[Min({i \in 1 .. Len(q) : q[i].val = v})]

(* What a buffer should hold once the samples q have been added.            *)
Summary(q) ==
  IF q = <<>> THEN EmptyBuffer
  ELSE [min |-> Min(Vals(q)), min_ts |-> Minute(FirstOf(q, Min(Vals(q))).ts),
        max |-> Max(Vals(q)), max_ts |-> Minute(FirstOf(q, Max(Vals(q))).ts),
        buff |-> SumFunction([i \in 1 .. Len(q) |-> q[i].val]),
        cnt |-> Len(q), sample_ts |-> Slot(q[1].ts), sample_ts_val |-> q[1].val]

(* A buffer is the summary of the samples taken since it was cleared: the   *)
(* extremes carry the minute they were first seen in, and nothing of an     *)
(* earlier slot or of a skipped reading is left in it.                      *)
BufferSummarises == \A s \in Series : buffer[s] = Summary(taken[s])

(* What is published describes the samples of its slot: the average and the *)
(* first sample lie between the extremes, the extremes were seen at or      *)
(* after the report's timestamp and before it was sent, and the timestamp,  *)
(* which is the temperature's, is right for the humidity too.               *)
ReportCoherent ==
  report # None =>
    \A s \in Series :
      LET b == report.body[s] q == report.of[s] IN
      /\ {b.avg, b.act} \subseteq b.min .. b.max
      /\ {b.min_ts, b.max_ts} \subseteq report.slot .. report.at
      /\ report.slot = Slot(q[1].ts)
      /\ b.avg = Quotient(SumFunction([i \in 1 .. Len(q) |-> q[i].val]), Len(q))

(* Two reports between resets never carry the same timestamp, nor an        *)
(* earlier one after a later one, however the clock steps: what has been    *)
(* measured has passed the test on last_secs.  For a period that does not   *)
(* divide the hour this is false, as the minutes are counted in the hour    *)
(* and the timestamps from the epoch.                                       *)
SlotsIncrease ==
  [][HourMins % PublishPeriodMins = 0 /\ report' # None
       => lastSlot < report'.slot]_vars

(* The comment on wlab_buffer_commit: a measurement is skipped when it      *)
(* exceeds the minimum or the maximum by more than the threshold.           *)
Outlier(lo, hi, v, threshold) == v - threshold > hi \/ v + threshold < lo

SkipsOnlyOutliers ==
  \A s \in Series : rejected[s] # <<>> =>
    Outlier(buffer[s].min, buffer[s].max, rejected[s][1], Threshold[s])

(* The same for readings of at least the threshold, and the converse: every *)
(* sample taken after the first WarmUp + 1 is within the threshold of those *)
(* before it.  (For smaller ones see SkipsOnlyOutliers.)                    *)
BandHeld ==
  \A s \in Series :
    LET q == taken[s] t == Threshold[s] IN
    (\A v \in Vals(q) : t <= v /\ v + t <= IntMax) =>
      /\ (rejected[s] # <<>> /\ t <= rejected[s][1]) =>
           Outlier(buffer[s].min, buffer[s].max, rejected[s][1], t)
      /\ \A i \in WarmUp + 2 .. Len(q) :
           LET before == Vals(SubSeq(q, 1, i - 1)) IN
           ~Outlier(Min(before), Max(before), q[i].val, t)
=============================================================================
