------------------------------- MODULE Dht2x --------------------------------
(***************************************************************************)
(* dht2x.c: dht2x_read releases the line and waits for a semaphore while   *)
(* the interrupt of each falling edge measures the time since the last one *)
(* and shifts a bit into ReadData.  The sensor is external: it pulls the   *)
(* line once about 30 us after the release, once more at the end of its    *)
(* response, and once at the end of every bit; the interval before an edge *)
(* is short or long.  The interrupt may miss an edge, the microsecond      *)
(* counter wraps once in 18 s, and the wait may run out at any edge.       *)
(* While the station drives the line, its input is off and no edge is      *)
(* seen; until then nothing stops the interrupt.  (The callback disables   *)
(* that of pin number BIT(4): its argument is the mask of pins, not a pin.) *)
(***************************************************************************)
EXTENDS Integers, Functions

CONSTANTS
  Width,       (* bits of a byte: 8                                          *)
  ValueBytes,  (* bytes of a value: 2                                        *)
  Trailing,    (* edges after those of the data: 24 for an AM2301, or 0      *)
  Readings     (* what the sensor may measure, a set of [rh, temp]           *)

Word     == 2 ^ (Width * ValueBytes)
DataBits == Width * (2 * ValueBytes + 1)

ASSUME FrameAssumption ==
  /\ Width \in Nat \ {0} /\ ValueBytes \in Nat \ {0} /\ Trailing \in Nat
  /\ Readings \subseteq [rh : 0 .. Word \div 2 - 1, temp : 1 - Word \div 2 .. Word \div 2 - 1]

VARIABLES
  dht,           (* pc of the read, its return value, and *rh and *temp      *)
  PulseCnt,
  ReadData,      (* the bits below the frame's and one more                  *)
  DhtReadDone,   (* the semaphore, of limit 1                                *)
  sensor,        (* what is sent and the next edge                           *)
  skew,          (* the next interval measured is long whatever it was: an   *)
                 (* edge was missed or the counter has wrapped               *)
  aligned,       (* history: no edge but the first was missed in this read,  *)
                 (* and the counter has not wrapped before the first         *)
  wrapped,       (* history: the counter has wrapped in this read            *)
  overrun        (* history: edges followed those of the data before the     *)
                 (* read had taken its values                                *)

code    == <<dht, PulseCnt, ReadData, DhtReadDone>>
line    == <<sensor, skew, aligned, wrapped, overrun>>
dhtVars == <<code, line>>

Silent == [frame |-> 0, next |-> 0, answers |-> FALSE]
Last   == DataBits + 1 + Trailing

DhtTypeOK ==
  /\ dht \in [pc : {"idle", "start", "wait", "check", "rh", "temp", "after"},
              ret : {"none", "ok", "EIO", "ENOTSUP"},
              rh : -(Word \div 2) .. Word \div 2 - 1,
              temp : 1 - Word \div 2 .. Word \div 2 - 1]
  /\ PulseCnt \in 0 .. Last + 2
  /\ ReadData \in 0 .. 2 ^ (DataBits + 1) - 1
  /\ DhtReadDone \in 0 .. 1
  /\ sensor \in [frame : 0 .. 2 ^ DataBits - 1, next : 0 .. Last + 1,
                 answers : BOOLEAN]
  /\ skew \in BOOLEAN /\ aligned \in BOOLEAN /\ wrapped \in BOOLEAN
  /\ overrun \in BOOLEAN

Idle == [pc |-> "idle", ret |-> "none", rh |-> 0, temp |-> 0]

DhtInit == /\ dht = Idle /\ PulseCnt = 0 /\ ReadData = 0 /\ DhtReadDone = 0
           /\ sensor = Silent /\ skew = FALSE /\ aligned = TRUE
           /\ wrapped = FALSE /\ overrun = FALSE

(* The station's RAM after a reset.                                          *)
DhtReset == /\ dht' = Idle /\ PulseCnt' = 0 /\ ReadData' = 0 /\ DhtReadDone' = 0
            /\ sensor' = Silent /\ skew' = FALSE /\ aligned' = TRUE
            /\ wrapped' = FALSE /\ overrun' = FALSE

-----------------------------------------------------------------------------
(* A frame: humidity, temperature as sign and magnitude, and the sum of the  *)
(* bytes, the most significant first.                                        *)

Byte(n, i) == (n \div 2 ^ (Width * i)) % 2 ^ Width

Bytes(n) == [i \in 1 .. 2 * ValueBytes |-> Byte(n, i)]

Checksum(n) == SumFunction(Bytes(n)) % 2 ^ Width

(* An int16_t: the values are taken as their 16 bits are.                    *)
Signed(v) == IF v >= Word \div 2 THEN v - Word ELSE v

Rh(n)  == Signed((n \div (2 ^ Width * Word)) % Word)
Raw(n) == (n \div 2 ^ Width) % Word
Temp(n) == IF Raw(n) >= Word \div 2 THEN Word \div 2 - Raw(n) ELSE Raw(n)

Frame(m) ==
  LET raw  == IF m.temp < 0 THEN Word \div 2 - m.temp ELSE m.temp
      data == (m.rh * Word + raw) * 2 ^ Width
  IN data + Checksum(data)

SentBit(k) == (sensor.frame \div 2 ^ (DataBits - k)) % 2

(* The interval the sensor leaves before edge e: the first is the beginning  *)
(* of its response, the second the end of it, the others end a bit.          *)
Long(e) == e = 1 \/ (e - 1 \in 1 .. DataBits /\ SentBit(e - 1) = 1)

-----------------------------------------------------------------------------
(* dht2x_read.                                                               *)

(* Mutant: an answer given after a read timed out is kept.      *)
ReadBeginStale ==
  /\ dht = Idle
  /\ dht' = [dht EXCEPT !.pc = "start"]
  /\ PulseCnt' = 0 /\ ReadData' = 0
  /\ UNCHANGED <<DhtReadDone, line>>

ReadBegin ==
  /\ dht = Idle
  /\ dht' = [dht EXCEPT !.pc = "start"]
  /\ DhtReadDone' = 0 /\ PulseCnt' = 0 /\ ReadData' = 0
  /\ UNCHANGED line

(* The start signal ends, and the sensor answers, or there is none.          *)
Release ==
  /\ dht.pc = "start"
  /\ dht' = [dht EXCEPT !.pc = "wait"]
  /\ sensor' \in {Silent}
                 \cup {[frame |-> Frame(m), next |-> 0, answers |-> TRUE] : m \in Readings}
  /\ UNCHANGED <<PulseCnt, ReadData, DhtReadDone, skew, aligned, wrapped, overrun>>

Take ==
  /\ dht.pc = "wait" /\ DhtReadDone = 1
  /\ dht' = [dht EXCEPT !.pc = "check"]
  /\ DhtReadDone' = 0
  /\ UNCHANGED <<PulseCnt, ReadData, line>>

Timeout ==
  /\ dht.pc = "wait" /\ DhtReadDone = 0
  /\ dht' = [dht EXCEPT !.pc = "after", !.ret = "EIO"]
  /\ UNCHANGED <<PulseCnt, ReadData, DhtReadDone, line>>

(* Mutant: the checksum is not looked at.                        *)
ValidAnyway(n) == Byte(n, 0) # 0

Valid(n) == Byte(n, 0) = Checksum(n) /\ Byte(n, 0) # 0

(* ReadData is read once more for each value: an edge that follows the data  *)
(* shifts it before the test, or between the test and a value.               *)
Overrun == overrun' = (sensor.next > DataBits + 2)

Check ==
  /\ dht.pc = "check"
  /\ \/ Valid(ReadData) /\ dht' = [dht EXCEPT !.pc = "rh"] /\ UNCHANGED overrun
     \/ /\ ~ Valid(ReadData)
        /\ dht' = [dht EXCEPT !.pc = "after", !.ret = "ENOTSUP"] /\ Overrun
  /\ UNCHANGED <<PulseCnt, ReadData, DhtReadDone, sensor, skew, aligned, wrapped>>

StoreRh ==
  /\ dht.pc = "rh"
  /\ dht' = [dht EXCEPT !.pc = "temp", !.rh = Rh(ReadData)]
  /\ UNCHANGED <<PulseCnt, ReadData, DhtReadDone, line>>

StoreTemp ==
  /\ dht.pc = "temp"
  /\ dht' = [dht EXCEPT !.pc = "after", !.ret = "ok", !.temp = Temp(ReadData)]
  /\ Overrun
  /\ UNCHANGED <<PulseCnt, ReadData, DhtReadDone, sensor, skew, aligned, wrapped>>

(* The pin is an output again: whatever the sensor still sends is not seen.  *)
ReadDone ==
  /\ dht.pc = "after"
  /\ dht' = Idle
  /\ sensor' = Silent /\ skew' = FALSE /\ aligned' = TRUE
  /\ wrapped' = FALSE /\ overrun' = FALSE
  /\ UNCHANGED <<PulseCnt, ReadData, DhtReadDone>>

-----------------------------------------------------------------------------
(* The line, while the pin is an input.                                      *)

Listening == dht.pc \in {"wait", "check", "rh", "temp", "after"}

(* gpio_callback, with LastElapsed above its limit or not.                   *)
Callback(long) ==
  /\ PulseCnt' = IF PulseCnt = 0 THEN IF long THEN 2 ELSE 0 ELSE PulseCnt + 1
  /\ ReadData' = IF PulseCnt = 0 THEN ReadData
                 ELSE (2 * ReadData + IF long THEN 1 ELSE 0) % 2 ^ (DataBits + 1)
  /\ DhtReadDone' = IF PulseCnt' = DataBits + 2 THEN 1 ELSE DhtReadDone

NextEdge == /\ Listening /\ sensor.answers /\ sensor.next <= Last
            /\ sensor' = [sensor EXCEPT !.next = @ + 1]
            /\ UNCHANGED <<dht, wrapped, overrun>>

Edge == /\ NextEdge
        /\ Callback(skew \/ Long(sensor.next))
        /\ skew' = FALSE
        /\ UNCHANGED aligned

EdgeMissed == /\ NextEdge
              /\ skew' = TRUE
              /\ aligned' = (aligned /\ sensor.next = 0)
              /\ UNCHANGED <<PulseCnt, ReadData, DhtReadDone>>

(* dht2x_us_now falls from 2^32 / cyc_per_us to 0.                           *)
Wrap == /\ Listening /\ ~wrapped
        /\ wrapped' = TRUE /\ skew' = TRUE
        /\ aligned' = (aligned /\ sensor.next > 0)
        /\ UNCHANGED <<code, sensor, overrun>>

Reading == \/ Release \/ Take \/ Timeout \/ Check \/ StoreRh \/ StoreTemp
           \/ Edge \/ EdgeMissed \/ Wrap

-----------------------------------------------------------------------------
(* A reading that is returned is the one the sensor sent, its sign included, *)
(* although the first edge may be lost and the counter of microseconds may   *)
(* wrap between two edges of the frame.  Three things are excluded, which a  *)
(* checksum of one byte cannot rule out: a lost edge after the first, a wrap *)
(* before the first, and edges after the frame that come before the values   *)
(* are taken, which gpio_callback goes on shifting in.  A sensor that sends  *)
(* its 40 bits and no more has none of the last.                             *)
TrueReading ==
  dht.ret = "ok" /\ aligned /\ ~overrun =>
    \E m \in Readings : /\ sensor.frame = Frame(m)
                        /\ dht.rh = m.rh /\ dht.temp = m.temp

(* A frame heard in full, and by then not overrun, is not refused: an answer *)
(* that comes after a read has timed out does not stand for the next one's.  *)
(* A frame whose checksum is 0 is refused, and so is one the wrap falsified. *)
NoFalseAlarm ==
  dht.ret = "ENOTSUP" =>
    ~aligned \/ wrapped \/ overrun \/ Byte(sensor.frame, 0) = 0
=============================================================================
