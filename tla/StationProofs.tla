---------------------------- MODULE StationProofs ---------------------------
(***************************************************************************)
(* Proofs about Station: the watchdog never ends a wait of the station's   *)
(* own, and the clock is never older than its period and a watchdog's time *)
(* unless the last request failed, for any timing within TimesAssumption;  *)
(* and, for bytes and values of any width, a reading is the one that the   *)
(* sensor sent, and a frame heard in full is not refused.                  *)
(***************************************************************************)
EXTENDS Station, Arithmetic

(* What the loop may not exceed; Attempts failed authorisations come first.  *)
FedInv ==
  /\ pc \in {"config", "wifi", "mqtt", "loop"} => fed = 0
  /\ pc = "process" => fed = Sleep

ClockInv ==
  /\ pc = "auth" => age <= tries * AckTimeout
  /\ pc \in {"loop", "process", "publish", "update", "resync"} /\ ~failed
       => age <= SyncPeriod + fed
  /\ pc = "test" /\ ~failed => age <= SyncPeriod

Inv == MainTypeOK /\ FedInv /\ ClockInv

-----------------------------------------------------------------------------
LEMMA Times ==
  /\ Wdg \in Nat \ {0} /\ Second \in Nat \ {0} /\ Sleep \in Nat \ {0}
  /\ ReadTime \in Nat \ {0} /\ AckTimeout \in Nat \ {0}
  /\ SntpTimeout \in Nat \ {0} /\ SyncPeriod \in Nat \ {0}
  /\ FirstConn \in Nat \ {0} /\ Attempts \in Nat \ {0}
  /\ 2 * Second < Wdg /\ Sleep + ReadTime < Wdg
BY TimesAssumption

LEMMA LimitValue ==
  /\ pc = "config" => Limit = 2 * Second
  /\ pc \in {"wifi", "mqtt"} => Limit = Second
  /\ pc = "loop" => Limit = Sleep
  /\ pc = "process" => Limit = ReadTime
  /\ pc \in {"auth", "publish"} => Limit = AckTimeout
  /\ pc \in {"sntp", "resync"} => Limit = SntpTimeout
BY DEF Limit

LEMMA WaitBound ==
  ASSUME MainTypeOK, NEW d \in Nat, Waits(d) PROVE fed + d \in 0 .. Wdg
BY Times DEF Waits, MainTypeOK

LEMMA AgedBound ==
  ASSUME MainTypeOK, NEW d \in Nat
  PROVE  Aged(d) \in 0 .. OldAge /\ Aged(d) <= age + d
BY Times DEF Aged, MainTypeOK, OldAge

(* Each failed authorisation ages the clock by AckTimeout at most.           *)
LEMMA OneMore ==
  ASSUME NEW n \in Nat, n < Attempts
  PROVE  /\ n * AckTimeout \in Nat
         /\ (n + 1) * AckTimeout = n * AckTimeout + AckTimeout
         /\ n * AckTimeout + AckTimeout <= SyncPeriod
<1>1. /\ n * AckTimeout \in Nat
      /\ (n + 1) * AckTimeout = n * AckTimeout + AckTimeout
  BY Times
<1>2. (n + 1) * AckTimeout <= Attempts * AckTimeout
  <2>1. PICK k \in Nat : Attempts = n + 1 + k
    <3>1. Attempts - (n + 1) \in Nat
      BY Times
    <3> QED
      BY <3>1, Times
  <2>2. Attempts * AckTimeout = (n + 1) * AckTimeout + k * AckTimeout
    BY <2>1, Times
  <2>3. k * AckTimeout \in Nat /\ (n + 1) * AckTimeout \in Nat
    BY <2>1, Times
  <2> QED
    BY <2>2, <2>3
<1> QED
  BY <1>1, <1>2, Times, TimesAssumption

LEMMA InitInv == Init => Inv
<1> SUFFICES ASSUME Init PROVE Inv
  OBVIOUS
<1>1. failed \in BOOLEAN
  BY DEF Init
<1>2. pc = "boot" /\ fed = 0 /\ tries = 0 /\ age = 0
  BY DEF Init
<1> QED
  BY <1>1, <1>2, Times DEF Inv, MainTypeOK, Stages, OldAge, FedInv, ClockInv

LEMMA ResetInv == Reset => Inv'
<1> SUFFICES ASSUME Reset PROVE Inv'
  OBVIOUS
<1>1. failed' \in BOOLEAN
  BY DEF Reset
<1>2. pc' = "boot" /\ fed' = 0 /\ tries' = 0 /\ age' = 0
  BY DEF Reset
<1> QED
  BY <1>1, <1>2, Times DEF Inv, MainTypeOK, Stages, OldAge, FedInv, ClockInv

LEMMA BootInv == Inv /\ (Boot \/ Configure \/ NotDue \/ Sample) => Inv'
<1> SUFFICES ASSUME Inv, Boot \/ Configure \/ NotDue \/ Sample PROVE Inv'
  OBVIOUS
<1> USE Times DEF Inv, MainTypeOK, Stages, FedInv, ClockInv, clock
<1>1. CASE Boot
  BY <1>1 DEF Boot, Goes
<1>2. CASE Configure
  BY <1>2 DEF Configure
<1>3. CASE NotDue
  BY <1>3 DEF NotDue, Goes
<1>4. CASE Sample
  BY <1>4 DEF Sample
<1> QED
  BY <1>1, <1>2, <1>3, <1>4

LEMMA RoundsInv == Inv /\ (RoundFails \/ RoundSucceeds) => Inv'
<1> SUFFICES ASSUME Inv, RoundFails \/ RoundSucceeds PROVE Inv'
  OBVIOUS
<1> USE Times DEF Inv, MainTypeOK, Stages, FedInv, ClockInv, clock
<1>1. CASE RoundFails
  <2>1. CASE Reset
    BY <2>1, ResetInv
  <2>2. CASE ~Reset
    BY <1>1, <2>2, WaitBound DEF RoundFails, Goes, Feed, NoFeed
  <2> QED
    BY <2>1, <2>2
<1>2. CASE RoundSucceeds
  BY <1>2, WaitBound DEF RoundSucceeds, Goes, Feed, NoFeed
<1> QED
  BY <1>1, <1>2

LEMMA SntpInv == Inv /\ (SntpFails \/ SntpSucceeds) => Inv'
<1> SUFFICES ASSUME Inv, SntpFails \/ SntpSucceeds PROVE Inv'
  OBVIOUS
<1> USE Times DEF Inv, MainTypeOK, Stages, FedInv, ClockInv, clock
<1>1. CASE SntpFails
  <2>1. CASE Reset
    BY <2>1, ResetInv
  <2>2. CASE ~Reset
    BY <1>1, <2>2 DEF SntpFails, Feed
  <2> QED
    BY <2>1, <2>2
<1>2. CASE SntpSucceeds
  <2>1. PICK d \in 0 .. SntpTimeout :
          /\ Waits(d) /\ \/ Goes("auth") /\ Feed(d)
                         \/ Goes("halt") /\ NoFeed(d)
    BY <1>2 DEF SntpSucceeds
  <2>2. fed + d \in 0 .. Wdg
    BY <2>1, WaitBound
  <2>3. age' = 0 /\ failed' \in BOOLEAN
    BY <1>2 DEF SntpSucceeds
  <2>4. 0 \in 0 .. OldAge /\ 0 <= 0 * AckTimeout
    BY DEF OldAge
  <2> QED
    BY <2>1, <2>2, <2>3, <2>4 DEF Goes, Feed, NoFeed
<1> QED
  BY <1>1, <1>2

LEMMA AuthInv == Inv /\ (AuthFails \/ AuthSucceeds) => Inv'
<1> SUFFICES ASSUME Inv, AuthFails \/ AuthSucceeds PROVE Inv'
  OBVIOUS
<1> USE Times DEF Inv, MainTypeOK, Stages, FedInv, ClockInv
<1>1. PICK d \in 0 .. AckTimeout :
        /\ pc = "auth" /\ Waits(d) /\ age' = Aged(d) /\ failed' = failed
        /\ \/ tries + 1 < Attempts /\ tries' = tries + 1 /\ Feed(d) /\ pc' = pc
           \/ tries + 1 = Attempts /\ Goes("halt") /\ NoFeed(d)
           \/ Goes("loop") /\ Feed(d)
  BY DEF AuthFails, AuthSucceeds
<1>2. fed + d \in 0 .. Wdg /\ Aged(d) \in 0 .. OldAge /\ Aged(d) <= age + d
  BY <1>1, WaitBound, AgedBound
<1>3. tries \in Nat /\ tries < Attempts /\ age <= tries * AckTimeout
  BY <1>1
<1>4. /\ tries * AckTimeout \in Nat
      /\ (tries + 1) * AckTimeout = tries * AckTimeout + AckTimeout
      /\ tries * AckTimeout + AckTimeout <= SyncPeriod
  BY <1>3, OneMore
<1>5. age' <= (tries + 1) * AckTimeout /\ age' <= SyncPeriod /\ age' \in 0 .. OldAge
  <2> DEFINE t == tries * AckTimeout
  <2>1. age <= t /\ t \in Nat /\ (tries + 1) * AckTimeout = t + AckTimeout
        /\ t + AckTimeout <= SyncPeriod
    BY <1>3, <1>4
  <2> HIDE DEF t
  <2> QED
    BY <1>1, <1>2, <2>1 DEF OldAge
<1> QED
  BY <1>1, <1>2, <1>3, <1>5 DEF Goes, Feed, NoFeed

LEMMA LoopInv == Inv /\ (Wakes \/ Sampled \/ Published) => Inv'
<1> SUFFICES ASSUME Inv, Wakes \/ Sampled \/ Published PROVE Inv'
  OBVIOUS
<1> USE Times DEF Inv, MainTypeOK, Stages, FedInv, ClockInv
<1>1. PICK d \in Nat :
        /\ pc \in {"loop", "process", "publish"} /\ Waits(d)
        /\ \/ Goes("process") /\ fed = 0 /\ d = Sleep
           \/ \E to \in {"update", "publish", "halt"} : Goes(to)
        /\ NoFeed(d) /\ age' = Aged(d) /\ failed' = failed
  <2>1. CASE Wakes
    BY <2>1 DEF Wakes
  <2>2. CASE Sampled
    BY <2>2 DEF Sampled
  <2>3. CASE Published
    BY <2>3 DEF Published
  <2> QED
    BY <2>1, <2>2, <2>3
<1>2. fed + d \in 0 .. Wdg /\ Aged(d) \in 0 .. OldAge /\ Aged(d) <= age + d
  BY <1>1, WaitBound, AgedBound
<1> QED
  BY <1>1, <1>2 DEF Goes, NoFeed

LEMMA ClockStepInv == Inv /\ (Update \/ Resync \/ KeepaliveTest) => Inv'
<1> SUFFICES ASSUME Inv, Update \/ Resync \/ KeepaliveTest PROVE Inv'
  OBVIOUS
<1> USE Times DEF Inv, MainTypeOK, Stages, FedInv, ClockInv, clock
<1>1. CASE Update
  BY <1>1 DEF Update, Goes
<1>2. CASE Resync
  <2>1. PICK d \in 0 .. SntpTimeout :
          /\ pc = "resync" /\ Waits(d) /\ Goes("test") /\ NoFeed(d)
          /\ failed' \in BOOLEAN
          /\ age' = 0 \/ (age' = Aged(d) /\ failed')
    BY <1>2, Zenon DEF Resync
  <2>2. fed + d \in 0 .. Wdg /\ Aged(d) \in 0 .. OldAge /\ 0 \in 0 .. OldAge
    BY <2>1, WaitBound, AgedBound DEF OldAge
  <2> QED
    BY <2>1, <2>2 DEF Goes, NoFeed
<1>3. CASE KeepaliveTest
  <2>1. CASE Reset
    BY <2>1, ResetInv
  <2>2. CASE ~Reset
    BY <1>3, <2>2 DEF KeepaliveTest, Goes, Feed
  <2> QED
    BY <2>1, <2>2
<1> QED
  BY <1>1, <1>2, <1>3

LEMMA NextInv == Inv /\ [Next]_vars => Inv'
<1> SUFFICES ASSUME Inv, [Next]_vars PROVE Inv'
  OBVIOUS
<1>1. CASE Bite
  BY <1>1, ResetInv DEF Bite
<1>2. CASE UNCHANGED vars \/ Spin
  BY <1>2 DEF Spin, vars, clock, Inv, MainTypeOK, FedInv, ClockInv
<1>3. CASE Main
  BY <1>3, BootInv, RoundsInv, SntpInv, AuthInv, LoopInv, ClockStepInv, <1>2
     DEF Main
<1> QED
  BY <1>1, <1>2, <1>3 DEF Next

LEMMA InvHolds == Spec => []Inv
BY InitInv, NextInv, PTL DEF Spec

-----------------------------------------------------------------------------
(* For any timing, the watchdog never ends a round of the first connections, *)
(* a sleep of main or the reading of the sensor: they all follow a wdg_feed  *)
(* soon enough.                                                              *)
THEOREM OwnWaits == Spec => []OwnWaitsAreFed
<1>1. Inv => OwnWaitsAreFed
  BY Times, LimitValue DEF Inv, MainTypeOK, FedInv, OwnWaitsAreFed
<1> QED
  BY <1>1, InvHolds, PTL

(* For any timing, timestamp_update keeps the clock no older than its period *)
(* and a watchdog's time, unless the last request failed.                    *)
THEOREM Clock == Spec => []ClockFresh
<1>1. Inv => ClockFresh
  BY Times DEF Inv, MainTypeOK, ClockInv, ClockFresh
<1> QED
  BY <1>1, InvHolds, PTL

-----------------------------------------------------------------------------
(* The frame of the sensor: its sizes, its bytes and its checksum.           *)

LEMMA FactorNat ==
  ASSUME NEW a \in Nat, NEW b \in Nat, NEW c \in Nat, b <= c
  PROVE  a * b \in Nat /\ a * c \in Nat /\ a * b <= a * c
         /\ a * (c - b) = (a * c) - (a * b) /\ c - b \in Nat
<1>1. PICK k \in Nat : c = b + k
  <2>1. c - b \in Nat
    OBVIOUS
  <2> QED
    BY <2>1
<1>2. a * c = (a * b) + (a * k) /\ a * b \in Nat /\ a * k \in Nat
  BY <1>1
<1>3. c - b = k
  BY <1>1
<1> QED
  BY <1>2, <1>3

LEMMA Sizes ==
  /\ Width \in Nat \ {0} /\ ValueBytes \in Nat \ {0} /\ Trailing \in Nat
  /\ Width * ValueBytes \in Nat \ {0}
  /\ 2 * ValueBytes \in Nat
  /\ DataBits \in Nat /\ DataBits >= 3
  /\ DataBits = (Width * (2 * ValueBytes)) + Width
  /\ DataBits = ((Width * ValueBytes) + (Width * ValueBytes)) + Width
<1> DEFINE p == Width * ValueBytes
<1>1. Width \in Nat \ {0} /\ ValueBytes \in Nat \ {0} /\ Trailing \in Nat
  BY FrameAssumption
<1>2. p \in Nat /\ Width <= p
  <2>1. Width * 1 <= Width * ValueBytes /\ Width * ValueBytes \in Nat
    BY <1>1, FactorNat
  <2> QED
    BY <1>1, <2>1
<1>3. Width * (2 * ValueBytes) = p + p
  BY <1>1
<1>4. Width * (2 * ValueBytes + 1) = (Width * (2 * ValueBytes)) + Width
  BY <1>1
<1> HIDE DEF p
<1>5. DataBits = (p + p) + Width
  BY <1>3, <1>4 DEF DataBits
<1>6. DataBits \in Nat /\ DataBits >= 3 /\ p \in Nat \ {0}
  BY <1>1, <1>2, <1>5
<1>7. 2 * ValueBytes \in Nat
  BY <1>1
<1>8. DataBits = (Width * (2 * ValueBytes)) + Width
  BY <1>4 DEF DataBits
<1> QED
  BY <1>1, <1>5, <1>6, <1>7, <1>8 DEF p

LEMMA Powers ==
  /\ 2 ^ Width \in Nat \ {0} /\ Word \in Nat \ {0}
  /\ Word \div 2 \in Nat \ {0} /\ Word = 2 * (Word \div 2)
  /\ 2 ^ DataBits \in Nat \ {0}
  /\ 2 ^ DataBits = (Word * Word) * 2 ^ Width
  /\ 2 ^ (DataBits + 1) = 2 * 2 ^ DataBits
<1> DEFINE p == Width * ValueBytes
<1>1. p \in Nat \ {0} /\ Width \in Nat /\ DataBits \in Nat /\ DataBits = (p + p) + Width
  BY Sizes
<1>2. Word = 2 ^ p
  BY DEF Word
<1> HIDE DEF p
<1>3. 2 ^ Width \in Nat \ {0} /\ 2 ^ p \in Nat \ {0} /\ 2 ^ DataBits \in Nat \ {0}
  BY <1>1, Power
<1>4. 2 ^ DataBits = (2 ^ p * 2 ^ p) * 2 ^ Width
  <2>1. p + p \in Nat
    BY <1>1
  <2>2. 2 ^ ((p + p) + Width) = 2 ^ (p + p) * 2 ^ Width
    BY <1>1, <2>1, PowerSum
  <2>3. 2 ^ (p + p) = 2 ^ p * 2 ^ p
    BY <1>1, PowerSum
  <2> QED
    BY <1>1, <2>2, <2>3
<1>5. 2 ^ (DataBits + 1) = 2 * 2 ^ DataBits
  BY <1>1, PowerSucc
<1>6. 2 ^ p \div 2 \in Nat \ {0} /\ 2 ^ p = 2 * (2 ^ p \div 2)
  <2>1. p - 1 \in Nat /\ p = (p - 1) + 1
    BY <1>1
  <2> DEFINE h == 2 ^ (p - 1)
  <2>2. 2 ^ p = 2 * h /\ h \in Nat \ {0}
    BY <2>1, PowerSucc, Power
  <2> HIDE DEF h
  <2>3. (2 * h) \div 2 = h
    BY <2>2
  <2> QED
    BY <2>2, <2>3
<1> QED
  BY <1>2, <1>3, <1>4, <1>5, <1>6

LEMMA ByteNat ==
  ASSUME NEW n \in Nat, NEW i \in Nat
  PROVE  /\ Width * i \in Nat
         /\ 2 ^ (Width * i) \in Nat \ {0}
         /\ n \div 2 ^ (Width * i) \in Nat
         /\ Byte(n, i) \in 0 .. 2 ^ Width - 1
<1>1. Width * i \in Nat
  BY Sizes
<1>2. 2 ^ (Width * i) \in Nat \ {0}
  BY <1>1, Power
<1>3. n \div 2 ^ (Width * i) \in Nat
  BY <1>2, DivModNat
<1>4. 2 ^ Width \in Nat \ {0}
  BY Powers
<1>5. Byte(n, i) \in 0 .. 2 ^ Width - 1
  BY <1>3, <1>4, DivModNat DEF Byte
<1> QED
  BY <1>1, <1>2, <1>3, <1>5

LEMMA BytesSum ==
  ASSUME NEW n \in Nat
  PROVE  /\ Bytes(n) \in [1 .. 2 * ValueBytes -> Int]
         /\ SumFunction(Bytes(n)) \in Nat
         /\ Checksum(n) \in 0 .. 2 ^ Width - 1
<1> DEFINE hi == 2 ^ Width - 1
           k == 2 * ValueBytes
<1>1. hi \in Nat /\ k \in Nat /\ 2 ^ Width \in Nat \ {0}
  BY Powers, Sizes
<1>2. ASSUME NEW i \in 1 .. k PROVE Byte(n, i) \in 0 .. hi
  <2>1. i \in Nat
    BY <1>1
  <2> QED
    BY <2>1, ByteNat
<1>3. Bytes(n) \in [1 .. k -> 0 .. hi] /\ Bytes(n) \in [1 .. k -> Int]
  BY <1>1, <1>2 DEF Bytes
<1> HIDE DEF k, hi
<1>4. k * 0 <= SumFunction(Bytes(n)) /\ SumFunction(Bytes(n)) \in Int
  <2>1. SumFunction(Bytes(n)) \in Int
    BY <1>1, <1>3, SumInt
  <2>2. 0 \in Int /\ hi \in Int
    BY <1>1
  <2>3. k * 0 <= SumFunction(Bytes(n))
    BY <1>1, <1>3, <2>2, SumBounds
  <2> QED
    BY <2>1, <2>3
<1>5. SumFunction(Bytes(n)) \in Nat
  BY <1>1, <1>4
<1>6. Checksum(n) \in 0 .. 2 ^ Width - 1
  BY <1>1, <1>5, DivModNat DEF Checksum
<1> QED
  BY <1>3, <1>5, <1>6 DEF k

(* Byte i of what is counted in units of that byte or of the bytes above it. *)
LEMMA ByteAbove ==
  ASSUME NEW n \in Nat, NEW c \in 0 .. 2 ^ Width - 1, NEW i \in Nat \ {0}
  PROVE  Byte((2 ^ Width * n) + c, i) = (n \div 2 ^ (Width * (i - 1))) % 2 ^ Width
<1> DEFINE W == 2 ^ Width
           a == Width * (i - 1)
           m == (W * n) + c
<1>1. W \in Nat \ {0} /\ c \in 0 .. W - 1 /\ Width \in Nat
  BY Powers, Sizes
<1>2. i - 1 \in Nat /\ Width * i = Width + a /\ a \in Nat
  BY Sizes
<1>3. c \in Nat /\ c \div W = 0
  <2>1. c = (W * 0) + c /\ c \in Int /\ 0 \in Int
    BY <1>1
  <2> HIDE DEF W
  <2> QED
    BY <1>1, <2>1, DivUnique
<1> HIDE DEF a
<1>4. m \in Nat /\ m \div W = n
  <2>1. m \div W = n + (c \div W)
    BY <1>1, <1>3, DivAdd
  <2>2. W * n \in Nat
    BY <1>1
  <2> HIDE DEF W
  <2> QED
    BY <1>1, <1>3, <2>1, <2>2
<1> HIDE DEF m
<1>5. (m \div W) \div 2 ^ a = m \div 2 ^ (Width + a)
  BY <1>1, <1>2, <1>4, DivPower
<1>6. Byte(m, i) = (m \div 2 ^ (Width + a)) % W
  BY <1>2 DEF Byte
<1> QED
  BY <1>4, <1>5, <1>6 DEF a, m

LEMMA ByteLow ==
  ASSUME NEW n \in Nat
  PROVE  Byte(n, 0) = n % 2 ^ Width
<1>1. Width * 0 = 0
  BY Sizes
<1>2. n \div 1 = n
  OBVIOUS
<1> QED
  BY <1>1, <1>2, PowerOne DEF Byte

(* A word of data with its checksum below it is a frame that says so.        *)
LEMMA Encoded ==
  ASSUME NEW n \in Nat, NEW f, f = 2 ^ Width * n + Checksum(n * 2 ^ Width)
  PROVE  /\ f \in Nat /\ f \div 2 ^ Width = n
         /\ Byte(f, 0) = Checksum(f)
<1> DEFINE W == 2 ^ Width
           d == n * W
           c == Checksum(d)
<1>1. W \in Nat \ {0}
  BY Powers
<1>2. d \in Nat /\ d = (W * n) + 0 /\ 0 \in 0 .. W - 1
  BY <1>1
<1>3. c \in 0 .. W - 1 /\ c \in Nat
  <2> HIDE DEF d
  <2>1. c \in 0 .. W - 1
    BY <1>2, BytesSum
  <2> QED
    BY <1>1, <2>1
<1>4. f = (W * n) + c
  OBVIOUS
<1>5. W * n \in Nat
  BY <1>1
<1>6. f \in Nat
  <2> HIDE DEF W, c
  <2> QED
    BY <1>3, <1>4, <1>5
<1>7. f \div W = n /\ f % W = c
  <2> HIDE DEF W, c
  <2>1. f \in Int /\ n \in Int
    BY <1>6
  <2> QED
    BY <1>1, <1>3, <1>4, <2>1, DivUnique
<1>8. ASSUME NEW i \in 1 .. 2 * ValueBytes PROVE Byte(f, i) = Byte(d, i)
  <2>1. i \in Nat \ {0}
    BY Sizes
  <2>2. Byte((W * n) + c, i) = (n \div 2 ^ (Width * (i - 1))) % W
    BY <1>3, <2>1, ByteAbove
  <2>3. Byte((W * n) + 0, i) = (n \div 2 ^ (Width * (i - 1))) % W
    BY <1>2, <2>1, ByteAbove
  <2> HIDE DEF W, c, d
  <2> QED
    BY <1>2, <1>4, <2>2, <2>3
<1>9. Bytes(f) = Bytes(d)
  BY <1>8 DEF Bytes
<1>10. Checksum(f) = c
  BY <1>9 DEF Checksum
<1>11. Byte(f, 0) = c
  BY <1>6, <1>7, ByteLow
<1> QED
  BY <1>6, <1>7, <1>10, <1>11

(* Setting a bit that is 0 adds to one byte, and to that byte alone.         *)
LEMMA BitInByte ==
  ASSUME NEW n \in Nat, NEW j \in 0 .. DataBits - 1, (n \div 2 ^ j) % 2 = 0,
         NEW r, r = n + 2 ^ j
  PROVE  \E i \in 0 .. 2 * ValueBytes : \E x \in 1 .. 2 ^ Width - 1 :
           /\ Byte(r, i) = Byte(n, i) + x
           /\ \A k \in 0 .. 2 * ValueBytes : k # i => Byte(r, k) = Byte(n, k)
<1> DEFINE i == j \div Width
           b == j % Width
           V == 2 * ValueBytes
           x == 2 ^ b
           W == 2 ^ Width
<1>1. Width \in Nat \ {0} /\ j \in Nat /\ V \in Nat /\ W \in Nat \ {0}
      /\ DataBits = (Width * V) + Width /\ j <= DataBits - 1 /\ DataBits \in Nat
  BY Sizes, Powers
<1>2. i \in Nat /\ b \in 0 .. Width - 1 /\ j = (Width * i) + b /\ b \in Nat
  BY <1>1, DivModNat
<1> HIDE DEF i, b, V
<1>3. i \in 0 .. V
  <2>1. Width * i < Width * (V + 1)
    <3>1. Width * (V + 1) = (Width * V) + Width /\ Width * i \in Nat /\ Width * V \in Nat
      BY <1>1, <1>2
    <3> QED
      BY <1>1, <1>2, <3>1
  <2>2. i \in Int /\ V \in Int
    BY <1>1, <1>2
  <2>3. i <= V
    BY <1>1, <2>1, <2>2, LessFactor
  <2> QED
    BY <1>1, <1>2, <2>3
<1> DEFINE a == Width * i
           q == n \div 2 ^ a
<1>4. a \in Nat /\ 2 ^ a \in Nat \ {0} /\ q \in Nat
  BY <1>2, ByteNat
<1>5. 2 ^ j = 2 ^ a * x /\ x \in Nat \ {0}
  <2>1. j = a + b
    BY <1>2
  <2> HIDE DEF a
  <2> QED
    BY <1>2, <1>4, <2>1, PowerSum, Power
<1>6. r \div 2 ^ a = q + x
  <2>1. ((2 ^ a * x) + n) \div 2 ^ a = x + (n \div 2 ^ a)
    BY <1>4, <1>5, DivAdd
  <2>2. r = (2 ^ a * x) + n
    <3>1. 2 ^ j \in Nat
      BY <1>1, Power
    <3> QED
      BY <1>5, <3>1
  <2> HIDE DEF a, x, q
  <2> QED
    BY <1>4, <1>5, <2>1, <2>2 DEF q
<1>7. (q \div 2 ^ b) % 2 = 0
  <2>1. (n \div 2 ^ a) \div 2 ^ b = n \div 2 ^ (a + b)
    BY <1>2, <1>4, DivPower
  <2> QED
    BY <1>2, <2>1
<1>8. b < Width
  BY <1>1, <1>2
<1>9. (q + x) \div W = q \div W /\ (q + x) % W = (q % W) + x
  <2> HIDE DEF q
  <2>1. Width \in Nat
    BY <1>1
  <2> QED
    BY <1>2, <1>4, <1>7, <1>8, <2>1, NoCarry
<1>10. Byte(r, i) = Byte(n, i) + x
  BY <1>6, <1>9 DEF Byte
<1>11. x \in 1 .. W - 1
  <2>1. Byte(n, i) \in 0 .. W - 1
    BY <1>2, ByteNat
  <2>2. r \in Nat
    <3>1. 2 ^ j \in Nat
      BY <1>1, Power
    <3> QED
      BY <3>1
  <2>3. Byte(r, i) \in 0 .. W - 1
    BY <1>2, <2>2, ByteNat
  <2> HIDE DEF x, W
  <2> QED
    BY <1>1, <1>5, <1>10, <2>1, <2>3
<1> HIDE DEF x
<1>12. ASSUME NEW k \in 0 .. V, k # i PROVE Byte(r, k) = Byte(n, k)
  <2> DEFINE e == Width * k
  <2>1. k \in Nat /\ e \in Nat /\ 2 ^ e \in Nat \ {0} /\ n \div 2 ^ e \in Nat
    <3>1. k \in Nat
      BY <1>1
    <3> QED
      BY <3>1, ByteNat
  <2>2. CASE k < i
    (* The bit is counted in units of the bytes above.                       *)
    <3>1. /\ Width * (k + 1) <= Width * i /\ Width * (k + 1) = e + Width
          /\ Width * i \in Nat
      <4>1. k + 1 <= i /\ k + 1 \in Nat /\ Width * (k + 1) = (Width * k) + Width
        BY <1>1, <1>2, <2>1, <2>2
      <4> QED
        BY <1>1, <1>2, <4>1, FactorNat
    <3> DEFINE c == j - (e + Width)
    <3>2. c \in Nat /\ j = e + (Width + c)
      <4> HIDE DEF e
      <4> QED
        BY <1>1, <1>2, <2>1, <3>1
    <3> HIDE DEF c, e
    <3>3. 2 ^ j = 2 ^ e * (W * 2 ^ c) /\ 2 ^ c \in Nat /\ W * 2 ^ c \in Nat
      <4>1. 2 ^ j = 2 ^ e * 2 ^ (Width + c)
        <5>1. Width + c \in Nat
          BY <1>1, <3>2
        <5> QED
          BY <2>1, <3>2, <5>1, PowerSum
      <4>2. 2 ^ (Width + c) = W * 2 ^ c
        BY <1>1, <3>2, PowerSum
      <4>3. 2 ^ c \in Nat
        BY <3>2, Power
      <4> QED
        BY <1>1, <4>1, <4>2, <4>3
    <3> DEFINE g == 2 ^ c
               h == W * g
               m == n \div 2 ^ e
    <3>4. r \div 2 ^ e = h + m
      <4>1. r = (2 ^ e * h) + n
        <5>1. 2 ^ j \in Nat
          BY <1>1, Power
        <5> QED
          BY <3>3, <5>1
      <4>2. ((2 ^ e * h) + n) \div 2 ^ e = h + m
        BY <2>1, <3>3, DivAdd
      <4> QED
        BY <4>1, <4>2
    <3>5. (h + m) % W = m % W
      <4>1. g \in Nat /\ m \in Nat
        BY <2>1, <3>3
      <4> HIDE DEF g, m
      <4>2. ((W * g) + m) % W = m % W
        BY <1>1, <4>1, DivAdd
      <4> QED
        BY <4>2
    <3> QED
      BY <3>4, <3>5 DEF Byte, e
  <2>3. CASE i < k
    (* The byte is what is left above the byte of the bit.                   *)
    <3> DEFINE c == Width * (k - (i + 1))
    <3>1. c \in Nat /\ e = (a + Width) + c
      <4>1. i + 1 <= k /\ i + 1 \in Nat /\ Width * (i + 1) = (Width * i) + Width
        BY <1>1, <1>2, <2>1, <2>3
      <4>2. /\ Width * (i + 1) \in Nat /\ Width * (i + 1) <= Width * k
            /\ c = (Width * k) - (Width * (i + 1))
        BY <1>1, <2>1, <4>1, FactorNat
      <4> QED
        BY <1>4, <2>1, <4>1, <4>2
    <3> HIDE DEF c
    <3>2. ASSUME NEW p \in Nat
          PROVE  p \div 2 ^ e = ((p \div 2 ^ a) \div W) \div 2 ^ c
      <4> HIDE DEF a, e, W
      <4>1. (p \div 2 ^ a) \div 2 ^ Width = p \div 2 ^ (a + Width)
        <5>1. a \in Nat /\ Width \in Nat
          BY <1>1, <1>4
        <5> QED
          BY <5>1, DivPower
      <4>2. (p \div 2 ^ (a + Width)) \div 2 ^ c = p \div 2 ^ ((a + Width) + c)
        <5>1. a + Width \in Nat
          BY <1>1, <1>4
        <5> QED
          BY <3>1, <5>1, DivPower
      <4> QED
        BY <3>1, <4>1, <4>2 DEF W
    <3>3. r \in Nat
      <4>1. 2 ^ j \in Nat
        BY <1>1, Power
      <4> QED
        BY <4>1
    <3>4. r \div 2 ^ e = n \div 2 ^ e
      <4>1. r \div 2 ^ e = ((r \div 2 ^ a) \div W) \div 2 ^ c
        BY <3>2, <3>3
      <4>2. n \div 2 ^ e = ((n \div 2 ^ a) \div W) \div 2 ^ c
        BY <3>2
      <4> QED
        BY <1>6, <1>9, <4>1, <4>2
    <3> QED
      BY <3>4 DEF Byte
  <2> QED
    BY <1>2, <1>12, <2>1, <2>2, <2>3
<1> QED
  BY <1>3, <1>10, <1>11, <1>12 DEF V

(* The checksum detects a bit that the wrap of the counter has set.          *)
LEMMA Detected ==
  ASSUME NEW n \in Nat, NEW j \in 0 .. DataBits - 1, (n \div 2 ^ j) % 2 = 0,
         Byte(n, 0) = Checksum(n)
  PROVE  ~ Valid(n + 2 ^ j)
<1> DEFINE r == n + 2 ^ j
           V == 2 * ValueBytes
           W == 2 ^ Width
<1>1. V \in Nat /\ W \in Nat \ {0}
  BY Sizes, Powers
<1>2. PICK i \in 0 .. V, x \in 1 .. W - 1 :
        /\ Byte(r, i) = Byte(n, i) + x
        /\ \A k \in 0 .. V : k # i => Byte(r, k) = Byte(n, k)
  BY BitInByte
<1>3. r \in Nat
  <2>1. j \in Nat
    BY Sizes
  <2>2. 2 ^ j \in Nat
    BY <2>1, Power
  <2> QED
    BY <2>2
<1> HIDE DEF r
<1>4. /\ Bytes(n) \in [1 .. V -> Int] /\ SumFunction(Bytes(n)) \in Nat
      /\ Bytes(r) \in [1 .. V -> Int] /\ SumFunction(Bytes(r)) \in Nat
  BY <1>3, BytesSum
<1>5. Byte(n, 0) \in Int
  BY ByteNat
<1>6. \A k \in 1 .. V : Bytes(r)[k] = Byte(r, k) /\ Bytes(n)[k] = Byte(n, k)
  BY DEF Bytes
<1> HIDE DEF V, W
<1>7. CASE i = 0
  <2>1. \A k \in 1 .. V : Byte(r, k) = Byte(n, k)
    BY <1>1, <1>2, <1>7
  <2>2. Bytes(r) = Bytes(n)
    BY <2>1 DEF Bytes, V
  <2>3. Checksum(r) = Checksum(n)
    BY <2>2 DEF Checksum
  <2>4. Byte(r, 0) # Byte(n, 0)
    BY <1>1, <1>2, <1>5, <1>7
  <2> QED
    BY <2>3, <2>4 DEF Valid, r
<1>8. CASE i # 0
  <2>1. i \in 1 .. V /\ 0 \in 0 .. V
    BY <1>1, <1>8
  <2>2. Bytes(r)[i] = Bytes(n)[i] + x /\ Bytes(n)[i] \in Int /\ x \in Int
    BY <1>1, <1>2, <1>4, <1>6, <2>1
  <2>3. ChangedAt(V, Bytes(r), Bytes(n), i)
    BY <1>1, <1>2, <1>4, <1>6, <2>1 DEF ChangedAt
  <2>4. SumFunction(Bytes(r)) = SumFunction(Bytes(n)) + (Bytes(r)[i] - Bytes(n)[i])
    BY <1>1, <2>3, SumChange
  <2>5. SumFunction(Bytes(r)) = SumFunction(Bytes(n)) + x
    BY <1>4, <2>2, <2>4
  <2>6. Checksum(r) # Checksum(n)
    BY <1>1, <1>4, <2>5, ModMoves DEF Checksum, W
  <2>7. Byte(r, 0) = Byte(n, 0)
    BY <1>2, <1>8, <2>1
  <2> QED
    BY <2>6, <2>7 DEF Valid, r
<1> QED
  BY <1>7, <1>8

(* What a frame says of itself, and what is read back from it.               *)
LEMMA FrameRead ==
  ASSUME NEW m \in Readings
  PROVE  /\ Frame(m) \in 0 .. 2 ^ DataBits - 1
         /\ Byte(Frame(m), 0) = Checksum(Frame(m))
         /\ Rh(Frame(m)) = m.rh /\ Temp(Frame(m)) = m.temp
<1> DEFINE H == Word \div 2
           W == 2 ^ Width
           raw == IF m.temp < 0 THEN H - m.temp ELSE m.temp
           n == m.rh * Word + raw
           f == Frame(m)
<1>1. /\ W \in Nat \ {0} /\ Word \in Nat \ {0} /\ H \in Nat \ {0} /\ Word = 2 * H
      /\ 2 ^ DataBits = (Word * Word) * W
  BY Powers
<1>2. m.rh \in 0 .. H - 1 /\ m.temp \in 1 - H .. H - 1
  BY FrameAssumption
<1> HIDE DEF H, W
<1>3. raw \in 0 .. Word - 1 /\ m.rh \in Nat /\ m.rh <= Word - 1
  BY <1>1, <1>2
<1>4. (IF raw >= H THEN H - raw ELSE raw) = m.temp
  BY <1>1, <1>2
<1> HIDE DEF raw
<1>5. n = (Word * m.rh) + raw /\ n \in Nat
  <2>1. m.rh * Word = Word * m.rh /\ Word * m.rh \in Nat
    BY <1>1, <1>3
  <2> QED
    BY <1>3, <2>1
<1>6. n \div Word = m.rh /\ n % Word = raw
  <2>1. m.rh \in Int /\ n \in Int
    BY <1>3, <1>5
  <2> HIDE DEF n
  <2> QED
    BY <1>1, <1>3, <1>5, <2>1, DivUnique
<1>7. n <= (Word * Word) - 1 /\ Word * Word \in Nat
  <2>1. Word * m.rh <= Word * (Word - 1) /\ Word * (Word - 1) \in Nat
    <3>1. Word - 1 \in Nat
      BY <1>1
    <3> QED
      BY <1>1, <1>3, <3>1, FactorNat
  <2>2. Word * (Word - 1) = (Word * Word) - Word /\ Word * Word \in Nat
    BY <1>1
  <2> DEFINE u == Word * m.rh
             v == Word * Word
  <2>3. u <= v - Word /\ v \in Nat /\ u \in Nat /\ n = u + raw
    BY <1>1, <1>3, <1>5, <2>1, <2>2
  <2> HIDE DEF u, v
  <2>4. n <= v - 1
    BY <1>1, <1>3, <2>3
  <2> QED
    BY <2>3, <2>4 DEF v
<1>8. f = (n * W) + Checksum(n * W)
  BY DEF Frame, raw, H, W
<1> HIDE DEF n, f
<1>9. n * W = W * n
  BY <1>1, <1>5
<1>10. f \in Nat /\ f \div W = n /\ Byte(f, 0) = Checksum(f)
  BY <1>5, <1>8, <1>9, Encoded DEF W
<1>11. f <= 2 ^ DataBits - 1
  <2>1. f = (W * n) + (f % W) /\ f % W \in 0 .. W - 1
    BY <1>1, <1>10, DivModNat
  <2> DEFINE v == Word * Word
  <2>2. n <= v - 1 /\ v \in Nat /\ 2 ^ DataBits = v * W /\ v - 1 \in Nat
    BY <1>1, <1>5, <1>7
  <2> HIDE DEF v
  <2>3. W * n <= W * (v - 1) /\ W * (v - 1) = (v * W) - W /\ W * n \in Nat
        /\ v * W \in Nat
    <3>1. W * n <= W * (v - 1) /\ W * n \in Nat
      BY <1>1, <1>5, <2>2, FactorNat
    <3>2. W * (v - 1) = (v * W) - W /\ v * W \in Nat
      BY <1>1, <2>2
    <3> QED
      BY <3>1, <3>2
  <2> DEFINE a == W * n
             b == v * W
  <2>4. f = a + (f % W) /\ a <= b - W /\ b = 2 ^ DataBits /\ a \in Nat /\ b \in Nat
    BY <2>1, <2>2, <2>3
  <2> HIDE DEF a, b
  <2>5. f <= b - 1
    BY <1>1, <1>10, <2>1, <2>4
  <2> QED
    BY <2>4, <2>5
<1>12. Raw(f) = raw
  BY <1>6, <1>10 DEF Raw, W
<1>13. Temp(f) = m.temp
  BY <1>4, <1>12 DEF Temp, H
<1>14. Rh(f) = m.rh
  <2>1. (f \div W) \div Word = f \div (W * Word)
    BY <1>1, <1>10, DivDiv
  <2>2. m.rh % Word = m.rh
    <3> DEFINE h == m.rh
    <3>1. h = (Word * 0) + h /\ h \in 0 .. Word - 1 /\ h \in Int /\ 0 \in Int
      BY <1>1, <1>3
    <3> HIDE DEF h
    <3>2. h % Word = h
      BY <1>1, <3>1, DivUnique
    <3> QED
      BY <3>2 DEF h
  <2> QED
    BY <1>1, <1>2, <1>6, <1>10, <2>1, <2>2 DEF Rh, Signed, W, H
<1>15. f \in 0 .. 2 ^ DataBits - 1
  <2>1. 2 ^ DataBits \in Int
    BY Powers
  <2> QED
    BY <1>10, <1>11, <2>1
<1> QED
  BY <1>10, <1>13, <1>14, <1>15 DEF f

-----------------------------------------------------------------------------
(* What the interrupt has shifted into ReadData.                             *)

(* The first k bits of a frame, and what one of them set by the wrap of the  *)
(* counter makes of them.                                                    *)
Top(f, k) == f \div 2 ^ (DataBits - k)
OneSet(k, n, r) == \E j \in 0 .. k - 1 : (n \div 2 ^ j) % 2 = 0 /\ r = n + 2 ^ j
NthBit(f, k) == (f \div 2 ^ (DataBits - k)) % 2

LEMMA TopNat ==
  ASSUME NEW f \in 0 .. 2 ^ DataBits - 1, NEW k \in 0 .. DataBits
  PROVE  Top(f, k) \in 0 .. 2 ^ k - 1 /\ f \in Nat
<1> DEFINE c == DataBits - k
           b == 2 ^ c
           u == 2 ^ k
           t == f \div b
<1>1. c \in Nat /\ k \in Nat /\ DataBits = c + k /\ DataBits \in Nat
  BY Sizes
<1> HIDE DEF c
<1>2. b \in Nat \ {0} /\ u \in Nat \ {0} /\ 2 ^ DataBits = b * u
  BY <1>1, Power, PowerSum
<1>3. f \in Nat /\ f <= (b * u) - 1 /\ b * u \in Nat
  BY <1>2
<1> HIDE DEF b, u
<1>4. t \in Nat /\ f = (b * t) + (f % b) /\ f % b \in 0 .. b - 1
  BY <1>2, <1>3, DivModNat
<1> HIDE DEF t
<1>5. b * t < b * ((u - 1) + 1) /\ u - 1 \in Int
  <2>1. b * ((u - 1) + 1) = b * u /\ b * t \in Nat
    BY <1>2, <1>4
  <2> QED
    BY <1>2, <1>3, <1>4, <2>1
<1>6. t <= u - 1
  BY <1>2, <1>4, <1>5, LessFactor
<1> QED
  BY <1>2, <1>3, <1>4, <1>6 DEF Top, t, u, b, c

LEMMA TopEnds ==
  ASSUME NEW f \in 0 .. 2 ^ DataBits - 1
  PROVE  Top(f, 0) = 0 /\ Top(f, DataBits) = f
<1>1. DataBits \in Nat /\ DataBits - 0 = DataBits /\ DataBits - DataBits = 0
  BY Sizes
<1>2. Top(f, 0) = 0
  BY <1>1, Powers, SmallMod DEF Top
<1>3. f \div 1 = f
  BY Powers
<1>4. Top(f, DataBits) = f
  BY <1>1, <1>3, PowerOne DEF Top
<1> QED
  BY <1>2, <1>4

LEMMA TopNext ==
  ASSUME NEW f \in 0 .. 2 ^ DataBits - 1, NEW k \in 0 .. DataBits - 1
  PROVE  /\ NthBit(f, k + 1) \in 0 .. 1
         /\ Top(f, k + 1) = 2 * Top(f, k) + NthBit(f, k + 1)
         /\ Top(f, k + 1) \div 2 = Top(f, k)
<1> DEFINE t == Top(f, k + 1)
           c == DataBits - (k + 1)
<1>1. c \in Nat /\ DataBits - k = c + 1 /\ DataBits \in Nat /\ k + 1 \in 0 .. DataBits
  BY Sizes
<1>2. t \in Nat /\ f \in Nat
  <2>1. t \in 0 .. 2 ^ (k + 1) - 1 /\ f \in Nat
    BY <1>1, TopNat
  <2>2. k + 1 \in Nat
    BY <1>1
  <2>3. 2 ^ (k + 1) \in Nat
    BY <2>2, Power
  <2> HIDE DEF t
  <2> QED
    BY <2>1, <2>3
<1>3. t = f \div 2 ^ c
  BY DEF Top
<1> HIDE DEF t, c
<1>4. 2 ^ 1 = 2
  BY PowerOne, PowerSucc
<1>5. (f \div 2 ^ c) \div 2 ^ 1 = f \div 2 ^ (c + 1)
  <2>1. 1 \in Nat
    OBVIOUS
  <2> QED
    BY <1>1, <1>2, <2>1, DivPower
<1>6. t \div 2 = Top(f, k)
  BY <1>1, <1>3, <1>4, <1>5 DEF Top
<1>7. t = (2 * (t \div 2)) + (t % 2) /\ t % 2 \in 0 .. 1
  BY <1>2
<1>8. NthBit(f, k + 1) = t % 2
  BY DEF NthBit, Top, t
<1> QED
  BY <1>6, <1>7, <1>8 DEF t

(* Shifting a bit in does not leave ReadData's width.                        *)
LEMMA ShiftFits ==
  ASSUME NEW f \in 0 .. 2 ^ DataBits - 1, NEW k \in 0 .. DataBits - 1,
         NEW r, r = Top(f, k) \/ OneSet(k, Top(f, k), r), NEW b \in 0 .. 1
  PROVE  /\ r \in Nat
         /\ (2 * r + b) % 2 ^ (DataBits + 1) = 2 * r + b
<1> DEFINE t == Top(f, k)
           u == 2 ^ k
           w == 2 ^ DataBits
<1>1. k \in Nat /\ k + 1 \in Nat /\ DataBits \in Nat /\ k + 1 <= DataBits
      /\ k \in 0 .. DataBits
  BY Sizes
<1>2. u \in Nat \ {0} /\ w \in Nat \ {0} /\ 2 * u <= w /\ 2 ^ (DataBits + 1) = 2 * w
  <2>1. 2 ^ (k + 1) = 2 * u /\ 2 ^ (k + 1) <= w
    BY <1>1, PowerSucc, PowerMonotone
  <2> QED
    BY <1>1, <2>1, Power, Powers
<1>3. t \in 0 .. u - 1
  BY <1>1, TopNat
<1>4. r \in Nat /\ r <= (2 * u) - 1
  <2>1. CASE r = t
    <3> HIDE DEF t, u
    <3> QED
      BY <1>2, <1>3, <2>1
  <2>2. CASE OneSet(k, t, r)
    <3>1. PICK j \in 0 .. k - 1 : r = t + 2 ^ j
      BY <2>2 DEF OneSet
    <3>2. 2 ^ j \in Nat /\ 2 ^ j <= u
      <4>1. j \in Nat /\ j <= k
        BY <1>1
      <4> QED
        BY <1>1, <4>1, Power, PowerMonotone
    <3> HIDE DEF t, u
    <3> QED
      BY <1>2, <1>3, <3>1, <3>2
  <2> QED
    BY <2>1, <2>2
<1> HIDE DEF t, u, w
<1> DEFINE v == 2 * r + b
           d == 2 * w
<1>5. v \in 0 .. d - 1 /\ d \in Nat \ {0}
  BY <1>2, <1>4
<1> HIDE DEF v, d
<1>6. v % d = v
  BY <1>5, SmallMod
<1> QED
  BY <1>2, <1>4, <1>6 DEF v, d

LEMMA OneSetNext ==
  ASSUME NEW f \in 0 .. 2 ^ DataBits - 1, NEW k \in 0 .. DataBits - 1,
         NEW r, OneSet(k, Top(f, k), r)
  PROVE  OneSet(k + 1, Top(f, k + 1), 2 * r + NthBit(f, k + 1))
<1> DEFINE t == Top(f, k)
           s == Top(f, k + 1)
           b == NthBit(f, k + 1)
<1>1. b \in 0 .. 1 /\ s = 2 * t + b /\ s \div 2 = t
  BY TopNext
<1>2. k \in Nat /\ k \in 0 .. DataBits
  BY Sizes
<1>3. t \in Nat
  <2>1. 2 ^ k \in Nat /\ t \in 0 .. 2 ^ k - 1
    BY <1>2, TopNat, Power
  <2> HIDE DEF t
  <2> QED
    BY <2>1
<1>4. PICK j \in 0 .. k - 1 : (t \div 2 ^ j) % 2 = 0 /\ r = t + 2 ^ j
  BY DEF OneSet
<1>5. j \in Nat /\ 2 ^ j \in Nat /\ 2 ^ (j + 1) = 2 * 2 ^ j /\ j + 1 = 1 + j
  <2>1. j \in Nat
    BY <1>2
  <2> QED
    BY <2>1, Power, PowerSucc
<1>6. 2 ^ 1 = 2 /\ 1 \in Nat
  BY PowerOne, PowerSucc
<1> HIDE DEF t, s, b
<1>7. s \in Nat
  BY <1>1, <1>3
<1>8. (s \div 2 ^ 1) \div 2 ^ j = s \div 2 ^ (1 + j)
  BY <1>5, <1>6, <1>7, DivPower
<1>9. (s \div 2 ^ (j + 1)) % 2 = 0
  BY <1>1, <1>4, <1>5, <1>6, <1>8
<1>10. 2 * r + b = s + 2 ^ (j + 1)
  <2> DEFINE x == 2 ^ j
  <2>1. x \in Nat /\ 2 ^ (j + 1) = 2 * x /\ r = t + x
    BY <1>4, <1>5
  <2> HIDE DEF x
  <2> QED
    BY <1>1, <1>3, <2>1
<1>11. j + 1 \in 0 .. (k + 1) - 1
  BY <1>2
<1> QED
  BY <1>9, <1>10, <1>11 DEF OneSet, s, b

(* A long interval where the sensor sends a short one sets the last bit.     *)
LEMMA OneSetLast ==
  ASSUME NEW f \in 0 .. 2 ^ DataBits - 1, NEW k \in 0 .. DataBits - 1
  PROVE  \/ 2 * Top(f, k) + 1 = Top(f, k + 1)
         \/ OneSet(k + 1, Top(f, k + 1), 2 * Top(f, k) + 1)
<1> DEFINE t == Top(f, k)
           s == Top(f, k + 1)
           b == NthBit(f, k + 1)
<1>1. b \in 0 .. 1 /\ s = 2 * t + b
  BY TopNext
<1>2. k \in Nat /\ k \in 0 .. DataBits
  BY Sizes
<1>3. t \in Nat
  <2>1. 2 ^ k \in Nat /\ t \in 0 .. 2 ^ k - 1
    BY <1>2, TopNat, Power
  <2> HIDE DEF t
  <2> QED
    BY <2>1
<1> HIDE DEF t, s, b
<1>4. CASE b = 1
  BY <1>1, <1>4 DEF t, s
<1>5. CASE b = 0
  <2>1. s = 2 * t /\ s \div 1 = s /\ s % 2 = 0
    BY <1>1, <1>3, <1>5
  <2>2. 0 \in 0 .. (k + 1) - 1
    BY <1>2
  <2>3. (s \div 2 ^ 0) % 2 = 0 /\ 2 * t + 1 = s + 2 ^ 0
    BY <2>1, PowerOne
  <2>4. OneSet(k + 1, s, 2 * t + 1)
    BY <2>2, <2>3 DEF OneSet
  <2> QED
    BY <2>4 DEF t, s
<1> QED
  BY <1>1, <1>4, <1>5

-----------------------------------------------------------------------------
(* The inductive invariant of a read.                                        *)

InRead == dht.pc \in {"wait", "check", "rh", "temp", "after"}
Full   == DataBits + 2

(* What each stage of dht2x_read has set.  Nothing stops the interrupt, so   *)
(* PulseCnt is the length of a frame or more once the read goes on.          *)
Phases ==
  /\ dht.pc \in {"idle", "start"} =>
       sensor = Silent /\ ~skew /\ aligned /\ ~wrapped /\ ~overrun
  /\ dht.pc = "start" => PulseCnt = 0 /\ ReadData = 0 /\ DhtReadDone = 0
  /\ InRead => PulseCnt <= sensor.next + 1
  /\ InRead /\ DhtReadDone = 1 => PulseCnt >= Full
  /\ dht.pc \in {"check", "rh", "temp"} => PulseCnt >= Full
  /\ dht.pc # "after" => dht.ret = "none"
  /\ overrun => Trailing > 0

SentFrame ==
  /\ sensor.answers => \E m \in Readings : sensor.frame = Frame(m)
  /\ ~ sensor.answers => sensor = Silent

(* While only the first edge was missed, the number of edges is the number   *)
(* the sensor has made, and up to the end of the frame the data is what it   *)
(* has sent, but for one bit the wrap of the counter may have set.           *)
Skewed ==
  /\ skew /\ aligned => sensor.next >= 1
  /\ skew /\ aligned /\ sensor.next # 1 => wrapped

Sent == Top(sensor.frame, sensor.next - 2)

Heard ==
  /\ InRead /\ aligned /\ sensor.next <= 1 => PulseCnt = 0 /\ ReadData = 0
  /\ InRead /\ aligned /\ sensor.next > 1 => PulseCnt = sensor.next
  /\ InRead /\ aligned /\ sensor.next > 1 /\ sensor.next <= Full =>
       \/ ReadData = Sent
       \/ wrapped /\ ~skew /\ OneSet(sensor.next - 2, Sent, ReadData)

(* Unless edges have followed the frame, the data whose checksum was right   *)
(* is still there when the values are taken from it.                         *)
Values ==
  /\ dht.pc \in {"rh", "temp"} /\ aligned /\ sensor.next <= Full => Valid(ReadData)
  /\ dht.pc = "temp" /\ aligned /\ sensor.next <= Full => dht.rh = Rh(ReadData)

Results == TrueReading /\ NoFalseAlarm

ReadInv == DhtTypeOK /\ Phases /\ SentFrame /\ Skewed /\ Heard /\ Values /\ Results

(* The types of the reading, and what ReadData can be read as.               *)
RhType   == -(Word \div 2) .. Word \div 2 - 1
TempType == 1 - Word \div 2 .. Word \div 2 - 1

LEMMA ReadAs ==
  ASSUME NEW n \in Nat PROVE Rh(n) \in RhType /\ Temp(n) \in TempType
<1> DEFINE H == Word \div 2
           W == 2 ^ Width
           r == (n \div (W * Word)) % Word
           t == (n \div W) % Word
<1>1. H \in Nat \ {0} /\ Word = 2 * H /\ W \in Nat \ {0}
  BY Powers
<1> HIDE DEF H, W
<1>2. r \in 0 .. Word - 1
  <2>1. W * Word \in Nat \ {0}
    BY <1>1
  <2>2. n \div (W * Word) \in Nat
    BY <2>1, DivModNat
  <2> QED
    BY <1>1, <2>2, DivModNat
<1>3. t \in 0 .. Word - 1
  <2>1. n \div W \in Nat
    BY <1>1, DivModNat
  <2> QED
    BY <1>1, <2>1, DivModNat
<1>4. Rh(n) = IF r >= H THEN r - Word ELSE r
  BY DEF Rh, Signed, H, W
<1>5. Temp(n) = IF t >= H THEN H - t ELSE t
  BY DEF Temp, Raw, H, W
<1> HIDE DEF r, t
<1> QED
  BY <1>1, <1>2, <1>3, <1>4, <1>5 DEF RhType, TempType, H

DhtType == [pc : {"idle", "start", "wait", "check", "rh", "temp", "after"},
            ret : {"none", "ok", "EIO", "ENOTSUP"}, rh : RhType, temp : TempType]

LEMMA IdleType == Idle \in DhtType
<1>1. 0 \in RhType /\ 0 \in TempType
  BY Powers DEF RhType, TempType
<1> QED
  BY <1>1 DEF Idle, DhtType

SensorType == [frame : 0 .. 2 ^ DataBits - 1, next : 0 .. Last + 1, answers : BOOLEAN]

(* DhtTypeOK in the names of its parts, so that a step shows what it changes.*)
LEMMA DhtTypeParts ==
  DhtTypeOK <=>
    /\ dht \in DhtType /\ PulseCnt \in 0 .. Last + 2
    /\ ReadData \in 0 .. 2 ^ (DataBits + 1) - 1 /\ DhtReadDone \in 0 .. 1
    /\ sensor \in SensorType
    /\ skew \in BOOLEAN /\ aligned \in BOOLEAN /\ wrapped \in BOOLEAN
    /\ overrun \in BOOLEAN
BY DEF DhtTypeOK, DhtType, SensorType, RhType, TempType

LEMMA DhtTypes ==
  ASSUME DhtTypeOK
  PROVE  /\ PulseCnt \in Nat /\ Full \in Nat /\ DataBits \in Nat /\ Full >= 5
         /\ ReadData \in Nat /\ DhtReadDone \in 0 .. 1
         /\ sensor.frame \in 0 .. 2 ^ DataBits - 1 /\ sensor.next \in Nat
         /\ Last \in Nat /\ sensor.next <= Last + 1 /\ Last >= DataBits + 1
<1>1. 2 ^ (DataBits + 1) \in Nat \ {0} /\ DataBits \in Nat /\ DataBits >= 3 /\ Trailing \in Nat
  <2>1. DataBits \in Nat /\ DataBits + 1 \in Nat
    BY Sizes
  <2> QED
    BY <2>1, Sizes, Power
<1>2. Last \in Nat /\ Last >= DataBits + 1 /\ Full \in Nat /\ Full >= 5
  BY <1>1 DEF Last, Full
<1>3. ReadData \in Nat /\ PulseCnt \in Nat
  BY <1>1, <1>2 DEF DhtTypeOK
<1>4. sensor.frame \in 0 .. 2 ^ DataBits - 1 /\ sensor.next \in 0 .. Last + 1
  BY DhtTypeParts DEF SensorType
<1> QED
  BY <1>1, <1>2, <1>3, <1>4 DEF DhtTypeOK

LEMMA SilentType == Silent \in SensorType
<1>1. 0 \in 0 .. 2 ^ DataBits - 1
  BY Powers
<1>2. 0 \in 0 .. Last + 1
  BY Sizes DEF Last
<1> QED
  BY <1>1, <1>2 DEF Silent, SensorType

LEMMA NothingRead == 0 \in 0 .. Last + 2 /\ 0 \in 0 .. 2 ^ (DataBits + 1) - 1
<1>1. 2 ^ (DataBits + 1) \in Nat \ {0}
  BY Powers
<1> QED
  BY <1>1, Sizes DEF Last

LEMMA DhtInitInv == DhtInit => ReadInv
<1> SUFFICES ASSUME DhtInit PROVE ReadInv
  OBVIOUS
<1>1. /\ dht = Idle /\ PulseCnt = 0 /\ ReadData = 0 /\ DhtReadDone = 0
      /\ sensor = Silent /\ skew = FALSE /\ aligned = TRUE
      /\ wrapped = FALSE /\ overrun = FALSE
  BY DEF DhtInit
<1>2. DhtTypeOK
  <2>1. /\ skew \in BOOLEAN /\ aligned \in BOOLEAN /\ wrapped \in BOOLEAN
        /\ overrun \in BOOLEAN
    BY <1>1
  <2> QED
    BY <1>1, <2>1, IdleType, SilentType, NothingRead, DhtTypeParts
<1>3. Phases /\ SentFrame /\ Skewed /\ Heard /\ Values /\ Results
  BY <1>1 DEF Phases, SentFrame, Skewed, Heard, Values, Results, TrueReading,
              NoFalseAlarm, InRead, Idle, Silent
<1> QED
  BY <1>2, <1>3 DEF ReadInv

LEMMA DhtResetInv == DhtReset => ReadInv'
<1> SUFFICES ASSUME DhtReset PROVE ReadInv'
  OBVIOUS
<1>1. /\ dht' = Idle /\ PulseCnt' = 0 /\ ReadData' = 0 /\ DhtReadDone' = 0
      /\ sensor' = Silent /\ skew' = FALSE /\ aligned' = TRUE
      /\ wrapped' = FALSE /\ overrun' = FALSE
  BY DEF DhtReset
<1>2. DhtTypeOK'
  <2>1. /\ dht' \in DhtType /\ PulseCnt' \in 0 .. Last + 2
        /\ ReadData' \in 0 .. 2 ^ (DataBits + 1) - 1 /\ DhtReadDone' \in 0 .. 1
        /\ sensor' \in SensorType
    BY <1>1, IdleType, SilentType, NothingRead
  <2>2. /\ skew' \in BOOLEAN /\ aligned' \in BOOLEAN /\ wrapped' \in BOOLEAN
        /\ overrun' \in BOOLEAN
    BY <1>1
  <2> QED
    BY <2>1, <2>2 DEF DhtTypeOK, DhtType, SensorType, RhType, TempType
<1>3. Phases' /\ SentFrame' /\ Skewed' /\ Heard' /\ Values' /\ Results'
  BY <1>1 DEF Phases, SentFrame, Skewed, Heard, Values, Results, TrueReading,
              NoFalseAlarm, InRead, Idle, Silent
<1> QED
  BY <1>2, <1>3 DEF ReadInv

LEMMA DhtSame == ReadInv /\ UNCHANGED dhtVars => ReadInv'
<1> SUFFICES ASSUME ReadInv, UNCHANGED dhtVars PROVE ReadInv'
  OBVIOUS
<1>1. /\ dht' = dht /\ PulseCnt' = PulseCnt /\ ReadData' = ReadData
      /\ DhtReadDone' = DhtReadDone /\ sensor' = sensor /\ skew' = skew
      /\ aligned' = aligned /\ wrapped' = wrapped /\ overrun' = overrun
  BY DEF dhtVars, code, line
<1>2. DhtTypeOK' = DhtTypeOK /\ Phases' = Phases /\ SentFrame' = SentFrame
      /\ Skewed' = Skewed /\ Heard' = Heard
  BY <1>1 DEF DhtTypeOK, Phases, SentFrame, Skewed, Heard, InRead, Sent
<1>3. Values' = Values /\ Results' = Results
  BY <1>1 DEF Values, Results, TrueReading, NoFalseAlarm
<1> QED
  BY <1>2, <1>3 DEF ReadInv

(* The steps of dht2x_read itself.                                           *)
LEMMA ReadBeginInv == ReadInv /\ ReadBegin => ReadInv'
<1> SUFFICES ASSUME ReadInv, ReadBegin PROVE ReadInv'
  OBVIOUS
<1>1. /\ dht = Idle /\ dht' = [dht EXCEPT !.pc = "start"]
      /\ PulseCnt' = 0 /\ ReadData' = 0 /\ DhtReadDone' = 0
      /\ sensor' = sensor /\ skew' = skew /\ aligned' = aligned
      /\ wrapped' = wrapped /\ overrun' = overrun
  BY DEF ReadBegin, line
<1>2. dht' = [pc |-> "start", ret |-> "none", rh |-> 0, temp |-> 0]
  BY <1>1 DEF Idle
<1>3. DhtTypeOK'
  <2>1. dht' \in DhtType
    BY <1>1, IdleType DEF DhtType
  <2> QED
    BY <1>1, <2>1, NothingRead
    DEF ReadInv, DhtTypeOK, DhtType, RhType, TempType
<1>4. Phases' /\ SentFrame' /\ Skewed' /\ Heard' /\ Values' /\ Results'
  BY <1>1, <1>2 DEF ReadInv, Phases, SentFrame, Skewed, Heard, Values, Results,
                    TrueReading, NoFalseAlarm, InRead, Idle
<1> QED
  BY <1>3, <1>4 DEF ReadInv

LEMMA ReleaseInv == ReadInv /\ Release => ReadInv'
<1> SUFFICES ASSUME ReadInv, Release PROVE ReadInv'
  OBVIOUS
<1>1. /\ dht.pc = "start" /\ dht' = [dht EXCEPT !.pc = "wait"]
      /\ PulseCnt' = PulseCnt /\ ReadData' = ReadData /\ DhtReadDone' = DhtReadDone
      /\ skew' = skew /\ aligned' = aligned /\ wrapped' = wrapped /\ overrun' = overrun
  BY DEF Release
<1>2. sensor' \in SensorType /\ sensor'.next = 0 /\ SentFrame'
  <2>1. CASE sensor' = Silent
    BY <2>1, SilentType DEF SentFrame, Silent
  <2>2. CASE sensor' # Silent
    <3>1. PICK m \in Readings : sensor' = [frame |-> Frame(m), next |-> 0, answers |-> TRUE]
      BY <2>2 DEF Release
    <3>2. Frame(m) \in 0 .. 2 ^ DataBits - 1 /\ 0 \in 0 .. Last + 1
      BY FrameRead, Sizes DEF Last
    <3> QED
      BY <3>1, <3>2 DEF SentFrame, SensorType
  <2> QED
    BY <2>1, <2>2
<1>3. DhtTypeOK /\ dht' \in DhtType /\ dht'.pc = "wait" /\ dht'.ret = "none"
  BY <1>1, DhtTypeParts DEF ReadInv, DhtType, Phases
<1>4. DhtTypeOK'
  BY <1>1, <1>2, <1>3 DEF DhtTypeOK, DhtType, SensorType, RhType, TempType
<1>5. Full >= 5
  BY Sizes DEF Full
<1>6. Phases' /\ Skewed' /\ Heard' /\ Values' /\ Results'
  BY <1>1, <1>2, <1>3, <1>5 DEF ReadInv, Phases, Skewed, Heard, Values, Results,
                                TrueReading, NoFalseAlarm, InRead
<1> QED
  BY <1>2, <1>4, <1>6 DEF ReadInv

(* What is in ReadData when a read whose first edge at most was missed goes  *)
(* on before any edge has followed the frame.                                *)
LEMMA AllHeard ==
  ASSUME ReadInv, aligned, dht.pc \in {"check", "rh", "temp"}, sensor.next <= Full
  PROVE  /\ \E m \in Readings : sensor.frame = Frame(m)
         /\ \/ ReadData = sensor.frame
            \/ wrapped /\ OneSet(DataBits, sensor.frame, ReadData)
<1>1. /\ Full = DataBits + 2 /\ DataBits \in Nat /\ DataBits >= 3 /\ sensor.next \in Nat
      /\ sensor.frame \in 0 .. 2 ^ DataBits - 1 /\ PulseCnt \in Nat
  BY DhtTypes, Sizes DEF ReadInv, Full
<1>2. InRead /\ PulseCnt >= Full
  BY DEF ReadInv, Phases, InRead
<1>3. sensor.next > 1 /\ PulseCnt = sensor.next
      /\ (ReadData = Sent \/ (wrapped /\ OneSet(sensor.next - 2, Sent, ReadData)))
  BY <1>1, <1>2 DEF ReadInv, Heard
<1>4. sensor.next - 2 = DataBits
  BY <1>1, <1>2, <1>3
<1>5. Sent = sensor.frame
  BY <1>1, <1>4, TopEnds DEF Sent
<1>6. sensor.answers
  BY <1>3 DEF ReadInv, SentFrame, Silent
<1> QED
  BY <1>3, <1>4, <1>5, <1>6 DEF ReadInv, SentFrame

(* Data whose checksum is right is the frame: a bit the wrap of the counter  *)
(* has set is always detected.                                               *)
LEMMA FrameHeard ==
  ASSUME ReadInv, aligned, dht.pc \in {"rh", "temp"}, sensor.next <= Full
  PROVE  \E m \in Readings : /\ sensor.frame = Frame(m)
                             /\ Rh(ReadData) = m.rh /\ Temp(ReadData) = m.temp
<1>1. PICK m \in Readings : sensor.frame = Frame(m)
  BY AllHeard
<1>2. /\ sensor.frame \in Nat /\ Byte(sensor.frame, 0) = Checksum(sensor.frame)
      /\ Rh(sensor.frame) = m.rh /\ Temp(sensor.frame) = m.temp
  <2>1. 2 ^ DataBits \in Nat
    BY Powers
  <2> QED
    BY <1>1, <2>1, FrameRead
<1>3. ~ OneSet(DataBits, sensor.frame, ReadData)
  <2> SUFFICES ASSUME OneSet(DataBits, sensor.frame, ReadData) PROVE FALSE
    OBVIOUS
  <2>1. PICK j \in 0 .. DataBits - 1 :
          (sensor.frame \div 2 ^ j) % 2 = 0 /\ ReadData = sensor.frame + 2 ^ j
    BY DEF OneSet
  <2>2. ~ Valid(sensor.frame + 2 ^ j)
    BY <1>2, <2>1, Detected
  <2> QED
    BY <2>1, <2>2 DEF ReadInv, Values
<1>4. ReadData = sensor.frame
  BY <1>3, AllHeard
<1> QED
  BY <1>1, <1>2, <1>4

LEMMA TakeInv == ReadInv /\ (Take \/ Timeout) => ReadInv'
<1> SUFFICES ASSUME ReadInv, Take \/ Timeout PROVE ReadInv'
  OBVIOUS
<1>1. /\ PulseCnt' = PulseCnt /\ ReadData' = ReadData /\ sensor' = sensor
      /\ skew' = skew /\ aligned' = aligned /\ wrapped' = wrapped /\ overrun' = overrun
      /\ DhtReadDone' \in {0, DhtReadDone}
  BY DEF Take, Timeout, line
<1>2. /\ dht' \in DhtType /\ dht.pc = "wait"
      /\ \/ dht'.pc = "check" /\ dht'.ret = "none" /\ DhtReadDone = 1
         \/ dht'.pc = "after" /\ dht'.ret = "EIO"
  <2>1. dht \in DhtType /\ Phases
    BY DhtTypeParts DEF ReadInv
  <2>2. CASE Take
    BY <2>1, <2>2 DEF Take, DhtType, Phases
  <2>3. CASE Timeout
    BY <2>1, <2>3 DEF Timeout, DhtType
  <2> QED
    BY <2>2, <2>3
<1>3. DhtTypeOK'
  BY <1>1, <1>2 DEF ReadInv, DhtTypeOK, DhtType, RhType, TempType
<1>4. Phases'
  BY <1>1, <1>2 DEF ReadInv, Phases, InRead
<1>5. SentFrame' /\ Skewed'
  BY <1>1 DEF ReadInv, SentFrame, Skewed
<1>6. Heard'
  BY <1>1, <1>2 DEF ReadInv, Heard, InRead, Sent
<1>7. Values' /\ Results'
  BY <1>2 DEF Values, Results, TrueReading, NoFalseAlarm
<1> QED
  BY <1>3, <1>4, <1>5, <1>6, <1>7 DEF ReadInv

(* The tests and the values, which leave the line and what was heard of it.  *)
LEMMA TakenInv ==
  ASSUME ReadInv, Check \/ StoreRh \/ StoreTemp, dht' \in DhtType,
         dht'.pc \in {"rh", "temp", "after"}, dht'.pc # "after" => dht'.ret = "none",
         Values', Results'
  PROVE  ReadInv'
<1>1. /\ PulseCnt' = PulseCnt /\ ReadData' = ReadData /\ DhtReadDone' = DhtReadDone
      /\ sensor' = sensor /\ skew' = skew /\ aligned' = aligned /\ wrapped' = wrapped
      /\ dht.pc \in {"check", "rh", "temp"}
  BY DEF Check, StoreRh, StoreTemp, line
<1>2. overrun' \in BOOLEAN /\ (overrun' => overrun \/ sensor.next > Full)
  <2>1. overrun \in BOOLEAN
    BY DEF ReadInv, DhtTypeOK
  <2>2. overrun' = overrun \/ Overrun
    BY DEF Check, StoreRh, StoreTemp, line
  <2>3. CASE overrun' = overrun
    BY <2>1, <2>3
  <2>4. CASE Overrun
    <3>1. overrun' <=> sensor.next > Full
      BY <2>4 DEF Overrun, Full
    <3>2. overrun' \in BOOLEAN
      <4>1. CASE sensor.next > Full
        BY <2>4, <4>1 DEF Overrun, Full
      <4>2. CASE ~ (sensor.next > Full)
        BY <2>4, <4>2 DEF Overrun, Full
      <4> QED
        BY <4>1, <4>2
    <3> QED
      BY <3>1, <3>2
  <2> QED
    BY <2>2, <2>3, <2>4
<1>3. DhtTypeOK'
  BY <1>1, <1>2 DEF ReadInv, DhtTypeOK, DhtType, RhType, TempType
<1>4. Phases'
  <2>1. overrun' => Trailing > 0
    <3>1. sensor.next <= Last + 1 /\ sensor.next \in Nat
      BY DhtTypes DEF ReadInv
    <3> QED
      BY <1>2, <3>1, Sizes DEF ReadInv, Phases, Last, Full
  <2> QED
    BY <1>1, <2>1 DEF ReadInv, Phases, InRead
<1>5. SentFrame' /\ Skewed' /\ Heard'
  BY <1>1 DEF ReadInv, SentFrame, Skewed, Heard, InRead, Sent
<1> QED
  BY <1>3, <1>4, <1>5 DEF ReadInv

LEMMA CheckInv == ReadInv /\ Check => ReadInv'
<1> SUFFICES ASSUME ReadInv, Check PROVE ReadInv'
  OBVIOUS
<1>1. /\ dht.pc = "check" /\ dht.ret = "none" /\ dht \in DhtType
      /\ ReadData' = ReadData /\ sensor' = sensor /\ aligned' = aligned
      /\ wrapped' = wrapped
  BY DhtTypeParts DEF ReadInv, Phases, Check
<1>2. CASE Valid(ReadData) /\ dht' = [dht EXCEPT !.pc = "rh"]
  <2>1. dht' \in DhtType /\ dht'.pc = "rh" /\ dht'.ret = "none"
    BY <1>1, <1>2 DEF DhtType
  <2>2. Values' /\ Results'
    BY <1>1, <1>2, <2>1 DEF Values, Results, TrueReading, NoFalseAlarm
  <2> QED
    BY <2>1, <2>2, TakenInv
<1>3. CASE /\ ~ Valid(ReadData) /\ Overrun
           /\ dht' = [dht EXCEPT !.pc = "after", !.ret = "ENOTSUP"]
  <2>1. dht' \in DhtType /\ dht'.pc = "after" /\ dht'.ret = "ENOTSUP"
    BY <1>1, <1>3 DEF DhtType
  <2>2. Values' /\ TrueReading'
    BY <2>1 DEF Values, TrueReading
  <2>3. ASSUME aligned, ~ wrapped, ~ overrun' PROVE Byte(sensor.frame, 0) = 0
    <3>1. sensor.next <= Full
      <4>1. ~ (sensor.next > Full)
        BY Zenon, <1>3, <2>3 DEF Overrun, Full
      <4>2. sensor.next \in Nat /\ Full \in Nat
        BY DhtTypes DEF ReadInv
      <4> QED
        BY <4>1, <4>2
    <3>2. PICK m \in Readings : sensor.frame = Frame(m)
      BY <1>1, <2>3, <3>1, AllHeard
    <3>3. Byte(sensor.frame, 0) = Checksum(sensor.frame)
      BY <3>2, FrameRead
    <3>4. ReadData = sensor.frame
      BY <1>1, <2>3, <3>1, AllHeard
    <3> QED
      BY <1>3, <3>3, <3>4 DEF Valid
  <2>4. NoFalseAlarm'
    BY <1>1, <2>3 DEF NoFalseAlarm, Byte
  <2> QED
    BY <2>1, <2>2, <2>4, TakenInv DEF Results
<1> QED
  BY <1>2, <1>3 DEF Check

LEMMA StoreInv == ReadInv /\ (StoreRh \/ StoreTemp) => ReadInv'
<1> SUFFICES ASSUME ReadInv, StoreRh \/ StoreTemp PROVE ReadInv'
  OBVIOUS
<1>1. /\ dht.ret = "none" /\ dht \in DhtType /\ ReadData \in Nat
      /\ ReadData' = ReadData /\ sensor' = sensor /\ aligned' = aligned
      /\ wrapped' = wrapped
  BY DhtTypeParts, DhtTypes DEF ReadInv, Phases, StoreRh, StoreTemp, line
<1>2. Rh(ReadData) \in RhType /\ Temp(ReadData) \in TempType
  BY <1>1, ReadAs
<1>3. CASE StoreRh
  <2>1. dht' = [dht EXCEPT !.pc = "temp", !.rh = Rh(ReadData)] /\ dht.pc = "rh"
    BY <1>3 DEF StoreRh
  <2>2. /\ dht' \in DhtType /\ dht'.pc = "temp" /\ dht'.ret = "none"
        /\ dht'.rh = Rh(ReadData)
    BY <1>1, <1>2, <2>1 DEF DhtType
  <2>3. Values'
    BY <1>1, <2>1, <2>2 DEF ReadInv, Values, Valid, Rh, Signed
  <2>4. Results'
    BY <2>2 DEF Results, TrueReading, NoFalseAlarm
  <2> QED
    BY <1>3, <2>2, <2>3, <2>4, TakenInv
<1>4. CASE StoreTemp
  <2>1. /\ dht' = [dht EXCEPT !.pc = "after", !.ret = "ok", !.temp = Temp(ReadData)]
        /\ dht.pc = "temp" /\ Overrun
    BY <1>4 DEF StoreTemp
  <2>2. /\ dht' \in DhtType /\ dht'.pc = "after" /\ dht'.ret = "ok"
        /\ dht'.rh = dht.rh /\ dht'.temp = Temp(ReadData)
    BY <1>1, <1>2, <2>1 DEF DhtType
  <2>3. Values' /\ NoFalseAlarm'
    BY <2>2 DEF Values, NoFalseAlarm
  <2>4. ASSUME aligned, ~ overrun'
        PROVE  \E m \in Readings : /\ sensor.frame = Frame(m)
                                   /\ dht.rh = m.rh /\ Temp(ReadData) = m.temp
    <3>1. sensor.next <= Full
      <4>1. ~ (sensor.next > Full)
        BY Zenon, <2>1, <2>4 DEF Overrun, Full
      <4>2. sensor.next \in Nat /\ Full \in Nat
        BY DhtTypes DEF ReadInv
      <4> QED
        BY <4>1, <4>2
    <3>2. dht.rh = Rh(ReadData)
      BY <2>1, <2>4, <3>1 DEF ReadInv, Values
    <3> QED
      BY <2>1, <2>4, <3>1, <3>2, FrameHeard
  <2>5. TrueReading'
    BY <1>1, <2>2, <2>4 DEF TrueReading, Frame, Checksum, Bytes, Byte
  <2> QED
    BY <1>4, <2>2, <2>3, <2>5, TakenInv DEF Results
<1> QED
  BY <1>3, <1>4

LEMMA ReadDoneInv == ReadInv /\ ReadDone => ReadInv'
<1> SUFFICES ASSUME ReadInv, ReadDone PROVE ReadInv'
  OBVIOUS
<1>1. /\ dht' = Idle /\ PulseCnt' = PulseCnt /\ ReadData' = ReadData
      /\ DhtReadDone' = DhtReadDone /\ sensor' = Silent /\ skew' = FALSE
      /\ aligned' = TRUE /\ wrapped' = FALSE /\ overrun' = FALSE
  BY DEF ReadDone
<1>2. DhtTypeOK'
  <2>1. dht' \in DhtType /\ sensor' \in SensorType
    BY <1>1, IdleType, SilentType
  <2> QED
    BY <1>1, <2>1 DEF ReadInv, DhtTypeOK, DhtType, SensorType, RhType, TempType
<1>3. Phases' /\ SentFrame' /\ Skewed' /\ Heard' /\ Values' /\ Results'
  BY <1>1 DEF Phases, SentFrame, Skewed, Heard, Values, Results, TrueReading,
              NoFalseAlarm, InRead, Idle, Silent
<1> QED
  BY <1>2, <1>3 DEF ReadInv

(* The line falsifies no result: the frame, what was taken from it and       *)
(* whether it was overrun stay, and the history only becomes worse.          *)
LEMMA ResultsStay ==
  ASSUME Results, dht' = dht, sensor'.frame = sensor.frame, overrun' = overrun,
         aligned' => aligned, wrapped => wrapped'
  PROVE  Results'
BY DEF Results, TrueReading, NoFalseAlarm, Frame, Checksum, Bytes, Byte

(* An edge on the line, seen or missed.                                      *)
LEMMA NextEdgeFacts ==
  ASSUME ReadInv, NextEdge
  PROVE  /\ InRead /\ dht' = dht /\ wrapped' = wrapped /\ overrun' = overrun
         /\ sensor.answers /\ sensor'.frame = sensor.frame /\ sensor'.answers
         /\ sensor'.next = sensor.next + 1 /\ sensor.next \in Nat
         /\ sensor.next <= Last /\ sensor' \in SensorType /\ SentFrame'
<1>1. DhtTypeOK /\ SentFrame
  BY DEF ReadInv
<1>2. /\ InRead /\ dht' = dht /\ wrapped' = wrapped /\ overrun' = overrun
      /\ sensor.answers
      /\ sensor.next <= Last /\ sensor' = [sensor EXCEPT !.next = @ + 1]
  BY DEF NextEdge, Listening, InRead
<1>3. sensor.next \in Nat /\ Last \in Nat
  BY <1>1, DhtTypes
<1>4. sensor \in SensorType
  BY <1>1, DhtTypeParts
<1>5. /\ sensor'.frame = sensor.frame /\ sensor'.answers = sensor.answers
      /\ sensor'.next = sensor.next + 1 /\ sensor' \in SensorType
  <2> DEFINE F == 0 .. 2 ^ DataBits - 1
             N == 0 .. Last + 1
  <2>1. sensor.next + 1 \in N
    BY <1>2, <1>3
  <2>2. sensor \in [frame : F, next : N, answers : BOOLEAN]
    BY <1>4 DEF SensorType
  <2> HIDE DEF F, N
  <2>3. /\ sensor'.frame = sensor.frame /\ sensor'.answers = sensor.answers
        /\ sensor'.next = sensor.next + 1
        /\ sensor' \in [frame : F, next : N, answers : BOOLEAN]
    BY <1>2, <2>1, <2>2
  <2> QED
    BY <2>3 DEF F, N, SensorType
<1>6. SentFrame'
  BY <1>1, <1>2, <1>5 DEF SentFrame
<1> QED
  BY <1>2, <1>3, <1>5, <1>6

(* Once all bits are in, one more edge is one too many.                      *)
LEMMA ValuesStay ==
  ASSUME ReadInv, NextEdge, aligned' => aligned PROVE Values'
<1>1. /\ dht' = dht /\ sensor'.next = sensor.next + 1 /\ sensor.next \in Nat
  BY NextEdgeFacts
<1>2. Full \in Nat /\ Full >= 5 /\ PulseCnt \in Nat
  BY DhtTypes DEF ReadInv
<1>3. ASSUME dht.pc \in {"rh", "temp"}, aligned PROVE sensor.next + 1 > Full
  <2>1. InRead /\ PulseCnt >= Full
    BY <1>3 DEF ReadInv, Phases, InRead
  <2>2. sensor.next > 1
    BY <1>1, <1>2, <1>3, <2>1 DEF ReadInv, Heard
  <2>3. PulseCnt = sensor.next
    BY <1>3, <2>1, <2>2 DEF ReadInv, Heard
  <2> QED
    BY <1>1, <1>2, <2>1, <2>3
<1> QED
  BY <1>1, <1>2, <1>3 DEF Values, Full

LEMMA EdgeMissedInv == ReadInv /\ EdgeMissed => ReadInv'
<1> SUFFICES ASSUME ReadInv, EdgeMissed PROVE ReadInv'
  OBVIOUS
<1>1. /\ PulseCnt' = PulseCnt /\ ReadData' = ReadData /\ DhtReadDone' = DhtReadDone
      /\ skew' = TRUE
  BY DEF EdgeMissed
<1>2. NextEdge
  BY DEF EdgeMissed
<1>3. aligned' \in BOOLEAN /\ (aligned' => aligned /\ sensor.next = 0)
  BY Zenon DEF EdgeMissed
<1>4. /\ InRead /\ dht' = dht /\ wrapped' = wrapped /\ overrun' = overrun
      /\ sensor'.next = sensor.next + 1 /\ sensor'.frame = sensor.frame
      /\ sensor.next \in Nat /\ sensor' \in SensorType /\ SentFrame'
  BY <1>2, NextEdgeFacts
<1>5. DhtTypeOK'
  BY <1>1, <1>3, <1>4 DEF ReadInv, DhtTypeOK, SensorType
<1>6. Phases'
  <2>1. PulseCnt \in Nat
    BY DhtTypes DEF ReadInv
  <2> QED
    BY <1>1, <1>4, <2>1 DEF ReadInv, Phases, InRead
<1>7. Skewed' /\ Heard'
  BY <1>1, <1>3, <1>4 DEF ReadInv, Skewed, Heard, InRead
<1>8. Values' /\ Results'
  BY <1>2, <1>3, <1>4, ValuesStay, ResultsStay DEF ReadInv
<1> QED
  BY <1>4, <1>5, <1>6, <1>7, <1>8 DEF ReadInv

LEMMA WrapInv == ReadInv /\ Wrap => ReadInv'
<1> SUFFICES ASSUME ReadInv, Wrap PROVE ReadInv'
  OBVIOUS
<1>1. /\ dht' = dht /\ PulseCnt' = PulseCnt /\ ReadData' = ReadData
      /\ DhtReadDone' = DhtReadDone /\ sensor' = sensor /\ overrun' = overrun
      /\ InRead /\ ~wrapped /\ wrapped' = TRUE /\ skew' = TRUE
  BY DEF Wrap, code, Listening, InRead
<1>2. aligned' \in BOOLEAN /\ (aligned' => aligned /\ sensor.next > 0)
  BY Zenon DEF Wrap
<1>3. sensor.next \in Nat
  BY DhtTypes DEF ReadInv
<1>4. DhtTypeOK'
  BY <1>1, <1>2 DEF ReadInv, DhtTypeOK
<1>5. Phases' /\ SentFrame'
  BY <1>1 DEF ReadInv, Phases, SentFrame, InRead
<1>6. Skewed' /\ Heard'
  BY <1>1, <1>2, <1>3 DEF ReadInv, Skewed, Heard, InRead, Sent
<1>7. Values' /\ Results'
  BY <1>1, <1>2, ResultsStay DEF ReadInv, Values
<1> QED
  BY <1>4, <1>5, <1>6, <1>7 DEF ReadInv

(* The interrupt counts a pulse and shifts a bit, and gives the semaphore at *)
(* the length of a frame.                                                    *)
LEMMA CallbackEffect ==
  ASSUME ReadInv, NextEdge, NEW long \in BOOLEAN, Callback(long)
  PROVE  /\ PulseCnt = 0 => ReadData' = ReadData /\ PulseCnt' = IF long THEN 2 ELSE 0
         /\ PulseCnt # 0 =>
              /\ PulseCnt' = PulseCnt + 1
              /\ ReadData' = (2 * ReadData + IF long THEN 1 ELSE 0) % 2 ^ (DataBits + 1)
         /\ PulseCnt' \in 0 .. Last + 2 /\ PulseCnt' <= sensor.next + 2
         /\ PulseCnt' >= PulseCnt
         /\ ReadData' \in 0 .. 2 ^ (DataBits + 1) - 1
         /\ DhtReadDone' \in 0 .. 1
         /\ DhtReadDone' = 1 => PulseCnt' >= Full
<1>1. /\ PulseCnt \in Nat /\ Full \in Nat /\ Full >= 5 /\ Last \in Nat
      /\ sensor.next \in Nat /\ sensor.next <= Last /\ PulseCnt <= sensor.next + 1
      /\ ReadData \in Nat /\ DhtReadDone \in 0 .. 1
      /\ DhtReadDone = 1 => PulseCnt >= Full
  BY DhtTypes, NextEdgeFacts DEF ReadInv, Phases
<1>2. /\ PulseCnt' = IF PulseCnt = 0 THEN IF long THEN 2 ELSE 0 ELSE PulseCnt + 1
      /\ ReadData' = IF PulseCnt = 0 THEN ReadData
                     ELSE (2 * ReadData + IF long THEN 1 ELSE 0) % 2 ^ (DataBits + 1)
  BY DEF Callback
<1>3. DhtReadDone' = IF PulseCnt' = Full THEN 1 ELSE DhtReadDone
  BY DEF Callback, Full
<1>4. PulseCnt' \in 0 .. Last + 2 /\ PulseCnt' <= sensor.next + 2 /\ PulseCnt' >= PulseCnt
  BY <1>1, <1>2
<1>5. ReadData' \in 0 .. 2 ^ (DataBits + 1) - 1
  <2>1. CASE PulseCnt = 0
    BY <1>2, <2>1 DEF ReadInv, DhtTypeOK
  <2>2. CASE PulseCnt # 0
    <3> DEFINE d == 2 ^ (DataBits + 1)
               v == 2 * ReadData + IF long THEN 1 ELSE 0
    <3>1. d \in Nat \ {0} /\ v \in Nat
      <4>1. d \in Nat \ {0}
        BY Powers
      <4>2. v \in Nat
        BY <1>1
      <4> QED
        BY <4>1, <4>2
    <3>2. ReadData' = v % d
      BY <1>2, <2>2
    <3> HIDE DEF d, v
    <3>3. v % d \in 0 .. d - 1
      BY <3>1, DivModNat
    <3> QED
      BY <3>2, <3>3 DEF d
  <2> QED
    BY <2>1, <2>2
<1>6. DhtReadDone' \in 0 .. 1 /\ (DhtReadDone' = 1 => PulseCnt' >= Full)
  BY <1>1, <1>3, <1>4
<1> QED
  BY <1>2, <1>4, <1>5, <1>6

LEMMA EdgeInv == ReadInv /\ Edge => ReadInv'
<1> SUFFICES ASSUME ReadInv, Edge PROVE ReadInv'
  OBVIOUS
<1> DEFINE long == skew \/ Long(sensor.next)
           e == sensor.next
           f == sensor.frame
<1>1. NextEdge /\ skew' = FALSE /\ aligned' = aligned
  BY DEF Edge
<1>2. Callback(long) /\ long \in BOOLEAN
  BY DEF Edge
<1>3. /\ InRead /\ dht' = dht /\ wrapped' = wrapped /\ overrun' = overrun
      /\ sensor'.frame = f /\ sensor'.next = e + 1 /\ e \in Nat
      /\ sensor' \in SensorType /\ SentFrame'
  BY <1>1, NextEdgeFacts
<1>4. /\ PulseCnt \in Nat /\ Full = DataBits + 2 /\ DataBits \in Nat /\ DataBits >= 3
      /\ f \in 0 .. 2 ^ DataBits - 1
  BY DhtTypes, Sizes DEF ReadInv, Full
<1> HIDE DEF long
<1>5. /\ PulseCnt = 0 => ReadData' = ReadData /\ PulseCnt' = IF long THEN 2 ELSE 0
      /\ PulseCnt # 0 =>
           /\ PulseCnt' = PulseCnt + 1
           /\ ReadData' = (2 * ReadData + IF long THEN 1 ELSE 0) % 2 ^ (DataBits + 1)
      /\ PulseCnt' \in 0 .. Last + 2 /\ PulseCnt' <= e + 2 /\ PulseCnt' >= PulseCnt
      /\ ReadData' \in 0 .. 2 ^ (DataBits + 1) - 1
      /\ DhtReadDone' \in 0 .. 1
      /\ DhtReadDone' = 1 => PulseCnt' >= Full
  BY <1>1, <1>2, CallbackEffect
<1>6. DhtTypeOK'
  BY <1>1, <1>3, <1>5 DEF ReadInv, DhtTypeOK, SensorType
<1>7. Phases'
  <2>1. PulseCnt' \in Nat /\ Last \in Nat
    <3>1. Last \in Nat
      BY DhtTypes DEF ReadInv
    <3> QED
      BY <1>5, <3>1
  <2>2. dht.pc \in {"check", "rh", "temp"} => PulseCnt' >= Full
    BY <1>4, <1>5, <2>1 DEF ReadInv, Phases
  <2>3. InRead' => PulseCnt' <= sensor'.next + 1
    BY <1>3, <1>5, <2>1
  <2>4. InRead' /\ DhtReadDone' = 1 => PulseCnt' >= Full
    BY <1>5
  <2> QED
    BY <1>3, <2>2, <2>3, <2>4 DEF ReadInv, Phases, InRead, Full
<1>8. Skewed'
  BY <1>1 DEF Skewed
<1>9. ASSUME aligned, e = 0 PROVE PulseCnt' = 0 /\ ReadData' = 0
  <2>1. PulseCnt = 0 /\ ReadData = 0
    BY <1>3, <1>9 DEF ReadInv, Heard
  <2>2. ~ skew
    BY <1>9 DEF ReadInv, Skewed
  <2>3. ~ Long(e)
    BY <1>4, <1>9 DEF Long
  <2> QED
    BY <1>5, <2>1, <2>2, <2>3 DEF long
<1>10. ASSUME aligned, e = 1 PROVE PulseCnt' = 2 /\ ReadData' = Top(f, 0)
  <2>1. PulseCnt = 0 /\ ReadData = 0
    BY <1>3, <1>10 DEF ReadInv, Heard
  <2>2. long
    BY <1>10 DEF long, Long
  <2> QED
    BY <1>4, <1>5, <2>1, <2>2, TopEnds
<1>11. ASSUME aligned, e > 1 PROVE PulseCnt' = e + 1
  <2>1. PulseCnt = e
    BY <1>3, <1>11 DEF ReadInv, Heard
  <2> QED
    BY <1>3, <1>5, <1>11, <2>1
<1>12. ASSUME aligned, e > 1, e + 1 <= Full
       PROVE  \/ ReadData' = Top(f, e - 1)
              \/ wrapped /\ OneSet(e - 1, Top(f, e - 1), ReadData')
  <2> DEFINE k == e - 2
             b == NthBit(f, k + 1)
             x == IF long THEN 1 ELSE 0
             r == ReadData
  <2>1. /\ PulseCnt = e
        /\ r = Top(f, k) \/ (wrapped /\ ~skew /\ OneSet(k, Top(f, k), r))
    BY <1>3, <1>4, <1>12 DEF ReadInv, Heard, Sent
  <2>2. k \in 0 .. DataBits - 1 /\ k + 1 = e - 1
    BY <1>3, <1>4, <1>12, <2>1
  <2>3. b \in 0 .. 1 /\ Top(f, k + 1) = 2 * Top(f, k) + b
    BY <1>4, <2>2, TopNext
  <2>4. Long(e) <=> b = 1
    BY <1>3, <1>4, <1>12, <2>2 DEF Long, SentBit, NthBit
  <2>5. ReadData' = (2 * r + x) % 2 ^ (DataBits + 1)
    BY <1>3, <1>5, <1>12, <2>1
  <2>6. ReadData' = 2 * r + x
    <3>1. x \in 0 .. 1
      OBVIOUS
    <3>2. r = Top(f, k) \/ OneSet(k, Top(f, k), r)
      BY <2>1
    <3> HIDE DEF x, k, f, r
    <3> QED
      BY <1>4, <2>2, <2>5, <3>1, <3>2, ShiftFits
  <2>7. CASE skew
    <3>1. x = 1 /\ r = Top(f, k) /\ wrapped
      BY <1>3, <1>12, <2>1, <2>7 DEF long, ReadInv, Skewed
    <3>2. \/ 2 * Top(f, k) + 1 = Top(f, k + 1)
          \/ OneSet(k + 1, Top(f, k + 1), 2 * Top(f, k) + 1)
      BY <1>4, <2>2, OneSetLast
    <3> QED
      BY <2>2, <2>5, <2>6, <3>1, <3>2
  <2>8. CASE ~ skew
    <3>1. x = b
      BY <2>3, <2>4, <2>8 DEF long
    <3>2. CASE r = Top(f, k)
      BY <2>2, <2>3, <2>5, <2>6, <3>1, <3>2
    <3>3. CASE wrapped /\ OneSet(k, Top(f, k), r)
      <4>1. OneSet(k + 1, Top(f, k + 1), 2 * r + b)
        BY <1>4, <2>2, <3>3, OneSetNext
      <4> QED
        BY <2>2, <2>5, <2>6, <3>1, <3>3, <4>1
    <3> QED
      BY <2>1, <3>2, <3>3
  <2> QED
    BY <2>7, <2>8
<1>13. Heard'
  <2>1. Sent' = Top(f, e - 1) /\ sensor'.next - 2 = e - 1
    BY <1>3 DEF Sent, Top
  <2>2. CASE ~ aligned
    BY <1>1, <2>2 DEF Heard
  <2>3. CASE aligned /\ e = 0
    BY <1>3, <1>9, <2>3 DEF Heard
  <2>4. CASE aligned /\ e = 1
    BY <1>3, <1>10, <2>1, <2>4 DEF Heard
  <2>5. CASE aligned /\ e > 1
    BY <1>1, <1>3, <1>4, <1>11, <1>12, <2>1, <2>5 DEF Heard, Full
  <2> QED
    BY <1>3, <2>2, <2>3, <2>4, <2>5
<1>14. Values' /\ Results'
  BY <1>1, <1>3, ValuesStay, ResultsStay DEF ReadInv
<1> QED
  BY <1>3, <1>6, <1>7, <1>8, <1>13, <1>14 DEF ReadInv

LEMMA SampleInv == ReadInv /\ (ReadBegin \/ Reading) => ReadInv'
BY ReadBeginInv, ReleaseInv, TakeInv, CheckInv, StoreInv, EdgeInv, EdgeMissedInv,
   WrapInv DEF Reading

(* Every other step of main leaves the sensor alone, or resets the station.  *)
LEMMA MainOnDht ==
  ASSUME Next \/ UNCHANGED vars
  PROVE  UNCHANGED dhtVars \/ DhtReset \/ ReadBegin \/ Reading \/ ReadDone
<1> USE DEF Reset
<1>1. CASE Boot \/ Spin \/ Configure \/ UNCHANGED vars
  BY <1>1 DEF Boot, Spin, Configure, vars
<1>2. CASE RoundFails \/ RoundSucceeds
  BY <1>2 DEF RoundFails, RoundSucceeds
<1>3. CASE SntpFails \/ SntpSucceeds
  BY <1>3 DEF SntpFails, SntpSucceeds
<1>4. CASE AuthFails \/ AuthSucceeds
  BY <1>4 DEF AuthFails, AuthSucceeds
<1>5. CASE Wakes \/ NotDue \/ Sample
  BY <1>5 DEF Wakes, NotDue, Sample
<1>6. CASE Sampled \/ Published
  BY <1>6 DEF Sampled, Published
<1>7. CASE Update \/ Resync \/ KeepaliveTest
  BY <1>7 DEF Update, Resync, KeepaliveTest
<1>8. CASE Bite
  BY <1>8 DEF Bite
<1> QED
  BY <1>1, <1>2, <1>3, <1>4, <1>5, <1>6, <1>7, <1>8 DEF Next, Main

LEMMA ReadInvHolds == Spec => []ReadInv
<1>1. Init => ReadInv
  BY DhtInitInv DEF Init
<1>2. ReadInv /\ [Next]_vars => ReadInv'
  BY MainOnDht, DhtSame, DhtResetInv, SampleInv, ReadDoneInv
<1> QED
  BY <1>1, <1>2, PTL DEF Spec

-----------------------------------------------------------------------------
(* Main's variables and the sensor's keep their types: PulseCnt and ReadData *)
(* although gpio_callback goes on after the frame.                           *)
THEOREM TypeCorrect == Spec => []TypeOK
<1>1. Inv /\ ReadInv => TypeOK
  BY DEF Inv, ReadInv, TypeOK
<1> QED
  BY <1>1, InvHolds, ReadInvHolds, PTL

(* For bytes and values of any width, a reading dht2x_read returns is the    *)
(* one the sensor sent, unless an edge after the first was missed, the       *)
(* counter wrapped before the first or edges followed the frame before the   *)
(* values were taken: a bit that a wrap within the frame has set is always   *)
(* detected by the checksum.                                                 *)
THEOREM Truthful == Spec => []TrueReading
<1>1. ReadInv => TrueReading
  BY DEF ReadInv, Results
<1> QED
  BY <1>1, ReadInvHolds, PTL

(* For bytes and values of any width, dht2x_read refuses no frame it has     *)
(* heard in full before it looks at it and before more edges come, but one   *)
(* the wrap has falsified or whose checksum is 0.                            *)
THEOREM Accepting == Spec => []NoFalseAlarm
<1>1. ReadInv => NoFalseAlarm
  BY DEF ReadInv, Results
<1> QED
  BY <1>1, ReadInvHolds, PTL

(* A sensor that sends the bits of its frame and no more overruns no read.   *)
THEOREM NeverOverrun ==
  ASSUME Trailing = 0 PROVE Spec => []~overrun
<1>1. ReadInv => ~overrun
  BY DEF ReadInv, Phases
<1> QED
  BY <1>1, ReadInvHolds, PTL
=============================================================================
