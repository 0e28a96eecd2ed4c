--------------------------- MODULE SettingsProofs ---------------------------
(***************************************************************************)
(* Proofs about Settings: the type invariant, and that the values lost to  *)
(* defaults are accounted for by errors of nvs_read and one race a record. *)
(***************************************************************************)
EXTENDS Settings, TLAPS

-----------------------------------------------------------------------------
(* Type correctness *)

LEMMA Lengths ==
  /\ Len(BootReads) \in Nat /\ 1 \in 1 .. Len(BootReads)
  /\ Identity \in 1 .. Len(BootReads)
  /\ Len(PrintReads) \in Nat /\ 1 \in 1 .. Len(PrintReads)
  /\ \A i \in 1 .. Len(BootReads) : BootReads[i] \in Record
  /\ \A i \in 1 .. Len(PrintReads) : PrintReads[i] \in Record
BY SettingsAssumption

LEMMA Numbers ==
  /\ MaxCommands \in Nat /\ MaxFaults \in Nat /\ 0 \in 0 .. AuthAttempts - 1
  /\ AuthAttempts \in Nat /\ Default \in Value
BY SettingsAssumption

LEMMA SettingIsRecord == TypeOK => Setting \in Record /\ Printed \in Record
BY Lengths DEF TypeOK, Setting, Printed

LEMMA InitTyped == Init => TypeOK
BY Lengths, Numbers DEF Init, TypeOK, PowerOn, Prompt

LEMMA FaultTyped ==
  ASSUME TypeOK, Fault \/ UNCHANGED faults PROVE faults' \in 0 .. MaxFaults
<1>1. faults \in Nat /\ faults <= MaxFaults
  BY Numbers DEF TypeOK
<1> QED
  BY <1>1, Numbers DEF Fault

(* What the calls of the file system leave typed.                           *)
LEMMA WriteTyped ==
  ASSUME TypeOK, NEW r \in Record, NEW v \in Value,
         Written(r, v) \/ Unchanged(r, v) \/ WriteFails
  PROVE  /\ flash' \in [Record -> Value \cup {Absent}]
         /\ faults' \in 0 .. MaxFaults
<1>1. Fault \/ UNCHANGED faults
  BY DEF Written, Unchanged, WriteFails
<1>2. flash' \in [Record -> Value \cup {Absent}]
  BY DEF Written, Unchanged, WriteFails, TypeOK
<1> QED
  BY <1>1, <1>2, FaultTyped

LEMMA StoreDefaultTyped ==
  ASSUME TypeOK, NEW r \in Record, StoreDefault(r)
  PROVE  /\ flash' \in [Record -> Value \cup {Absent}]
         /\ wanted' \in [Record -> Value \cup {Absent}]
         /\ lost' \in [Record -> Nat] /\ faults' \in 0 .. MaxFaults
<1>1. Written(r, Default) \/ Unchanged(r, Default) \/ WriteFails
  BY DEF StoreDefault
<1>2. wanted' \in [Record -> Value \cup {Absent}] /\ lost' \in [Record -> Nat]
  <2>1. wanted[r] \in Value \cup {Absent} /\ lost[r] \in Nat
    BY DEF TypeOK
  <2>2. CASE UNCHANGED <<wanted, lost>>
    BY <2>2 DEF TypeOK
  <2>3. CASE /\ lost' = [lost EXCEPT ![r] = @ + 1]
             /\ wanted' = [wanted EXCEPT ![r] = Absent]
    BY <2>1, <2>3 DEF TypeOK
  <2> QED
    BY <2>2, <2>3 DEF StoreDefault
<1> QED
  BY <1>1, <1>2, WriteTyped, Numbers

LEMMA MissingTyped ==
  ASSUME TypeOK, NEW r \in Record, Found(r) \/ Missing(r)
  PROVE  misread' \in [Record -> Nat] /\ faults' \in 0 .. MaxFaults
<1>1. Fault \/ UNCHANGED faults
  BY DEF Found, Missing
<1>2. misread' \in [Record -> Nat]
  BY DEF Found, Missing, TypeOK
<1> QED
  BY <1>1, <1>2, FaultTyped

LEMMA RestartTyped ==
  ASSUME TypeOK, Restart, faults' \in 0 .. MaxFaults PROVE TypeOK'
BY Lengths, Numbers DEF TypeOK, Restart, PowerOn, Prompt

LEMMA MainTyped == TypeOK /\ (MainStep \/ FirstSample \/ AuthorizeFails \/ Crash) => TypeOK'
<1> SUFFICES ASSUME TypeOK, MainStep \/ FirstSample \/ AuthorizeFails \/ Crash PROVE TypeOK'
  OBVIOUS
<1>1. CASE NvsInit
  <2>1. faults' \in 0 .. MaxFaults
    BY <1>1, FaultTyped DEF NvsInit
  <2> QED
    BY <1>1, <2>1 DEF NvsInit, TypeOK, history
<1>2. CASE ReadSetting
  <2>1. misread' \in [Record -> Nat] /\ faults' \in 0 .. MaxFaults
    BY <1>2, MissingTyped, SettingIsRecord DEF ReadSetting
  <2>2. loaded' \in [Record -> Value \cup {Absent}]
    BY <1>2, SettingIsRecord, Numbers DEF ReadSetting, TypeOK
  <2>3. main' \in [pc : {"default", "proceed"}, at : 1 .. Len(BootReads),
                   tries : 0 .. AuthAttempts - 1]
    BY <1>2 DEF ReadSetting, TypeOK
  <2> QED
    BY <1>2, <2>1, <2>2, <2>3 DEF ReadSetting, TypeOK
<1>3. CASE DefaultSetting
  BY <1>3, StoreDefaultTyped, SettingIsRecord DEF DefaultSetting, TypeOK
<1>4. CASE Proceed
  <2>1. main.at < Len(BootReads) => main.at + 1 \in 1 .. Len(BootReads)
    BY Lengths DEF TypeOK
  <2> QED
    BY <1>4, <2>1 DEF Proceed, TypeOK, history
<1>5. CASE GiveUp \/ FirstSample
  BY <1>5, RestartTyped DEF GiveUp, FirstSample, TypeOK
<1>6. CASE AuthorizeFails
  <2>1. faults' \in 0 .. MaxFaults
    BY <1>6, FaultTyped DEF AuthorizeFails
  <2>2. main.tries + 1 \in 0 .. AuthAttempts - 1
    BY <1>6, Numbers DEF AuthorizeFails, TypeOK
  <2> QED
    BY <1>6, <2>1, <2>2, Lengths DEF AuthorizeFails, TypeOK, history
<1>7. CASE Crash
  <2>1. faults' \in 0 .. MaxFaults
    BY <1>7, FaultTyped DEF Crash
  <2> QED
    BY <1>7, <2>1, RestartTyped DEF Crash
<1> QED
  BY <1>1, <1>2, <1>3, <1>4, <1>5, <1>6, <1>7 DEF MainStep

LEMMA ShellTyped == TypeOK /\ Shell => TypeOK'
<1> SUFFICES ASSUME TypeOK, Shell PROVE TypeOK'
  OBVIOUS
<1>1. ASSUME NEW r \in Record, NEW v \in Value, Command(r, v) PROVE TypeOK'
  <2>1. commands' \in 0 .. MaxCommands
    BY <1>1, Numbers DEF Command, Type, TypeOK
  <2>2. /\ flash' \in [Record -> Value \cup {Absent}]
        /\ wanted' \in [Record -> Value \cup {Absent}]
        /\ faults' \in 0 .. MaxFaults
    <3>1. Written(r, v) \/ Unchanged(r, v) \/ WriteFails
      BY <1>1 DEF Command, SetSucceeds, SetFails
    <3>2. wanted' \in [Record -> Value \cup {Absent}]
      BY <1>1 DEF Command, TypeOK
    <3> QED
      BY <3>1, <3>2, WriteTyped
  <2> QED
    BY <1>1, <2>1, <2>2 DEF Command, TypeOK
<1>2. CASE PrintConfig
  BY <1>2, Lengths, Numbers DEF PrintConfig, Type, TypeOK, history
<1>3. NextPrinted \in [pc : {"prompt", "read"}, at : 1 .. Len(PrintReads)]
  BY Lengths DEF NextPrinted, Prompt, TypeOK
<1>4. CASE PrintRecord
  <2>1. misread' \in [Record -> Nat] /\ faults' \in 0 .. MaxFaults
    BY <1>4, MissingTyped, SettingIsRecord DEF PrintRecord
  <2>2. shell' \in [pc : {"prompt", "read", "default"}, at : 1 .. Len(PrintReads)]
    BY <1>4, <1>3 DEF PrintRecord, TypeOK
  <2> QED
    BY <1>4, <2>1, <2>2 DEF PrintRecord, TypeOK
<1>5. CASE PrintDefault
  BY <1>5, <1>3, StoreDefaultTyped, SettingIsRecord DEF PrintDefault, TypeOK
<1> QED
  BY <1>1, <1>2, <1>4, <1>5 DEF Shell

(* Every reachable state of Settings has the types of TypeOK.               *)
THEOREM TypeCorrect == Spec => []TypeOK
<1>1. TypeOK /\ [Next]_vars => TypeOK'
  <2> SUFFICES ASSUME TypeOK, [Next]_vars PROVE TypeOK'
    OBVIOUS
  <2>1. CASE UNCHANGED vars
    BY <2>1 DEF vars, TypeOK
  <2> QED
    BY <2>1, MainTyped, ShellTyped DEF Next
<1> QED
  BY <1>1, InitTyped, PTL DEF Spec

-----------------------------------------------------------------------------
(* Losses.  A default on its way to the record is a loss to come.           *)

MainPending(r)  == IF main.pc = "default" /\ Setting = r THEN 1 ELSE 0
ShellPending(r) == IF shell.pc = "default" /\ Printed = r THEN 1 ELSE 0

Accounted(r) ==
  /\ wanted[r] # Absent => flash[r] = wanted[r]
  /\ flash[r] = Absent => lost[r] = 0
  /\ flash[r] # Absent =>
       lost[r] + MainPending(r) + ShellPending(r) <= misread[r] + 1

AllAccounted == \A r \in Record : Accounted(r)

LEMMA InitAccounted == Init => AllAccounted
BY DEF Init, AllAccounted, Accounted

Pending(r) == MainPending(r) + ShellPending(r)

LEMMA PendingIsNumber ==
  ASSUME NEW r
  PROVE  /\ MainPending(r) \in 0 .. 1 /\ MainPending(r)' \in 0 .. 1
         /\ ShellPending(r) \in 0 .. 1 /\ ShellPending(r)' \in 0 .. 1
BY DEF MainPending, ShellPending

(* Steps that store nothing: a default more is on its way only to a record  *)
(* that is missing or has been misread.                                     *)
LEMMA QuietAccounted ==
  ASSUME TypeOK, TypeOK', AllAccounted, UNCHANGED <<flash, wanted, lost>>,
         \A r \in Record :
           flash[r] # Absent =>
             Pending(r)' + misread[r] <= Pending(r) + misread'[r]
  PROVE  AllAccounted'
<1> SUFFICES ASSUME NEW r \in Record PROVE Accounted(r)'
  BY DEF AllAccounted
<1>1. /\ Accounted(r) /\ lost[r] \in Nat
      /\ misread[r] \in Nat /\ misread'[r] \in Nat
  BY DEF AllAccounted, TypeOK
<1> QED
  BY <1>1, PendingIsNumber DEF Accounted, Pending

(* What main does leaves the default pconfig has on its way, and vice versa. *)
LEMMA OtherPending ==
  /\ UNCHANGED main => \A r : MainPending(r)' = MainPending(r)
  /\ UNCHANGED shell => \A r : ShellPending(r)' = ShellPending(r)
  /\ main'.pc # "default" => \A r : MainPending(r)' = 0
  /\ shell'.pc # "default" => \A r : ShellPending(r)' = 0
BY DEF MainPending, ShellPending, Setting, Printed

(* A default is stored: what was pending becomes a loss at most.            *)
LEMMA StoreAccounted ==
  ASSUME TypeOK, AllAccounted, NEW s \in Record, StoreDefault(s),
         UNCHANGED misread,
         \A r \in Record \ {s} : Pending(r)' <= Pending(r),
         Pending(s)' + 1 <= Pending(s)
  PROVE  AllAccounted'
<1> SUFFICES ASSUME NEW r \in Record PROVE Accounted(r)'
  BY DEF AllAccounted
<1>1. Accounted(r) /\ lost[r] \in Nat /\ misread[r] \in Nat
  BY DEF AllAccounted, TypeOK
<1>2. /\ MainPending(r) \in 0 .. 1 /\ ShellPending(r) \in 0 .. 1
      /\ MainPending(r)' \in 0 .. 1 /\ ShellPending(r)' \in 0 .. 1
  BY PendingIsNumber
<1>3. Default # Absent
  BY SettingsAssumption
<1>4. CASE r # s
  <2>1. flash'[r] = flash[r] /\ wanted'[r] = wanted[r] /\ lost'[r] = lost[r]
    BY <1>4 DEF StoreDefault, Written, Unchanged, WriteFails, TypeOK
  <2> QED
    BY <2>1, <1>1, <1>2, <1>4 DEF Accounted, Pending
<1>5. CASE r = s
  <2>1. MainPending(r)' + ShellPending(r)' + 1 <= MainPending(r) + ShellPending(r)
    BY <1>5 DEF Pending
  <2>2. CASE /\ Written(s, Default)
             /\ wanted[s] \notin {Absent, Default}
             /\ lost' = [lost EXCEPT ![s] = @ + 1]
             /\ wanted' = [wanted EXCEPT ![s] = Absent]
    <3>1. flash'[r] = Default /\ lost'[r] = lost[r] + 1 /\ wanted'[r] = Absent
      BY <2>2, <1>5 DEF Written, TypeOK
    <3>2. flash[r] # Absent
      BY <2>2, <1>1, <1>5 DEF Accounted
    <3> QED
      BY <3>1, <3>2, <2>1, <1>1, <1>2, <1>3 DEF Accounted
  <2>3. CASE /\ Written(s, Default)
             /\ wanted[s] \in {Absent, Default} /\ UNCHANGED <<wanted, lost>>
    <3>1. flash'[r] = Default /\ lost'[r] = lost[r] /\ wanted'[r] = wanted[r]
      BY <2>3, <1>5 DEF Written, TypeOK
    <3> QED
      BY <3>1, <2>1, <2>3, <1>1, <1>2, <1>3, <1>5 DEF Accounted
  <2>4. CASE UNCHANGED <<flash, wanted, lost>>
    BY <2>4, <2>1, <1>1, <1>2 DEF Accounted
  <2> QED
    BY <2>2, <2>3, <2>4, <1>5 DEF StoreDefault, Unchanged, WriteFails
<1> QED
  BY <1>4, <1>5

LEMMA MainAccounted ==
  ASSUME TypeOK, TypeOK', AllAccounted, MainStep \/ FirstSample \/ AuthorizeFails \/ Crash
  PROVE  AllAccounted'
<1>1. CASE NvsInit \/ Proceed \/ AuthorizeFails
  <2>1. UNCHANGED <<shell, flash, wanted, lost, misread>>
    BY <1>1 DEF NvsInit, Proceed, AuthorizeFails, history
  <2>2. main'.pc # "default"
    <3>1. NvsInit => main'.pc # "default"
      BY DEF NvsInit, TypeOK
    <3>2. Proceed => main'.pc # "default"
      BY DEF Proceed, TypeOK
    <3>3. AuthorizeFails => main'.pc # "default"
      BY DEF AuthorizeFails
    <3> QED
      BY <1>1, <3>1, <3>2, <3>3
  <2>3. ASSUME NEW r \in Record
        PROVE  Pending(r)' + misread[r] <= Pending(r) + misread'[r]
    <3>1. misread'[r] = misread[r] /\ misread[r] \in Nat
      BY <2>1 DEF TypeOK
    <3>2. MainPending(r)' = 0 /\ ShellPending(r)' = ShellPending(r)
      BY <2>1, <2>2, OtherPending
    <3> QED
      BY <3>1, <3>2, PendingIsNumber DEF Pending
  <2> QED
    BY <2>1, <2>3, QuietAccounted
<1>2. CASE GiveUp \/ FirstSample \/ Crash
  <2>1. /\ main'.pc # "default" /\ shell'.pc # "default"
        /\ UNCHANGED <<flash, wanted, lost, misread>>
    BY <1>2 DEF GiveUp, FirstSample, Crash, Restart, PowerOn, Prompt
  <2>2. ASSUME NEW r \in Record
        PROVE  Pending(r)' + misread[r] <= Pending(r) + misread'[r]
    <3>1. misread'[r] = misread[r] /\ misread[r] \in Nat
      BY <2>1 DEF TypeOK
    <3>2. MainPending(r)' = 0 /\ ShellPending(r)' = 0
      BY <2>1, OtherPending
    <3> QED
      BY <3>1, <3>2, PendingIsNumber DEF Pending
  <2> QED
    BY <2>1, <2>2, QuietAccounted
<1>3. CASE ReadSetting
  <2>1. /\ UNCHANGED <<shell, flash, wanted, lost>> /\ UNCHANGED Setting
    BY <1>3 DEF ReadSetting, Setting, TypeOK
  <2>2. ASSUME NEW r \in Record, flash[r] # Absent
        PROVE  MainPending(r)' + misread[r] <= MainPending(r) + misread'[r]
    <3>1. misread[r] \in Nat /\ misread'[r] \in Nat
      BY DEF TypeOK
    <3>2. CASE Found(Setting) /\ main' = [main EXCEPT !.pc = "proceed"]
      <4>1. misread'[r] = misread[r]
        BY <3>2 DEF Found
      <4>2. main'.pc # "default"
        BY <3>2 DEF TypeOK
      <4> QED
        BY <3>1, <4>1, <4>2, PendingIsNumber, OtherPending
    <3>3. CASE Missing(Setting)
      <4>1. CASE r = Setting
        <5>1. misread'[r] = misread[r] + 1
          BY <3>3, <4>1, <2>2 DEF Missing, TypeOK
        <5> QED
          BY <5>1, <3>1, PendingIsNumber
      <4>2. CASE r # Setting
        <5>1. misread'[r] = misread[r]
          BY <3>3, <4>2 DEF Missing, TypeOK
        <5>2. MainPending(r)' = 0
          BY <4>2, <2>1 DEF MainPending
        <5> QED
          BY <5>1, <5>2, <3>1, PendingIsNumber
      <4> QED
        BY <4>1, <4>2
    <3> QED
      BY <1>3, <3>2, <3>3 DEF ReadSetting
  <2>3. ASSUME NEW r \in Record, flash[r] # Absent
        PROVE  Pending(r)' + misread[r] <= Pending(r) + misread'[r]
    <3>1. misread[r] \in Nat /\ misread'[r] \in Nat
      BY DEF TypeOK
    <3> QED
      BY <2>1, <2>2, <2>3, <3>1, OtherPending, PendingIsNumber DEF Pending
  <2> QED
    BY <2>1, <2>3, QuietAccounted
<1>4. CASE DefaultSetting
  <2>1. /\ main.pc = "default" /\ main'.pc # "default"
        /\ UNCHANGED <<shell, misread>> /\ StoreDefault(Setting)
    BY <1>4 DEF DefaultSetting, TypeOK
  <2>2. PICK s \in Record : s = Setting
    BY SettingIsRecord
  <2>3. MainPending(s) = 1
    BY <2>1, <2>2 DEF MainPending
  <2>4. /\ \A r \in Record \ {s} : Pending(r)' <= Pending(r)
        /\ Pending(s)' + 1 <= Pending(s)
    BY <2>1, <2>3, OtherPending, PendingIsNumber DEF Pending
  <2> QED
    BY <2>1, <2>2, <2>4, StoreAccounted
<1> QED
  BY <1>1, <1>2, <1>3, <1>4 DEF MainStep

LEMMA ShellAccounted ==
  ASSUME TypeOK, TypeOK', AllAccounted, Shell
  PROVE  AllAccounted'
<1>1. ASSUME NEW s \in Record, NEW v \in Value, Command(s, v)
      PROVE  AllAccounted'
  <2> SUFFICES ASSUME NEW r \in Record PROVE Accounted(r)'
    BY DEF AllAccounted
  <2>1. Accounted(r) /\ lost[r] \in Nat /\ misread[r] \in Nat
    BY DEF AllAccounted, TypeOK
  <2>2. /\ UNCHANGED <<lost, misread, main, shell>> /\ shell.pc = "prompt"
    BY <1>1 DEF Command, Type
  <2>3. /\ MainPending(r)' = MainPending(r) /\ ShellPending(r)' = ShellPending(r)
        /\ ShellPending(r) = 0
    BY <2>2, OtherPending DEF ShellPending
  <2>4. CASE UNCHANGED <<flash, wanted>>
    BY <2>1, <2>2, <2>3, <2>4, PendingIsNumber DEF Accounted
  <2>5. CASE Written(s, v) /\ wanted' = [wanted EXCEPT ![s] = v]
    <3>1. CASE r = s
      <4>1. flash'[r] = v /\ wanted'[r] = v /\ v # Absent
        BY <2>5, <3>1, SettingsAssumption DEF Written, TypeOK
      <4> QED
        BY <4>1, <2>1, <2>2, <2>3, PendingIsNumber DEF Accounted
    <3>2. CASE r # s
      <4>1. flash'[r] = flash[r] /\ wanted'[r] = wanted[r]
        BY <2>5, <3>2 DEF Written, TypeOK
      <4> QED
        BY <4>1, <2>1, <2>2, <2>3, PendingIsNumber DEF Accounted
    <3> QED
      BY <3>1, <3>2
  <2> QED
    BY <1>1, <2>4, <2>5
       DEF Command, SetSucceeds, SetFails, Unchanged, WriteFails
<1>2. CASE PrintConfig
  <2>1. /\ UNCHANGED <<main, flash, wanted, lost, misread>>
        /\ shell'.pc # "default"
    BY <1>2 DEF PrintConfig, history
  <2>2. ASSUME NEW r \in Record
        PROVE  Pending(r)' + misread[r] <= Pending(r) + misread'[r]
    <3>1. misread'[r] = misread[r] /\ misread[r] \in Nat
      BY <2>1 DEF TypeOK
    <3>2. MainPending(r)' = MainPending(r) /\ ShellPending(r)' = 0
      BY <2>1, OtherPending
    <3> QED
      BY <3>1, <3>2, PendingIsNumber DEF Pending
  <2> QED
    BY <2>1, <2>2, QuietAccounted
<1>3. NextPrinted.pc # "default"
  BY DEF NextPrinted, Prompt
<1>4. CASE PrintRecord
  <2>1. UNCHANGED <<main, flash, wanted, lost>>
    BY <1>4 DEF PrintRecord
  <2>2. ASSUME NEW r \in Record, flash[r] # Absent
        PROVE  ShellPending(r)' + misread[r] <= ShellPending(r) + misread'[r]
    <3>1. misread[r] \in Nat /\ misread'[r] \in Nat
      BY DEF TypeOK
    <3>2. CASE Found(Printed) /\ shell' = NextPrinted
      <4>1. misread'[r] = misread[r]
        BY <3>2 DEF Found
      <4> QED
        BY <3>1, <3>2, <4>1, <1>3, PendingIsNumber, OtherPending
    <3>3. CASE Missing(Printed) /\ shell' = [shell EXCEPT !.pc = "default"]
      <4>1. CASE r = Printed
        <5>1. misread'[r] = misread[r] + 1
          BY <3>3, <4>1, <2>2 DEF Missing, TypeOK
        <5> QED
          BY <5>1, <3>1, PendingIsNumber
      <4>2. CASE r # Printed
        <5>1. misread'[r] = misread[r]
          BY <3>3, <4>2 DEF Missing, TypeOK
        <5>2. ShellPending(r)' = 0
          BY <3>3, <4>2 DEF ShellPending, Printed, TypeOK
        <5> QED
          BY <5>1, <5>2, <3>1, PendingIsNumber
      <4> QED
        BY <4>1, <4>2
    <3> QED
      BY <1>4, <3>2, <3>3 DEF PrintRecord
  <2>3. ASSUME NEW r \in Record, flash[r] # Absent
        PROVE  Pending(r)' + misread[r] <= Pending(r) + misread'[r]
    <3>1. misread[r] \in Nat /\ misread'[r] \in Nat
      BY DEF TypeOK
    <3> QED
      BY <2>1, <2>2, <2>3, <3>1, OtherPending, PendingIsNumber DEF Pending
  <2> QED
    BY <2>1, <2>3, QuietAccounted
<1>5. CASE PrintDefault
  <2>1. /\ shell.pc = "default" /\ shell'.pc # "default"
        /\ UNCHANGED <<main, misread>> /\ StoreDefault(Printed)
    BY <1>5, <1>3 DEF PrintDefault
  <2>2. PICK s \in Record : s = Printed
    BY SettingIsRecord
  <2>3. ShellPending(s) = 1
    BY <2>1, <2>2 DEF ShellPending
  <2>4. /\ \A r \in Record \ {s} : Pending(r)' <= Pending(r)
        /\ Pending(s)' + 1 <= Pending(s)
    BY <2>1, <2>3, OtherPending, PendingIsNumber DEF Pending
  <2> QED
    BY <2>1, <2>2, <2>4, StoreAccounted
<1> QED
  BY <1>1, <1>2, <1>4, <1>5 DEF Shell

LEMMA AccountedImplies == TypeOK /\ AllAccounted => LossesAccounted
<1> SUFFICES ASSUME TypeOK, AllAccounted, NEW r \in Record
             PROVE  /\ lost[r] <= misread[r] + 1
                    /\ wanted[r] # Absent => flash[r] = wanted[r]
  BY DEF LossesAccounted
<1>1. Accounted(r) /\ lost[r] \in Nat /\ misread[r] \in Nat
  BY DEF AllAccounted, TypeOK
<1> QED
  BY <1>1, PendingIsNumber DEF Accounted

(* For any number of records, commands, resets and failures: what a default *)
(* was stored over is one value a record, and one for each error of nvs_read. *)
THEOREM Losses == Spec => []LossesAccounted
<1>1. TypeOK /\ TypeOK' /\ AllAccounted /\ [Next]_vars => AllAccounted'
  <2> SUFFICES ASSUME TypeOK, TypeOK', AllAccounted, [Next]_vars
               PROVE  AllAccounted'
    OBVIOUS
  <2>1. CASE UNCHANGED vars
    BY <2>1 DEF vars, AllAccounted, Accounted, MainPending, ShellPending,
                Setting, Printed
  <2> QED
    BY <2>1, MainAccounted, ShellAccounted DEF Next
<1> QED
  BY <1>1, TypeCorrect, InitAccounted, AccountedImplies, PTL DEF Spec
=============================================================================
