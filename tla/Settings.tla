------------------------------ MODULE Settings ------------------------------
(***************************************************************************)
(* nvs_data.c, shell_commands.c and what main does with the settings: the  *)
(* records in flash, main reading them one after the other as it boots,    *)
(* the shell thread writing and printing them at any time, and resets.     *)
(* A getter is two calls of the flash file system, nvs_read and, when that *)
(* returns no record or an error, nvs_write of the default; the other      *)
(* thread may run in between.  The file system is external: a record is    *)
(* written entirely or not at all, nvs_write returns 0 for a value already *)
(* stored, and both calls may fail.                                        *)
(***************************************************************************)
EXTENDS Naturals, Sequences

CONSTANTS
  Record,        (* the records considered; all of them: wifi, mqtt, id,     *)
                 (* name, gps, period                                        *)
  BootReads,     (* the order main reads them in: wifi, mqtt, period, name,  *)
                 (* id, gps                                                  *)
  PrintReads,    (* the order pconfig prints them in                         *)
  Identity,      (* position in BootReads at which wlab_authorize begins     *)
  Value,         (* what a record may hold                                   *)
  Default,       (* what a getter stores when there is no record             *)
  Good,          (* values the station works with, for the Required records  *)
  Absent,        (* no record                                                *)
  AuthAttempts,  (* attempts of wlab_init to publish its identity: 8         *)
  MaxCommands,   (* bound: commands typed                                    *)
  MaxFaults      (* bound: resets, failures and uses of the button           *)

ASSUME SettingsAssumption ==
  /\ BootReads \in Seq(Record) /\ Identity \in 1 .. Len(BootReads)
  /\ PrintReads \in Seq(Record) /\ Len(PrintReads) > 0
  /\ Default \in Value \ Good /\ Good \subseteq Value /\ Absent \notin Value
  /\ AuthAttempts \in Nat \ {0} /\ MaxCommands \in Nat /\ MaxFaults \in Nat

VARIABLES
  flash,         (* the records; those of a new station are absent           *)
  main,          (* pc of main, the position in BootReads, and auth_attempts *)
  loaded,        (* what the getters returned to main in this boot           *)
  shell,         (* pc of the shell thread and the position in PrintReads    *)
  commands, faults,
  wanted,        (* history: the value of the last command answered "OK!",   *)
                 (* Absent when there is none or it has been counted lost    *)
  lost,          (* history: such values a default was written over          *)
  misread        (* history: times a stored record was taken for missing     *)

vars == <<flash, main, loaded, shell, commands, faults, wanted, lost, misread>>
history == <<wanted, lost, misread>>

(* With the default of one of these, the station does not get to its loop or *)
(* leaves it at once: no network, no broker, a division by a period of 0.    *)
Required == Record \cap {"wifi", "mqtt", "period"}

TypeOK ==
  /\ flash \in [Record -> Value \cup {Absent}]
  /\ main \in [pc : {"boot", "read", "default", "proceed", "run", "config"},
               at : 1 .. Len(BootReads), tries : 0 .. AuthAttempts - 1]
  /\ loaded \in [Record -> Value \cup {Absent}]
  /\ shell \in [pc : {"prompt", "read", "default"}, at : 1 .. Len(PrintReads)]
  /\ commands \in 0 .. MaxCommands /\ faults \in 0 .. MaxFaults
  /\ wanted \in [Record -> Value \cup {Absent}]
  /\ lost \in [Record -> Nat] /\ misread \in [Record -> Nat]

PowerOn == [pc |-> "boot", at |-> 1, tries |-> 0]
Prompt  == [pc |-> "prompt", at |-> 1]

Init == /\ flash = [r \in Record |-> Absent] /\ loaded = flash
        /\ main = PowerOn /\ shell = Prompt
        /\ commands = 0 /\ faults = 0
        /\ wanted = flash /\ lost = [r \in Record |-> 0]
        /\ misread = lost

-----------------------------------------------------------------------------
(* The flash file system *)

Mounted == main.pc # "boot"

Fault == faults < MaxFaults /\ faults' = faults + 1

(* The period is written as the eight bytes at the address of a uint32_t:    *)
(* of four of them nobody knows whether they are the ones already stored.    *)
Written(r, v) == /\ Mounted /\ (flash[r] # v \/ r = "period")
                 /\ flash' = [flash EXCEPT ![r] = v] /\ UNCHANGED faults
Unchanged(r, v) == Mounted /\ flash[r] = v /\ UNCHANGED <<flash, faults>>
WriteFails == /\ IF Mounted THEN Fault ELSE UNCHANGED faults
              /\ UNCHANGED flash

(* The getters take every result of nvs_read that is not a length for a      *)
(* missing record.                                                           *)
Found(r) == Mounted /\ flash[r] # Absent /\ UNCHANGED <<faults, misread>>
Missing(r) ==
  \/ flash[r] = Absent /\ UNCHANGED <<faults, misread>>
  \/ /\ flash[r] # Absent
     /\ misread' = [misread EXCEPT ![r] = @ + 1]
     /\ IF Mounted THEN Fault ELSE UNCHANGED faults

(* The result of nvs_write is only logged.                                   *)
StoreDefault(r) ==
  \/ /\ Written(r, Default)
     /\ IF wanted[r] \in {Absent, Default}
        THEN UNCHANGED <<wanted, lost>>
        ELSE /\ lost' = [lost EXCEPT ![r] = @ + 1]
             /\ wanted' = [wanted EXCEPT ![r] = Absent]
  \/ (Unchanged(r, Default) \/ WriteFails) /\ UNCHANGED <<wanted, lost>>

(* The setters return 0 for the length of the value and -EIO for anything    *)
(* else, the 0 of a value that was there included.                           *)
SetSucceeds(r, v) == Written(r, v)
SetFails(r, v) == Unchanged(r, v) \/ WriteFails

-----------------------------------------------------------------------------
(* main *)

Setting == BootReads[main.at]

(* nvs_data_init (the boot counter, which is only logged, is left out); with *)
(* the button pressed main reads nothing and only feeds the watchdog.        *)
NvsInit ==
  /\ main.pc = "boot"
  /\ \/ main' = [main EXCEPT !.pc = "read"] /\ UNCHANGED faults
     \/ main' = [main EXCEPT !.pc = "config"] /\ Fault
  /\ UNCHANGED <<flash, loaded, shell, commands, history>>

ReadSetting ==
  /\ main.pc = "read"
  /\ \/ /\ Found(Setting)
        /\ main' = [main EXCEPT !.pc = "proceed"]
        /\ loaded' = [loaded EXCEPT ![Setting] = flash[Setting]]
     \/ /\ Missing(Setting)
        /\ main' = [main EXCEPT !.pc = "default"]
        /\ loaded' = [loaded EXCEPT ![Setting] = Default]
  /\ UNCHANGED <<flash, shell, commands, wanted, lost>>

DefaultSetting ==
  /\ main.pc = "default"
  /\ StoreDefault(Setting)
  /\ main' = [main EXCEPT !.pc = "proceed"]
  /\ UNCHANGED <<loaded, shell, commands, misread>>

(* wifi_net_init after the first record, mqtt_worker_init and timestamp_init *)
(* after the second, nothing after the others but the authorization after    *)
(* the last, which begins the loop.                                          *)
Works == Setting \in {"wifi", "mqtt"} => loaded[Setting] \in Good

Proceed ==
  /\ main.pc = "proceed" /\ Works
  /\ main' = IF main.at < Len(BootReads)
             THEN [main EXCEPT !.pc = "read", !.at = @ + 1]
             ELSE [main EXCEPT !.pc = "run"]
  /\ UNCHANGED <<flash, loaded, shell, commands, faults, history>>

(* Mutant: the attempts are counted one too far.                             *)
AuthorizeFailsAgain ==
  /\ main.pc = "proceed" /\ main.at = Len(BootReads)
  /\ main.tries < AuthAttempts
  /\ Fault
  /\ main' = [pc |-> "read", at |-> Identity, tries |-> main.tries + 1]
  /\ UNCHANGED <<flash, loaded, shell, commands, history>>
(* A publication of the identity that fails is tried again with the          *)
(* records read again.                                                       *)
AuthorizeFails ==
  /\ main.pc = "proceed" /\ main.at = Len(BootReads)
  /\ main.tries < AuthAttempts - 1
  /\ Fault
  /\ main' = [pc |-> "read", at |-> Identity, tries |-> main.tries + 1]
  /\ UNCHANGED <<flash, loaded, shell, commands, history>>

Restart == /\ main' = PowerOn /\ loaded' = [r \in Record |-> Absent]
           /\ shell' = Prompt
           /\ UNCHANGED <<flash, commands, wanted, lost, misread>>

(* Mutant: wifi_net_init does not count its rounds and never resets.         *)
GiveUpOnBroker ==
  /\ main.pc = "proceed" /\ Setting = "mqtt" /\ ~Works
  /\ Restart /\ UNCHANGED faults
(* The time-out of wifi_net_init, the failed assertion of mqtt_worker_init.  *)
GiveUp ==
  /\ main.pc = "proceed" /\ ~Works
  /\ Restart /\ UNCHANGED faults

(* wlab_process divides by the period when a reading of the sensor has       *)
(* succeeded; until then a period of 0 does no harm.  The first such sample  *)
(* is the last, since the fault halts the station until the watchdog resets. *)
FirstSample ==
  /\ main.pc = "run" /\ "period" \in Record /\ loaded["period"] \notin Good
  /\ Restart /\ UNCHANGED faults

(* Power, the watchdog, an attempt too many: at any time.                    *)
Crash == main.pc # "boot" /\ Fault /\ Restart

-----------------------------------------------------------------------------
(* The shell thread, started before main: a command may even come before     *)
(* the file system is mounted.  A command with a wrong number of arguments   *)
(* changes nothing and is left out.                                          *)

Type == shell.pc = "prompt" /\ commands < MaxCommands /\ commands' = commands + 1

(* Mutant: the result of nvs_write is not looked at.                         *)
CommandAlwaysOk(r, v) ==
  /\ Type
  /\ SetSucceeds(r, v) \/ SetFails(r, v)
  /\ wanted' = [wanted EXCEPT ![r] = v]
  /\ UNCHANGED <<main, loaded, shell, lost, misread>>
(* wificonf, mqttconf, wlabid, wlabname, wlabpubp and wlabgpsp: "OK!" when   *)
(* the setter stored the value, "Failed!" otherwise, also when it was there. *)
Command(r, v) ==
  /\ Type
  /\ \/ /\ SetSucceeds(r, v)
        /\ wanted' = [wanted EXCEPT ![r] = v]
     \/ SetFails(r, v) /\ UNCHANGED wanted
  /\ UNCHANGED <<main, loaded, shell, lost, misread>>

Printed == PrintReads[shell.at]

NextPrinted == IF shell.at < Len(PrintReads)
               THEN [pc |-> "read", at |-> shell.at + 1] ELSE Prompt

(* pconfig *)
PrintConfig == /\ Type /\ shell' = [pc |-> "read", at |-> 1]
               /\ UNCHANGED <<flash, main, loaded, faults, history>>

PrintRecord ==
  /\ shell.pc = "read"
  /\ \/ Found(Printed) /\ shell' = NextPrinted
     \/ Missing(Printed) /\ shell' = [shell EXCEPT !.pc = "default"]
  /\ UNCHANGED <<flash, main, loaded, commands, wanted, lost>>

PrintDefault ==
  /\ shell.pc = "default"
  /\ StoreDefault(Printed)
  /\ shell' = NextPrinted
  /\ UNCHANGED <<main, loaded, commands, misread>>

-----------------------------------------------------------------------------
MainStep == NvsInit \/ ReadSetting \/ DefaultSetting \/ Proceed \/ GiveUp
Shell == \/ \E r \in Record, v \in Value : Command(r, v)
         \/ PrintConfig \/ PrintRecord \/ PrintDefault

Next == MainStep \/ FirstSample \/ AuthorizeFails \/ Crash \/ Shell

Spec == Init /\ [][Next]_vars

(* main is never kept from running for good; the shell may be.  Nothing says *)
(* that the sensor answers: FirstSample may never happen.                    *)
FairSpec == Spec /\ WF_vars(MainStep)

-----------------------------------------------------------------------------
(* A getter that finds no record stores the default later, and a command     *)
(* answered "OK!" in between is lost; so is one whose record cannot be read. *)
(* The first happens once for a record at most, whatever pconfig, resets and *)
(* failed writes do, so that losses and errors of nvs_read can be told one   *)
(* for one; otherwise flash holds what was last answered "OK!".              *)
LossesAccounted ==
  \A r \in Record : /\ lost[r] <= misread[r] + 1
                    /\ wanted[r] # Absent => flash[r] = wanted[r]

(* A new station resets again and again.  Once flash holds settings that     *)
(* work it gets to its loop with settings that work, whenever in a boot they *)
(* were typed; or somebody has pressed the button.  That takes a sensor that *)
(* is read with success some time: without it a station that has loaded a    *)
(* period of 0 goes on for ever and never looks at the new one.              *)
Configured == \A r \in Required : flash[r] \in Good
Running    == main.pc = "run" /\ \A r \in Required : loaded[r] \in Good
SensorAnswers == WF_vars(FirstSample)
Provisioned ==
  SensorAnswers => (<>[]Configured => <>[](Running \/ main.pc = "config"))
=============================================================================
