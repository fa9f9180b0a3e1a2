------------------------------ MODULE MinePump ------------------------------
(***************************************************************************)
(* The mine pump of IN_BE_Pump/minepump.c: two periodic tasks read the     *)
(* sensors, a sporadic task commands the pump and the alarm at each        *)
(* methane dispatch, a fourth task outputs the alarm.  They share two      *)
(* integers (minteger.c), a semaphore and a message box.                   *)
(*                                                                         *)
(* The box is the one of MessageBox, which MsgBox implements.  A call of   *)
(* the simulator or of an m_integer is one step: it makes one access,      *)
(* under a mutex.  The steps of the tasks interleave in every way: no      *)
(* priority and no period is assumed.                                      *)
(***************************************************************************)
EXTENDS Integers

CONSTANTS
  Builds,       \* the builds considered: TRUE is the one with __SIMU_SOCKET__, the GUI
  Readings,     \* what the methane sensor of the GUI may return
  NULL,         \* the message box is empty
  MaxPosts,     \* for each build, a bound on the posts of synchro that PumpCtrl has not taken
  MaxBehind     \* without the GUI: bound on the water dispatches between two CmdPump

ASSUME MinePumpAssumption ==
  /\ Builds \subseteq BOOLEAN
  /\ Readings \subseteq 0..255
  /\ NULL \notin {0, 1}
  /\ MaxPosts \in [BOOLEAN -> Nat \ {0}]
  /\ MaxBehind \in Nat \ {0}

Normal == 0
Alarm1 == 1
Alarm2 == 2
LowLevel == 0
HighLevel == 1

VARIABLES
  gui,                         \* the build: are the sensors those of minepump.tcl?
  water, pump, alarm,          \* simu.c: WaterLevel_Value, CmdPump_Value, the last value CmdAlarm was called with
  lvlWater, lvlMeth,           \* the two m_integers
  synchro,                     \* the value of the semaphore
  mbox,                        \* what mbox_alarm holds
  pcWater, level,              \* WaterLevelMonitoring_Body
  pcMeth, methLevel,           \* MethaneMonitoring_Body
  pcCtrl, niveauAlarme, niveauEau, \* PumpCtrl_Body
  pcAlarm, value,              \* CmdAlarm_Body
  behind                       \* history: water dispatches since the last CmdPump

waterTask == <<pcWater, level>>
methTask == <<pcMeth, methLevel>>
ctrlTask == <<pcCtrl, niveauAlarme, niveauEau>>
alarmTask == <<pcAlarm, value>>
shared == <<lvlWater, lvlMeth, synchro, mbox>>
vars == <<gui, water, pump, alarm, shared, waterTask, methTask, ctrlTask, alarmTask, behind>>

Init ==
  /\ gui \in Builds
  /\ water = 50
  /\ pump = 0 /\ alarm = 0
  /\ lvlWater = LowLevel /\ lvlMeth = Normal
  /\ synchro = 0 /\ mbox = NULL
  /\ pcWater = "hls" /\ level = LowLevel
  /\ pcMeth = "ms" /\ methLevel = Normal
  /\ pcCtrl = "sem" /\ niveauAlarme = Normal /\ niveauEau = LowLevel
  /\ pcAlarm = "receive" /\ value = 0
  /\ behind = 0

-----------------------------------------------------------------------------
(* The sensors                                                             *)

\* ReadHLS: without the GUI a read also moves the water, by a byte's arithmetic.
NextWater == IF gui THEN water ELSE (water - 4 * pump + 2) % 256
HLSReadings == IF gui THEN {0, 1} ELSE {IF NextWater > 150 THEN 1 ELSE 0}

\* ReadLLS
LLSReadings == IF gui THEN {0, 1} ELSE {IF water > 80 THEN 1 ELSE 0}

\* ReadMS without the GUI: the byte b moves by b_increment, which turns at 100 and at 40;
\* Ramp[k] is the state after k reads, and comes back after 60 more.
Ramp[k \in Nat] ==
  IF k = 0 THEN [b |-> 50, increment |-> 2]
  ELSE LET old == Ramp[k - 1]
           new == (old.b + old.increment) % 256
       IN  [b |-> new,
            increment |-> IF new \in {100, 40} THEN (256 - old.increment) % 256
                                              ELSE old.increment]

SimulatedReadings == {Ramp[k].b : k \in 1..60}

\* The ramp turns before Alarm2.  This restricts nothing: it is a value, which TLC
\* computes in every run and which the proofs, having no induction, take from here.
ASSUME RampAssumption == SimulatedReadings \subseteq 40..100

\* The steps of the other tasks fall anywhere on the ramp: any value of it may come.
MSReadings == IF gui THEN Readings ELSE SimulatedReadings

Classify(ms) == IF ms > 100 THEN Alarm2 ELSE IF ms > 70 THEN Alarm1 ELSE Normal

-----------------------------------------------------------------------------
(* WaterLevelMonitoring_Body                                               *)

\* A dispatch begins.
ReadHLS ==
  /\ pcWater = "hls"
  /\ gui \/ behind < MaxBehind
  /\ behind' = IF gui THEN 0 ELSE behind + 1
  /\ water' = NextWater
  /\ \E b \in HLSReadings :
       IF b = 1 THEN pcWater' = "write" /\ level' = HighLevel
                ELSE pcWater' = "lls" /\ level' = LowLevel
  /\ UNCHANGED <<gui, pump, alarm, shared, methTask, ctrlTask, alarmTask>>

\* Fault: the level is low as soon as it is not high.
ReadLLS_NoHysteresis ==
  /\ pcWater = "lls"
  /\ pcWater' = "write"
  /\ UNCHANGED <<gui, water, pump, alarm, shared, level, methTask, ctrlTask, alarmTask, behind>>

\* Between the two sensors LvlWater keeps its value.
ReadLLS ==
  /\ pcWater = "lls"
  /\ \E b \in LLSReadings : pcWater' = IF b = 0 THEN "write" ELSE "hls"
  /\ UNCHANGED <<gui, water, pump, alarm, shared, level, methTask, ctrlTask, alarmTask, behind>>

WriteWater ==
  /\ pcWater = "write" /\ pcWater' = "hls"
  /\ lvlWater' = level
  /\ level' = LowLevel
  /\ UNCHANGED <<gui, water, pump, alarm, lvlMeth, synchro, mbox, methTask, ctrlTask, alarmTask,
                 behind>>

-----------------------------------------------------------------------------
(* MethaneMonitoring_Body                                                  *)

ReadMS ==
  /\ pcMeth = "ms" /\ pcMeth' = "write"
  /\ synchro < MaxPosts[gui]
  /\ methLevel' \in {Classify(ms) : ms \in MSReadings}
  /\ UNCHANGED <<gui, water, pump, alarm, shared, waterTask, ctrlTask, alarmTask, behind>>

WriteMeth ==
  /\ pcMeth = "write" /\ pcMeth' = "post"
  /\ lvlMeth' = methLevel
  /\ UNCHANGED <<gui, water, pump, alarm, lvlWater, synchro, mbox, methLevel, waterTask, ctrlTask,
                 alarmTask, behind>>

\* sem_post(&synchro)
Post ==
  /\ pcMeth = "post" /\ pcMeth' = "ms"
  /\ synchro' = synchro + 1
  /\ methLevel' = Normal
  /\ UNCHANGED <<gui, water, pump, alarm, lvlWater, lvlMeth, mbox, waterTask, ctrlTask, alarmTask,
                 behind>>

-----------------------------------------------------------------------------
(* PumpCtrl_Body                                                           *)

SemWait ==
  /\ pcCtrl = "sem" /\ pcCtrl' = "meth"
  /\ synchro > 0 /\ synchro' = synchro - 1
  /\ UNCHANGED <<gui, water, pump, alarm, lvlWater, lvlMeth, mbox, waterTask, methTask, niveauAlarme,
                 niveauEau, alarmTask, behind>>

ReadMethLevel ==
  /\ pcCtrl = "meth" /\ pcCtrl' = "water"
  /\ niveauAlarme' = lvlMeth
  /\ UNCHANGED <<gui, water, pump, alarm, shared, waterTask, methTask, niveauEau, alarmTask, behind>>

ReadWaterLevel ==
  /\ pcCtrl = "water" /\ pcCtrl' = "send"
  /\ niveauEau' = lvlWater
  /\ UNCHANGED <<gui, water, pump, alarm, shared, waterTask, methTask, niveauAlarme, alarmTask, behind>>

\* Fault: only Alarm2 raises the alarm.
SendAlarm_Alarm2Only ==
  /\ pcCtrl = "send" /\ pcCtrl' = "cmd"
  /\ mbox' = IF niveauAlarme = Alarm2 THEN 1 ELSE 0
  /\ UNCHANGED <<gui, water, pump, alarm, lvlWater, lvlMeth, synchro, waterTask, methTask, niveauAlarme,
                 niveauEau, alarmTask, behind>>

\* msg_box_send overwrites what the box holds.
SendAlarm ==
  /\ pcCtrl = "send" /\ pcCtrl' = "cmd"
  /\ mbox' = IF niveauAlarme # Normal THEN 1 ELSE 0
  /\ UNCHANGED <<gui, water, pump, alarm, lvlWater, lvlMeth, synchro, waterTask, methTask, niveauAlarme,
                 niveauEau, alarmTask, behind>>

\* Fault: the branch for a low water level is missing, so that cmd keeps its value.
Decision_NeverOff ==
  IF niveauAlarme = Alarm2 THEN 0 ELSE IF niveauEau = HighLevel THEN 1 ELSE pump

\* cmd keeps its value only for a level that is neither high nor low: there is none.
Decision ==
  IF niveauAlarme = Alarm2 THEN 0 ELSE IF niveauEau = HighLevel THEN 1 ELSE 0

\* The levels read are dead until the next cycle reads them again.
CmdPump ==
  /\ pcCtrl = "cmd" /\ pcCtrl' = "sem"
  /\ pump' = Decision
  /\ niveauAlarme' = Normal /\ niveauEau' = LowLevel
  /\ behind' = 0
  /\ UNCHANGED <<gui, water, alarm, shared, waterTask, methTask, alarmTask>>

-----------------------------------------------------------------------------
(* CmdAlarm_Body                                                           *)

ReceiveAlarm ==
  /\ pcAlarm = "receive" /\ pcAlarm' = "output"
  /\ mbox # NULL
  /\ value' = mbox
  /\ mbox' = NULL
  /\ UNCHANGED <<gui, water, pump, alarm, lvlWater, lvlMeth, synchro, waterTask, methTask, ctrlTask, behind>>

\* The value is dead until the next message overwrites it.
CmdAlarm ==
  /\ pcAlarm = "output" /\ pcAlarm' = "receive"
  /\ alarm' = value
  /\ value' = 0
  /\ UNCHANGED <<gui, water, pump, shared, waterTask, methTask, ctrlTask, behind>>

-----------------------------------------------------------------------------
WaterLevelMonitoring == ReadHLS \/ ReadLLS \/ WriteWater

\* Fault: the dispatch posts first and writes the level afterwards.
MethaneMonitoring_PostsFirst ==
  \/ ReadMS
  \/ /\ pcMeth = "write" /\ pcMeth' = "post"
     /\ synchro' = synchro + 1
     /\ UNCHANGED <<gui, water, pump, alarm, lvlWater, lvlMeth, mbox, methLevel, waterTask, ctrlTask,
                    alarmTask, behind>>
  \/ /\ pcMeth = "post" /\ pcMeth' = "ms"
     /\ lvlMeth' = methLevel
     /\ UNCHANGED <<gui, water, pump, alarm, lvlWater, synchro, mbox, methLevel, waterTask, ctrlTask,
                    alarmTask, behind>>

MethaneMonitoring == ReadMS \/ WriteMeth \/ Post
PumpCtrl == SemWait \/ ReadMethLevel \/ ReadWaterLevel \/ SendAlarm \/ CmdPump
AlarmTask == ReceiveAlarm \/ CmdAlarm

Next == WaterLevelMonitoring \/ MethaneMonitoring \/ PumpCtrl \/ AlarmTask

Spec == Init /\ [][Next]_vars

\* Every task that can run does at some time: the two periodic ones are released by
\* the clock, and together they do not use the whole processor.
Fairness ==
  /\ WF_vars(WaterLevelMonitoring) /\ WF_vars(MethaneMonitoring)
  /\ WF_vars(PumpCtrl) /\ WF_vars(AlarmTask)
FairSpec == Spec /\ Fairness

-----------------------------------------------------------------------------
TypeOK ==
  /\ gui \in BOOLEAN /\ water \in 0..255
  /\ pump \in {0, 1} /\ alarm \in {0, 1}
  /\ lvlWater \in {LowLevel, HighLevel} /\ lvlMeth \in {Normal, Alarm1, Alarm2}
  /\ synchro \in 0..MaxPosts[gui]
  /\ mbox \in {NULL, 0, 1}
  /\ pcWater \in {"hls", "lls", "write"} /\ level \in {LowLevel, HighLevel}
  /\ pcMeth \in {"ms", "write", "post"} /\ methLevel \in {Normal, Alarm1, Alarm2}
  /\ pcCtrl \in {"sem", "meth", "water", "send", "cmd"}
  /\ niveauAlarme \in {Normal, Alarm1, Alarm2} /\ niveauEau \in {LowLevel, HighLevel}
  /\ pcAlarm \in {"receive", "output"} /\ value \in {0, 1}
  /\ behind \in 0..MaxBehind

\* PumpCtrl has taken every post and completed its cycle, and none is about to come.
Answered == synchro = 0 /\ pcCtrl = "sem" /\ pcMeth # "post"

\* Whenever every post has been answered, the pump is off if the methane level is
\* Alarm2: no order of the writes, posts and reads lets an alarm go unnoticed.
PumpOffInAlarm == Answered /\ lvlMeth = Alarm2 => pump = 0

\* ... and once the box is empty too, the alarm output says what the methane level is,
\* although the messages in between may have been overwritten.
AlarmTellsLevel ==
  Answered /\ mbox = NULL /\ pcAlarm = "receive" =>
    alarm = IF lvlMeth # Normal THEN 1 ELSE 0

\* The alarm sounds, unless the level falls before.
AlarmSounds == lvlMeth # Normal ~> alarm = 1 \/ lvlMeth = Normal

-----------------------------------------------------------------------------
(* The closed loop, without the GUI                                        *)

\* How far the water goes beyond a sensor before the pump answers: the read that sees
\* it, then MaxBehind dispatches until PumpCtrl commands from a value read before, and
\* MaxBehind more until it commands from the new one; two units each.
Slack == 2 * (2 * MaxBehind + 1)

\* The water never leaves the sensors' band by more than the lag of PumpCtrl explains;
\* in particular the byte never wraps.
WaterInBand ==
  ~gui => water <= 150 + Slack /\ (lvlWater = HighLevel \/ pump = 1 => water > 80 - Slack)

\* The pump really drains the mine: high water gets down to the low sensor.
MineIsDrained == water > 150 ~> water <= 80

=============================================================================
