--------------------------- MODULE MinePumpProofs ---------------------------
(***************************************************************************)
(* Theorems about MinePump, for sensors that read anything, for the        *)
(* simulated ones, and for any bound on the posts.                         *)
(*                                                                         *)
(* What holds when every post is answered is not inductive: it has to be   *)
(* said of every moment of a cycle.  While no new level waits to be read,  *)
(* the level PumpCtrl works with is the present one, and so is the value   *)
(* on its way to the alarm.                                                *)
(***************************************************************************)
EXTENDS MinePump, TLAPS

\* PumpCtrl is going to read the methane level after its last change.
ReadToCome == synchro > 0 \/ pcMeth = "post" \/ pcCtrl = "meth"

\* What the alarm output is, or will be when nothing more is sent.
OnItsWay == IF mbox # NULL THEN mbox ELSE IF pcAlarm = "output" THEN value ELSE alarm

AlarmOf(lvl) == IF lvl # Normal THEN 1 ELSE 0

UpToDate ==
  ~ReadToCome =>
    /\ pcCtrl \in {"water", "send", "cmd"} => niveauAlarme = lvlMeth
    /\ pcCtrl \in {"cmd", "sem"} => OnItsWay = AlarmOf(lvlMeth)
    /\ pcCtrl = "sem" /\ lvlMeth = Alarm2 => pump = 0

\* A dispatch of the methane task began when there was room for its post.
RoomForPost == pcMeth # "ms" => synchro < MaxPosts[gui]

PumpInv == TypeOK /\ RoomForPost /\ UpToDate

LEMMA PumpInvInit == Init => PumpInv
BY MinePumpAssumption
DEF Init, PumpInv, TypeOK, RoomForPost, UpToDate, ReadToCome, OnItsWay, AlarmOf, Normal, Alarm1, Alarm2,
    LowLevel, HighLevel

\* Every variable keeps its type over a step; the simulated water is a byte.
LEMMA TypeOKNext == TypeOK /\ RoomForPost /\ [Next]_vars => TypeOK' /\ RoomForPost'
<1> SUFFICES ASSUME TypeOK, RoomForPost, [Next]_vars PROVE TypeOK' /\ RoomForPost'
  OBVIOUS
<1> USE MinePumpAssumption DEF TypeOK, RoomForPost, shared, waterTask, methTask, ctrlTask, alarmTask
<1>1. CASE ReadHLS
  <2>1. NextWater \in 0..255
    BY DEF NextWater
  <2>2. behind' \in 0..MaxBehind
    BY <1>1 DEF ReadHLS
  <2> QED BY <1>1, <2>1, <2>2 DEF ReadHLS
<1>2. CASE ReadLLS \/ WriteWater
  BY <1>2 DEF ReadLLS, WriteWater
<1>3. CASE ReadMS
  <2>1. PICK ms : methLevel' = Classify(ms)
    BY <1>3 DEF ReadMS
  <2>2. methLevel' \in {Normal, Alarm1, Alarm2}
    BY <2>1 DEF Classify
  <2> QED BY <1>3, <2>2 DEF ReadMS
<1>4. CASE WriteMeth
  BY <1>4 DEF WriteMeth
<1>5. CASE Post
  BY <1>5 DEF Post
<1>6. CASE SemWait \/ ReadMethLevel \/ ReadWaterLevel \/ SendAlarm
  BY <1>6 DEF SemWait, ReadMethLevel, ReadWaterLevel, SendAlarm
<1>7. CASE CmdPump
  BY <1>7 DEF CmdPump, Decision
<1>8. CASE AlarmTask
  BY <1>8 DEF AlarmTask, ReceiveAlarm, CmdAlarm
<1>9. CASE UNCHANGED vars
  BY <1>9 DEF vars
<1> QED BY <1>1, <1>2, <1>3, <1>4, <1>5, <1>6, <1>7, <1>8, <1>9
  DEF Next, WaterLevelMonitoring, MethaneMonitoring, PumpCtrl

LEMMA UpToDateNext == PumpInv /\ [Next]_vars => UpToDate'
<1> SUFFICES ASSUME TypeOK, UpToDate, [Next]_vars PROVE UpToDate'
  BY DEF PumpInv
<1> USE MinePumpAssumption DEF TypeOK, UpToDate, ReadToCome, OnItsWay, shared, waterTask,
    methTask, ctrlTask, alarmTask
<1>1. CASE ReadHLS \/ ReadLLS \/ WriteWater
  BY <1>1 DEF ReadHLS, ReadLLS, WriteWater
<1>2. CASE ReadMS \/ WriteMeth \/ Post
  BY <1>2 DEF ReadMS, WriteMeth, Post
<1>3. CASE SemWait \/ ReadMethLevel \/ ReadWaterLevel
  BY <1>3 DEF SemWait, ReadMethLevel, ReadWaterLevel
<1>4. CASE SendAlarm
  BY <1>4 DEF SendAlarm, AlarmOf
<1>5. CASE CmdPump
  BY <1>5 DEF CmdPump, Decision
<1>6. CASE ReceiveAlarm \/ CmdAlarm
  BY <1>6 DEF ReceiveAlarm, CmdAlarm
<1>7. CASE UNCHANGED vars
  BY <1>7 DEF vars
<1> QED BY <1>1, <1>2, <1>3, <1>4, <1>5, <1>6, <1>7
  DEF Next, WaterLevelMonitoring, MethaneMonitoring, PumpCtrl, AlarmTask

LEMMA PumpInvAlways == Spec => []PumpInv
<1>1. PumpInv /\ [Next]_vars => PumpInv'
  BY TypeOKNext, UpToDateNext DEF PumpInv
<1> QED BY PumpInvInit, <1>1, PTL DEF Spec

-----------------------------------------------------------------------------
\* Every variable keeps its type.  For the simulated water and methane this is the
\* arithmetic of a byte.
THEOREM PumpTypeCorrect == Spec => []TypeOK
<1>1. PumpInv => TypeOK
  BY DEF PumpInv
<1> QED BY <1>1, PumpInvAlways, PTL

\* minepump.c misses no Alarm2: when all posts are answered, the pump is off.
THEOREM NoAlarmIsMissed == Spec => []PumpOffInAlarm
<1>1. PumpInv => PumpOffInAlarm
  BY DEF PumpInv, UpToDate, ReadToCome, PumpOffInAlarm, Answered
<1> QED BY <1>1, PumpInvAlways, PTL

\* The alarm output ends up right, although the box overwrites messages.
THEOREM AlarmIsRight == Spec => []AlarmTellsLevel
<1>1. PumpInv => AlarmTellsLevel
  BY DEF PumpInv, UpToDate, ReadToCome, OnItsWay, AlarmOf, AlarmTellsLevel, Answered
<1> QED BY <1>1, PumpInvAlways, PTL

-----------------------------------------------------------------------------
(***************************************************************************)
(* The closed loop.  Where the water may be depends on whether the last    *)
(* level written is the one that PumpCtrl acts upon.  A stale level costs  *)
(* up to MaxBehind dispatches, and the next cycle, which acts upon the     *)
(* right one, as many again; behind tells how many of them have come.      *)
(* Twenty dispatches would suffice to let the byte wrap.                   *)
(***************************************************************************)
High == lvlWater = HighLevel
HasRead(lvl) == pcCtrl \in {"send", "cmd"} /\ niveauEau = lvl

\* What WaterLevelMonitoring is about to write is what it has seen.
Seen ==
  /\ pcWater = "lls" => water <= 150
  /\ pcWater # "write" => level = LowLevel
  /\ pcWater = "write" => IF level = HighLevel THEN water > 150 ELSE water <= 80

\* The simulated methane stays below Alarm2; niveauEau is dead between two cycles.
Quiet ==
  /\ Alarm2 \notin {lvlMeth, methLevel, niveauAlarme}
  /\ pcCtrl \notin {"send", "cmd"} => niveauEau = LowLevel

\* The pump is off: the water rises.
Rising ==
  /\ High => water > 150
  /\ niveauEau = HighLevel => High
  /\ water <= IF ~High THEN IF pcWater = "write" /\ level = HighLevel THEN 152 ELSE 150
              ELSE IF HasRead(LowLevel) THEN 152 + 2 * behind
              ELSE 152 + 2 * MaxBehind + 2 * behind

\* The pump is on: the water falls.
Falling ==
  /\ ~High => water <= 80
  /\ HasRead(LowLevel) => ~High
  /\ water > IF High THEN IF pcWater = "hls" THEN 80 ELSE 78
             ELSE IF HasRead(HighLevel) THEN 78 - 2 * behind
             ELSE 78 - 2 * MaxBehind - 2 * behind
  /\ water <= 152 + 4 * MaxBehind

WaterInv ==
  ~gui => Seen /\ Quiet /\ (pump = 0 => Rising) /\ (pump = 1 => Falling)

LEMMA WaterInvInit == ASSUME MaxBehind <= 19 PROVE Init => WaterInv
BY MinePumpAssumption
DEF Init, WaterInv, Seen, Quiet, Rising, Falling, High, HasRead, Normal, Alarm1, Alarm2,
    LowLevel, HighLevel

LEMMA WaterInvNext ==
  ASSUME MaxBehind <= 19, TypeOK, WaterInv, [Next]_vars
  PROVE  WaterInv'
<1>g. gui' = gui
  BY DEF Next, WaterLevelMonitoring, ReadHLS, ReadLLS, WriteWater, MethaneMonitoring, ReadMS,
     WriteMeth, Post, PumpCtrl, SemWait, ReadMethLevel, ReadWaterLevel, SendAlarm, CmdPump,
     AlarmTask, ReceiveAlarm, CmdAlarm, vars
<1> SUFFICES ASSUME ~gui PROVE WaterInv'
  BY <1>g DEF WaterInv
<1> USE MinePumpAssumption DEF TypeOK, WaterInv, High, HasRead, LowLevel, HighLevel,
      Normal, Alarm1, Alarm2
<1>m. MaxBehind \in Nat \ {0} /\ MaxBehind <= 19 /\ behind \in 0..MaxBehind /\ water \in 0..255
  OBVIOUS
<1>1. CASE ReadHLS
  <2>1. /\ pcWater = "hls" /\ behind < MaxBehind /\ behind' = behind + 1
        /\ IF water' > 150 THEN pcWater' = "write" /\ level' = HighLevel
                           ELSE pcWater' = "lls" /\ level' = LowLevel
        /\ UNCHANGED <<pump, lvlWater, lvlMeth, methLevel, pcCtrl, niveauAlarme, niveauEau>>
    BY <1>1 DEF ReadHLS, NextWater, HLSReadings, shared, methTask, ctrlTask
  <2>2. water' = (water - 4 * pump + 2) % 256
    BY <1>1 DEF ReadHLS, NextWater
  <2>3. CASE pump = 0
    <3>1. Rising /\ water <= 228
      BY <1>m, <2>1, <2>3 DEF Rising
    <3>2. water' = water + 2
      BY <2>2, <2>3, <3>1
    <3>3. Rising'
      BY <1>m, <2>1, <3>1, <3>2 DEF Rising
    <3> QED BY <2>1, <2>3, <3>2, <3>3 DEF Seen, Quiet
  <2>4. CASE pump = 1
    <3>1. Falling /\ water >= 2
      BY <1>m, <2>1, <2>4 DEF Falling
    <3>2. water' = water - 2
      BY <2>2, <2>4, <3>1
    <3>3. Falling'
      BY <1>m, <2>1, <3>1, <3>2 DEF Falling
    <3> QED BY <2>1, <2>4, <3>2, <3>3 DEF Seen, Quiet
  <2> QED BY <2>3, <2>4
<1>2. CASE ReadLLS
  <2>1. /\ pcWater = "lls" /\ pcWater' = IF water <= 80 THEN "write" ELSE "hls"
        /\ UNCHANGED <<water, pump, lvlWater, lvlMeth, level, methLevel, pcCtrl,
                       niveauAlarme, niveauEau, behind>>
    BY <1>2 DEF ReadLLS, LLSReadings, shared, methTask, ctrlTask
  <2>2. Seen' /\ Quiet'
    BY <2>1 DEF Seen, Quiet
  <2>3. pump = 0 => Rising'
    BY <1>m, <2>1 DEF Rising, Seen
  <2>4. pump = 1 => Falling'
    BY <1>m, <2>1 DEF Falling, Seen
  <2> QED BY <2>1, <2>2, <2>3, <2>4
<1>3. CASE WriteWater
  <2>1. /\ pcWater = "write" /\ pcWater' = "hls" /\ lvlWater' = level /\ level' = LowLevel
        /\ UNCHANGED <<water, pump, lvlMeth, methLevel, pcCtrl, niveauAlarme, niveauEau,
                       behind>>
    BY <1>3 DEF WriteWater, methTask, ctrlTask
  <2>2. Seen' /\ Quiet'
    BY <2>1 DEF Seen, Quiet
  <2>3. pump = 0 => Rising'
    BY <1>m, <2>1 DEF Rising, Seen, Quiet
  <2>4. pump = 1 => Falling'
    BY <1>m, <2>1 DEF Falling, Seen, Quiet
  <2> QED BY <2>1, <2>2, <2>3, <2>4
<1>4. CASE ReadMS \/ WriteMeth \/ Post
  <2>1. methLevel' # Alarm2 /\ lvlMeth' # Alarm2
    <3>1. Quiet
      OBVIOUS
    <3>2. CASE ReadMS
      <4>1. PICK ms \in SimulatedReadings : methLevel' = Classify(ms)
        BY <3>2 DEF ReadMS, MSReadings
      <4>2. methLevel' # Alarm2
        BY <4>1, RampAssumption DEF Classify
      <4> QED BY <3>1, <3>2, <4>2 DEF ReadMS, Quiet, shared
    <3> QED BY <1>4, <3>1, <3>2 DEF WriteMeth, Post, Quiet
  <2>2. UNCHANGED <<water, pump, lvlWater, pcWater, level, pcCtrl, niveauAlarme, niveauEau,
                    behind>>
    BY <1>4 DEF ReadMS, WriteMeth, Post, shared, waterTask, ctrlTask
  <2> QED BY <1>m, <2>1, <2>2 DEF Seen, Quiet, Rising, Falling
<1>5. CASE SemWait \/ ReadMethLevel
  <2>1. /\ pcCtrl \notin {"send", "cmd"} /\ pcCtrl' \notin {"send", "cmd"}
        /\ niveauAlarme' # Alarm2
        /\ UNCHANGED <<water, pump, lvlWater, lvlMeth, pcWater, level, methLevel, niveauEau,
                       behind>>
    BY <1>5 DEF SemWait, ReadMethLevel, Quiet, shared, waterTask, methTask
  <2> QED BY <1>m, <2>1 DEF Seen, Quiet, Rising, Falling
<1>6. CASE ReadWaterLevel
  <2>1. /\ pcCtrl = "water" /\ pcCtrl' = "send" /\ niveauEau' = lvlWater
        /\ UNCHANGED <<water, pump, lvlWater, lvlMeth, pcWater, level, methLevel,
                       niveauAlarme, behind>>
    BY <1>6 DEF ReadWaterLevel, shared, waterTask, methTask
  <2> QED BY <1>m, <2>1 DEF Seen, Quiet, Rising, Falling
<1>7. CASE SendAlarm
  <2>1. /\ pcCtrl = "send" /\ pcCtrl' = "cmd"
        /\ UNCHANGED <<water, pump, lvlWater, lvlMeth, pcWater, level, methLevel,
                       niveauAlarme, niveauEau, behind>>
    BY <1>7 DEF SendAlarm, waterTask, methTask
  <2> QED BY <1>m, <2>1 DEF Seen, Quiet, Rising, Falling
<1>8. CASE CmdPump
  <2>1. /\ pcCtrl = "cmd" /\ pcCtrl' = "sem" /\ niveauEau' = LowLevel
        /\ niveauAlarme' # Alarm2 /\ behind' = 0
        /\ pump' = IF niveauEau = HighLevel THEN 1 ELSE 0
        /\ UNCHANGED <<water, lvlWater, lvlMeth, pcWater, level, methLevel>>
    BY <1>8 DEF CmdPump, Decision, Quiet, shared, waterTask, methTask
  <2>2. Seen' /\ Quiet'
    BY <2>1 DEF Seen, Quiet
  <2>3. CASE pump = 0
    <3>1. pump' = 0 => Rising'
      BY <1>m, <2>1, <2>3 DEF Rising, Seen
    <3>2. pump' = 1 => Falling'
      BY <1>m, <2>1, <2>3 DEF Rising, Falling, Seen
    <3> QED BY <2>1, <2>2, <3>1, <3>2
  <2>4. CASE pump = 1
    <3>1. pump' = 0 => Rising'
      BY <1>m, <2>1, <2>4 DEF Rising, Falling, Seen
    <3>2. pump' = 1 => Falling'
      BY <1>m, <2>1, <2>4 DEF Falling, Seen
    <3> QED BY <2>1, <2>2, <3>1, <3>2
  <2> QED BY <2>3, <2>4
<1>9. CASE AlarmTask \/ UNCHANGED vars
  <2>1. UNCHANGED <<water, pump, lvlWater, lvlMeth, pcWater, level, methLevel, pcCtrl,
                    niveauAlarme, niveauEau, behind>>
    BY <1>9 DEF AlarmTask, ReceiveAlarm, CmdAlarm, vars, shared, waterTask, methTask, ctrlTask
  <2> QED BY <1>m, <2>1 DEF Seen, Quiet, Rising, Falling
<1> QED
  BY <1>1, <1>2, <1>3, <1>4, <1>5, <1>6, <1>7, <1>8, <1>9
  DEF Next, WaterLevelMonitoring, MethaneMonitoring, PumpCtrl

\* Without the GUI the water leaves the band of the sensors by no more than what
\* rises or falls in twice MaxBehind dispatches and the one that sees it.
THEOREM WaterStaysInBand == ASSUME MaxBehind <= 19 PROVE Spec => []WaterInBand
<1>1. PumpInv /\ WaterInv => WaterInBand
  BY MinePumpAssumption
  DEF PumpInv, TypeOK, WaterInv, Rising, Falling, High, HasRead, WaterInBand, Slack,
      LowLevel, HighLevel
<1>2. PumpInv /\ WaterInv /\ [Next]_vars => WaterInv'
  BY WaterInvNext DEF PumpInv
<1> QED BY WaterInvInit, PumpInvAlways, <1>1, <1>2, PTL DEF Spec

=============================================================================
