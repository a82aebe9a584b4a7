------------------------------- MODULE Sensor -------------------------------
(***************************************************************************)
(* The sensor firmware (tool/image_builder/freertos/apps/sensor/main.c) on *)
(* the machine's HTIF console (common/htif.c above machine/htif.dart).     *)
(*                                                                         *)
(* The sensor task has the higher priority: the logger takes a step only   *)
(* where the sensor cannot, and so is preempted between any two stores to  *)
(* the console's registers.  Ticks come between any two steps.  FreeRTOS   *)
(* itself is modelled by what its calls promise.  The console's mutex has  *)
(* one user and never blocks; it is left out.                              *)
(*                                                                         *)
(* A character is a pair: what it shows and its value.  The text of a      *)
(* number is one character.                                                *)
(***************************************************************************)
EXTENDS Integers, Sequences, SequencesExt

CONSTANTS Samples,   \* kSampleCount
          Period,    \* kSensorPeriodMs in ticks
          Depth,     \* kQueueDepth
          Temps,     \* what sample_temperature may return
          MaxTick    \* bound: ticks counted

INT32_MAX == 2147483647

ASSUME SensorAssumption ==
    /\ Samples \in Nat \ {0}
    /\ Period \in Nat \ {0}
    /\ Depth \in Nat \ {0}
    /\ Temps \subseteq 0 .. INT32_MAX
    /\ MaxTick \in Nat /\ MaxTick >= Samples * Period

VARIABLES
    tick,             \* xTaskGetTickCount
    sensor,           \* "delay", "sample", "send" or "gone"
    wake,             \* when vTaskDelayUntil returns
    pending,          \* the reading being sent
    queue,            \* reading_queue
    logger,           \* "receive", "print", "summary", "poweroff" or "off"
    stats,            \* count, min, max, sum
    text, half,       \* what is left to print, the half to be stored next
    lo, hi,           \* the device's tohost words
    console, powered, \* what the device has shown, and whether it runs
    sampled           \* history: the readings taken

sensorVars  == <<sensor, wake, pending, sampled>>
deviceVars  == <<lo, hi, console, powered>>
loggerVars  == <<logger, stats, text, half>>
vars == <<tick, sensorVars, queue, loggerVars, deviceVars>>

Zero    == <<"nul", 0>>
One     == <<"soh", 0>>
Newline == <<"nl", 0>>

Sentinel_Zero == [tick |-> 0, temp |-> 0]
Sentinel == [tick |-> 0, temp |-> -1]

NoReading == Sentinel

Init ==
    /\ tick = 0
    /\ sensor = "delay"
    /\ wake = Period
    /\ pending = NoReading
    /\ queue = <<>>
    /\ logger = "receive"
    /\ stats = [count |-> 0, min |-> INT32_MAX, max |-> 0, sum |-> 0]
    /\ text = <<>>
    /\ half = "lo"
    /\ lo = Zero /\ hi = "zero"
    /\ console = <<>>
    /\ powered = TRUE
    /\ sampled = <<>>

-----------------------------------------------------------------------------
(* The device acts on every store, of either half.                         *)

Cleared_LowOnly(l, h) == lo' = Zero /\ hi' = h
Cleared(l, h) == lo' = Zero /\ hi' = "zero"

Process(l, h) ==
    \/ h = "zero" /\ l = One /\ powered' = FALSE /\ lo' = l /\ hi' = h /\ UNCHANGED console
    \/ h = "putchar" /\ console' = Append(console, l) /\ Cleared(l, h) /\ UNCHANGED powered
    \/ h = "zero" /\ l # One /\ lo' = l /\ hi' = h /\ UNCHANGED <<console, powered>>

-----------------------------------------------------------------------------
(* The sensor task.                                                        *)

Send_NoWait(r) == queue' = IF Len(queue) < Depth THEN Append(queue, r) ELSE queue
Send(r) == Len(queue) < Depth /\ queue' = Append(queue, r)

\* vTaskDelayUntil returns at its time, or at once when it is late.
Wake ==
    /\ sensor = "delay"
    /\ tick >= wake
    /\ sensor' = "sample"
    /\ UNCHANGED <<wake, pending, sampled, queue>>

Sample ==
    /\ sensor = "sample"
    /\ \E temp \in Temps : pending' = [tick |-> tick, temp |-> temp]
    /\ sampled' = Append(sampled, pending')
    /\ sensor' = "send"
    /\ UNCHANGED <<wake, queue>>

\* xQueueSend waits for room; the next delay counts from the last, and after the
\* last sample comes the sentinel.
SendReading ==
    /\ sensor = "send"
    /\ pending # Sentinel
    /\ Send(pending)
    /\ IF Len(sampled) < Samples
       THEN sensor' = "delay" /\ wake' = wake + Period /\ UNCHANGED pending
       ELSE sensor' = "send" /\ pending' = Sentinel /\ UNCHANGED wake
    /\ UNCHANGED sampled

SendSentinel ==
    /\ sensor = "send"
    /\ pending = Sentinel
    /\ Send(pending)
    /\ sensor' = "gone"
    /\ UNCHANGED <<wake, pending, sampled>>

SensorStep ==
    /\ powered
    /\ Wake \/ Sample \/ SendReading \/ SendSentinel
    /\ UNCHANGED <<tick, loggerVars, deviceVars>>

SensorReady ==
    \/ sensor = "delay" /\ tick >= wake
    \/ sensor = "sample"
    \/ sensor = "send" /\ Len(queue) < Depth

-----------------------------------------------------------------------------
(* The logger task.                                                        *)

Line(r) == <<<<"ms", r.tick>>, <<"temp", r.temp>>, Newline>>

Summary(s) == <<<<"samples", s.count>>, <<"min", s.min>>, <<"max", s.max>>,
                <<"avg", s.sum \div s.count>>, Newline>>

Counted(s, r) ==
    [count |-> s.count + 1,
     min   |-> IF r.temp < s.min THEN r.temp ELSE s.min,
     max   |-> IF r.temp > s.max THEN r.temp ELSE s.max,
     sum   |-> s.sum + r.temp]

Receive ==
    /\ logger = "receive"
    /\ queue # <<>>
    /\ queue' = Tail(queue)
    /\ IF Head(queue).temp < 0
       THEN /\ logger' = "summary"
            /\ text' = Summary(stats)
            /\ UNCHANGED stats
       ELSE /\ logger' = "print"
            /\ text' = Line(Head(queue))
            /\ stats' = Counted(stats, Head(queue))
    /\ UNCHANGED <<half, deviceVars>>

\* htif_putchar: the low word first, then the high word with the command.
StoreLow ==
    /\ logger \in {"print", "summary"}
    /\ half = "lo"
    /\ Process(Head(text), hi)
    /\ half' = "hi"
    /\ UNCHANGED <<logger, stats, text, queue>>

StoreHigh ==
    /\ logger \in {"print", "summary"}
    /\ half = "hi"
    /\ Process(lo, "putchar")
    /\ half' = "lo"
    /\ text' = Tail(text)
    /\ logger' = IF Tail(text) # <<>> THEN logger
                 ELSE IF logger = "print" THEN "receive" ELSE "poweroff"
    /\ UNCHANGED <<stats, queue>>

\* htif_poweroff: the high word first, so that the low one completes the pair.
PowerOff ==
    /\ logger = "poweroff"
    /\ IF half = "lo" THEN Process(lo, "zero") /\ half' = "hi" /\ UNCHANGED logger
       ELSE Process(One, hi) /\ logger' = "off" /\ UNCHANGED half
    /\ UNCHANGED <<stats, text, queue>>

LoggerStep ==
    /\ powered
    /\ ~SensorReady
    /\ Receive \/ StoreLow \/ StoreHigh \/ PowerOff
    /\ UNCHANGED <<tick, sensorVars>>

Tick ==
    /\ powered
    /\ tick < MaxTick
    /\ tick' = tick + 1
    /\ UNCHANGED <<sensorVars, queue, loggerVars, deviceVars>>

\* Nothing steps once the machine is off.
Next == SensorStep \/ LoggerStep \/ Tick

Spec == Init /\ [][Next]_vars

\* The clock runs, and the processor runs the task that is ready.
FairSpec == Spec /\ WF_vars(Tick) /\ WF_vars(SensorStep) /\ WF_vars(LoggerStep)

-----------------------------------------------------------------------------
(* Properties.                                                             *)

TypeOK ==
    /\ tick \in 0 .. MaxTick
    /\ sensor \in {"delay", "sample", "send", "gone"}
    /\ Len(queue) <= Depth
    /\ logger \in {"receive", "print", "summary", "poweroff", "off"}
    /\ half \in {"lo", "hi"}
    /\ powered \in BOOLEAN
    /\ Len(sampled) <= Samples

\* What a run that sampled these readings is to show.
SmallestOf(s) == CHOOSE t \in {s[i].temp : i \in DOMAIN s} : \A i \in DOMAIN s : t <= s[i].temp
LargestOf(s)  == CHOOSE t \in {s[i].temp : i \in DOMAIN s} : \A i \in DOMAIN s : t >= s[i].temp

SumOf(s) ==
    LET total[i \in 0 .. Len(s)] == IF i = 0 THEN 0 ELSE total[i - 1] + s[i].temp
    IN  total[Len(s)]

Log(s) == FlattenSeq([i \in DOMAIN s |-> Line(s[i])])

WholeLog(s) ==
    Log(s) \o Summary([count |-> Len(s), min |-> SmallestOf(s), max |-> LargestOf(s),
                       sum |-> SumOf(s)])

\* However ticks, the queue's limit and preemption between two stores fall, the
\* console shows each reading once, in order, and no character twice.
LogIsFaithful ==
    IsPrefix(console, IF Len(sampled) = Samples THEN WholeLog(sampled) ELSE Log(sampled))

\* The machine goes down only with every sample shown and the summary after them.
OffWhenDone ==
    ~powered => Len(sampled) = Samples /\ console = WholeLog(sampled)

\* A scripted run exits: the machine is powered down in the end.
PowersOff == <>~powered
=============================================================================
