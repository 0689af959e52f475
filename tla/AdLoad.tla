------------------------------- MODULE AdLoad -------------------------------
(***************************************************************************)
(* The CPU load of the ad service: every call of GetAds evaluates the flag *)
(* adHighCpu and has the singleton CPULoad start or stop its workers.      *)
(* Calls run in parallel; the list of workers has a lock, the fields       *)
(* instance and running have none, so a read that overlaps another call    *)
(* may miss what that call wrote.                                          *)
(***************************************************************************)
EXTENDS Integers

LOCAL INSTANCE FiniteSets

CONSTANTS
  AdCalls,       \* the threads that serve GetAds
  MaxInstances,  \* bound: instances of CPULoad
  MaxSpinning    \* bound: groups of four workers that spin

ASSUME AdBoundsAssumption == MaxInstances \in Nat \ {0} /\ MaxSpinning \in Nat \ {0}

VARIABLES
  instance,   \* the static field: 0 is null
  instances,  \* how many were created
  running,    \* of each instance, its field
  workers,    \* of each instance, the groups in runningWorkers
  spinning,   \* the groups that were not told to stop
  adCall      \* of each call, its step and its instance

adVars == <<instance, instances, running, workers, spinning, adCall>>

Instances == 1..MaxInstances

NoAdCall == [step |-> "none", object |-> 0]

AdInit ==
  /\ instance = 0
  /\ instances = 0
  /\ running = [o \in Instances |-> FALSE]
  /\ workers = [o \in Instances |-> 0]
  /\ spinning = 0
  /\ adCall = [c \in AdCalls |-> NoAdCall]

AdAt(c, step) == adCall[c].step = step
AdGoOn(c, step) == adCall' = [adCall EXCEPT ![c].step = step]
AdEnd(c) == adCall' = [adCall EXCEPT ![c] = NoAdCall]

\* What a read without a lock may see: an older value only while another call
\* is under way.
Seen(c, value, older) ==
  {value} \cup (IF \E d \in AdCalls \ {c} : ~AdAt(d, "none") THEN {older} ELSE {})

\* getInstance: if (instance == null)
GetInstance(c) ==
  /\ AdAt(c, "none")
  /\ \E seen \in Seen(c, instance, 0) :
       AdGoOn(c, IF seen = 0 THEN "create" ELSE "return")
  /\ UNCHANGED <<instance, instances, running, workers, spinning>>

\* instance = new CPULoad()
Create(c) ==
  /\ AdAt(c, "create")
  /\ instances < MaxInstances
  /\ instances' = instances + 1
  /\ instance' = instances + 1
  /\ AdGoOn(c, "return")
  /\ UNCHANGED <<running, workers, spinning>>

\* return instance
ReturnInstance(c) ==
  /\ AdAt(c, "return")
  /\ adCall' = [adCall EXCEPT ![c] = [step |-> "flag", object |-> instance]]
  /\ UNCHANGED <<instance, instances, running, workers, spinning>>

\* getBooleanValue, and execute's if (enabled)
EvaluateFlag(c, enabled) ==
  /\ AdAt(c, "flag")
  /\ AdGoOn(c, IF enabled THEN "start" ELSE "stop")
  /\ UNCHANGED <<instance, instances, running, workers, spinning>>

\* The groups that spin, or are about to: at the bound no call finds the workers
\* not running, so that every call gets to its end.
AtBound == spinning + Cardinality({c \in AdCalls : AdAt(c, "spawn")}) >= MaxSpinning

\* if (!running)
TestRunning(c) ==
  /\ AdAt(c, "start")
  /\ LET now == running[adCall[c].object] IN
     \E seen \in Seen(c, now, ~now) :
       IF seen \/ AtBound THEN AdEnd(c) ELSE AdGoOn(c, "spawn")
  /\ UNCHANGED <<instance, instances, running, workers, spinning>>

\* Faulty: the list holds only the workers that were started last.
SpawnInNewList(c) ==
  /\ AdAt(c, "spawn")
  /\ workers' = [workers EXCEPT ![adCall[c].object] = 1]
  /\ spinning' = spinning + 1
  /\ AdGoOn(c, "spawned")
  /\ UNCHANGED <<instance, instances, running>>

\* spawnLoadWorkers
SpawnLoadWorkers(c) ==
  /\ AdAt(c, "spawn")
  /\ workers' = [workers EXCEPT ![adCall[c].object] = @ + 1]
  /\ spinning' = spinning + 1
  /\ AdGoOn(c, "spawned")
  /\ UNCHANGED <<instance, instances, running>>

\* running = true
SetRunning(c) ==
  /\ AdAt(c, "spawned")
  /\ running' = [running EXCEPT ![adCall[c].object] = TRUE]
  /\ AdEnd(c)
  /\ UNCHANGED <<instance, instances, workers, spinning>>

\* running = false
ClearRunning(c) ==
  /\ AdAt(c, "stop")
  /\ running' = [running EXCEPT ![adCall[c].object] = FALSE]
  /\ AdGoOn(c, "cleared")
  /\ UNCHANGED <<instance, instances, workers, spinning>>

\* stopWorkers
StopWorkers(c) ==
  /\ AdAt(c, "cleared")
  /\ LET o == adCall[c].object IN
     /\ spinning' = spinning - workers[o]
     /\ workers' = [workers EXCEPT ![o] = 0]
  /\ AdEnd(c)
  /\ UNCHANGED <<instance, instances, running>>

\* What a call does without anyone's help, but for the flag.
AdStep(c) ==
  \/ Create(c) \/ ReturnInstance(c) \/ TestRunning(c) \/ SpawnLoadWorkers(c)
  \/ SetRunning(c) \/ ClearRunning(c) \/ StopWorkers(c)

AdNext(enabled) ==
  \E c \in AdCalls : GetInstance(c) \/ EvaluateFlag(c, enabled) \/ AdStep(c)
=============================================================================
