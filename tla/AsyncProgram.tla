---------------------------- MODULE AsyncProgram ----------------------------
(***************************************************************************)
(* Whole programs on the runtime: TaskRuntime composed with one Channel.   *)
(* Each context executes a script of spawns, joins (which is also what     *)
(* await is), sleeps, yields, sends and receives; the scheduler decides    *)
(* who runs.  A channel operation that cannot proceed calls ts_task_yield  *)
(* and looks again when it is resumed.                                     *)
(***************************************************************************)
EXTENDS TaskRuntime

CONSTANTS
    Program,    \* the programs: functions from contexts to scripts
    LastTick,   \* bound on the time that passes while code runs
    Message, Empty, Request

VARIABLES
    script,     \* the program that runs
    pc,         \* per context, its next instruction
    capacity, data, count, head, tail, pending, hasValue, op, arg

(* Who is resumed is the scheduler's doing here: nothing is assumed of it. *)
Ch == INSTANCE Channel WITH Actor <- Ctx, Resumed <- {}

chVars  == <<capacity, data, count, head, tail, pending, hasValue, op, arg>>
allVars == <<vars, chVars, script, pc>>

ProgramInit ==
    /\ Init
    /\ Ch!Init
    /\ script \in Program
    /\ pc = [c \in Ctx |-> 1]

AtEnd == pc[current] > Len(script[current])
Instr == script[current][pc[current]]
Is(name) == ~AtEnd /\ Instr[1] = name

Advance == pc' = [pc EXCEPT ![current] = @ + 1]

(* Instructions that are one call of the task runtime. *)
RuntimeCall ==
    /\ \/ Is("spawn") /\ Spawn(Instr[2])
       \/ Is("microtask") /\ MicrotaskSpawn(Instr[2])
       \/ Is("timeout") /\ SetTimeout(Instr[2], Instr[3])
       \/ Is("join") /\ Join(Instr[2])
       \/ Is("yield") /\ (Yield \/ YieldMain)
       \/ Is("sleep") /\ (Sleep(Instr[2]) \/ SleepMain(Instr[2]))
    /\ Advance
    /\ UNCHANGED chVars

ChannelCall ==
    /\ Running
    /\ op[current] = "idle"
    /\ \/ Is("send") /\ Ch!Send(current, Instr[2])
       \/ Is("recv") /\ Ch!Recv(current)
    /\ UNCHANGED <<vars, pc>>

ChannelProceed ==
    /\ Running
    /\ Ch!Proceed(current)
    /\ pc' = [pc EXCEPT ![current] = IF op'[current] = "idle" THEN @ + 1 ELSE @]
    /\ UNCHANGED vars

ChannelWait ==
    /\ Ch!Blocked(current)
    /\ Yield \/ YieldMain
    /\ UNCHANGED <<chVars, pc>>

Finish ==
    /\ AtEnd
    /\ Complete \/ EndMain
    /\ UNCHANGED <<chVars, pc>>

(* The code of the current context, or the runtime loop it is in. *)
Execute == RuntimeCall \/ ChannelCall \/ ChannelProceed \/ ChannelWait \/ Finish

Schedule == (JoinNext \/ RunOne) /\ UNCHANGED <<chVars, pc>>

(* After LastTick time passes only while a timer is waited for, which      *)
(* leaves room below MaxTime for all the sleeps of a program.              *)
TimePasses == Tick /\ (now < LastTick \/ (timerQueue # <<>> /\ ~TimerDue))

ProgramNext ==
    /\ \/ Execute
       \/ Schedule
       \/ TimePasses /\ UNCHANGED <<chVars, pc>>
    /\ UNCHANGED script

(* One processor executes the program; the clock advances. *)
ProgramSpec ==
    /\ ProgramInit
    /\ [][ProgramNext]_allVars
    /\ WF_allVars(Execute /\ UNCHANGED script)
    /\ WF_allVars(Schedule /\ UNCHANGED script)
    /\ WF_allVars(TimePasses /\ UNCHANGED <<chVars, pc, script>>)

(* Every task of the program settles and the process exits. *)
Terminates ==
    <>(Exited /\ \A t \in Task : state[t] = "free" \/ Settled(t))

(* A join, and so an await, returns once the task it waits for has         *)
(* settled.                                                                *)
JoinReturns ==
    \A c \in Ctx :
        (joining[c] # <<>> /\ Settled(Head(joining[c]))) ~> joining[c] = <<>>

(* A rendezvous ends for the sender too, once its value has been received. *)
SenderReturns == Ch!ReceivedSendReturns

(* At exit the channel is drained and nobody was left inside an operation. *)
CleanExit ==
    Exited => /\ count = 0 /\ ~hasValue
              /\ \A c \in Ctx : op[c] = "idle" /\ joining[c] = <<>>

=============================================================================
