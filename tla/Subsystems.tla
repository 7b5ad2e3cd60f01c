----------------------------- MODULE Subsystems -----------------------------
(***************************************************************************)
(* The subsystem manager: the tasks of the subsystems (chainstate,         *)
(* mempool, p2p, block production, RPC), the calls they make to one        *)
(* another, and how they are shut down.                                    *)
(*                                                                         *)
(* Subsystems are numbered in the order of their creation; a subsystem has *)
(* the handles of those created before it and calls only these.  A mutable *)
(* call is served by the subsystem's own task, which does nothing else     *)
(* until the call is done, its calls to other subsystems included; an      *)
(* immutable one by a worker task of its own.  The subsystem's state is    *)
(* behind a fair lock of many readers or one writer: requests are granted  *)
(* in the order in which they are made.                                    *)
(*                                                                         *)
(* Calls are numbered in the order of their submission.  They come from    *)
(* outside (RPC, network and job tasks) or from a call that is being       *)
(* served.  A call's body is reduced to at most one call to an earlier     *)
(* subsystem; it may panic.                                                *)
(***************************************************************************)
EXTENDS Naturals, Sequences, FiniteSets

CONSTANTS N,             \* the number of subsystems
          CallLimit,     \* bound on the calls
          FaultLimit,    \* bound on panics, failed starts and timeouts
          WorkLimit      \* bound on the background work of a subsystem

ASSUME SubsystemsAssumption ==
  N \in Nat \ {0} /\ CallLimit \in Nat /\ FaultLimit \in Nat /\ WorkLimit \in Nat

VARIABLES
  phase,       \* what each subsystem's task is doing
  serving,     \* the mutable call it is serving, Background or Nobody
  queue,       \* the calls it has not received yet (action_rx)
  workers,     \* the workers it has not joined (worker_tasks)
  lock,        \* [holders, waiting] of the state's lock
  work,        \* the units of background work that are left
  calls,       \* all calls that were ever submitted
  manager,     \* N+1 while running; s while it waits for s to shut down; 0 at the end
  signalled,   \* a signal or a subsystem asked for the shutdown
  faults,
  panicked     \* the subsystems whose task was ended by a panic

vars ==
  <<phase, serving, queue, workers, lock, work, calls, manager, signalled, faults, panicked>>

Subs == 1..N
CallIds == 1..Len(calls)

Background == 0                \* the task itself, when it does background work
Nobody == CallLimit + 1

Phases == {"starting", "loop", "serving", "draining", "closing", "down"}
Statuses == {"queued", "spawned", "waiting", "running", "calling",
             "answered", "failed", "panicked"}

Over == {"answered", "failed", "panicked"}
Ended(c) == calls[c].status \in Over

IsWriter(x) == x = Background \/ (x \in CallIds /\ calls[x].kind = "mut")

----------------------------------------------------------------------------
Init ==
  /\ phase = [s \in Subs |-> "starting"]
  /\ serving = [s \in Subs |-> Nobody]
  /\ queue = [s \in Subs |-> <<>>]
  /\ workers = [s \in Subs |-> {}]
  /\ lock = [s \in Subs |-> [holders |-> {}, waiting |-> <<>>]]
  /\ work = [s \in Subs |-> 0]
  /\ calls = <<>>
  /\ manager = N + 1
  /\ signalled = FALSE
  /\ faults = 0
  /\ panicked = {}

NewCall(s, kind, parent) ==
  [to |-> s, kind |-> kind, parent |-> parent, asked |-> FALSE,
   status |-> IF phase[s] = "down" THEN "failed" ELSE "queued"]

\* Send a call to a subsystem: an error if its task is gone.
Send(s) ==
  queue' = IF phase[s] = "down" THEN queue ELSE [queue EXCEPT ![s] = Append(@, Len(calls) + 1)]

SetStatus(c, status) == calls' = [calls EXCEPT ![c].status = status]

----------------------------------------------------------------------------
(***************************************************************************)
(* The callers                                                             *)
(***************************************************************************)
Submit(s, kind) ==
  /\ Len(calls) < CallLimit
  /\ calls' = Append(calls, NewCall(s, kind, Nobody))
  /\ Send(s)
  /\ UNCHANGED <<phase, serving, workers, lock, work, manager, signalled, faults, panicked>>

\* A call that is being served calls a subsystem created before its own.
CallOther(c, s, kind) ==
  /\ Len(calls) < CallLimit
  /\ calls[c].status = "running"
  /\ ~calls[c].asked
  /\ s < calls[c].to
  /\ calls' = Append([calls EXCEPT ![c].status = "calling", ![c].asked = TRUE],
                     NewCall(s, kind, c))
  /\ Send(s)
  /\ UNCHANGED <<phase, serving, workers, lock, work, manager, signalled, faults, panicked>>

\* The answer, or an error if there will be none
Resume(c) ==
  /\ calls[c].status = "calling"
  /\ \E d \in CallIds : calls[d].parent = c /\ Ended(d)
  /\ SetStatus(c, "running")
  /\ UNCHANGED <<phase, serving, queue, workers, lock, work, manager, signalled, faults, panicked>>

----------------------------------------------------------------------------
(***************************************************************************)
(* The lock                                                                *)
(***************************************************************************)
Request(s, x) == lock' = [lock EXCEPT ![s].waiting = Append(@, x)]

Released(s, x) == [lock EXCEPT ![s].holders = @ \ {x}]

\* A worker starts and asks for the lock.
StartWorker(c) ==
  /\ calls[c].status = "spawned"
  /\ SetStatus(c, "waiting")
  /\ Request(calls[c].to, c)
  /\ UNCHANGED <<phase, serving, queue, workers, work, manager, signalled, faults, panicked>>

Grantable(s, x) ==
  IF IsWriter(x) THEN lock[s].holders = {}
  ELSE \A y \in lock[s].holders : ~IsWriter(y)

Grant(s) ==
  /\ lock[s].waiting # <<>>
  /\ LET x == Head(lock[s].waiting)
     IN /\ Grantable(s, x)
        /\ lock' = [lock EXCEPT ![s] = [holders |-> @.holders \cup {x}, waiting |-> Tail(@.waiting)]]
        /\ calls' = IF x = Background THEN calls ELSE [calls EXCEPT ![x].status = "running"]
  /\ UNCHANGED <<phase, serving, queue, workers, work, manager, signalled, faults, panicked>>

----------------------------------------------------------------------------
(***************************************************************************)
(* A subsystem's task                                                      *)
(***************************************************************************)
\* Everything that depends on the task goes with it: the calls it has not
\* received or not finished get no answer, its workers are aborted.
Pending(s) == {c \in CallIds : calls[c].to = s /\ ~Ended(c)}

\* As Down, but calls that were not received are not given up.
DownWithCalls(s, after) ==
  /\ phase' = [phase EXCEPT ![s] = "down"]
  /\ calls' = after
  /\ queue' = [queue EXCEPT ![s] = <<>>]
  /\ workers' = [workers EXCEPT ![s] = {}]
  /\ lock' = [lock EXCEPT ![s] = [holders |-> {}, waiting |-> <<>>]]
  /\ serving' = [serving EXCEPT ![s] = Nobody]
  /\ work' = [work EXCEPT ![s] = 0]
  /\ signalled' = TRUE

\* The task is over.  Its destructor tells the manager.
Down(s, after) ==
  /\ phase' = [phase EXCEPT ![s] = "down"]
  /\ calls' = [c \in CallIds |-> IF c \in Pending(s) THEN [after[c] EXCEPT !.status = "failed"]
                                 ELSE after[c]]
  /\ queue' = [queue EXCEPT ![s] = <<>>]
  /\ workers' = [workers EXCEPT ![s] = {}]
  /\ lock' = [lock EXCEPT ![s] = [holders |-> {}, waiting |-> <<>>]]
  /\ serving' = [serving EXCEPT ![s] = Nobody]
  /\ work' = [work EXCEPT ![s] = 0]
  /\ signalled' = TRUE

Start(s) ==
  /\ phase[s] = "starting"
  /\ phase' = [phase EXCEPT ![s] = "loop"]
  /\ UNCHANGED <<serving, queue, workers, lock, work, calls, manager, signalled, faults, panicked>>

FailToStart(s) ==
  /\ phase[s] = "starting"
  /\ faults < FaultLimit
  /\ faults' = faults + 1
  /\ Down(s, calls)
  /\ UNCHANGED <<manager, panicked>>

\* shutdown_rx: the manager goes through the subsystems from the last to the
\* first, and has told those it has come to.
ToldToStop(s) == s >= manager

Stop(s) ==
  /\ phase[s] = "loop"
  /\ ToldToStop(s)
  /\ phase' = [phase EXCEPT ![s] = "draining"]
  /\ UNCHANGED <<serving, queue, workers, lock, work, calls, manager, signalled, faults, panicked>>

\* As ReceiveMut, but the call is handed to a worker, as an immutable one is.
ReceiveMutInWorker(s, c) ==
  /\ workers' = [workers EXCEPT ![s] = @ \cup {c}]
  /\ SetStatus(c, "spawned")
  /\ UNCHANGED <<phase, serving, lock>>

ReceiveMut(s, c) ==
  /\ phase' = [phase EXCEPT ![s] = "serving"]
  /\ serving' = [serving EXCEPT ![s] = c]
  /\ SetStatus(c, "waiting")
  /\ Request(s, c)
  /\ UNCHANGED workers

ReceiveRef(s, c) ==
  /\ workers' = [workers EXCEPT ![s] = @ \cup {c}]
  /\ SetStatus(c, "spawned")
  /\ UNCHANGED <<phase, serving, lock>>

\* action_rx, unless the subsystem is told to stop
Receive(s) ==
  /\ phase[s] = "loop"
  /\ ~ToldToStop(s)
  /\ queue[s] # <<>>
  /\ LET c == Head(queue[s])
     IN IF calls[c].kind = "mut" THEN ReceiveMut(s, c) ELSE ReceiveRef(s, c)
  /\ queue' = [queue EXCEPT ![s] = Tail(@)]
  /\ UNCHANGED <<work, manager, signalled, faults, panicked>>

\* worker_tasks.join_next(): a worker's panic goes on in the task.
JoinWorker(s) ==
  /\ \/ phase[s] = "loop" /\ ~ToldToStop(s) /\ queue[s] = <<>>
     \/ phase[s] = "draining"
  /\ \E c \in workers[s] :
       /\ Ended(c)
       /\ IF calls[c].status = "panicked"
          THEN Down(s, calls) /\ panicked' = panicked \cup {s}
          ELSE /\ workers' = [workers EXCEPT ![s] = @ \ {c}]
               /\ UNCHANGED <<phase, serving, queue, lock, work, calls, signalled, panicked>>
  /\ UNCHANGED <<manager, faults>>

\* Only if nothing else is going on
BeginWork(s) ==
  /\ phase[s] = "loop"
  /\ ~ToldToStop(s)
  /\ queue[s] = <<>>
  /\ \A c \in workers[s] : ~Ended(c)
  /\ work[s] > 0
  /\ phase' = [phase EXCEPT ![s] = "serving"]
  /\ serving' = [serving EXCEPT ![s] = Background]
  /\ Request(s, Background)
  /\ UNCHANGED <<queue, workers, work, calls, manager, signalled, faults, panicked>>

EndWork(s) ==
  /\ Background \in lock[s].holders
  /\ lock' = Released(s, Background)
  /\ work' = [work EXCEPT ![s] = @ - 1]
  /\ phase' = [phase EXCEPT ![s] = "loop"]
  /\ serving' = [serving EXCEPT ![s] = Nobody]
  /\ UNCHANGED <<queue, workers, calls, manager, signalled, faults, panicked>>

\* A call is done, and answered.  A mutable one may leave background work.
Finish(c) ==
  LET s == calls[c].to
  IN /\ calls[c].status = "running"
     /\ SetStatus(c, "answered")
     /\ lock' = Released(s, c)
     /\ IF serving[s] = c
        THEN /\ phase' = [phase EXCEPT ![s] = "loop"]
             /\ serving' = [serving EXCEPT ![s] = Nobody]
             /\ \E w \in {work[s], work[s] + 1} \cap (0..WorkLimit) : work' = [work EXCEPT ![s] = w]
        ELSE UNCHANGED <<phase, serving, work>>
     /\ UNCHANGED <<queue, workers, manager, signalled, faults, panicked>>

\* A mutable call that panics takes the task with it, a worker is joined later.
Panic(c) ==
  LET s == calls[c].to
  IN /\ faults < FaultLimit
     /\ calls[c].status = "running"
     /\ faults' = faults + 1
     /\ IF serving[s] = c
        THEN Down(s, calls) /\ panicked' = panicked \cup {s}
        ELSE /\ SetStatus(c, "panicked")
             /\ lock' = Released(s, c)
             /\ UNCHANGED <<phase, serving, queue, workers, work, signalled, panicked>>
     /\ UNCHANGED manager

Drained(s) == workers[s] = {}

\* No worker is left: the task takes the state out of its lock.
Close(s) ==
  /\ phase[s] = "draining"
  /\ Drained(s)
  /\ phase' = [phase EXCEPT ![s] = "closing"]
  /\ UNCHANGED <<serving, queue, workers, lock, work, calls, manager, signalled, faults, panicked>>

\* The subsystem's own shutdown is over.
EndTask(s) ==
  /\ phase[s] = "closing"
  /\ Down(s, calls)
  /\ UNCHANGED <<manager, faults, panicked>>

----------------------------------------------------------------------------
(***************************************************************************)
(* The manager                                                             *)
(***************************************************************************)
\* A signal of the operating system, or a shutdown trigger
Signal ==
  /\ ~signalled
  /\ signalled' = TRUE
  /\ UNCHANGED <<phase, serving, queue, workers, lock, work, calls, manager, faults, panicked>>

BeginShutdown ==
  /\ manager = N + 1
  /\ signalled
  /\ manager' = N
  /\ UNCHANGED <<phase, serving, queue, workers, lock, work, calls, signalled, faults, panicked>>

\* The subsystem of the manager's turn has ended.
Awaited(s) == phase[s] = "down"

\* The panic of a task goes on in the manager when it is joined: the manager ends, and
\* those before are not waited for.
NextShutdown ==
  /\ manager \in Subs
  /\ Awaited(manager)
  /\ manager' = IF manager \in panicked THEN 0 ELSE manager - 1
  /\ UNCHANGED <<phase, serving, queue, workers, lock, work, calls, signalled, faults, panicked>>

\* The manager has waited long enough.
TimeOut ==
  /\ manager \in Subs
  /\ phase[manager] # "down"
  /\ faults < FaultLimit
  /\ faults' = faults + 1
  /\ manager' = manager - 1
  /\ UNCHANGED <<phase, serving, queue, workers, lock, work, calls, signalled, panicked>>

----------------------------------------------------------------------------
\* The process ends with the manager.
Alive == manager > 0

CallStep(c) == Resume(c) \/ StartWorker(c) \/ Finish(c)

TaskStep(s) ==
  \/ Start(s) \/ Grant(s) \/ Stop(s) \/ Receive(s) \/ JoinWorker(s)
  \/ BeginWork(s) \/ EndWork(s) \/ Close(s) \/ EndTask(s)

ManagerStep == BeginShutdown \/ NextShutdown

Next ==
  /\ Alive
  /\ \/ \E s \in Subs, kind \in {"mut", "ref"} : Submit(s, kind)
     \/ \E c \in CallIds, s \in Subs, kind \in {"mut", "ref"} : CallOther(c, s, kind)
     \/ \E c \in CallIds : CallStep(c)
     \/ \E c \in CallIds : Panic(c)
     \/ \E s \in Subs : TaskStep(s)
     \/ \E s \in Subs : FailToStart(s)
     \/ Signal
     \/ ManagerStep
     \/ TimeOut

\* As long as a task can go on, one does: tasks are scheduled and the bodies of
\* calls end.
Progress ==
  Alive /\ ((\E s \in Subs : TaskStep(s)) \/ (\E c \in CallIds : CallStep(c)) \/ ManagerStep)

Fairness == WF_vars(Progress)

Spec == Init /\ [][Next]_vars /\ Fairness

----------------------------------------------------------------------------
(***************************************************************************)
(* Properties                                                              *)
(***************************************************************************)
\* Type correctness.
TypeOK ==
  /\ phase \in [Subs -> Phases]
  /\ \A s \in Subs : /\ serving[s] \in CallIds \cup {Background, Nobody}
                     /\ \A i \in DOMAIN queue[s] : queue[s][i] \in CallIds
                     /\ workers[s] \subseteq CallIds
                     /\ lock[s].holders \subseteq CallIds \cup {Background}
                     /\ work[s] \in 0..WorkLimit
  /\ \A c \in CallIds : calls[c].to \in Subs /\ calls[c].status \in Statuses
  /\ manager \in 0..N + 1
  /\ signalled \in BOOLEAN
  /\ faults \in 0..FaultLimit
  /\ panicked \subseteq Subs

InProgress(c) == calls[c].status \in {"spawned", "waiting", "running", "calling"}

\* A call that reads a subsystem's state sees the effects of all mutable calls
\* submitted before it, whoever made them, although it is served by another
\* task (the task serves mutable calls itself, in the order of the channel).
ReadsSeeEarlierWrites ==
  \A c, d \in CallIds :
    /\ calls[c].kind = "ref" /\ InProgress(c)
    /\ calls[d].kind = "mut" /\ calls[d].to = calls[c].to
    /\ d < c
    => Ended(d)

\* Unless something panics or times out, a call that a subsystem makes while it
\* serves another is answered, also during the shutdown: the subsystems it
\* depends on are shut down after it (in the reverse order of creation).
CalleesOutliveCallers ==
  faults = 0 => \A c \in CallIds : calls[c].parent # Nobody => calls[c].status # "failed"

\* The calls of all subsystems are sound: reads see the writes before them, and
\* the callee of a call is there until the caller is done.
CallsOrdered == TypeOK /\ ReadsSeeEarlierWrites /\ CalleesOutliveCallers

\* Whenever a subsystem exits, all others are told to terminate and the manager
\* ends: no call of one to another, waiting worker or lock holds it up.
ShutdownEnds == signalled ~> manager = 0
==============================================================================
