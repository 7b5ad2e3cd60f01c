-------------------------- MODULE SubsystemsProofs --------------------------
(***************************************************************************)
(* Proofs about Subsystems, for any number of subsystems, of calls and of  *)
(* faults.                                                                 *)
(***************************************************************************)
EXTENDS Subsystems, SequenceTheorems, TLAPS

-----------------------------------------------------------------------------
(* The inductive invariant                                                 *)

Call == [to : Subs, kind : {"mut", "ref"}, parent : Nat, asked : BOOLEAN, status : Statuses]

\* The types of the variables.
Shape ==
    /\ phase \in [Subs -> Phases]
    /\ serving \in [Subs -> Nat]
    /\ queue \in [Subs -> Seq(Nat)]
    /\ workers \in [Subs -> SUBSET Nat]
    /\ lock \in [Subs -> [holders : SUBSET Nat, waiting : Seq(Nat)]]
    /\ work \in [Subs -> 0 .. WorkLimit]
    /\ calls \in Seq(Call) /\ Len(calls) \leq CallLimit
    /\ manager \in 0 .. (N + 1)
    /\ signalled \in BOOLEAN
    /\ faults \in 0 .. FaultLimit

\* A subsystem's queue holds the calls to it that it has not received, in the order
\* of their submission.
Queues ==
    /\ \A s \in Subs : \A i \in DOMAIN queue[s] :
          queue[s][i] \in CallIds /\ calls[queue[s][i]].to = s /\ calls[queue[s][i]].status = "queued"
    /\ \A s \in Subs : \A i, j \in DOMAIN queue[s] : i < j => queue[s][i] < queue[s][j]
    /\ \A c \in CallIds : calls[c].status = "queued" =>
          \E i \in DOMAIN queue[calls[c].to] : queue[calls[c].to][i] = c

\* What a task serves, and that every call in progress is served by the task or by
\* one of its workers.
Tasks ==
    /\ \A s \in Subs :
          /\ phase[s] # "serving" => serving[s] = Nobody
          /\ \/ serving[s] = Nobody
             \/ serving[s] = Background /\ work[s] > 0
             \/ serving[s] \in CallIds /\ calls[serving[s]].kind = "mut" /\ calls[serving[s]].to = s
          /\ workers[s] \subseteq CallIds
    /\ \A c \in CallIds :
          /\ InProgress(c) /\ calls[c].kind = "mut" => serving[calls[c].to] = c
          /\ InProgress(c) /\ calls[c].kind = "ref" => c \in workers[calls[c].to]
          /\ ~Ended(c) => phase[calls[c].to] # "down"

\* Who holds or waits for a lock.
Locks ==
    \A s \in Subs :
       /\ \A i \in DOMAIN lock[s].waiting :
             LET x == lock[s].waiting[i] IN
             \/ x = Background /\ serving[s] = Background /\ Background \notin lock[s].holders
             \/ x \in CallIds /\ calls[x].to = s /\ calls[x].status = "waiting"
       /\ \A i, j \in DOMAIN lock[s].waiting : lock[s].waiting[i] = lock[s].waiting[j] => i = j
       /\ \A x \in lock[s].holders :
             (x = Background /\ serving[s] = Background) \/ x \in CallIds

\* A call makes at most one call, to an earlier subsystem.
Families ==
    /\ \A d \in CallIds : calls[d].parent # Nobody =>
          /\ calls[d].parent \in CallIds
          /\ calls[d].to < calls[calls[d].parent].to
          /\ calls[calls[d].parent].asked
    /\ \A d, e \in CallIds : calls[d].parent # Nobody /\ calls[d].parent = calls[e].parent => d = e

\* Without faults a caller waits for its callee, and the subsystems go down from the
\* last to the first.
Orderly ==
    faults = 0 =>
       /\ \A d \in CallIds :
             /\ calls[d].parent # Nobody /\ ~Ended(d) => calls[calls[d].parent].status = "calling"
             /\ calls[d].parent # Nobody => calls[d].status # "failed"
             /\ calls[d].status # "panicked"
       /\ \A s \in Subs :
             /\ s > manager => phase[s] = "down"
             /\ phase[s] \in {"draining", "closing", "down"} => s >= manager
             /\ phase[s] = "closing" => workers[s] = {}

\* A task that was ended by a panic is a fault.
PanicsAreFaults == panicked \subseteq Subs /\ (faults = 0 => panicked = {})

CallsInv ==
    Shape /\ Queues /\ Tasks /\ Locks /\ Families /\ Orderly /\ ReadsSeeEarlierWrites
-----------------------------------------------------------------------------
(* How the calls change                                                    *)

\* The calls are records.
LEMMA CallTypes ==
    ASSUME Shape
    PROVE  /\ Len(calls) \in Nat /\ DOMAIN calls = CallIds
           /\ \A c \in CallIds : calls[c] \in Call
           /\ \A c \in CallIds : c \in Nat /\ c # Nobody /\ c # Background
           /\ Nobody \in Nat /\ Nobody # Background
           /\ \A s \in Subs : s \in Nat
<1>1. calls \in Seq(Call) /\ Len(calls) \leq CallLimit
  BY DEF Shape
<1>2. /\ Len(calls) \in Nat /\ DOMAIN calls = CallIds
      /\ \A c \in CallIds : calls[c] \in Call
  BY <1>1 DEF CallIds
<1>3. CallLimit \in Nat /\ N \in Nat
  BY SubsystemsAssumption
<1>4. \A c \in CallIds : c \in Nat /\ c # Nobody /\ c # Background
  BY <1>1, <1>2, <1>3 DEF CallIds, Nobody, Background
<1> QED
  BY <1>2, <1>3, <1>4 DEF Nobody, Background, Subs

\* The calls after the status of c has become st.
Moved(c, st) ==
    /\ calls' \in Seq(Call) /\ Len(calls') = Len(calls) /\ CallIds' = CallIds
    /\ \A d \in CallIds :
          /\ calls'[d].to = calls[d].to /\ calls'[d].kind = calls[d].kind
          /\ calls'[d].parent = calls[d].parent /\ calls'[d].asked = calls[d].asked
          /\ calls'[d].status = IF d = c THEN st ELSE calls[d].status

\* SetStatus changes nothing else.
LEMMA StatusSet ==
    ASSUME Shape, NEW c \in CallIds, NEW st \in Statuses, SetStatus(c, st)
    PROVE  Moved(c, st)
<1>1. calls \in Seq(Call) /\ DOMAIN calls = CallIds /\ Len(calls) \in Nat
  BY CallTypes DEF Shape
<1>2. calls' = [calls EXCEPT ![c] = [calls[c] EXCEPT !.status = st]]
  BY DEF SetStatus
<1> DEFINE r == [calls[c] EXCEPT !.status = st]
<1>3. calls[c] \in Call
  BY CallTypes
<1>4. /\ r \in Call /\ r.to = calls[c].to /\ r.kind = calls[c].kind /\ r.parent = calls[c].parent
      /\ r.asked = calls[c].asked /\ r.status = st
  BY <1>3 DEF Call
<1> HIDE DEF r
<1>5. calls' = [calls EXCEPT ![c] = r]
  BY <1>2 DEF r
<1>6. /\ calls' \in Seq(Call) /\ Len(calls') = Len(calls)
      /\ \A d \in CallIds : calls'[d] = IF d = c THEN r ELSE calls[d]
  BY <1>1, <1>4, <1>5
<1>7. CallIds' = CallIds
  BY <1>6 DEF CallIds
<1> QED
  BY <1>4, <1>6, <1>7 DEF Moved

\* Nothing is called, answered or given up.
LEMMA CallsSame ==
    ASSUME UNCHANGED calls
    PROVE  /\ CallIds' = CallIds
           /\ \A c : (Ended(c)' <=> Ended(c)) /\ (InProgress(c)' <=> InProgress(c))
           /\ Families => Families'
           /\ ReadsSeeEarlierWrites => ReadsSeeEarlierWrites'
<1>1. CallIds' = CallIds
  BY DEF CallIds
<1>2. \A c : (Ended(c)' <=> Ended(c)) /\ (InProgress(c)' <=> InProgress(c))
  BY DEF Ended, InProgress
<1>3. Families => Families'
  BY <1>1 DEF Families, Nobody
<1>4. ReadsSeeEarlierWrites => ReadsSeeEarlierWrites'
  BY <1>1, <1>2 DEF ReadsSeeEarlierWrites
<1> QED
  BY <1>1, <1>2, <1>3, <1>4

\* The families only depend on who called whom.
LEMMA FamiliesMoved ==
    ASSUME Shape, Families, NEW c, NEW st, Moved(c, st)
    PROVE  Families'
BY DEF Families, Moved, Nobody

\* The same, for a step that changes neither calls nor locks nor queues.
LEMMA QuietStep ==
    ASSUME CallsInv, UNCHANGED <<calls, queue, lock, serving, work>>
    PROVE  Queues' /\ Locks' /\ Families' /\ ReadsSeeEarlierWrites'
<1>1. /\ CallIds' = CallIds /\ Families' /\ ReadsSeeEarlierWrites'
  BY CallsSame DEF CallsInv
<1>2. Queues'
  BY <1>1 DEF CallsInv, Queues
<1>3. Locks'
  BY <1>1 DEF CallsInv, Locks
<1> QED
  BY <1>1, <1>2, <1>3

-----------------------------------------------------------------------------
(* The steps                                                               *)

\* A task starts, is told to stop, or takes the state out of its lock; the manager
\* goes on.
LEMMA QuietSteps ==
    ASSUME CallsInv, PanicsAreFaults,
           \/ \E s \in Subs : Start(s) \/ Stop(s) \/ Close(s)
           \/ Signal \/ BeginShutdown \/ NextShutdown \/ TimeOut
    PROVE  CallsInv'
<1>0. Shape /\ Queues /\ Tasks /\ Locks /\ Families /\ Orderly
  BY DEF CallsInv
<1>1. UNCHANGED <<calls, queue, lock, serving, work, workers>>
  BY DEF Start, Stop, Close, Signal, BeginShutdown, NextShutdown, TimeOut
<1>2. Queues' /\ Locks' /\ Families' /\ ReadsSeeEarlierWrites'
  BY <1>1, QuietStep
<1>3. /\ CallIds' = CallIds
      /\ \A c : (Ended(c)' <=> Ended(c)) /\ (InProgress(c)' <=> InProgress(c))
  BY <1>1, CallsSame
<1>4. N \in Nat /\ FaultLimit \in Nat /\ phase \in [Subs -> Phases] /\ manager \in 0 .. (N + 1)
      /\ faults \in 0 .. FaultLimit /\ Subs = 1 .. N
  BY <1>0, SubsystemsAssumption DEF Shape, Subs
<1>5. CASE \E s \in Subs : Start(s) \/ Stop(s) \/ Close(s)
  <2>1. PICK s \in Subs, new \in {"loop", "draining", "closing"} :
          /\ phase[s] \in {"starting", "loop", "draining"} /\ phase' = [phase EXCEPT ![s] = new]
          /\ new = "draining" => s >= manager
          /\ new = "closing" => workers[s] = {} /\ phase[s] = "draining"
          /\ UNCHANGED <<manager, signalled, faults>>
    <3>1. PICK s \in Subs : Start(s) \/ Stop(s) \/ Close(s)
      BY <1>5
    <3>2. CASE Start(s)
      BY <3>2 DEF Start
    <3>3. CASE Stop(s)
      BY <3>3 DEF Stop, ToldToStop
    <3>4. CASE Close(s)
      BY <3>4 DEF Close, Drained
    <3> QED
      BY <3>1, <3>2, <3>3, <3>4
  <2>2. /\ \A t \in Subs : phase'[t] = IF t = s THEN new ELSE phase[t]
        /\ phase' \in [Subs -> Phases]
    BY <1>4, <2>1 DEF Phases
  <2>3. Shape'
    BY <1>0, <1>1, <2>1, <2>2 DEF Shape
  <2>4. Tasks'
    <3>1. /\ \A t \in Subs : phase'[t] # "serving" => serving[t] = Nobody
          /\ \A t \in Subs : phase[t] # "down" => phase'[t] # "down"
      BY <1>0, <2>1, <2>2 DEF Tasks
    <3>2. \A c \in CallIds : calls[c].to \in Subs
      BY <1>0, CallTypes DEF Call
    <3> QED
      BY <1>0, <1>1, <1>3, <3>1, <3>2 DEF Tasks, Nobody
  <2>5. Orderly'
    BY <1>0, <1>1, <1>3, <2>1, <2>2 DEF Orderly, Nobody
  <2> QED
    BY <1>2, <2>3, <2>4, <2>5 DEF CallsInv
<1>6. CASE Signal \/ BeginShutdown \/ NextShutdown \/ TimeOut
  <2>1. /\ UNCHANGED phase
        /\ manager' \in 0 .. (N + 1) /\ signalled' \in BOOLEAN
        /\ faults' \in 0 .. FaultLimit
        /\ faults' = 0 => /\ faults = 0
                          /\ \/ manager' = manager
                             \/ manager' = N
                             \/ manager \in Subs /\ phase[manager] = "down" /\ manager' = manager - 1
        /\ manager' = N => manager = N + 1 \/ manager = N
    <3>1. signalled \in BOOLEAN
      BY <1>0 DEF Shape
    <3>2. CASE Signal
      BY <1>4, <3>1, <3>2 DEF Signal
    <3>3. CASE BeginShutdown
      BY <1>4, <3>1, <3>3 DEF BeginShutdown
    <3>4. CASE NextShutdown
      BY <1>4, <3>1, <3>4 DEF NextShutdown, Awaited, PanicsAreFaults
    <3>5. CASE TimeOut
      BY <1>4, <3>1, <3>5 DEF TimeOut
    <3> QED
      BY <1>6, <3>2, <3>3, <3>4, <3>5
  <2>2. Shape'
    BY <1>0, <1>1, <2>1 DEF Shape
  <2>3. Tasks'
    BY <1>0, <1>1, <1>3, <2>1 DEF Tasks, Nobody
  <2>4. faults' = 0 => \A s \in Subs :
          /\ s > manager' => phase[s] = "down"
          /\ phase[s] \in {"draining", "closing", "down"} => s >= manager'
    BY <1>0, <1>4, <2>1 DEF Orderly
  <2>5. Orderly'
    BY <1>0, <1>1, <1>3, <2>1, <2>4 DEF Orderly, Nobody
  <2> QED
    BY <1>2, <2>2, <2>3, <2>5 DEF CallsInv
<1> QED
  BY <1>5, <1>6
\* A call that is in progress goes on or ends.
LEMMA ProgressStep ==
    ASSUME CallsInv, NEW c \in CallIds, InProgress(c), NEW st \in Statuses \ {"queued"},
           Moved(c, st), UNCHANGED queue
    PROVE  /\ Queues' /\ Families' /\ ReadsSeeEarlierWrites'
           /\ \A d \in CallIds : (Ended(d) => Ended(d)') /\ (InProgress(d)' => InProgress(d))
<1>0. Shape /\ Queues /\ Families /\ ReadsSeeEarlierWrites /\ CallIds' = CallIds
  BY DEF CallsInv, Moved
<1>1. calls[c].status \notin Over /\ calls[c].status # "queued"
  BY DEF InProgress, Over
<1>2. \A d \in CallIds : (Ended(d) => Ended(d)') /\ (InProgress(d)' => InProgress(d))
  BY <1>1 DEF Moved, Ended, InProgress
<1>3. Families'
  BY <1>0, FamiliesMoved
<1>4. Queues'
  <2>1. \A d \in CallIds : calls[d].to \in Subs
    BY <1>0, CallTypes DEF Call
  <2>2. \A d \in CallIds : /\ calls'[d].to = calls[d].to
                           /\ calls'[d].status = "queued" <=> calls[d].status = "queued"
    BY <1>1 DEF Moved
  <2> QED
    BY <1>0, <2>1, <2>2 DEF Queues
<1>5. ReadsSeeEarlierWrites'
  BY <1>0, <1>2 DEF ReadsSeeEarlierWrites, Moved
<1> QED
  BY <1>2, <1>3, <1>4, <1>5

\* What a call in progress may do without disturbing Orderly.
LEMMA OrderlyStep ==
    ASSUME CallsInv, NEW c \in CallIds, InProgress(c), NEW st \in Statuses \ {"queued"},
           Moved(c, st), UNCHANGED <<manager, workers>>, faults' >= faults,
           faults' = 0 => st \notin {"failed", "panicked"},
           calls[c].status = "calling" =>
              \A d \in CallIds : calls[d].parent = c => Ended(d),
           \A s \in Subs : phase'[s] = phase[s] \/ phase'[s] \notin {"draining", "closing", "down"},
           \A s \in Subs : phase[s] = "down" => phase'[s] = "down"
    PROVE  Orderly'
<1> SUFFICES ASSUME faults' = 0
             PROVE  /\ \A d \in CallIds :
                         /\ calls'[d].parent # Nobody /\ ~Ended(d)' => calls'[calls'[d].parent].status = "calling"
                         /\ calls'[d].parent # Nobody => calls'[d].status # "failed"
                         /\ calls'[d].status # "panicked"
                    /\ \A s \in Subs :
                         /\ s > manager' => phase'[s] = "down"
                         /\ phase'[s] \in {"draining", "closing", "down"} => s >= manager'
                         /\ phase'[s] = "closing" => workers'[s] = {}
  BY DEF Orderly, Moved, Nobody, Subs
<1>0. Shape /\ Families /\ Orderly /\ faults = 0
  BY SubsystemsAssumption DEF CallsInv, Shape
<1>1. calls[c].status \notin Over
  BY DEF InProgress, Over
<1>2. ASSUME NEW d \in CallIds
      PROVE  /\ calls'[d].parent # Nobody /\ ~Ended(d)' => calls'[calls'[d].parent].status = "calling"
             /\ calls'[d].parent # Nobody => calls'[d].status # "failed"
             /\ calls'[d].status # "panicked"
  <2>1. calls'[d].parent = calls[d].parent /\ (~Ended(d)' => ~Ended(d))
    BY <1>1 DEF Moved, Ended
  <2>2. calls[d].parent # Nobody => calls[d].parent \in CallIds
    BY <1>0 DEF Families
  <2>3. ASSUME calls[d].parent # Nobody, ~Ended(d)
        PROVE  calls'[calls[d].parent].status = "calling"
    <3>1. calls[calls[d].parent].status = "calling"
      BY <1>0, <2>3 DEF Orderly
    <3>2. calls[d].parent # c
      BY <2>3, <3>1
    <3> QED
      BY <2>2, <2>3, <3>1, <3>2 DEF Moved
  <2>4. /\ calls'[d].parent # Nobody => calls'[d].status # "failed"
        /\ calls'[d].status # "panicked"
    BY <1>0 DEF Moved, Orderly
  <2> QED
    BY <2>1, <2>3, <2>4
<1>3. \A s \in Subs :
         /\ s > manager' => phase'[s] = "down"
         /\ phase'[s] \in {"draining", "closing", "down"} => s >= manager'
         /\ phase'[s] = "closing" => workers'[s] = {}
  BY <1>0 DEF Orderly
<1> QED
  BY <1>2, <1>3

\* A call gets the answer of the call it made.
LEMMA ResumeStep ==
    ASSUME CallsInv, NEW c \in CallIds, Resume(c)
    PROVE  CallsInv'
<1>0. Shape /\ Queues /\ Tasks /\ Locks /\ Families /\ Orderly
  BY DEF CallsInv
<1>1. /\ calls[c].status = "calling" /\ SetStatus(c, "running")
      /\ \E d \in CallIds : calls[d].parent = c /\ Ended(d)
      /\ UNCHANGED <<phase, serving, queue, workers, lock, work, manager, signalled, faults>>
  BY DEF Resume
<1>2. Moved(c, "running")
  BY <1>0, <1>1, StatusSet DEF Statuses
<1>3. InProgress(c) /\ "running" \in Statuses \ {"queued"}
  BY <1>1 DEF InProgress, Statuses
<1>4. /\ Queues' /\ Families' /\ ReadsSeeEarlierWrites'
      /\ \A d \in CallIds : (Ended(d) => Ended(d)') /\ (InProgress(d)' => InProgress(d))
  BY <1>1, <1>2, <1>3, ProgressStep
<1>5. Shape'
  BY <1>0, <1>1, <1>2 DEF Shape, Moved
<1>6. CallIds' = CallIds
  BY <1>2 DEF Moved
<1>7. Tasks'
  BY <1>0, <1>1, <1>2, <1>3, <1>4 DEF Tasks, Moved, Nobody, Background, Ended, InProgress, Over
<1>8. Locks'
  BY <1>0, <1>1, <1>2 DEF Locks, Moved, Background
<1>9. \A d \in CallIds : calls[d].parent = c => Ended(d)
  <2>1. c # Nobody
    BY <1>0, CallTypes
  <2> QED
    BY <1>0, <1>1, <2>1 DEF Families
<1>10. faults' >= faults
  BY <1>0, <1>1, SubsystemsAssumption DEF Shape
<1>11. Orderly'
  BY <1>1, <1>2, <1>3, <1>9, <1>10, OrderlyStep
<1> QED
  BY <1>4, <1>5, <1>7, <1>8, <1>11 DEF CallsInv
LockType == [holders : SUBSET Nat, waiting : Seq(Nat)]

\* The lock of s is requested.
LEMMA RequestIs ==
    ASSUME Shape, NEW s \in Subs, NEW x \in Nat, Request(s, x)
    PROVE  /\ lock' \in [Subs -> LockType]
           /\ \A t \in Subs : t # s => lock'[t] = lock[t]
           /\ lock'[s].holders = lock[s].holders
           /\ lock'[s].waiting = Append(lock[s].waiting, x)
           /\ lock[s].waiting \in Seq(Nat)
<1>1. lock \in [Subs -> LockType]
  BY DEF Shape, LockType
<1> DEFINE l == [lock[s] EXCEPT !.waiting = Append(lock[s].waiting, x)]
<1>2. lock[s].waiting \in Seq(Nat) /\ lock[s] \in LockType
  BY <1>1 DEF LockType
<1>3. Append(lock[s].waiting, x) \in Seq(Nat)
  BY <1>2
<1>4. l \in LockType /\ l.holders = lock[s].holders /\ l.waiting = Append(lock[s].waiting, x)
  BY <1>2, <1>3 DEF LockType
<1>5. lock' = [lock EXCEPT ![s] = l]
  BY DEF Request
<1> HIDE DEF l
<1> QED
  BY <1>1, <1>2, <1>4, <1>5

\* A holder of the lock of s releases it.
LEMMA ReleaseIs ==
    ASSUME Shape, NEW s \in Subs, NEW x, lock' = Released(s, x)
    PROVE  /\ lock' \in [Subs -> LockType]
           /\ \A t \in Subs : t # s => lock'[t] = lock[t]
           /\ lock'[s].holders = lock[s].holders \ {x}
           /\ lock'[s].waiting = lock[s].waiting
<1>1. lock \in [Subs -> LockType]
  BY DEF Shape, LockType
<1> DEFINE l == [lock[s] EXCEPT !.holders = lock[s].holders \ {x}]
<1>2. lock[s] \in LockType
  BY <1>1 DEF LockType
<1>3. l \in LockType /\ l.holders = lock[s].holders \ {x} /\ l.waiting = lock[s].waiting
  BY <1>2 DEF LockType
<1>4. lock' = [lock EXCEPT ![s] = l]
  BY DEF Released
<1> HIDE DEF l
<1> QED
  BY <1>1, <1>3, <1>4

\* Someone who does not wait yet asks for the lock of s.
LEMMA RequestKeepsLocks ==
    ASSUME CallsInv, NEW s \in Subs, NEW x \in Nat, Request(s, x),
           \A i \in DOMAIN lock[s].waiting : lock[s].waiting[i] # x,
           \/ x = Background /\ serving'[s] = Background /\ serving[s] # Background
           \/ x \in CallIds /\ calls'[x].to = s /\ calls'[x].status = "waiting",
           CallIds' = CallIds,
           \A d \in CallIds : /\ calls'[d].to = calls[d].to
                              /\ calls[d].status = "waiting" => calls'[d].status = "waiting",
           \A t \in Subs : serving[t] = Background => serving'[t] = Background
    PROVE  Locks'
<1>0. Shape /\ Locks
  BY DEF CallsInv
<1>1. /\ \A t \in Subs : t # s => lock'[t] = lock[t]
      /\ lock'[s].holders = lock[s].holders
      /\ lock'[s].waiting = Append(lock[s].waiting, x)
      /\ lock[s].waiting \in Seq(Nat)
  BY <1>0, RequestIs
<1> DEFINE w == lock[s].waiting
           l == Len(w)
<1>2. /\ DOMAIN w = 1 .. l /\ l \in Nat /\ DOMAIN lock'[s].waiting = 1 .. (l + 1)
      /\ lock'[s].waiting[l + 1] = x
      /\ \A i \in 1 .. l : lock'[s].waiting[i] = w[i]
  BY <1>1
<1>3. \A i \in DOMAIN lock'[s].waiting : i = l + 1 \/ i \in DOMAIN w
  BY <1>2
<1> HIDE DEF w, l
<1>4. \A y \in lock'[s].holders : (y = Background /\ serving'[s] = Background) \/ y \in CallIds
  BY <1>0, <1>1 DEF Locks
<1>5. x = Background => Background \notin lock[s].holders
  <2>1. Background \notin CallIds
    BY <1>0, CallTypes
  <2>2. x = Background => serving[s] # Background
    BY <2>1
  <2> QED
    BY <1>0, <2>1, <2>2 DEF Locks
<1>6. ASSUME NEW i \in DOMAIN lock'[s].waiting
      PROVE  LET y == lock'[s].waiting[i] IN
             \/ y = Background /\ serving'[s] = Background /\ Background \notin lock'[s].holders
             \/ y \in CallIds /\ calls'[y].to = s /\ calls'[y].status = "waiting"
  <2>1. CASE i = l + 1
    BY <1>1, <1>2, <1>5, <2>1
  <2>2. CASE i \in DOMAIN w
    <3>1. \/ w[i] = Background /\ serving[s] = Background /\ Background \notin lock[s].holders
          \/ w[i] \in CallIds /\ calls[w[i]].to = s /\ calls[w[i]].status = "waiting"
      BY <1>0, <2>2 DEF Locks, w
    <3> QED
      BY <1>1, <1>2, <2>2, <3>1
  <2> QED
    BY <1>3, <2>1, <2>2
<1>7. ASSUME NEW i \in DOMAIN lock'[s].waiting, NEW j \in DOMAIN lock'[s].waiting,
             lock'[s].waiting[i] = lock'[s].waiting[j]
      PROVE  i = j
  <2>1. \A k \in DOMAIN w : w[k] # x
    BY DEF w
  <2>2. \A k, m \in DOMAIN w : w[k] = w[m] => k = m
    BY <1>0 DEF Locks, w
  <2> QED
    BY <1>2, <1>3, <1>7, <2>1, <2>2
<1>8. \A t \in Subs : t # s =>
        /\ \A i \in DOMAIN lock'[t].waiting :
             LET y == lock'[t].waiting[i] IN
             \/ y = Background /\ serving'[t] = Background /\ Background \notin lock'[t].holders
             \/ y \in CallIds /\ calls'[y].to = t /\ calls'[y].status = "waiting"
        /\ \A i, j \in DOMAIN lock'[t].waiting : lock'[t].waiting[i] = lock'[t].waiting[j] => i = j
        /\ \A y \in lock'[t].holders : (y = Background /\ serving'[t] = Background) \/ y \in CallIds
  BY <1>0, <1>1 DEF Locks
<1> QED
  BY <1>4, <1>6, <1>7, <1>8 DEF Locks, Background, Subs

\* A worker starts and asks for the lock.
LEMMA StartWorkerStep ==
    ASSUME CallsInv, NEW c \in CallIds, StartWorker(c)
    PROVE  CallsInv'
<1>0. Shape /\ Queues /\ Tasks /\ Locks /\ Families /\ Orderly
  BY DEF CallsInv
<1> DEFINE s == calls[c].to
<1>1. /\ calls[c].status = "spawned" /\ SetStatus(c, "waiting") /\ Request(s, c)
      /\ UNCHANGED <<phase, serving, queue, workers, work, manager, signalled, faults>>
  BY DEF StartWorker
<1>2. Moved(c, "waiting")
  BY <1>0, <1>1, StatusSet DEF Statuses
<1>3. InProgress(c) /\ "waiting" \in Statuses \ {"queued"} /\ CallIds' = CallIds
  BY <1>1, <1>2 DEF InProgress, Statuses, Moved
<1>4. /\ Queues' /\ Families' /\ ReadsSeeEarlierWrites'
      /\ \A d \in CallIds : (Ended(d) => Ended(d)') /\ (InProgress(d)' => InProgress(d))
  BY <1>1, <1>2, <1>3, ProgressStep
<1>5. s \in Subs /\ c \in Nat /\ c # Background
  BY <1>0, CallTypes DEF Call
<1>6. lock' \in [Subs -> LockType]
  <2> HIDE DEF s
  <2> QED
    BY <1>0, <1>1, <1>5, RequestIs
<1>7. Shape'
  BY <1>0, <1>1, <1>2, <1>6 DEF Shape, Moved, LockType
<1>8. Tasks'
  BY <1>0, <1>1, <1>2, <1>3, <1>4 DEF Tasks, Moved, Nobody, Background, Ended, InProgress, Over
<1>9. Locks'
  <2>1. \A i \in DOMAIN lock[s].waiting : lock[s].waiting[i] # c
    BY <1>0, <1>1, <1>5 DEF Locks
  <2>2. /\ calls'[c].to = s /\ calls'[c].status = "waiting"
        /\ \A d \in CallIds : /\ calls'[d].to = calls[d].to
                              /\ calls[d].status = "waiting" => calls'[d].status = "waiting"
    BY <1>2 DEF Moved
  <2>3. PICK t \in Subs : t = s
    BY <1>5
  <2> HIDE DEF s
  <2> QED
    BY <1>1, <1>3, <1>5, <2>1, <2>2, <2>3, RequestKeepsLocks
<1>10. faults' >= faults
  BY <1>0, <1>1, SubsystemsAssumption DEF Shape
<1>11. Orderly'
  BY <1>1, <1>2, <1>3, <1>10, OrderlyStep
<1> QED
  BY <1>4, <1>7, <1>8, <1>9, <1>11 DEF CallsInv
\* The first who waits for the lock of s gets it.
LEMMA GrantStep ==
    ASSUME CallsInv, NEW s \in Subs, Grant(s)
    PROVE  CallsInv'
<1>0. Shape /\ Queues /\ Tasks /\ Locks /\ Families /\ Orderly /\ ReadsSeeEarlierWrites
  BY DEF CallsInv
<1> DEFINE w == lock[s].waiting
           x == Head(w)
           l == [holders |-> lock[s].holders \cup {x}, waiting |-> Tail(w)]
<1>1. /\ w # <<>> /\ lock' = [lock EXCEPT ![s] = l]
      /\ calls' = IF x = Background THEN calls ELSE [calls EXCEPT ![x].status = "running"]
      /\ UNCHANGED <<phase, serving, queue, workers, work, manager, signalled, faults>>
  BY DEF Grant
<1>2. lock \in [Subs -> LockType] /\ w \in Seq(Nat) /\ lock[s].holders \subseteq Nat
  BY <1>0 DEF Shape, LockType
<1>3. /\ x = w[1] /\ x \in Nat /\ DOMAIN w = 1 .. Len(w) /\ 1 \in DOMAIN w
      /\ Tail(w) \in Seq(Nat) /\ DOMAIN Tail(w) = 1 .. (Len(w) - 1) /\ Len(w) \in Nat
      /\ \A i \in DOMAIN Tail(w) : Tail(w)[i] = w[i + 1] /\ i + 1 \in DOMAIN w /\ i + 1 # 1
  BY <1>1, <1>2
<1>4. l \in LockType
  BY <1>2, <1>3 DEF LockType
<1>5. /\ lock' \in [Subs -> LockType]
      /\ \A t \in Subs : t # s => lock'[t] = lock[t]
      /\ lock'[s].holders = lock[s].holders \cup {x}
      /\ lock'[s].waiting = Tail(w)
  BY <1>1, <1>2, <1>4
<1>6. \A i \in DOMAIN w :
         \/ w[i] = Background /\ serving[s] = Background /\ Background \notin lock[s].holders
         \/ w[i] \in CallIds /\ calls[w[i]].to = s /\ calls[w[i]].status = "waiting"
  BY <1>0 DEF Locks
<1>7. \A i, j \in DOMAIN w : w[i] = w[j] => i = j
  BY <1>0 DEF Locks
<1>8. Background \notin CallIds
  BY <1>0, CallTypes
<1> HIDE DEF w, x, l
<1>9. \A i \in DOMAIN Tail(w) : Tail(w)[i] # x
  BY <1>3, <1>7
<1>10. \A i, j \in DOMAIN Tail(w) : Tail(w)[i] = Tail(w)[j] => i = j
  BY <1>3, <1>7
<1>11. faults' >= faults
  BY <1>0, <1>1, SubsystemsAssumption DEF Shape
\* Locks', given what became of the calls.
<1>12. ASSUME CallIds' = CallIds,
              \A d \in CallIds : calls'[d].to = calls[d].to /\ (d # x => calls'[d].status = calls[d].status)
       PROVE  Locks'
  <2>1. ASSUME NEW i \in DOMAIN Tail(w)
        PROVE  \/ Tail(w)[i] = Background /\ serving[s] = Background /\ Background \notin lock'[s].holders
               \/ Tail(w)[i] \in CallIds /\ calls'[Tail(w)[i]].to = s /\ calls'[Tail(w)[i]].status = "waiting"
    <3>1. \/ Tail(w)[i] = Background /\ serving[s] = Background /\ Background \notin lock[s].holders
          \/ Tail(w)[i] \in CallIds /\ calls[Tail(w)[i]].to = s /\ calls[Tail(w)[i]].status = "waiting"
      BY <1>3, <1>6
    <3> QED
      BY <1>5, <1>9, <1>12, <3>1
  <2>2. \A y \in lock'[s].holders : (y = Background /\ serving[s] = Background) \/ y \in CallIds
    BY <1>0, <1>3, <1>5, <1>6 DEF Locks
  <2>3. \A t \in Subs : t # s =>
          /\ \A i \in DOMAIN lock[t].waiting :
               LET y == lock[t].waiting[i] IN
               \/ y = Background /\ serving[t] = Background /\ Background \notin lock[t].holders
               \/ y \in CallIds /\ calls'[y].to = t /\ calls'[y].status = "waiting"
          /\ \A i, j \in DOMAIN lock[t].waiting : lock[t].waiting[i] = lock[t].waiting[j] => i = j
          /\ \A y \in lock[t].holders : (y = Background /\ serving[t] = Background) \/ y \in CallIds
    <3>1. \A t \in Subs : t # s => \A i \in DOMAIN lock[t].waiting :
               LET y == lock[t].waiting[i] IN
               y = x => y = Background
      BY <1>0, <1>3, <1>6, <1>8 DEF Locks
    <3> QED
      BY <1>0, <1>8, <1>12, <3>1 DEF Locks
  <2> QED
    <3>1. serving' = serving
      BY <1>1
    <3>2. ASSUME NEW t \in Subs
          PROVE  /\ \A i \in DOMAIN lock'[t].waiting :
                      LET y == lock'[t].waiting[i] IN
                      \/ y = Background /\ serving'[t] = Background /\ Background \notin lock'[t].holders
                      \/ y \in CallIds /\ calls'[y].to = t /\ calls'[y].status = "waiting"
                 /\ \A i, j \in DOMAIN lock'[t].waiting : lock'[t].waiting[i] = lock'[t].waiting[j] => i = j
                 /\ \A y \in lock'[t].holders : (y = Background /\ serving'[t] = Background) \/ y \in CallIds
      <4>1. CASE t = s
        BY <1>5, <1>10, <2>1, <2>2, <3>1, <4>1
      <4>2. CASE t # s
        BY <1>5, <2>3, <3>1, <4>2
      <4> QED
        BY <4>1, <4>2
    <3> QED
      BY <1>12, <3>2 DEF Locks, Background, Subs
<1>13. CASE x = Background
  <2>1. UNCHANGED calls
    BY <1>1, <1>13
  <2>2. CallIds' = CallIds /\ Families' /\ ReadsSeeEarlierWrites'
    BY <1>0, <2>1, CallsSame
  <2>3. Shape'
    BY <1>0, <1>1, <1>5, <2>1 DEF Shape, LockType
  <2>4. Queues' /\ Tasks' /\ Orderly'
    <3>1. UNCHANGED <<phase, serving, queue, workers, work, manager, faults>>
      BY <1>1
    <3>2. Queues'
      BY <1>0, <2>1, <2>2, <3>1 DEF Queues
    <3>3. Tasks'
      BY <1>0, <2>1, <2>2, <3>1 DEF Tasks, Nobody, Background, Ended, InProgress
    <3>4. Orderly'
      BY <1>0, <2>1, <2>2, <3>1 DEF Orderly, Nobody, Ended
    <3> QED
      BY <3>2, <3>3, <3>4
  <2>5. Locks'
    BY <1>12, <2>1, <2>2
  <2> QED
    BY <2>2, <2>3, <2>4, <2>5 DEF CallsInv
<1>14. CASE x # Background
  <2>1. x \in CallIds /\ calls[x].status = "waiting" /\ SetStatus(x, "running")
    BY <1>1, <1>3, <1>6, <1>14 DEF SetStatus
  <2>2. Moved(x, "running")
    BY <1>0, <2>1, StatusSet DEF Statuses
  <2>3. InProgress(x) /\ "running" \in Statuses \ {"queued"} /\ CallIds' = CallIds
    BY <2>1, <2>2 DEF InProgress, Statuses, Moved
  <2>4. PICK c \in CallIds : c = x
    BY <2>1
  <2>5. /\ Queues' /\ Families' /\ ReadsSeeEarlierWrites'
        /\ \A d \in CallIds : (Ended(d) => Ended(d)') /\ (InProgress(d)' => InProgress(d))
    BY <1>1, <2>1, <2>2, <2>3, ProgressStep
  <2>6. Shape'
    BY <1>0, <1>1, <1>5, <2>2 DEF Shape, Moved, LockType
  <2>7. Tasks'
    BY <1>0, <1>1, <2>1, <2>2, <2>3, <2>5 DEF Tasks, Moved, Nobody, Background, Ended, InProgress, Over
  <2>8. Locks'
    BY <1>12, <2>2 DEF Moved
  <2>9. Orderly'
    BY <1>1, <1>11, <2>1, <2>2, <2>3, OrderlyStep
  <2> QED
    BY <2>5, <2>6, <2>7, <2>8, <2>9 DEF CallsInv
<1> QED
  BY <1>13, <1>14

\* A holder that is done leaves the others as they are.
LEMMA ReleaseKeepsLocks ==
    ASSUME CallsInv, NEW s \in Subs, NEW c \in CallIds, lock' = Released(s, c),
           CallIds' = CallIds, calls[c].status # "waiting",
           \A d \in CallIds : /\ calls'[d].to = calls[d].to
                              /\ d # c => calls'[d].status = calls[d].status,
           \A t \in Subs : serving[t] = Background => serving'[t] = Background
    PROVE  Locks'
<1>0. Shape /\ Locks
  BY DEF CallsInv
<1>1. /\ \A t \in Subs : t # s => lock'[t] = lock[t]
      /\ lock'[s].holders = lock[s].holders \ {c}
      /\ lock'[s].waiting = lock[s].waiting
  BY <1>0, ReleaseIs
<1>2. /\ \A t \in Subs : lock'[t].waiting = lock[t].waiting
      /\ \A t \in Subs : lock'[t].holders \subseteq lock[t].holders
  BY <1>1
<1> QED
  BY <1>0, <1>2 DEF Locks, Background, Subs

\* A call is done.
LEMMA FinishStep ==
    ASSUME CallsInv, NEW c \in CallIds, Finish(c)
    PROVE  CallsInv'
<1>0. Shape /\ Queues /\ Tasks /\ Locks /\ Families /\ Orderly
  BY DEF CallsInv
<1>1. PICK s \in Subs : s = calls[c].to
  BY <1>0, CallTypes DEF Call
<1>2. /\ calls[c].status = "running" /\ SetStatus(c, "answered") /\ lock' = Released(s, c)
      /\ UNCHANGED <<queue, workers, manager, signalled, faults>>
      /\ \/ /\ serving[s] = c
            /\ phase' = [phase EXCEPT ![s] = "loop"] /\ serving' = [serving EXCEPT ![s] = Nobody]
            /\ \E u \in {work[s], work[s] + 1} \cap (0..WorkLimit) : work' = [work EXCEPT ![s] = u]
         \/ serving[s] # c /\ UNCHANGED <<phase, serving, work>>
  BY <1>1 DEF Finish
<1>3. Moved(c, "answered")
  BY <1>0, <1>2, StatusSet DEF Statuses
<1>4. InProgress(c) /\ "answered" \in Statuses \ {"queued"} /\ CallIds' = CallIds
  BY <1>2, <1>3 DEF InProgress, Statuses, Moved
<1>5. /\ Queues' /\ Families' /\ ReadsSeeEarlierWrites'
      /\ \A d \in CallIds : (Ended(d) => Ended(d)') /\ (InProgress(d)' => InProgress(d))
  BY <1>2, <1>3, <1>4, ProgressStep
<1>6. /\ phase \in [Subs -> Phases] /\ serving \in [Subs -> Nat] /\ work \in [Subs -> 0 .. WorkLimit]
      /\ c \in Nat /\ c # Background /\ c # Nobody /\ Nobody \in Nat /\ Nobody # Background
  BY <1>0, CallTypes DEF Shape
<1>7. /\ phase' \in [Subs -> Phases] /\ serving' \in [Subs -> Nat] /\ work' \in [Subs -> 0 .. WorkLimit]
  BY <1>2, <1>6 DEF Phases
<1>8. lock' \in [Subs -> LockType]
  BY <1>0, <1>2, ReleaseIs
<1>9. Shape'
  BY <1>0, <1>2, <1>3, <1>7, <1>8 DEF Shape, Moved, LockType
<1>10. /\ serving[s] = c => phase[s] = "serving" /\ phase'[s] = "loop" /\ serving'[s] = Nobody
       /\ \A t \in Subs : t # s \/ serving[s] # c =>
              phase'[t] = phase[t] /\ serving'[t] = serving[t] /\ work'[t] = work[t]
  BY <1>0, <1>2, <1>6 DEF Tasks
<1>11. Locks'
  <2>1. \A t \in Subs : serving[t] = Background => serving'[t] = Background
    BY <1>6, <1>10
  <2> QED
    BY <1>2, <1>3, <1>4, <2>1, ReleaseKeepsLocks DEF Moved
<1>12. Orderly'
  <2>1. faults' >= faults
    BY <1>0, <1>2, SubsystemsAssumption DEF Shape
  <2>2. /\ \A t \in Subs : phase'[t] = phase[t] \/ phase'[t] \notin {"draining", "closing", "down"}
        /\ \A t \in Subs : phase[t] = "down" => phase'[t] = "down"
    BY <1>10
  <2> QED
    BY <1>2, <1>3, <1>4, <2>1, <2>2, OrderlyStep
<1>13. Tasks'
  <2>1. ASSUME NEW t \in Subs
        PROVE  /\ phase'[t] # "serving" => serving'[t] = Nobody
               /\ \/ serving'[t] = Nobody
                  \/ serving'[t] = Background /\ work'[t] > 0
                  \/ serving'[t] \in CallIds /\ calls'[serving'[t]].kind = "mut" /\ calls'[serving'[t]].to = t
               /\ workers'[t] \subseteq CallIds
    <3>1. CASE t = s /\ serving[s] = c
      BY <1>0, <1>2, <1>10, <3>1 DEF Tasks
    <3>2. CASE t # s \/ serving[s] # c
      BY <1>0, <1>2, <1>3, <1>10, <3>2 DEF Tasks, Moved
    <3> QED
      BY <3>1, <3>2
  <2>2. ASSUME NEW d \in CallIds
        PROVE  /\ InProgress(d)' /\ calls'[d].kind = "mut" => serving'[calls'[d].to] = d
               /\ InProgress(d)' /\ calls'[d].kind = "ref" => d \in workers'[calls'[d].to]
               /\ ~Ended(d)' => phase'[calls'[d].to] # "down"
    <3>1. calls'[d].to = calls[d].to /\ calls'[d].kind = calls[d].kind /\ calls[d].to \in Subs
      BY <1>0, <1>3, CallTypes DEF Moved, Call
    <3>2. InProgress(d)' => d # c
      BY <1>3 DEF Moved, InProgress
    <3>3. InProgress(d)' /\ calls[d].kind = "mut" => serving'[calls[d].to] = d
      BY <1>0, <1>5, <1>10, <3>1, <3>2 DEF Tasks
    <3>4. InProgress(d)' /\ calls[d].kind = "ref" => d \in workers'[calls[d].to]
      BY <1>0, <1>2, <1>5 DEF Tasks
    <3>5. ~Ended(d)' => phase'[calls[d].to] # "down"
      BY <1>0, <1>5, <1>10, <3>1 DEF Tasks
    <3> QED
      BY <3>1, <3>3, <3>4, <3>5
  <2> QED
    BY <1>4, <2>1, <2>2 DEF Tasks, Nobody, Background, Subs
<1> QED
  BY <1>5, <1>9, <1>11, <1>12, <1>13 DEF CallsInv
\* A task ends.
LEMMA DownIs ==
    ASSUME Shape, NEW s \in Subs, Down(s, calls)
    PROVE  /\ calls' \in Seq(Call) /\ Len(calls') = Len(calls) /\ CallIds' = CallIds
           /\ \A d \in CallIds :
                 /\ calls'[d].to = calls[d].to /\ calls'[d].kind = calls[d].kind
                 /\ calls'[d].parent = calls[d].parent /\ calls'[d].asked = calls[d].asked
                 /\ calls'[d].status = IF d \in Pending(s) THEN "failed" ELSE calls[d].status
           /\ phase' \in [Subs -> Phases] /\ queue' \in [Subs -> Seq(Nat)]
           /\ workers' \in [Subs -> SUBSET Nat] /\ lock' \in [Subs -> LockType]
           /\ serving' \in [Subs -> Nat] /\ work' \in [Subs -> 0 .. WorkLimit]
           /\ phase'[s] = "down" /\ queue'[s] = <<>> /\ workers'[s] = {} /\ serving'[s] = Nobody
           /\ lock'[s].holders = {} /\ lock'[s].waiting = <<>>
           /\ \A t \in Subs : t # s =>
                 /\ phase'[t] = phase[t] /\ queue'[t] = queue[t] /\ workers'[t] = workers[t]
                 /\ serving'[t] = serving[t] /\ lock'[t] = lock[t] /\ work'[t] = work[t]
<1>1. /\ Len(calls) \in Nat /\ CallIds = 1 .. Len(calls) /\ Nobody \in Nat
      /\ \A c \in CallIds : calls[c] \in Call
  BY CallTypes DEF CallIds
<1> DEFINE r(d) == IF d \in Pending(s) THEN [calls[d] EXCEPT !.status = "failed"] ELSE calls[d]
<1>2. ASSUME NEW d \in CallIds
      PROVE  /\ r(d) \in Call
             /\ r(d).to = calls[d].to /\ r(d).kind = calls[d].kind
             /\ r(d).parent = calls[d].parent /\ r(d).asked = calls[d].asked
             /\ r(d).status = IF d \in Pending(s) THEN "failed" ELSE calls[d].status
  <2>1. calls[d] \in Call
    BY <1>1
  <2>2. CASE d \in Pending(s)
    BY <2>1, <2>2 DEF Call, Statuses
  <2>3. CASE d \notin Pending(s)
    BY <2>1, <2>3
  <2> QED
    BY <2>2, <2>3
<1>3. calls' = [d \in 1 .. Len(calls) |-> r(d)]
  BY <1>1 DEF Down
<1> HIDE DEF r
<1>4. calls' \in Seq(Call) /\ Len(calls') = Len(calls) /\ \A d \in CallIds : calls'[d] = r(d)
  BY <1>1, <1>2, <1>3
<1>5. CallIds' = CallIds
  BY <1>4 DEF CallIds
<1>6. /\ phase \in [Subs -> Phases] /\ queue \in [Subs -> Seq(Nat)]
      /\ workers \in [Subs -> SUBSET Nat] /\ lock \in [Subs -> LockType]
      /\ serving \in [Subs -> Nat] /\ work \in [Subs -> 0 .. WorkLimit]
  BY DEF Shape, LockType
<1> DEFINE l == [holders |-> {}, waiting |-> <<>>]
<1>7. <<>> \in Seq(Nat) /\ "down" \in Phases /\ 0 \in 0 .. WorkLimit /\ l \in LockType
  <2>1. <<>> \in Seq(Nat)
    OBVIOUS
  <2> QED
    BY <2>1, SubsystemsAssumption DEF Phases, LockType
<1>8. /\ phase' = [phase EXCEPT ![s] = "down"] /\ queue' = [queue EXCEPT ![s] = <<>>]
      /\ workers' = [workers EXCEPT ![s] = {}] /\ lock' = [lock EXCEPT ![s] = l]
      /\ serving' = [serving EXCEPT ![s] = Nobody] /\ work' = [work EXCEPT ![s] = 0]
  BY DEF Down
<1>9. l.holders = {} /\ l.waiting = <<>>
  OBVIOUS
<1> HIDE DEF l
<1>10. /\ phase' \in [Subs -> Phases] /\ queue' \in [Subs -> Seq(Nat)]
       /\ workers' \in [Subs -> SUBSET Nat] /\ lock' \in [Subs -> LockType]
       /\ serving' \in [Subs -> Nat] /\ work' \in [Subs -> 0 .. WorkLimit]
  BY <1>1, <1>6, <1>7, <1>8
<1>11. /\ phase'[s] = "down" /\ queue'[s] = <<>> /\ workers'[s] = {} /\ serving'[s] = Nobody
       /\ lock'[s] = l
       /\ \A t \in Subs : t # s =>
             /\ phase'[t] = phase[t] /\ queue'[t] = queue[t] /\ workers'[t] = workers[t]
             /\ serving'[t] = serving[t] /\ lock'[t] = lock[t] /\ work'[t] = work[t]
  BY <1>6, <1>8
<1> QED
  BY <1>2, <1>4, <1>5, <1>9, <1>10, <1>11

\* The end of a task keeps the invariant; unless there was a fault, it is the end of
\* a shutdown.
LEMMA DownStep ==
    ASSUME CallsInv, NEW s \in Subs, Down(s, calls), UNCHANGED manager,
           faults' \in 0 .. FaultLimit, faults' >= faults,
           faults' = 0 => phase[s] = "closing"
    PROVE  CallsInv'
<1>0. /\ Shape /\ Queues /\ Tasks /\ Locks /\ Families /\ Orderly /\ ReadsSeeEarlierWrites
  BY DEF CallsInv
<1>1. /\ calls' \in Seq(Call) /\ Len(calls') = Len(calls) /\ CallIds' = CallIds
      /\ \A d \in CallIds :
            /\ calls'[d].to = calls[d].to /\ calls'[d].kind = calls[d].kind
            /\ calls'[d].parent = calls[d].parent /\ calls'[d].asked = calls[d].asked
            /\ calls'[d].status = IF d \in Pending(s) THEN "failed" ELSE calls[d].status
  BY <1>0, DownIs
<1>2. /\ phase' \in [Subs -> Phases] /\ queue' \in [Subs -> Seq(Nat)]
      /\ workers' \in [Subs -> SUBSET Nat] /\ lock' \in [Subs -> LockType]
      /\ serving' \in [Subs -> Nat] /\ work' \in [Subs -> 0 .. WorkLimit]
  BY <1>0, DownIs
<1>3. /\ phase'[s] = "down" /\ queue'[s] = <<>> /\ workers'[s] = {} /\ serving'[s] = Nobody
      /\ lock'[s].holders = {} /\ lock'[s].waiting = <<>>
      /\ \A t \in Subs : t # s =>
            /\ phase'[t] = phase[t] /\ queue'[t] = queue[t] /\ workers'[t] = workers[t]
            /\ serving'[t] = serving[t] /\ lock'[t] = lock[t] /\ work'[t] = work[t]
  BY <1>0, DownIs
<1>4. signalled'
  BY DEF Down
<1>5. \A d \in CallIds : d \in Pending(s) <=> calls[d].to = s /\ ~Ended(d)
  BY DEF Pending
<1>6. \A d \in CallIds :
         /\ Ended(d) => Ended(d)'
         /\ InProgress(d)' => InProgress(d) /\ calls[d].to # s
         /\ ~Ended(d)' => ~Ended(d) /\ calls[d].to # s
  <2> SUFFICES ASSUME NEW d \in CallIds
               PROVE  /\ Ended(d) => Ended(d)'
                      /\ InProgress(d)' => InProgress(d) /\ calls[d].to # s
                      /\ ~Ended(d)' => ~Ended(d) /\ calls[d].to # s
    OBVIOUS
  <2>1. CASE d \in Pending(s)
    BY <1>1, <2>1 DEF Ended, InProgress, Over
  <2>2. CASE d \notin Pending(s)
    <3>1. calls'[d].status = calls[d].status
      BY <1>1, <2>2
    <3> QED
      BY <1>5, <2>2, <3>1 DEF Ended, InProgress, Over
  <2> QED
    BY <2>1, <2>2
<1>7. \A d \in CallIds : calls[d].to \in Subs
  BY <1>0, CallTypes DEF Call
<1>8. Shape'
  BY <1>0, <1>1, <1>2, <1>4 DEF Shape, LockType
<1>9. ReadsSeeEarlierWrites'
  BY <1>0, <1>1, <1>6 DEF ReadsSeeEarlierWrites
<1>10. Families'
  BY <1>0, <1>1 DEF Families, Nobody
<1>11. Queues'
  <2>1. \A d \in CallIds : calls'[d].status = "queued" => calls[d].status = "queued" /\ calls[d].to # s
    BY <1>1, <1>5 DEF Ended, Over
  <2>2. \A d \in CallIds : calls[d].status = "queued" /\ calls[d].to # s => calls'[d].status = "queued"
    BY <1>1, <1>5
  <2>3. \A t \in Subs : \A i \in DOMAIN queue'[t] :
           queue'[t][i] \in CallIds /\ calls'[queue'[t][i]].to = t /\ calls'[queue'[t][i]].status = "queued"
    BY <1>0, <1>1, <1>3, <2>2 DEF Queues
  <2>4. \A t \in Subs : \A i, j \in DOMAIN queue'[t] : i < j => queue'[t][i] < queue'[t][j]
    BY <1>0, <1>3 DEF Queues
  <2>5. \A c \in CallIds : calls'[c].status = "queued" =>
           \E i \in DOMAIN queue'[calls'[c].to] : queue'[calls'[c].to][i] = c
    BY <1>0, <1>1, <1>3, <1>7, <2>1 DEF Queues
  <2> QED
    BY <1>1, <2>3, <2>4, <2>5 DEF Queues, Subs
<1>12. Tasks'
  <2>1. ASSUME NEW t \in Subs
        PROVE  /\ phase'[t] # "serving" => serving'[t] = Nobody
               /\ \/ serving'[t] = Nobody
                  \/ serving'[t] = Background /\ work'[t] > 0
                  \/ serving'[t] \in CallIds /\ calls'[serving'[t]].kind = "mut" /\ calls'[serving'[t]].to = t
               /\ workers'[t] \subseteq CallIds
    <3>1. CASE t = s
      BY <1>3, <3>1
    <3>2. CASE t # s
      BY <1>0, <1>1, <1>3, <3>2 DEF Tasks
    <3> QED
      BY <3>1, <3>2
  <2>2. ASSUME NEW d \in CallIds
        PROVE  /\ InProgress(d)' /\ calls'[d].kind = "mut" => serving'[calls'[d].to] = d
               /\ InProgress(d)' /\ calls'[d].kind = "ref" => d \in workers'[calls'[d].to]
               /\ ~Ended(d)' => phase'[calls'[d].to] # "down"
    BY <1>0, <1>1, <1>3, <1>6, <1>7 DEF Tasks
  <2> QED
    BY <1>1, <2>1, <2>2 DEF Tasks, Nobody, Background, Subs
<1>13. Locks'
  <2>1. ASSUME NEW t \in Subs
        PROVE  /\ \A i \in DOMAIN lock'[t].waiting :
                    LET y == lock'[t].waiting[i] IN
                    \/ y = Background /\ serving'[t] = Background /\ Background \notin lock'[t].holders
                    \/ y \in CallIds /\ calls'[y].to = t /\ calls'[y].status = "waiting"
               /\ \A i, j \in DOMAIN lock'[t].waiting : lock'[t].waiting[i] = lock'[t].waiting[j] => i = j
               /\ \A y \in lock'[t].holders : (y = Background /\ serving'[t] = Background) \/ y \in CallIds
    <3>1. CASE t = s
      BY <1>3, <3>1
    <3>2. CASE t # s
      <4>1. lock'[t] = lock[t] /\ serving'[t] = serving[t]
        BY <1>3, <3>2
      <4>2. \A y \in CallIds : calls[y].to = t => calls'[y].to = t /\ calls'[y].status = calls[y].status
        BY <1>1, <1>5, <3>2
      <4> QED
        BY <1>0, <4>1, <4>2 DEF Locks
    <3> QED
      BY <3>1, <3>2
  <2> QED
    BY <1>1, <2>1 DEF Locks, Background, Subs
<1>14. Orderly'
  <2> SUFFICES ASSUME faults' = 0
               PROVE  Orderly'
    BY DEF Orderly
  <2>1. faults = 0 /\ phase[s] = "closing" /\ workers[s] = {} /\ s >= manager /\ serving[s] = Nobody
    <3>1. faults = 0 /\ phase[s] = "closing"
      BY <1>0 DEF Shape
    <3> QED
      BY <1>0, <3>1 DEF Orderly, Tasks
  <2>2. ASSUME NEW c \in CallIds, InProgress(c)
        PROVE  calls[c].to # s /\ ~(s < calls[c].to)
    <3>1. calls[c].kind \in {"mut", "ref"} /\ calls[c].to \in Subs /\ c # Nobody /\ s \in Nat
      BY <1>0, CallTypes DEF Call
    <3>2. calls[c].to # s
      BY <1>0, <2>1, <2>2, <3>1 DEF Tasks
    <3>3. phase[calls[c].to] # "down"
      BY <1>0, <2>2 DEF Tasks, InProgress, Ended, Over
    <3>4. manager \in Nat /\ calls[c].to \in Nat
      <4>1. manager \in Nat
        BY <1>0, SubsystemsAssumption DEF Shape
      <4>2. calls[c].to \in Nat
        BY <1>0, <3>1, CallTypes
      <4> QED
        BY <4>1, <4>2
    <3>5. ~(calls[c].to > manager)
      BY <1>0, <2>1, <3>1, <3>3 DEF Orderly
    <3> QED
      BY <2>1, <3>1, <3>2, <3>4, <3>5
  <2>3. ASSUME NEW d \in CallIds, calls[d].parent # Nobody, ~Ended(d)
        PROVE  /\ calls[d].to # s
               /\ calls'[calls[d].parent].status = "calling"
    <3> DEFINE c == calls[d].parent
    <3>1. c \in CallIds /\ calls[d].to < calls[c].to /\ calls[c].status = "calling"
      BY <1>0, <2>1, <2>3 DEF Families, Orderly
    <3>2. InProgress(c)
      BY <3>1 DEF InProgress
    <3>3. c \notin Pending(s)
      BY <1>5, <2>2, <3>1, <3>2
    <3> QED
      BY <1>1, <2>2, <3>1, <3>2, <3>3
  <2>4. ASSUME NEW d \in CallIds
        PROVE  /\ calls'[d].parent # Nobody /\ ~Ended(d)' => calls'[calls'[d].parent].status = "calling"
               /\ calls'[d].parent # Nobody => calls'[d].status # "failed"
               /\ calls'[d].status # "panicked"
    <3>1. calls'[d].parent = calls[d].parent /\ (~Ended(d)' => ~Ended(d))
      BY <1>1, <1>6
    <3>2. calls[d].status # "panicked" /\ (calls[d].parent # Nobody => calls[d].status # "failed")
      BY <1>0, <2>1 DEF Orderly
    <3>3. calls[d].parent # Nobody => d \notin Pending(s)
      BY <1>5, <2>3
    <3> QED
      BY <1>1, <2>3, <3>1, <3>2, <3>3
  <2>5. ASSUME NEW t \in Subs
        PROVE  /\ t > manager' => phase'[t] = "down"
               /\ phase'[t] \in {"draining", "closing", "down"} => t >= manager'
               /\ phase'[t] = "closing" => workers'[t] = {}
    <3>1. CASE t = s
      BY <1>3, <2>1, <3>1
    <3>2. CASE t # s
      BY <1>0, <1>3, <2>1, <3>2 DEF Orderly
    <3> QED
      BY <3>1, <3>2
  <2> QED
    BY <1>1, <2>4, <2>5 DEF Orderly, Nobody, Subs
<1> QED
  BY <1>8, <1>9, <1>10, <1>11, <1>12, <1>13, <1>14 DEF CallsInv

\* A task ends: after its shutdown, or because it fails to start.
LEMMA EndSteps ==
    ASSUME CallsInv, NEW s \in Subs, EndTask(s) \/ FailToStart(s)
    PROVE  CallsInv'
<1>0. faults \in 0 .. FaultLimit /\ FaultLimit \in Nat
  BY SubsystemsAssumption DEF CallsInv, Shape
<1>1. CASE EndTask(s)
  BY <1>0, <1>1, DownStep DEF EndTask
<1>2. CASE FailToStart(s)
  <2>1. /\ Down(s, calls) /\ UNCHANGED manager /\ faults < FaultLimit /\ faults' = faults + 1
    BY <1>2 DEF FailToStart
  <2>2. faults' \in 0 .. FaultLimit /\ faults' >= faults /\ faults' # 0
    BY <1>0, <2>1
  <2> QED
    BY <2>1, <2>2, DownStep
<1> QED
  BY <1>1, <1>2

\* A call panics.
LEMMA PanicStep ==
    ASSUME CallsInv, NEW c \in CallIds, Panic(c)
    PROVE  CallsInv'
<1>0. Shape /\ Queues /\ Tasks /\ Locks /\ Families /\ Orderly
  BY DEF CallsInv
<1>1. PICK s \in Subs : s = calls[c].to
  BY <1>0, CallTypes DEF Call
<1>2. /\ calls[c].status = "running" /\ UNCHANGED manager /\ faults' = faults + 1 /\ faults < FaultLimit
      /\ \/ serving[s] = c /\ Down(s, calls)
         \/ /\ serving[s] # c /\ SetStatus(c, "panicked") /\ lock' = Released(s, c)
            /\ UNCHANGED <<phase, serving, queue, workers, work, signalled>>
  BY <1>1 DEF Panic
<1>3. faults' \in 0 .. FaultLimit /\ faults' >= faults /\ faults' # 0
  <2>1. faults \in 0 .. FaultLimit /\ FaultLimit \in Nat
    BY <1>0, SubsystemsAssumption DEF Shape
  <2> QED
    BY <1>2, <2>1
<1>4. CASE Down(s, calls)
  BY <1>2, <1>3, <1>4, DownStep
<1>5. CASE /\ serving[s] # c /\ SetStatus(c, "panicked") /\ lock' = Released(s, c)
           /\ UNCHANGED <<phase, serving, queue, workers, work, signalled>>
  <2>1. Moved(c, "panicked")
    BY <1>0, <1>5, StatusSet DEF Statuses
  <2>2. InProgress(c) /\ "panicked" \in Statuses \ {"queued"} /\ CallIds' = CallIds
    BY <1>2, <2>1 DEF InProgress, Statuses, Moved
  <2>3. /\ Queues' /\ Families' /\ ReadsSeeEarlierWrites'
        /\ \A d \in CallIds : (Ended(d) => Ended(d)') /\ (InProgress(d)' => InProgress(d))
    BY <1>5, <2>1, <2>2, ProgressStep
  <2>4. lock' \in [Subs -> LockType]
    BY <1>0, <1>5, ReleaseIs
  <2>5. Shape'
    BY <1>0, <1>2, <1>3, <1>5, <2>1, <2>4 DEF Shape, Moved, LockType
  <2>6. Locks'
    <3>1. calls[c].status # "waiting"
      BY <1>2
    <3>2. \A t \in Subs : serving[t] = Background => serving'[t] = Background
      BY <1>5
    <3>3. \A d \in CallIds : /\ calls'[d].to = calls[d].to
                             /\ d # c => calls'[d].status = calls[d].status
      BY <2>1 DEF Moved
    <3> QED
      BY <1>5, <2>2, <3>1, <3>2, <3>3, ReleaseKeepsLocks
  <2>7. Orderly'
    BY <1>3 DEF Orderly
  <2>8. Tasks'
    BY <1>0, <1>5, <2>1, <2>2, <2>3 DEF Tasks, Moved, Nobody, Background
  <2> QED
    BY <2>3, <2>5, <2>6, <2>7, <2>8 DEF CallsInv
<1> QED
  BY <1>2, <1>4, <1>5

\* A worker that has ended is joined.
LEMMA JoinWorkerStep ==
    ASSUME CallsInv, NEW s \in Subs, JoinWorker(s)
    PROVE  CallsInv'
<1>0. Shape /\ Queues /\ Tasks /\ Locks /\ Families /\ Orderly
  BY DEF CallsInv
<1>1. PICK c \in workers[s] :
        /\ Ended(c)
        /\ \/ calls[c].status = "panicked" /\ Down(s, calls)
           \/ /\ workers' = [workers EXCEPT ![s] = @ \ {c}]
              /\ UNCHANGED <<phase, serving, queue, lock, work, calls, signalled>>
  BY DEF JoinWorker
<1>2. c \in CallIds /\ UNCHANGED <<manager, faults>>
  BY <1>0 DEF Tasks, JoinWorker
<1>3. faults' \in 0 .. FaultLimit /\ faults' >= faults
  BY <1>0, <1>2, SubsystemsAssumption DEF Shape
<1>4. CASE calls[c].status = "panicked" /\ Down(s, calls)
  <2>1. faults' # 0
    BY <1>0, <1>2, <1>4 DEF Orderly
  <2> QED
    BY <1>2, <1>3, <1>4, <2>1, DownStep
<1>5. CASE /\ workers' = [workers EXCEPT ![s] = @ \ {c}]
           /\ UNCHANGED <<phase, serving, queue, lock, work, calls, signalled>>
  <2>1. Queues' /\ Locks' /\ Families' /\ ReadsSeeEarlierWrites'
    BY <1>5, QuietStep
  <2>2. /\ CallIds' = CallIds
        /\ \A d : (Ended(d)' <=> Ended(d)) /\ (InProgress(d)' <=> InProgress(d))
    BY <1>5, CallsSame
  <2>3. workers \in [Subs -> SUBSET Nat]
    BY <1>0 DEF Shape
  <2>4. /\ workers' \in [Subs -> SUBSET Nat]
        /\ \A t \in Subs : workers'[t] \subseteq workers[t] /\ workers[t] \ {c} \subseteq workers'[t]
    BY <1>5, <2>3
  <2>5. Shape'
    BY <1>0, <1>2, <1>5, <2>4 DEF Shape
  <2>6. ASSUME NEW d \in CallIds, InProgress(d), calls[d].kind = "ref"
        PROVE  d \in workers'[calls[d].to]
    <3>1. d \in workers[calls[d].to] /\ calls[d].to \in Subs
      BY <1>0, <2>6, CallTypes DEF Tasks, Call
    <3>2. d # c
      BY <1>1, <2>6 DEF Ended, InProgress, Over
    <3> QED
      BY <2>4, <3>1, <3>2
  <2>7. Tasks'
    BY <1>0, <1>5, <2>2, <2>4, <2>6 DEF Tasks, Nobody, Background, Subs
  <2>8. Orderly'
    BY <1>0, <1>2, <1>5, <2>2, <2>4 DEF Orderly, Nobody, Subs
  <2> QED
    BY <2>1, <2>5, <2>7, <2>8 DEF CallsInv
<1> QED
  BY <1>1, <1>4, <1>5

\* What stays true when the calls, their queues and their workers do.
LEMMA WorkKeepsCalls ==
    ASSUME CallsInv, UNCHANGED <<queue, workers, calls, manager, signalled, faults>>,
           \A t \in Subs : phase'[t] = phase[t] \/ (phase[t] \in {"loop", "serving"} /\ phase'[t] \in {"loop", "serving"})
    PROVE  Queues' /\ Families' /\ ReadsSeeEarlierWrites' /\ Orderly'
<1>0. Queues /\ Families /\ ReadsSeeEarlierWrites /\ Orderly
  BY DEF CallsInv
<1>1. CallIds' = CallIds /\ Families' /\ ReadsSeeEarlierWrites'
  BY <1>0, CallsSame
<1>2. Queues'
  BY <1>0, <1>1 DEF Queues
<1>3. Orderly'
  BY <1>0, <1>1 DEF Orderly, Nobody, Ended, Subs
<1> QED
  BY <1>1, <1>2, <1>3

\* A task begins a unit of background work.
LEMMA BeginWorkStep ==
    ASSUME CallsInv, NEW s \in Subs, BeginWork(s)
    PROVE  CallsInv'
<1>0. Shape /\ Queues /\ Tasks /\ Locks /\ Families /\ Orderly
  BY DEF CallsInv
<1>1. /\ phase[s] = "loop" /\ work[s] > 0 /\ phase' = [phase EXCEPT ![s] = "serving"]
      /\ serving' = [serving EXCEPT ![s] = Background] /\ Request(s, Background)
      /\ UNCHANGED <<queue, workers, work, calls, manager, signalled, faults>>
  BY DEF BeginWork
<1>2. /\ phase \in [Subs -> Phases] /\ serving \in [Subs -> Nat] /\ Background \in Nat
  BY <1>0 DEF Shape, Background
<1>3. /\ phase' \in [Subs -> Phases] /\ serving' \in [Subs -> Nat]
      /\ phase'[s] = "serving" /\ serving'[s] = Background
      /\ \A t \in Subs : t # s => phase'[t] = phase[t] /\ serving'[t] = serving[t]
  BY <1>1, <1>2 DEF Phases
<1>4. serving[s] = Nobody /\ Nobody # Background /\ \A c \in CallIds : c # Nobody /\ c # Background
  BY <1>0, <1>1, CallTypes DEF Tasks
<1>5. Queues' /\ Families' /\ ReadsSeeEarlierWrites' /\ Orderly'
  <2>1. \A t \in Subs : phase'[t] = phase[t] \/ (phase[t] \in {"loop", "serving"} /\ phase'[t] \in {"loop", "serving"})
    BY <1>1, <1>3
  <2> QED
    BY <1>1, <2>1, WorkKeepsCalls
<1>6. CallIds' = CallIds /\ \A d : (Ended(d)' <=> Ended(d)) /\ (InProgress(d)' <=> InProgress(d))
  BY <1>1, CallsSame
<1>7. lock' \in [Subs -> LockType]
  BY <1>0, <1>1, <1>2, RequestIs
<1>8. Shape'
  BY <1>0, <1>1, <1>3, <1>7 DEF Shape, LockType
<1>9. Locks'
  <2>1. \A i \in DOMAIN lock[s].waiting : lock[s].waiting[i] # Background
    BY <1>0, <1>4 DEF Locks
  <2>2. \A t \in Subs : serving[t] = Background => serving'[t] = Background
    BY <1>3
  <2>3. \A d \in CallIds : /\ calls'[d].to = calls[d].to
                           /\ calls[d].status = "waiting" => calls'[d].status = "waiting"
    BY <1>1
  <2> QED
    BY <1>1, <1>2, <1>3, <1>4, <1>6, <2>1, <2>2, <2>3, RequestKeepsLocks
<1>10. Tasks'
  <2>1. ASSUME NEW t \in Subs
        PROVE  /\ phase'[t] # "serving" => serving'[t] = Nobody
               /\ \/ serving'[t] = Nobody
                  \/ serving'[t] = Background /\ work'[t] > 0
                  \/ serving'[t] \in CallIds /\ calls'[serving'[t]].kind = "mut" /\ calls'[serving'[t]].to = t
               /\ workers'[t] \subseteq CallIds
    BY <1>0, <1>1, <1>3 DEF Tasks
  <2>2. ASSUME NEW d \in CallIds
        PROVE  /\ InProgress(d) /\ calls'[d].kind = "mut" => serving'[calls'[d].to] = d
               /\ InProgress(d) /\ calls'[d].kind = "ref" => d \in workers'[calls'[d].to]
               /\ ~Ended(d) => phase'[calls'[d].to] # "down"
    <3>1. calls[d].to \in Subs
      BY <1>0, CallTypes DEF Call
    <3> QED
      BY <1>0, <1>1, <1>3, <1>4, <3>1 DEF Tasks
  <2> QED
    BY <1>6, <2>1, <2>2 DEF Tasks, Nobody, Background, Subs
<1> QED
  BY <1>5, <1>8, <1>9, <1>10 DEF CallsInv

\* A unit of background work is done.
LEMMA EndWorkStep ==
    ASSUME CallsInv, NEW s \in Subs, EndWork(s)
    PROVE  CallsInv'
<1>0. Shape /\ Queues /\ Tasks /\ Locks /\ Families /\ Orderly
  BY DEF CallsInv
<1>1. /\ Background \in lock[s].holders /\ lock' = Released(s, Background)
      /\ work' = [work EXCEPT ![s] = @ - 1]
      /\ phase' = [phase EXCEPT ![s] = "loop"] /\ serving' = [serving EXCEPT ![s] = Nobody]
      /\ UNCHANGED <<queue, workers, calls, manager, signalled, faults>>
  BY DEF EndWork
<1>2. /\ phase \in [Subs -> Phases] /\ serving \in [Subs -> Nat] /\ work \in [Subs -> 0 .. WorkLimit]
      /\ WorkLimit \in Nat
  BY <1>0, SubsystemsAssumption DEF Shape
<1>3. Nobody \in Nat /\ Nobody # Background /\ \A c \in CallIds : c # Nobody /\ c # Background
  BY <1>0, CallTypes
<1>4. serving[s] = Background /\ work[s] > 0 /\ phase[s] = "serving"
  BY <1>0, <1>1, <1>3 DEF Locks, Tasks
<1>5. /\ phase' \in [Subs -> Phases] /\ serving' \in [Subs -> Nat] /\ work' \in [Subs -> 0 .. WorkLimit]
      /\ phase'[s] = "loop" /\ serving'[s] = Nobody
      /\ \A t \in Subs : t # s => phase'[t] = phase[t] /\ serving'[t] = serving[t] /\ work'[t] = work[t]
  BY <1>1, <1>2, <1>3, <1>4 DEF Phases
<1>6. Queues' /\ Families' /\ ReadsSeeEarlierWrites' /\ Orderly'
  <2>1. \A t \in Subs : phase'[t] = phase[t] \/ (phase[t] \in {"loop", "serving"} /\ phase'[t] \in {"loop", "serving"})
    BY <1>4, <1>5
  <2> QED
    BY <1>1, <2>1, WorkKeepsCalls
<1>7. CallIds' = CallIds /\ \A d : (Ended(d)' <=> Ended(d)) /\ (InProgress(d)' <=> InProgress(d))
  BY <1>1, CallsSame
<1>8. /\ lock' \in [Subs -> LockType] /\ \A t \in Subs : t # s => lock'[t] = lock[t]
      /\ lock'[s].holders = lock[s].holders \ {Background} /\ lock'[s].waiting = lock[s].waiting
  BY <1>0, <1>1, ReleaseIs
<1>9. Shape'
  BY <1>0, <1>1, <1>5, <1>8 DEF Shape, LockType
<1>10. Locks'
  <2>1. ASSUME NEW t \in Subs
        PROVE  /\ \A i \in DOMAIN lock'[t].waiting :
                    LET y == lock'[t].waiting[i] IN
                    \/ y = Background /\ serving'[t] = Background /\ Background \notin lock'[t].holders
                    \/ y \in CallIds /\ calls'[y].to = t /\ calls'[y].status = "waiting"
               /\ \A i, j \in DOMAIN lock'[t].waiting : lock'[t].waiting[i] = lock'[t].waiting[j] => i = j
               /\ \A y \in lock'[t].holders : (y = Background /\ serving'[t] = Background) \/ y \in CallIds
    <3>1. CASE t = s
      BY <1>0, <1>1, <1>8, <3>1 DEF Locks
    <3>2. CASE t # s
      BY <1>0, <1>1, <1>5, <1>8, <3>2 DEF Locks
    <3> QED
      BY <3>1, <3>2
  <2> QED
    BY <1>7, <2>1 DEF Locks, Background, Subs
<1>11. Tasks'
  <2>1. ASSUME NEW t \in Subs
        PROVE  /\ phase'[t] # "serving" => serving'[t] = Nobody
               /\ \/ serving'[t] = Nobody
                  \/ serving'[t] = Background /\ work'[t] > 0
                  \/ serving'[t] \in CallIds /\ calls'[serving'[t]].kind = "mut" /\ calls'[serving'[t]].to = t
               /\ workers'[t] \subseteq CallIds
    BY <1>0, <1>1, <1>5 DEF Tasks
  <2>2. ASSUME NEW d \in CallIds
        PROVE  /\ InProgress(d) /\ calls'[d].kind = "mut" => serving'[calls'[d].to] = d
               /\ InProgress(d) /\ calls'[d].kind = "ref" => d \in workers'[calls'[d].to]
               /\ ~Ended(d) => phase'[calls'[d].to] # "down"
    <3>1. calls[d].to \in Subs
      BY <1>0, CallTypes DEF Call
    <3> QED
      BY <1>0, <1>1, <1>3, <1>4, <1>5, <3>1 DEF Tasks
  <2> QED
    BY <1>7, <2>1, <2>2 DEF Tasks, Nobody, Background, Subs
<1> QED
  BY <1>6, <1>9, <1>10, <1>11 DEF CallsInv

\* The first call of a queue is received: no earlier mutable call to the subsystem
\* is left.
LEMMA ReceiveCall ==
    ASSUME CallsInv, NEW s \in Subs, NEW c, NEW st \in {"waiting", "spawned"},
           phase[s] = "loop", queue[s] # <<>>, c = Head(queue[s]), SetStatus(c, st),
           queue' = [queue EXCEPT ![s] = Tail(@)]
    PROVE  /\ c \in CallIds /\ calls[c].to = s /\ calls[c].status = "queued" /\ Moved(c, st)
           /\ queue' \in [Subs -> Seq(Nat)]
           /\ Queues' /\ Families' /\ ReadsSeeEarlierWrites'
           /\ \A d \in CallIds : d # c => (Ended(d)' <=> Ended(d)) /\ (InProgress(d)' <=> InProgress(d))
<1>0. Shape /\ Queues /\ Tasks /\ Families /\ ReadsSeeEarlierWrites
  BY DEF CallsInv
<1> DEFINE q == queue[s]
<1>1. queue \in [Subs -> Seq(Nat)] /\ q \in Seq(Nat)
  BY <1>0 DEF Shape
<1>2. /\ c = q[1] /\ DOMAIN q = 1 .. Len(q) /\ 1 \in DOMAIN q /\ Len(q) \in Nat
      /\ Tail(q) \in Seq(Nat) /\ DOMAIN Tail(q) = 1 .. (Len(q) - 1)
      /\ \A i \in DOMAIN Tail(q) : Tail(q)[i] = q[i + 1] /\ i + 1 \in DOMAIN q /\ 1 < i + 1
  BY <1>1
<1>3. /\ \A i \in DOMAIN q : q[i] \in CallIds /\ calls[q[i]].to = s /\ calls[q[i]].status = "queued"
      /\ \A i, j \in DOMAIN q : i < j => q[i] < q[j]
  BY <1>0 DEF Queues
<1>4. /\ queue' \in [Subs -> Seq(Nat)] /\ queue'[s] = Tail(q)
      /\ \A t \in Subs : t # s => queue'[t] = queue[t]
  BY <1>1, <1>2
<1>5. \A d \in CallIds : calls[d].status = "queued" /\ calls[d].to = s => \E i \in DOMAIN q : q[i] = d
  BY <1>0 DEF Queues
<1> HIDE DEF q
<1>6. c \in CallIds /\ calls[c].to = s /\ calls[c].status = "queued"
  BY <1>2, <1>3
<1>7. Moved(c, st)
  BY <1>0, <1>6, StatusSet DEF Statuses
<1>8. \A d \in CallIds : d # c => (Ended(d)' <=> Ended(d)) /\ (InProgress(d)' <=> InProgress(d))
  BY <1>7 DEF Moved, Ended, InProgress
<1>9. Families'
  BY <1>0, <1>7, FamiliesMoved
<1>10. \A d \in CallIds : d \in Nat /\ d # Nobody
  BY <1>0, CallTypes
<1>11. ASSUME NEW i \in DOMAIN q
       PROVE  i = 1 \/ (i - 1 \in DOMAIN Tail(q) /\ Tail(q)[i - 1] = q[i])
  BY <1>2, <1>11
<1>12. \A i \in DOMAIN Tail(q) : Tail(q)[i] \in CallIds /\ Tail(q)[i] # c
  BY <1>2, <1>3, <1>10
<1>13. Queues'
  <2>1. \A i \in DOMAIN Tail(q) :
           Tail(q)[i] \in CallIds /\ calls'[Tail(q)[i]].to = s /\ calls'[Tail(q)[i]].status = "queued"
    <3> SUFFICES ASSUME NEW i \in DOMAIN Tail(q)
                 PROVE  Tail(q)[i] \in CallIds /\ calls'[Tail(q)[i]].to = s /\ calls'[Tail(q)[i]].status = "queued"
      OBVIOUS
    <3>1. /\ Tail(q)[i] \in CallIds /\ Tail(q)[i] # c
          /\ calls[Tail(q)[i]].to = s /\ calls[Tail(q)[i]].status = "queued"
      BY <1>2, <1>3, <1>12
    <3> QED
      BY <1>7, <3>1 DEF Moved
  <2>2. \A i, j \in DOMAIN Tail(q) : i < j => Tail(q)[i] < Tail(q)[j]
    BY <1>2, <1>3
  <2>3. ASSUME NEW t \in Subs, t # s
        PROVE  /\ \A i \in DOMAIN queue[t] :
                     queue[t][i] \in CallIds /\ calls'[queue[t][i]].to = t /\ calls'[queue[t][i]].status = "queued"
               /\ \A i, j \in DOMAIN queue[t] : i < j => queue[t][i] < queue[t][j]
    <3>1. \A i \in DOMAIN queue[t] :
             queue[t][i] \in CallIds /\ calls[queue[t][i]].to = t /\ calls[queue[t][i]].status = "queued"
      BY <1>0 DEF Queues
    <3>2. \A i \in DOMAIN queue[t] : queue[t][i] # c
      BY <1>6, <2>3, <3>1
    <3>3. \A i, j \in DOMAIN queue[t] : i < j => queue[t][i] < queue[t][j]
      BY <1>0 DEF Queues
    <3> QED
      BY <1>7, <3>1, <3>2, <3>3 DEF Moved
  <2>4. ASSUME NEW t \in Subs
        PROVE  /\ \A i \in DOMAIN queue'[t] :
                     queue'[t][i] \in CallIds /\ calls'[queue'[t][i]].to = t /\ calls'[queue'[t][i]].status = "queued"
               /\ \A i, j \in DOMAIN queue'[t] : i < j => queue'[t][i] < queue'[t][j]
    <3>1. CASE t = s
      <4>1. queue'[t] = Tail(q)
        BY <1>4, <3>1
      <4> QED
        BY <2>1, <2>2, <3>1, <4>1
    <3>2. CASE t # s
      <4>1. queue'[t] = queue[t]
        BY <1>4, <3>2
      <4> QED
        BY <2>3, <3>2, <4>1
    <3> QED
      BY <3>1, <3>2
  <2>5. ASSUME NEW d \in CallIds, calls'[d].status = "queued"
        PROVE  \E i \in DOMAIN queue'[calls'[d].to] : queue'[calls'[d].to][i] = d
    <3>1. d # c /\ calls[d].status = "queued" /\ calls'[d].to = calls[d].to
      BY <1>7, <2>5 DEF Moved
    <3>2. calls[d].to \in Subs
      BY <1>0, CallTypes DEF Call
    <3>3. CASE calls[d].to = s
      <4>1. PICK i \in DOMAIN q : q[i] = d
        BY <1>5, <3>1, <3>3
      <4>2. i - 1 \in DOMAIN Tail(q) /\ Tail(q)[i - 1] = d
        BY <1>2, <1>11, <3>1, <4>1
      <4> QED
        BY <1>4, <3>1, <3>3, <4>2
    <3>4. CASE calls[d].to # s
      BY <1>0, <1>4, <3>1, <3>2, <3>4 DEF Queues
    <3> QED
      BY <3>3, <3>4
  <2>6. CallIds' = CallIds
    BY <1>7 DEF Moved
  <2> QED
    BY <2>5, <2>6, <2>4 DEF Queues, Subs
<1>14. ReadsSeeEarlierWrites'
  <2>1. ASSUME NEW r \in CallIds, NEW m \in CallIds, calls[r].kind = "ref", InProgress(r)',
               calls[m].kind = "mut", calls[m].to = calls[r].to, m < r
        PROVE  Ended(m)'
    <3>1. CASE r # c
      <4>1. InProgress(r)
        BY <1>8, <2>1, <3>1
      <4>2. Ended(m)
        BY <1>0, <2>1, <4>1 DEF ReadsSeeEarlierWrites
      <4>3. m # c
        BY <1>6, <4>2 DEF Ended, Over
      <4> QED
        BY <1>8, <4>2, <4>3
    <3>2. CASE r = c
      <4>1. m # c /\ calls[m].to = s /\ calls[m].status \in Statuses
        BY <1>0, <1>6, <2>1, <3>2, CallTypes DEF Call
      <4>2. calls[m].status # "queued"
        <5> SUFFICES ASSUME calls[m].status = "queued"
                     PROVE  FALSE
          OBVIOUS
        <5>1. PICK i \in DOMAIN q : q[i] = m
          BY <1>5, <4>1
        <5>2. 1 < i
          BY <1>2, <4>1, <5>1
        <5>3. c < m
          BY <1>2, <1>3, <5>1, <5>2
        <5> QED
          BY <1>6, <1>10, <2>1, <3>2, <5>3
      <4>3. ~InProgress(m)
        <5>1. serving[s] = Nobody
          BY <1>0 DEF Tasks
        <5> QED
          BY <1>0, <1>10, <2>1, <4>1, <5>1 DEF Tasks
      <4>4. Ended(m)
        BY <4>1, <4>2, <4>3 DEF Statuses, InProgress, Ended, Over
      <4> QED
        BY <1>8, <4>1, <4>4
    <3> QED
      BY <3>1, <3>2
  <2> QED
    BY <1>7, <2>1 DEF ReadsSeeEarlierWrites, Moved
<1> QED
  BY <1>4, <1>6, <1>7, <1>8, <1>9, <1>13, <1>14

\* A task receives the first call of its queue.
LEMMA ReceiveStep ==
    ASSUME CallsInv, NEW s \in Subs, Receive(s)
    PROVE  CallsInv'
<1>0. Shape /\ Queues /\ Tasks /\ Locks /\ Families /\ Orderly
  BY DEF CallsInv
<1>1. PICK c : c = Head(queue[s])
  OBVIOUS
<1>2. PICK st \in {"waiting", "spawned"} :
        /\ phase[s] = "loop" /\ queue[s] # <<>> /\ SetStatus(c, st)
        /\ queue' = [queue EXCEPT ![s] = Tail(@)]
        /\ UNCHANGED <<work, manager, signalled, faults>>
        /\ \/ /\ calls[c].kind = "mut" /\ st = "waiting" /\ Request(s, c)
              /\ phase' = [phase EXCEPT ![s] = "serving"] /\ serving' = [serving EXCEPT ![s] = c]
              /\ UNCHANGED workers
           \/ /\ calls[c].kind # "mut" /\ st = "spawned" /\ workers' = [workers EXCEPT ![s] = @ \cup {c}]
              /\ UNCHANGED <<phase, serving, lock>>
  <2>1. /\ phase[s] = "loop" /\ queue[s] # <<>> /\ queue' = [queue EXCEPT ![s] = Tail(@)]
        /\ UNCHANGED <<work, manager, signalled, faults>>
        /\ IF calls[c].kind = "mut" THEN ReceiveMut(s, c) ELSE ReceiveRef(s, c)
    BY <1>1 DEF Receive
  <2>2. CASE calls[c].kind = "mut"
    BY <2>1, <2>2 DEF ReceiveMut
  <2>3. CASE calls[c].kind # "mut"
    BY <2>1, <2>3 DEF ReceiveRef
  <2> QED
    BY <2>2, <2>3
<1>3. /\ c \in CallIds /\ calls[c].to = s /\ calls[c].status = "queued" /\ Moved(c, st)
      /\ queue' \in [Subs -> Seq(Nat)]
      /\ Queues' /\ Families' /\ ReadsSeeEarlierWrites'
      /\ \A d \in CallIds : d # c => (Ended(d)' <=> Ended(d)) /\ (InProgress(d)' <=> InProgress(d))
  <2>1. /\ phase[s] = "loop" /\ queue[s] # <<>> /\ SetStatus(c, st)
        /\ queue' = [queue EXCEPT ![s] = Tail(@)]
    BY <1>2
  <2> QED
    BY <1>1, <2>1, ReceiveCall
<1>4. /\ c \in Nat /\ c # Background /\ c # Nobody /\ Nobody # Background
      /\ \A d \in CallIds : calls[d].to \in Subs /\ d # Background
  BY <1>0, <1>3, CallTypes DEF Call
<1>5. /\ phase \in [Subs -> Phases] /\ serving \in [Subs -> Nat] /\ workers \in [Subs -> SUBSET Nat]
      /\ lock \in [Subs -> LockType]
  BY <1>0 DEF Shape, LockType
<1>6. serving[s] = Nobody
  BY <1>0, <1>2 DEF Tasks
<1>7. CallIds' = CallIds /\ ~Ended(c) /\ ~Ended(c)' /\ InProgress(c)'
  BY <1>2, <1>3 DEF Moved, Ended, InProgress, Over
<1>8. /\ phase' \in [Subs -> Phases] /\ serving' \in [Subs -> Nat] /\ workers' \in [Subs -> SUBSET Nat]
      /\ lock' \in [Subs -> LockType]
      /\ \A t \in Subs : t # s => phase'[t] = phase[t] /\ serving'[t] = serving[t] /\ workers'[t] = workers[t]
      /\ phase'[s] \in {"loop", "serving"}
      /\ workers[s] \subseteq workers'[s] /\ workers'[s] \subseteq workers[s] \cup {c}
      /\ \/ /\ calls[c].kind = "mut" /\ phase'[s] = "serving" /\ serving'[s] = c
         \/ /\ calls[c].kind # "mut" /\ phase'[s] = phase[s] /\ serving'[s] = serving[s]
            /\ c \in workers'[s]
  <2>1. CASE /\ calls[c].kind = "mut" /\ Request(s, c)
             /\ phase' = [phase EXCEPT ![s] = "serving"] /\ serving' = [serving EXCEPT ![s] = c]
             /\ UNCHANGED workers
    <3>1. lock' \in [Subs -> LockType]
      BY <1>0, <1>4, <2>1, RequestIs
    <3> QED
      BY <1>4, <1>5, <2>1, <3>1 DEF Phases
  <2>2. CASE /\ calls[c].kind # "mut" /\ workers' = [workers EXCEPT ![s] = @ \cup {c}]
             /\ UNCHANGED <<phase, serving, lock>>
    BY <1>2, <1>4, <1>5, <2>2
  <2> QED
    BY <1>2, <2>1, <2>2
<1>9. Shape'
  BY <1>0, <1>2, <1>3, <1>8 DEF Shape, Moved, LockType
<1>10. Tasks'
  <2>1. ASSUME NEW t \in Subs
        PROVE  /\ phase'[t] # "serving" => serving'[t] = Nobody
               /\ \/ serving'[t] = Nobody
                  \/ serving'[t] = Background /\ work'[t] > 0
                  \/ serving'[t] \in CallIds /\ calls'[serving'[t]].kind = "mut" /\ calls'[serving'[t]].to = t
               /\ workers'[t] \subseteq CallIds
    <3>1. CASE t = s
      BY <1>0, <1>2, <1>3, <1>6, <1>8, <3>1 DEF Tasks, Moved
    <3>2. CASE t # s
      <4>1. phase'[t] = phase[t] /\ serving'[t] = serving[t] /\ workers'[t] = workers[t] /\ work'[t] = work[t]
        BY <1>2, <1>8, <3>2
      <4>2. \A d \in CallIds : calls'[d].to = calls[d].to /\ calls'[d].kind = calls[d].kind
        BY <1>3 DEF Moved
      <4> QED
        BY <1>0, <4>1, <4>2 DEF Tasks
    <3> QED
      BY <3>1, <3>2
  <2>2. ASSUME NEW d \in CallIds
        PROVE  /\ InProgress(d)' /\ calls'[d].kind = "mut" => serving'[calls'[d].to] = d
               /\ InProgress(d)' /\ calls'[d].kind = "ref" => d \in workers'[calls'[d].to]
               /\ ~Ended(d)' => phase'[calls'[d].to] # "down"
    <3>1. calls'[d].to = calls[d].to /\ calls'[d].kind = calls[d].kind
      BY <1>3 DEF Moved
    <3>2. CASE d = c
      BY <1>3, <1>8, <3>1, <3>2
    <3>3. CASE d # c
      <4>1. (Ended(d)' <=> Ended(d)) /\ (InProgress(d)' <=> InProgress(d))
        BY <1>3, <3>3
      <4>2. /\ InProgress(d) /\ calls[d].kind = "mut" => serving[calls[d].to] = d
            /\ InProgress(d) /\ calls[d].kind = "ref" => d \in workers[calls[d].to]
            /\ ~Ended(d) => phase[calls[d].to] # "down"
        BY <1>0 DEF Tasks
      <4>3. d # Nobody
        BY <1>0, CallTypes
      <4>4. calls[d].to \in Subs
        BY <1>4
      <4> QED
        BY <1>6, <1>8, <3>1, <4>1, <4>2, <4>3, <4>4
    <3> QED
      BY <3>2, <3>3
  <2> QED
    BY <1>7, <2>1, <2>2 DEF Tasks, Nobody, Background, Subs
<1>11. \A d \in CallIds : /\ calls'[d].to = calls[d].to
                          /\ d # c => calls'[d].status = calls[d].status
  BY <1>3 DEF Moved
<1>12. Locks'
  <2>1. \A t \in Subs : serving[t] = Background => serving'[t] = Background
    BY <1>4, <1>6, <1>8
  <2>2. \A d \in CallIds : calls[d].status = "waiting" => calls'[d].status = "waiting"
    BY <1>3, <1>11
  <2>3. CASE Request(s, c) /\ st = "waiting"
    <3>1. \A i \in DOMAIN lock[s].waiting : lock[s].waiting[i] # c
      BY <1>0, <1>3, <1>4 DEF Locks
    <3>2. calls'[c].to = s /\ calls'[c].status = "waiting"
      BY <1>3, <2>3 DEF Moved
    <3> QED
      BY <1>3, <1>4, <1>7, <1>11, <2>1, <2>2, <2>3, <3>1, <3>2, RequestKeepsLocks
  <2>4. CASE UNCHANGED lock
    BY <1>0, <1>7, <1>11, <2>1, <2>2, <2>4 DEF Locks, Background, Subs
  <2> QED
    BY <1>2, <2>3, <2>4
<1>13. Orderly'
  <2> SUFFICES ASSUME faults' = 0
               PROVE  Orderly'
    BY DEF Orderly
  <2>1. faults = 0 /\ manager' = manager
    BY <1>2
  <2>2. ASSUME NEW d \in CallIds
        PROVE  /\ calls'[d].parent # Nobody /\ ~Ended(d)' => calls'[calls'[d].parent].status = "calling"
               /\ calls'[d].parent # Nobody => calls'[d].status # "failed"
               /\ calls'[d].status # "panicked"
    <3>1. calls'[d].parent = calls[d].parent /\ (~Ended(d)' => ~Ended(d))
      BY <1>3, <1>7 DEF Moved
    <3>2. ASSUME calls[d].parent # Nobody, ~Ended(d)
          PROVE  calls'[calls[d].parent].status = "calling"
      <4>1. calls[d].parent \in CallIds /\ calls[calls[d].parent].status = "calling"
        BY <1>0, <2>1, <3>2 DEF Orderly, Families
      <4> QED
        BY <1>3, <1>11, <4>1
    <3>3. calls[d].status # "panicked" /\ (calls[d].parent # Nobody => calls[d].status # "failed")
      BY <1>0, <2>1 DEF Orderly
    <3>4. calls'[d].status = calls[d].status \/ calls'[d].status \in {"waiting", "spawned"}
      BY <1>3 DEF Moved
    <3> QED
      BY <3>1, <3>2, <3>3, <3>4
  <2>3. ASSUME NEW t \in Subs
        PROVE  /\ t > manager' => phase'[t] = "down"
               /\ phase'[t] \in {"draining", "closing", "down"} => t >= manager'
               /\ phase'[t] = "closing" => workers'[t] = {}
    <3>1. CASE t = s
      BY <1>0, <1>2, <1>8, <2>1, <3>1 DEF Orderly
    <3>2. CASE t # s
      BY <1>0, <1>8, <2>1, <3>2 DEF Orderly
    <3> QED
      BY <3>1, <3>2
  <2> QED
    BY <1>7, <2>2, <2>3 DEF Orderly, Nobody, Subs
<1> QED
  BY <1>3, <1>9, <1>10, <1>12, <1>13 DEF CallsInv

\* The calls after one more is sent to s, from outside or by another call.
Sent(s, kind, parent) ==
    /\ calls' \in Seq(Call) /\ Len(calls') = Len(calls) + 1
    /\ CallIds' = CallIds \cup {Len(calls')} /\ Len(calls') \notin CallIds
    /\ calls'[Len(calls')].to = s /\ calls'[Len(calls')].kind = kind
    /\ calls'[Len(calls')].parent = parent
    /\ calls'[Len(calls')].status = IF phase[s] = "down" THEN "failed" ELSE "queued"
    /\ \A d \in CallIds :
          /\ calls'[d].to = calls[d].to /\ calls'[d].kind = calls[d].kind
          /\ calls'[d].parent = calls[d].parent
          /\ (calls[d].asked \/ d = parent) => calls'[d].asked
          /\ calls'[d].status = IF d = parent THEN "calling" ELSE calls[d].status

\* Appending a call to calls that are as they were but for the caller's.
LEMMA SentIs ==
    ASSUME Shape, NEW s \in Subs, NEW kind \in {"mut", "ref"}, NEW parent \in Nat,
           NEW before \in Seq(Call), Len(before) = Len(calls),
           \A d \in CallIds :
              /\ before[d].to = calls[d].to /\ before[d].kind = calls[d].kind
              /\ before[d].parent = calls[d].parent
              /\ (calls[d].asked \/ d = parent) => before[d].asked
              /\ before[d].status = IF d = parent THEN "calling" ELSE calls[d].status,
           calls' = Append(before, NewCall(s, kind, parent))
    PROVE  Sent(s, kind, parent)
<1> DEFINE r == NewCall(s, kind, parent)
<1>1. /\ r \in Call /\ r.to = s /\ r.kind = kind /\ r.parent = parent
      /\ r.status = IF phase[s] = "down" THEN "failed" ELSE "queued"
  BY DEF NewCall, Call, Statuses
<1> HIDE DEF r
<1>2. calls' = Append(before, r)
  BY DEF r
<1>3. Len(calls) \in Nat /\ CallIds = 1 .. Len(calls)
  BY CallTypes DEF CallIds
<1>4. /\ calls' \in Seq(Call) /\ Len(calls') = Len(calls) + 1 /\ calls'[Len(calls')] = r
      /\ \A d \in CallIds : calls'[d] = before[d]
  BY <1>1, <1>2, <1>3
<1>5. CallIds' = CallIds \cup {Len(calls')} /\ Len(calls') \notin CallIds
  <2>1. CallIds' = 1 .. Len(calls')
    BY DEF CallIds
  <2> QED
    BY <1>3, <1>4, <2>1
<1>6. \A d \in CallIds :
          /\ calls'[d].to = calls[d].to /\ calls'[d].kind = calls[d].kind
          /\ calls'[d].parent = calls[d].parent
          /\ (calls[d].asked \/ d = parent) => calls'[d].asked
          /\ calls'[d].status = IF d = parent THEN "calling" ELSE calls[d].status
  <2> SUFFICES ASSUME NEW d \in CallIds
               PROVE  /\ calls'[d].to = calls[d].to /\ calls'[d].kind = calls[d].kind
                      /\ calls'[d].parent = calls[d].parent
                      /\ (calls[d].asked \/ d = parent) => calls'[d].asked
                      /\ calls'[d].status = IF d = parent THEN "calling" ELSE calls[d].status
    OBVIOUS
  <2>1. calls'[d] = before[d]
    BY <1>4
  <2>2. /\ before[d].to = calls[d].to /\ before[d].kind = calls[d].kind
        /\ before[d].parent = calls[d].parent
        /\ (calls[d].asked \/ d = parent) => before[d].asked
        /\ before[d].status = IF d = parent THEN "calling" ELSE calls[d].status
    OBVIOUS
  <2> QED
    BY <2>1, <2>2
<1>7. /\ calls'[Len(calls')].to = s /\ calls'[Len(calls')].kind = kind
      /\ calls'[Len(calls')].parent = parent
      /\ calls'[Len(calls')].status = IF phase[s] = "down" THEN "failed" ELSE "queued"
  BY <1>1, <1>4
<1> QED
  BY <1>4, <1>5, <1>6, <1>7 DEF Sent

\* An increasing queue at whose end something greater is put.
LEMMA AppendIs ==
    ASSUME NEW q \in Seq(Nat), NEW n \in Nat
    PROVE  /\ Append(q, n) \in Seq(Nat)
           /\ DOMAIN q = 1 .. Len(q) /\ Len(q) \in Nat
           /\ DOMAIN Append(q, n) = 1 .. (Len(q) + 1)
           /\ Append(q, n)[Len(q) + 1] = n
           /\ \A i \in DOMAIN q : Append(q, n)[i] = q[i]
           /\ \A i \in DOMAIN Append(q, n) : i \in DOMAIN q \/ i = Len(q) + 1
           /\ (/\ \A i \in DOMAIN q : q[i] < n
               /\ \A i, j \in DOMAIN q : i < j => q[i] < q[j])
              => \A i, j \in DOMAIN Append(q, n) : i < j => Append(q, n)[i] < Append(q, n)[j]
<1>1. /\ Append(q, n) \in Seq(Nat)
      /\ DOMAIN q = 1 .. Len(q) /\ Len(q) \in Nat
      /\ DOMAIN Append(q, n) = 1 .. (Len(q) + 1)
      /\ Append(q, n)[Len(q) + 1] = n
      /\ \A i \in DOMAIN q : Append(q, n)[i] = q[i]
  OBVIOUS
<1>2. \A i \in DOMAIN Append(q, n) : i \in DOMAIN q \/ i = Len(q) + 1
  BY <1>1
<1>3. ASSUME \A i \in DOMAIN q : q[i] < n, \A i, j \in DOMAIN q : i < j => q[i] < q[j],
             NEW i \in DOMAIN Append(q, n), NEW j \in DOMAIN Append(q, n), i < j
      PROVE  Append(q, n)[i] < Append(q, n)[j]
  <2>1. i \in DOMAIN q
    BY <1>1, <1>2, <1>3
  <2>2. CASE j \in DOMAIN q
    BY <1>1, <1>3, <2>1, <2>2
  <2>3. CASE j = Len(q) + 1
    BY <1>1, <1>3, <2>1, <2>3
  <2> QED
    BY <1>2, <2>2, <2>3
<1> QED
  BY <1>1, <1>2, <1>3

\* A call is sent: it takes its place at the end of a queue, or is given up when
\* there is no task to receive it.
LEMMA SendStep ==
    ASSUME CallsInv, NEW s \in Subs, NEW kind, NEW parent, Sent(s, kind, parent), Send(s),
           Len(calls) < CallLimit,
           \/ parent = Nobody
           \/ /\ parent \in CallIds /\ calls[parent].status = "running" /\ ~calls[parent].asked
              /\ s < calls[parent].to,
           UNCHANGED <<phase, serving, workers, lock, work, manager, signalled, faults>>
    PROVE  CallsInv'
<1>0. Shape /\ Queues /\ Tasks /\ Locks /\ Families /\ Orderly /\ ReadsSeeEarlierWrites
  BY DEF CallsInv
<1>1. PICK n : n = Len(calls')
  OBVIOUS
<1>2. /\ calls' \in Seq(Call) /\ n = Len(calls) + 1 /\ CallIds' = CallIds \cup {n} /\ n \notin CallIds
      /\ calls'[n].to = s /\ calls'[n].parent = parent
      /\ calls'[n].status = IF phase[s] = "down" THEN "failed" ELSE "queued"
  BY <1>1 DEF Sent
<1>3. \A d \in CallIds :
          /\ calls'[d].to = calls[d].to /\ calls'[d].kind = calls[d].kind
          /\ calls'[d].parent = calls[d].parent
          /\ (calls[d].asked \/ d = parent) => calls'[d].asked
          /\ calls'[d].status = IF d = parent THEN "calling" ELSE calls[d].status
  BY DEF Sent
<1>4. /\ Len(calls) \in Nat /\ CallIds = 1 .. Len(calls) /\ CallLimit \in Nat
      /\ \A c \in CallIds : c \in Nat /\ c # Nobody /\ c # Background /\ calls[c].to \in Subs
      /\ \A c \in CallIds : calls[c].status \in Statuses
      /\ Nobody = CallLimit + 1 /\ Background = 0
  BY <1>0, CallTypes, SubsystemsAssumption DEF CallIds, Call, Nobody, Background
<1>5. n \in Nat /\ n # Nobody /\ n # Background /\ n \leq CallLimit /\ \A c \in CallIds : c < n
  BY <1>2, <1>4
<1>6. \A d \in CallIds : /\ Ended(d)' <=> Ended(d)
                         /\ InProgress(d)' <=> InProgress(d)
                         /\ calls'[d].status = "queued" <=> calls[d].status = "queued"
                         /\ calls'[d].status = "waiting" <=> calls[d].status = "waiting"
                         /\ calls'[d].status = "failed" <=> calls[d].status = "failed"
                         /\ calls'[d].status = "panicked" <=> calls[d].status = "panicked"
                         /\ calls[d].status = "calling" => calls'[d].status = "calling"
  <2>1. \A d \in CallIds : d = parent => calls[d].status = "running" /\ calls'[d].status = "calling"
    BY <1>3, <1>4
  <2>2. \A d \in CallIds : d # parent => calls'[d].status = calls[d].status
    BY <1>3
  <2> QED
    BY <2>1, <2>2 DEF Ended, InProgress, Over
<1>7. ~InProgress(n)' /\ (~Ended(n)' <=> phase[s] # "down")
  BY <1>2 DEF InProgress, Ended, Over
<1>8. /\ queue' \in [Subs -> Seq(Nat)]
      /\ \A t \in Subs : t # s => queue'[t] = queue[t]
      /\ phase[s] = "down" => queue'[s] = queue[s]
      /\ phase[s] # "down" => queue'[s] = Append(queue[s], n)
      /\ queue[s] \in Seq(Nat)
  <2>1. queue \in [Subs -> Seq(Nat)] /\ queue[s] \in Seq(Nat)
    BY <1>0 DEF Shape
  <2>2. queue' = IF phase[s] = "down" THEN queue ELSE [queue EXCEPT ![s] = Append(queue[s], n)]
    BY <1>2 DEF Send
  <2>3. Append(queue[s], n) \in Seq(Nat)
    BY <1>5, <2>1
  <2> QED
    BY <2>1, <2>2, <2>3
<1>9. Shape'
  BY <1>0, <1>1, <1>2, <1>5, <1>8 DEF Shape
<1>10. Queues'
  <2>1. ASSUME NEW t \in Subs
        PROVE  /\ \A i \in DOMAIN queue[t] : /\ queue[t][i] \in CallIds /\ calls'[queue[t][i]].to = t
                                             /\ calls'[queue[t][i]].status = "queued"
               /\ \A i, j \in DOMAIN queue[t] : i < j => queue[t][i] < queue[t][j]
    BY <1>0, <1>3, <1>6 DEF Queues
  <2>2. ASSUME phase[s] # "down"
        PROVE  /\ \A i \in DOMAIN queue'[s] : /\ queue'[s][i] \in CallIds' /\ calls'[queue'[s][i]].to = s
                                              /\ calls'[queue'[s][i]].status = "queued"
               /\ \A i, j \in DOMAIN queue'[s] : i < j => queue'[s][i] < queue'[s][j]
    <3>1. queue'[s] = Append(queue[s], n)
      BY <1>8, <2>2
    <3>2. /\ \A i \in DOMAIN queue[s] : Append(queue[s], n)[i] = queue[s][i]
          /\ \A i \in DOMAIN Append(queue[s], n) : i \in DOMAIN queue[s] \/ i = Len(queue[s]) + 1
          /\ Append(queue[s], n)[Len(queue[s]) + 1] = n
      BY <1>5, <1>8, AppendIs
    <3>3. /\ \A i \in DOMAIN queue[s] : queue[s][i] < n
          /\ \A i, j \in DOMAIN queue[s] : i < j => queue[s][i] < queue[s][j]
      BY <1>5, <2>1
    <3>4. \A i, j \in DOMAIN Append(queue[s], n) : i < j => Append(queue[s], n)[i] < Append(queue[s], n)[j]
      BY <1>5, <1>8, <3>3, AppendIs
    <3>5. calls'[n].to = s /\ calls'[n].status = "queued" /\ n \in CallIds'
      BY <1>2, <2>2
    <3>6. ASSUME NEW i \in DOMAIN Append(queue[s], n)
          PROVE  /\ Append(queue[s], n)[i] \in CallIds' /\ calls'[Append(queue[s], n)[i]].to = s
                 /\ calls'[Append(queue[s], n)[i]].status = "queued"
      <4>1. CASE i \in DOMAIN queue[s]
        BY <1>2, <2>1, <3>2, <4>1
      <4>2. CASE i = Len(queue[s]) + 1
        BY <3>2, <3>5, <4>2
      <4> QED
        BY <3>2, <4>1, <4>2
    <3> QED
      BY <3>1, <3>4, <3>6
  <2>3. ASSUME NEW t \in Subs
        PROVE  /\ \A i \in DOMAIN queue'[t] : /\ queue'[t][i] \in CallIds' /\ calls'[queue'[t][i]].to = t
                                              /\ calls'[queue'[t][i]].status = "queued"
               /\ \A i, j \in DOMAIN queue'[t] : i < j => queue'[t][i] < queue'[t][j]
    <3>1. CASE t = s /\ phase[s] # "down"
      BY <2>2, <3>1
    <3>2. CASE t # s \/ phase[s] = "down"
      <4>1. queue'[t] = queue[t]
        BY <1>8, <3>2
      <4> QED
        BY <1>2, <2>1, <4>1
    <3> QED
      BY <3>1, <3>2
  <2>4. ASSUME NEW d \in CallIds', calls'[d].status = "queued"
        PROVE  \E i \in DOMAIN queue'[calls'[d].to] : queue'[calls'[d].to][i] = d
    <3>1. CASE d = n
      <4>1. phase[s] # "down"
        BY <1>2, <2>4, <3>1
      <4>2. queue'[s] = Append(queue[s], n)
        BY <1>8, <4>1
      <4>3. Len(queue[s]) + 1 \in DOMAIN Append(queue[s], n) /\ Append(queue[s], n)[Len(queue[s]) + 1] = n
        BY <1>5, <1>8, AppendIs
      <4> QED
        BY <1>2, <3>1, <4>2, <4>3
    <3>2. CASE d # n
      <4>1. d \in CallIds /\ calls[d].status = "queued" /\ calls'[d].to = calls[d].to /\ calls[d].to \in Subs
        BY <1>2, <1>3, <1>4, <1>6, <2>4, <3>2
      <4>2. PICK i \in DOMAIN queue[calls[d].to] : queue[calls[d].to][i] = d
        BY <1>0, <4>1 DEF Queues
      <4>3. CASE calls[d].to = s /\ phase[s] # "down"
        <5>1. queue'[s] = Append(queue[s], n) /\ i \in DOMAIN queue[s] /\ queue[s][i] = d
          BY <1>8, <4>2, <4>3
        <5>2. i \in DOMAIN Append(queue[s], n) /\ Append(queue[s], n)[i] = queue[s][i]
          BY <1>5, <1>8, <5>1, AppendIs
        <5> QED
          BY <4>1, <4>3, <5>1, <5>2
      <4>4. CASE calls[d].to # s \/ phase[s] = "down"
        <5>1. queue'[calls[d].to] = queue[calls[d].to]
          BY <1>8, <4>1, <4>4
        <5> QED
          BY <4>1, <4>2, <5>1
      <4> QED
        BY <4>3, <4>4
    <3> QED
      BY <3>1, <3>2
  <2> QED
    BY <2>3, <2>4 DEF Queues, Subs
<1>11. Tasks'
  <2>1. ASSUME NEW t \in Subs
        PROVE  /\ phase[t] # "serving" => serving[t] = Nobody
               /\ \/ serving[t] = Nobody
                  \/ serving[t] = Background /\ work[t] > 0
                  \/ serving[t] \in CallIds' /\ calls'[serving[t]].kind = "mut" /\ calls'[serving[t]].to = t
               /\ workers[t] \subseteq CallIds'
    BY <1>0, <1>2, <1>3 DEF Tasks
  <2>2. ASSUME NEW d \in CallIds'
        PROVE  /\ InProgress(d)' /\ calls'[d].kind = "mut" => serving[calls'[d].to] = d
               /\ InProgress(d)' /\ calls'[d].kind = "ref" => d \in workers[calls'[d].to]
               /\ ~Ended(d)' => phase[calls'[d].to] # "down"
    <3>1. CASE d = n
      BY <1>2, <1>7, <3>1
    <3>2. CASE d \in CallIds
      BY <1>0, <1>3, <1>6, <3>2 DEF Tasks
    <3> QED
      BY <1>2, <3>1, <3>2
  <2> QED
    BY <2>1, <2>2 DEF Tasks, Nobody, Background, Subs
<1>12. Locks'
  BY <1>0, <1>2, <1>3, <1>6 DEF Locks, Background, Subs
<1>13. parent # Nobody => parent \in CallIds /\ \A d \in CallIds : calls[d].parent # parent
  BY <1>0 DEF Families
<1>14. Families'
  <2>1. ASSUME NEW d \in CallIds', calls'[d].parent # Nobody
        PROVE  /\ calls'[d].parent \in CallIds
               /\ calls'[d].to < calls'[calls'[d].parent].to
               /\ calls'[calls'[d].parent].asked
    <3>1. CASE d = n
      BY <1>2, <1>3, <2>1, <3>1
    <3>2. CASE d \in CallIds
      BY <1>0, <1>3, <2>1, <3>2 DEF Families
    <3> QED
      BY <1>2, <3>1, <3>2
  <2>2. ASSUME NEW d \in CallIds', NEW e \in CallIds', calls'[d].parent # Nobody,
               calls'[d].parent = calls'[e].parent
        PROVE  d = e
    <3>1. CASE d \in CallIds /\ e \in CallIds
      BY <1>0, <1>3, <2>2, <3>1 DEF Families
    <3>2. CASE d = n /\ e \in CallIds
      BY <1>2, <1>3, <1>13, <2>2, <3>2
    <3>3. CASE d \in CallIds /\ e = n
      BY <1>2, <1>3, <1>13, <2>2, <3>3
    <3> QED
      BY <1>2, <3>1, <3>2, <3>3
  <2> QED
    BY <1>2, <2>1, <2>2 DEF Families, Nobody
<1>15. ReadsSeeEarlierWrites'
  <2>1. ASSUME NEW c \in CallIds', NEW d \in CallIds', calls'[c].kind = "ref", InProgress(c)',
               calls'[d].kind = "mut", calls'[d].to = calls'[c].to, d < c
        PROVE  Ended(d)'
    <3>1. c \in CallIds
      BY <1>2, <1>7, <2>1
    <3>2. d \in CallIds
      BY <1>2, <1>4, <1>5, <2>1, <3>1
    <3>3. Ended(d)
      BY <1>0, <1>3, <1>6, <2>1, <3>1, <3>2 DEF ReadsSeeEarlierWrites
    <3> QED
      BY <1>6, <3>2, <3>3
  <2> QED
    BY <2>1 DEF ReadsSeeEarlierWrites
<1>16. Orderly'
  <2> SUFFICES ASSUME faults' = 0
               PROVE  Orderly'
    BY DEF Orderly
  <2>1. faults = 0
    OBVIOUS
  <2>2. parent # Nobody => phase[s] # "down"
    <3> SUFFICES ASSUME parent # Nobody, phase[s] = "down"
                 PROVE  FALSE
      OBVIOUS
    <3>1. /\ parent \in CallIds /\ calls[parent].status = "running" /\ s < calls[parent].to
          /\ calls[parent].to \in Subs
      BY <1>4
    <3>2. phase[calls[parent].to] # "down"
      BY <1>0, <3>1 DEF Tasks, Ended, Over
    <3>3. ~(calls[parent].to > manager) /\ s >= manager
      BY <1>0, <2>1, <3>1, <3>2 DEF Orderly
    <3>4. manager \in Nat
      BY <1>0, SubsystemsAssumption DEF Shape
    <3>5. s \in Nat /\ calls[parent].to \in Nat
      BY <3>1, SubsystemsAssumption DEF Subs
    <3> QED
      BY <3>1, <3>3, <3>4, <3>5
  <2>3. ASSUME NEW d \in CallIds'
        PROVE  /\ calls'[d].parent # Nobody /\ ~Ended(d)' => calls'[calls'[d].parent].status = "calling"
               /\ calls'[d].parent # Nobody => calls'[d].status # "failed"
               /\ calls'[d].status # "panicked"
    <3>1. CASE d = n
      BY <1>2, <1>3, <1>13, <2>2, <3>1
    <3>2. CASE d \in CallIds
      <4>1. /\ calls[d].parent # Nobody /\ ~Ended(d) => calls[calls[d].parent].status = "calling"
            /\ calls[d].parent # Nobody => calls[d].status # "failed"
            /\ calls[d].status # "panicked"
        BY <1>0, <2>1, <3>2 DEF Orderly
      <4>2. calls[d].parent # Nobody => calls[d].parent \in CallIds
        BY <1>0, <3>2 DEF Families
      <4>3. calls'[d].parent = calls[d].parent
        BY <1>3, <3>2
      <4> QED
        BY <1>6, <3>2, <4>1, <4>2, <4>3
    <3> QED
      BY <1>2, <3>1, <3>2
  <2>4. \A t \in Subs :
           /\ t > manager' => phase'[t] = "down"
           /\ phase'[t] \in {"draining", "closing", "down"} => t >= manager'
           /\ phase'[t] = "closing" => workers'[t] = {}
    BY <1>0, <2>1 DEF Orderly
  <2> QED
    BY <2>3, <2>4 DEF Orderly, Nobody, Subs
<1> QED
  BY <1>9, <1>10, <1>11, <1>12, <1>14, <1>15, <1>16 DEF CallsInv

\* A call from outside, or by a call that is being served.
LEMMA CallSteps ==
    ASSUME CallsInv, NEW s \in Subs, NEW kind \in {"mut", "ref"},
           Submit(s, kind) \/ \E c \in CallIds : CallOther(c, s, kind)
    PROVE  CallsInv'
<1>0. Shape
  BY DEF CallsInv
<1>1. /\ calls \in Seq(Call) /\ Nobody \in Nat /\ DOMAIN calls = CallIds
      /\ \A c \in CallIds : c \in Nat /\ c # Nobody /\ calls[c] \in Call
  <2>1. calls \in Seq(Call)
    BY <1>0 DEF Shape
  <2> QED
    BY <1>0, <2>1, CallTypes
<1>2. CASE Submit(s, kind)
  <2>1. /\ Len(calls) < CallLimit /\ calls' = Append(calls, NewCall(s, kind, Nobody)) /\ Send(s)
        /\ UNCHANGED <<phase, serving, workers, lock, work, manager, signalled, faults>>
    BY <1>2 DEF Submit
  <2>2. Sent(s, kind, Nobody)
    BY <1>0, <1>1, <2>1, SentIs
  <2> QED
    BY <2>1, <2>2, SendStep
<1>3. ASSUME NEW c \in CallIds, CallOther(c, s, kind)
      PROVE  CallsInv'
  <2> DEFINE r == [[calls[c] EXCEPT !.status = "calling"] EXCEPT !.asked = TRUE]
             before == [calls EXCEPT ![c] = r]
  <2>1. /\ Len(calls) < CallLimit /\ calls[c].status = "running" /\ ~calls[c].asked /\ s < calls[c].to
        /\ Send(s)
        /\ UNCHANGED <<phase, serving, workers, lock, work, manager, signalled, faults>>
    BY <1>3 DEF CallOther
  <2>2. [calls EXCEPT ![c].status = "calling", ![c].asked = TRUE] = before
    BY <1>1
  <2>3. calls' = Append(before, NewCall(s, kind, c))
    BY <1>3, <2>2 DEF CallOther
  <2>4. /\ r \in Call /\ r.to = calls[c].to /\ r.kind = calls[c].kind /\ r.parent = calls[c].parent
        /\ r.asked /\ r.status = "calling"
    BY <1>1 DEF Call, Statuses
  <2> HIDE DEF r
  <2>5. before \in Seq(Call) /\ Len(before) = Len(calls)
    BY <1>1, <2>4
  <2>6. \A d \in CallIds : before[d] = IF d = c THEN r ELSE calls[d]
    BY <1>1
  <2> HIDE DEF before
  <2>7. \A d \in CallIds :
           /\ before[d].to = calls[d].to /\ before[d].kind = calls[d].kind
           /\ before[d].parent = calls[d].parent
           /\ (calls[d].asked \/ d = c) => before[d].asked
           /\ before[d].status = IF d = c THEN "calling" ELSE calls[d].status
    BY <2>4, <2>6
  <2>8. Sent(s, kind, c)
    BY <1>0, <1>1, <2>3, <2>5, <2>7, SentIs
  <2> QED
    BY <2>1, <2>8, SendStep
<1> QED
  BY <1>2, <1>3

-----------------------------------------------------------------------------
(* The theorems                                                            *)

\* Nothing is called at first.
LEMMA InitCalls == Init => CallsInv
<1> SUFFICES ASSUME Init
             PROVE  CallsInv
  OBVIOUS
<1>1. CallIds = {} /\ <<>> \in Seq(Nat) /\ <<>> \in Seq(Call)
  BY DEF Init, CallIds
<1>2. Nobody \in Nat /\ N \in Nat \ {0} /\ WorkLimit \in Nat /\ FaultLimit \in Nat /\ CallLimit \in Nat
  BY SubsystemsAssumption DEF Nobody
<1>3. lock \in [Subs -> [holders : SUBSET Nat, waiting : Seq(Nat)]]
  BY <1>1 DEF Init
<1>4. Shape
  <2>1. /\ phase \in [Subs -> Phases] /\ serving \in [Subs -> Nat] /\ queue \in [Subs -> Seq(Nat)]
        /\ workers \in [Subs -> SUBSET Nat]
    BY <1>1, <1>2 DEF Init, Phases
  <2>2. work \in [Subs -> 0 .. WorkLimit]
    BY <1>2 DEF Init
  <2>3. calls \in Seq(Call) /\ Len(calls) \leq CallLimit
    BY <1>1, <1>2 DEF Init
  <2>4. manager \in 0 .. (N + 1) /\ faults \in 0 .. FaultLimit
    BY <1>2 DEF Init
  <2>5. signalled \in BOOLEAN
    BY DEF Init
  <2> QED
    BY <1>3, <2>1, <2>2, <2>3, <2>4, <2>5 DEF Shape
<1>5. Queues
  BY <1>1 DEF Init, Queues
<1>6. Tasks
  BY <1>1 DEF Init, Tasks
<1>7. Locks
  BY <1>1 DEF Init, Locks
<1>8. Families /\ ReadsSeeEarlierWrites
  BY <1>1 DEF Families, ReadsSeeEarlierWrites
<1>9. Orderly
  BY <1>1, <1>2 DEF Init, Orderly, Subs
<1> QED
  BY <1>4, <1>5, <1>6, <1>7, <1>8, <1>9 DEF CallsInv

\* Every step keeps the invariant.
LEMMA NextCalls == CallsInv /\ PanicsAreFaults /\ [Next]_vars => CallsInv'
<1> SUFFICES ASSUME CallsInv, PanicsAreFaults, [Next]_vars
             PROVE  CallsInv'
  OBVIOUS
<1>1. CASE Next
  <2>1. ASSUME NEW s \in Subs, NEW kind \in {"mut", "ref"}, Submit(s, kind)
        PROVE  CallsInv'
    BY <2>1, CallSteps
  <2>2. ASSUME NEW c \in CallIds, NEW s \in Subs, NEW kind \in {"mut", "ref"}, CallOther(c, s, kind)
        PROVE  CallsInv'
    BY <2>2, CallSteps
  <2>3. ASSUME NEW c \in CallIds, CallStep(c)
        PROVE  CallsInv'
    BY <2>3, ResumeStep, StartWorkerStep, FinishStep DEF CallStep
  <2>4. ASSUME NEW c \in CallIds, Panic(c)
        PROVE  CallsInv'
    BY <2>4, PanicStep
  <2>5. ASSUME NEW s \in Subs, TaskStep(s)
        PROVE  CallsInv'
    BY <2>5, QuietSteps, GrantStep, ReceiveStep, JoinWorkerStep, BeginWorkStep, EndWorkStep, EndSteps
       DEF TaskStep
  <2>6. ASSUME NEW s \in Subs, FailToStart(s)
        PROVE  CallsInv'
    BY <2>6, EndSteps
  <2>7. ASSUME Signal \/ ManagerStep \/ TimeOut
        PROVE  CallsInv'
    BY <2>7, QuietSteps DEF ManagerStep
  <2> QED
    BY <1>1, <2>1, <2>2, <2>3, <2>4, <2>5, <2>6, <2>7 DEF Next
<1>2. CASE UNCHANGED vars
  <2>1. UNCHANGED <<phase, serving, queue, workers, lock, work, calls, manager, signalled, faults>>
    BY <1>2 DEF vars
  <2>2. Shape /\ Queues /\ Tasks /\ Locks /\ Families /\ Orderly /\ ReadsSeeEarlierWrites
    BY DEF CallsInv
  <2>3. CallIds' = CallIds
        /\ \A c : (Ended(c)' <=> Ended(c)) /\ (InProgress(c)' <=> InProgress(c))
    BY <2>1, CallsSame
  <2>4. Queues' /\ Locks' /\ Families' /\ ReadsSeeEarlierWrites'
    BY <2>1, QuietStep
  <2>5. Shape'
    BY <2>1, <2>2 DEF Shape
  <2>6. Tasks'
    BY <2>1, <2>2, <2>3 DEF Tasks, Nobody, Background
  <2>7. Orderly'
    BY <2>1, <2>2, <2>3 DEF Orderly, Nobody
  <2> QED
    BY <2>4, <2>5, <2>6, <2>7 DEF CallsInv
<1> QED
  BY <1>1, <1>2

\* Tasks are ended by a panic only when a call of theirs panics.
LEMMA NextPanics == CallsInv /\ PanicsAreFaults /\ [Next]_vars => PanicsAreFaults'
<1> SUFFICES ASSUME CallsInv, PanicsAreFaults, [Next]_vars
             PROVE  PanicsAreFaults'
  OBVIOUS
<1>0. /\ Shape /\ Tasks /\ Orderly
      /\ faults \in Nat /\ panicked \subseteq Subs /\ (faults = 0 => panicked = {})
  BY SubsystemsAssumption DEF CallsInv, Shape, PanicsAreFaults
<1>1. ASSUME UNCHANGED panicked, faults' = faults \/ faults' = faults + 1
      PROVE  PanicsAreFaults'
  BY <1>0, <1>1 DEF PanicsAreFaults, Subs
<1>2. CASE Next
  <2>1. ASSUME NEW s \in Subs, NEW kind \in {"mut", "ref"}, Submit(s, kind)
        PROVE  PanicsAreFaults'
    BY <1>1, <2>1 DEF Submit
  <2>2. ASSUME NEW c \in CallIds, NEW s \in Subs, NEW kind \in {"mut", "ref"}, CallOther(c, s, kind)
        PROVE  PanicsAreFaults'
    BY <1>1, <2>2 DEF CallOther
  <2>3. ASSUME NEW c \in CallIds, CallStep(c)
        PROVE  PanicsAreFaults'
    BY <1>1, <2>3 DEF CallStep, Resume, StartWorker, Finish
  <2>4. ASSUME NEW c \in CallIds, Panic(c)
        PROVE  PanicsAreFaults'
    <3>1. calls[c].to \in Subs
      BY <1>0, CallTypes DEF Call
    <3>2. /\ faults' = faults + 1
          /\ panicked' = panicked \/ panicked' = panicked \cup {calls[c].to}
      BY <2>4 DEF Panic
    <3>3. faults' # 0
      BY <1>0, <3>2
    <3>4. panicked' \subseteq Subs
      BY <1>0, <3>1, <3>2
    <3> QED
      BY <3>3, <3>4 DEF PanicsAreFaults, Subs
  <2>5. ASSUME NEW s \in Subs, TaskStep(s)
        PROVE  PanicsAreFaults'
    <3>1. CASE JoinWorker(s)
      <4>1. PICK c \in workers[s] :
              /\ UNCHANGED faults
              /\ \/ calls[c].status = "panicked" /\ panicked' = panicked \cup {s}
                 \/ UNCHANGED panicked
        BY <3>1 DEF JoinWorker
      <4>2. c \in CallIds
        BY <1>0 DEF Tasks
      <4>3. calls[c].status = "panicked" => faults # 0
        BY <1>0, <4>2 DEF Orderly
      <4> QED
        BY <1>0, <4>1, <4>3 DEF PanicsAreFaults, Subs
    <3>2. CASE ~JoinWorker(s)
      <4>1. UNCHANGED <<faults, panicked>>
        BY <2>5, <3>2 DEF TaskStep, Start, Grant, Stop, Receive, BeginWork, EndWork, Close, EndTask
      <4> QED
        BY <1>1, <4>1
    <3> QED
      BY <3>1, <3>2
  <2>6. ASSUME NEW s \in Subs, FailToStart(s)
        PROVE  PanicsAreFaults'
    BY <1>1, <2>6 DEF FailToStart
  <2>7. ASSUME Signal \/ ManagerStep \/ TimeOut
        PROVE  PanicsAreFaults'
    BY <1>1, <2>7 DEF Signal, ManagerStep, BeginShutdown, NextShutdown, TimeOut
  <2> QED
    BY <1>2, <2>1, <2>2, <2>3, <2>4, <2>5, <2>6, <2>7 DEF Next
<1>3. CASE UNCHANGED vars
  BY <1>1, <1>3 DEF vars
<1> QED
  BY <1>2, <1>3

\* The invariants say that the calls are ordered.
LEMMA CallsInvOrdered == CallsInv /\ PanicsAreFaults => CallsOrdered
<1> SUFFICES ASSUME CallsInv, PanicsAreFaults
             PROVE  CallsOrdered
  OBVIOUS
<1>0. Shape /\ Queues /\ Tasks /\ Locks /\ Orderly /\ ReadsSeeEarlierWrites
  BY DEF CallsInv
<1>1. CalleesOutliveCallers
  BY <1>0 DEF Orderly, CalleesOutliveCallers
<1>2. TypeOK
  <2>1. /\ phase \in [Subs -> Phases] /\ manager \in 0 .. N + 1 /\ signalled \in BOOLEAN
        /\ faults \in 0 .. FaultLimit /\ panicked \subseteq Subs
    BY <1>0 DEF Shape, PanicsAreFaults
  <2>2. \A c \in CallIds : calls[c].to \in Subs /\ calls[c].status \in Statuses
    BY <1>0, CallTypes DEF Call
  <2>3. ASSUME NEW s \in Subs
        PROVE  /\ serving[s] \in CallIds \cup {Background, Nobody}
               /\ \A i \in DOMAIN queue[s] : queue[s][i] \in CallIds
               /\ workers[s] \subseteq CallIds
               /\ lock[s].holders \subseteq CallIds \cup {Background}
               /\ work[s] \in 0..WorkLimit
    <3>1. work[s] \in 0 .. WorkLimit
      BY <1>0 DEF Shape
    <3>2. serving[s] \in CallIds \cup {Background, Nobody} /\ workers[s] \subseteq CallIds
      BY <1>0 DEF Tasks
    <3>3. \A i \in DOMAIN queue[s] : queue[s][i] \in CallIds
      BY <1>0 DEF Queues
    <3>4. lock[s].holders \subseteq CallIds \cup {Background}
      BY <1>0 DEF Locks
    <3> QED
      BY <3>1, <3>2, <3>3, <3>4
  <2> QED
    BY <2>1, <2>2, <2>3 DEF TypeOK
<1> QED
  BY <1>0, <1>1, <1>2 DEF CallsOrdered

\* Whatever the number of subsystems and calls, and whoever panics, fails to start or
\* takes too long to stop: a call that reads a subsystem's state sees all mutable calls
\* submitted before it, and, without faults, no call of one subsystem to another is
\* given up, in the shutdown either (subsystem/src/task.rs, manager/mod.rs).
THEOREM CallsAreOrdered == Spec => []CallsOrdered
<1>1. Init => PanicsAreFaults
  BY DEF Init, PanicsAreFaults
<1>2. Spec => [](CallsInv /\ PanicsAreFaults)
  BY <1>1, InitCalls, NextCalls, NextPanics, PTL DEF Spec
<1> QED
  BY <1>2, CallsInvOrdered, PTL
=============================================================================
