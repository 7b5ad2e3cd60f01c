-------------------------- MODULE BlockProduction --------------------------
(***************************************************************************)
(* Block production jobs.                                                  *)
(*                                                                         *)
(* Three tasks and a thread take part: the block production subsystem,     *)
(* which executes one call at a time, to produce a block or to stop jobs;  *)
(* the job manager, which keeps the running job of every staking key and   *)
(* the last timestamp tried for it, and which takes its messages out of    *)
(* several channels, whichever has one; the chainstate, whose new tips     *)
(* cancel jobs; and the thread that searches the block.                    *)
(*                                                                         *)
(* A proof of stake search tries the timestamps from the first one on.     *)
(* Which one succeeds is left open.  A proof of work search is one that    *)
(* need not end, unless it is stopped.                                     *)
(***************************************************************************)
EXTENDS Integers, Sequences, FiniteSets

CONSTANTS
  Keys,          \* staking keys, the custom ids of jobs
  Tips,          \* blocks that can be the tip
  Time,          \* Time[b]: the timestamp of b
  None,          \* no tip, no result, no job
  All,           \* stop all jobs
  MaxTime,       \* the last timestamp that is not too far in the future
  MaxMoves,      \* bound on the number of new tips
  MaxCalls       \* bound on the number of calls

ASSUME ProductionAssumption ==
  /\ None \notin Tips /\ All \notin Keys
  /\ MaxTime \in Nat
  /\ Time \in [Tips -> 1..MaxTime]
  /\ MaxMoves \in Nat /\ MaxCalls \in Nat

VARIABLES
  endless,       \* a search need not end; the tip then never returns to an earlier block
  tip, wasTip,   \* the tip of the chainstate and the blocks that were it before
  moves,
  events,        \* new tips on their way to the job manager
  requests, served, \* calls that wait for block production: a key for which to
                 \* produce a block, or what to stop; and the number of calls taken
  \* the call being executed: where it is, the key of its job, the tip read
  \* first, the last timestamp tried before, the parent of the block, the
  \* first timestamp, the timestamp and the success of the search
  pc, key, startTip, lastUsed, parent, first, result, success,
  cancelled,     \* the cancel channel of the job has a message or is closed
  stops,         \* the stop channel: what to stop, and whether a call waits for it
  \* JobsContainer: the tip each registered job expects, None if there is no
  \* job; the number of the call it belongs to; last_used_block_timestamps
  jobs, owner, timestamps

chain          == <<endless, tip, wasTip, moves>>
job            == <<key, startTip, lastUsed, parent, first, result, success, cancelled>>
managerVars    == <<jobs, owner, timestamps>>
productionVars == <<chain, events, requests, served, pc, job, stops, managerVars>>

Max2(a, b) == IF a > b THEN a ELSE b

ProductionInit ==
  /\ endless \in BOOLEAN
  /\ tip \in Tips /\ wasTip = {tip} /\ moves = 0
  /\ events = <<>>
  /\ requests = <<>> /\ served = 0
  /\ pc = "idle"
  /\ key = None /\ startTip = None /\ lastUsed = 0 /\ parent = None /\ first = 0
  /\ result = None /\ success = FALSE
  /\ cancelled = FALSE
  /\ stops = <<>>
  /\ jobs = [k \in Keys |-> None] /\ owner = [k \in Keys |-> 0]
  /\ timestamps = [k \in Keys |-> 0]

----------------------------------------------------------------------------
(***************************************************************************)
(* The environment                                                         *)
(***************************************************************************)
MoveTip(b) ==
  /\ b # tip
  /\ moves < MaxMoves
  /\ endless => b \notin wasTip
  /\ tip' = b /\ wasTip' = wasTip \cup {b} /\ moves' = moves + 1 /\ UNCHANGED endless
  /\ events' = Append(events, b)
  /\ UNCHANGED <<requests, served, pc, job, stops, managerVars>>

\* A client of the subsystem calls generate_block, stop_job or stop_all.
Call(call) ==
  /\ served + Len(requests) < MaxCalls
  /\ requests' = Append(requests, call)
  /\ UNCHANGED <<chain, events, served, pc, job, stops, managerVars>>

----------------------------------------------------------------------------
(***************************************************************************)
(* The block production subsystem: all of these calls are mutable ones, so *)
(* that the next one waits for the end of the one before.                  *)
(***************************************************************************)
\* produce_block, which first reads the tip
StartProduction ==
  /\ pc = "idle" /\ requests # <<>> /\ Head(requests).op = "produce"
  /\ requests' = Tail(requests) /\ served' = served + 1
  /\ key' = Head(requests).key
  /\ startTip' = tip
  /\ cancelled' = FALSE /\ result' = None
  /\ pc' = "adding"
  /\ UNCHANGED <<chain, events, lastUsed, parent, first, success, stops, managerVars>>

\* stop_job or stop_all, which waits for the answer of the job manager
StartStop ==
  /\ pc = "idle" /\ requests # <<>> /\ Head(requests).op = "stop"
  /\ requests' = Tail(requests) /\ served' = served + 1
  /\ stops' = Append(stops, [what |-> Head(requests).key, awaited |-> TRUE])
  /\ pc' = "stopping"
  /\ UNCHANGED <<chain, events, job, managerVars>>

\* The function returns an error.  Its destructor asks the job manager to forget
\* the job, and nobody waits for that.
Return ==
  /\ pc' = "idle"
  /\ stops' = Append(stops, [what |-> key, awaited |-> FALSE])

FirstTimestamp == Max2(lastUsed, Time[startTip]) + 1

\* The consensus data is that of the tip as it is now; the timestamps start after
\* those of the tip that was read before.
PullConsensusData ==
  /\ pc = "added"
  /\ parent' = tip
  /\ first' = FirstTimestamp
  /\ pc' = "collecting"
  /\ UNCHANGED <<chain, events, requests, served, key, startTip, lastUsed, result, success,
                 cancelled, stops, managerVars>>

\* The mempool has no transactions for this tip, or it is too early.
CannotStart ==
  /\ pc = "collecting"
  /\ Return
  /\ UNCHANGED <<chain, events, requests, served, job, managerVars>>

SpawnBlockSolver ==
  /\ pc = "collecting"
  /\ first <= MaxTime
  /\ pc' = "solving"
  /\ UNCHANGED <<chain, events, requests, served, job, stops, managerVars>>

\* The search succeeds at a timestamp, or has tried all of them.
SolverEnds ==
  /\ pc = "solving" /\ result = None
  /\ \E t \in first..MaxTime, s \in BOOLEAN :
       /\ ~s => t = MaxTime
       /\ result' = t /\ success' = s
  /\ UNCHANGED <<chain, events, requests, served, pc, key, startTip, lastUsed, parent, first,
                 cancelled, stops, managerVars>>

\* The job sees that it is cancelled, maybe after its search has ended, and waits
\* for the thread to stop.
SelectCancel ==
  /\ pc = "solving" /\ cancelled
  /\ Return
  /\ UNCHANGED <<chain, events, requests, served, job, managerVars>>

SelectResult ==
  /\ pc = "solving" /\ result # None
  /\ pc' = "updating"
  /\ UNCHANGED <<chain, events, requests, served, job, stops, managerVars>>

----------------------------------------------------------------------------
(***************************************************************************)
(* The job manager                                                         *)
(***************************************************************************)
HandleAddJob ==
  /\ pc = "adding"
  /\ IF jobs[key] # None
     THEN pc' = "idle" /\ UNCHANGED <<jobs, owner, lastUsed>>
     ELSE /\ jobs' = [jobs EXCEPT ![key] = startTip]
          /\ owner' = [owner EXCEPT ![key] = served]
          /\ lastUsed' = timestamps[key]
          /\ pc' = "added"
  /\ UNCHANGED <<chain, events, requests, served, key, startTip, parent, first, result, success,
                 cancelled, stops, timestamps>>

\* Forget the jobs and cancel them; the job that is being executed may be one of
\* them.
RemoveJobs(ks) ==
  LET current == key \in ks /\ jobs[key] # None /\ owner[key] = served /\ pc # "idle"
  IN  /\ jobs' = [k \in Keys |-> IF k \in ks THEN None ELSE jobs[k]]
      /\ owner' = [k \in Keys |-> IF k \in ks THEN 0 ELSE owner[k]]
      /\ cancelled' = (cancelled \/ current)

Outdated(newTip) == {k \in Keys : jobs[k] \notin {None, newTip}}

HandleChainstateEvent ==
  /\ events # <<>>
  /\ events' = Tail(events)
  /\ RemoveJobs(Outdated(Head(events)))
  /\ timestamps' = [k \in Keys |-> 0]
  /\ UNCHANGED <<chain, requests, served, pc, key, startTip, lastUsed, parent, first, result,
                 success, stops>>

\* A job that is awaited ends here, successfully: its destructor sends its message
\* and the caller waits for the answer.  A search without success is an error.
HandleUpdateLastUsedBlockTimestamp ==
  /\ pc = "updating"
  /\ timestamps' = [timestamps EXCEPT ![key] = result]
  /\ stops' = Append(stops, [what |-> key, awaited |-> success])
  /\ pc' = IF success THEN "stopping" ELSE "idle"
  /\ UNCHANGED <<chain, events, requests, served, job, jobs, owner>>

\* As IsAwaited, but only a job that is still registered is reported as stopped.
AwaitedJob(stop) == stop.awaited /\ stop.what \in Keys /\ jobs[stop.what] # None

\* Somebody waits for the answer.
IsAwaited(stop) == stop.awaited

HandleStopJob ==
  /\ stops # <<>>
  /\ LET stop == Head(stops)
     IN  /\ RemoveJobs(IF stop.what = All THEN Keys ELSE {stop.what})
         /\ pc' = IF IsAwaited(stop) THEN "idle" ELSE pc
  /\ stops' = Tail(stops)
  /\ UNCHANGED <<chain, events, requests, served, key, startTip, lastUsed, parent, first, result,
                 success, timestamps>>

----------------------------------------------------------------------------
JobManager ==
  \/ HandleAddJob \/ HandleChainstateEvent
  \/ HandleUpdateLastUsedBlockTimestamp \/ HandleStopJob

Production ==
  \/ StartProduction \/ StartStop
  \/ PullConsensusData \/ CannotStart \/ SpawnBlockSolver \/ SelectCancel \/ SelectResult

ProductionNext ==
  \/ \E b \in Tips : MoveTip(b)
  \/ \E k \in Keys : Call([op |-> "produce", key |-> k])
  \/ \E k \in Keys \cup {All} : Call([op |-> "stop", key |-> k])
  \/ Production
  \/ SolverEnds
  \/ JobManager

\* As long as a task can go on, one does: none of the job manager's channels, which
\* are polled in random order, is neglected for ever, and a proof of stake search
\* has finitely many timestamps to try.
ProductionFairness == WF_productionVars(Production \/ JobManager \/ (~endless /\ SolverEnds))

ProductionSpec == ProductionInit /\ [][ProductionNext]_productionVars /\ ProductionFairness

----------------------------------------------------------------------------
\* Type correctness.
ProductionTypeOK ==
  /\ tip \in Tips /\ wasTip \subseteq Tips /\ moves \in 0..MaxMoves
  /\ events \in Seq(Tips)
  /\ served \in 0..MaxCalls
  /\ pc \in {"idle", "adding", "added", "collecting", "solving", "updating", "stopping"}
  /\ key \in Keys \cup {None}
  /\ {startTip, parent} \subseteq Tips \cup {None}
  /\ lastUsed \in 0..MaxTime /\ first \in 0..(MaxTime + 1) /\ result \in 1..MaxTime \cup {None}
  /\ success \in BOOLEAN /\ cancelled \in BOOLEAN
  /\ \A n \in DOMAIN stops : stops[n].what \in Keys \cup {All} /\ stops[n].awaited \in BOOLEAN
  /\ jobs \in [Keys -> Tips \cup {None}]
  /\ timestamps \in [Keys -> 0..MaxTime]

\* Once a call has ended and the job manager has read its messages, no job is left
\* that would refuse the next one for the key: however a job ends, by an error, by
\* a new tip or by a stop, and whatever becomes of it first (the destructor in
\* produce_block_with_custom_id, "no remnants in the job manager", detail/mod.rs:354).
NoRemnants == pc = "idle" /\ stops = <<>> => \A k \in Keys : jobs[k] = None

\* A job that works on a block that is no longer the tip ends, even if its search
\* would go on for ever: provided the tip does not return to an earlier block
\* (JobManagerInterface::add_job, handle_chainstate_event).
StaleJobsEnd ==
  (endless /\ pc = "solving" /\ parent # tip) ~> (pc # "solving" \/ parent = tip)

\* Every call returns, if searches are finite: no call and no task waits for a
\* message that nobody sends.
CallsReturn == []<>(pc = "idle" \/ endless)

\* No job goes on for a block that nobody can use, nobody waits for a job in vain, and
\* a job that has ended leaves nothing behind.
JobsEnd == [](ProductionTypeOK /\ NoRemnants) /\ StaleJobsEnd /\ CallsReturn
=============================================================================
