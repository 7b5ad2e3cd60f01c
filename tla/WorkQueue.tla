------------------------------ MODULE WorkQueue ------------------------------
(***************************************************************************)
(* WorkQueue (mempool/src/pool/work_queue/mod.rs): the orphan transactions *)
(* that wait to be tried again, per peer, served in rounds.  A round gives *)
(* every peer with work one turn; the order of the turns is random.        *)
(*                                                                         *)
(* The items and the handler that picks among them are the caller's: here  *)
(* any items may be inserted, and any item may be taken or dismissed.      *)
(***************************************************************************)
EXTENDS Integers

CONSTANTS
    Peers,
    Items       \* the units of work: ids, with the order a BTreeSet keeps

ASSUME ItemsAssumption == Items \subseteq Nat

VARIABLES
    wq,         \* the queue: see Queues
    panicked,   \* the assertion in pick failed
    gone,       \* the peers removed so far
    late,       \* history: peers that got work after they were removed
    overtaken   \* history: overtaken[p][r] counts the turns of r since p
                \* waits, that is since its last turn or since it has work

queueVars == <<wq, panicked, gone, late, overtaken>>

\* queued are the keys of the map work_queue and work its values.  The order
\* of the vector scheduled is random, so it is a bag.
Queues == [queued : SUBSET Peers,
           work : [Peers -> SUBSET Items],
           scheduled : [Peers -> Nat]]

Batches == SUBSET (Peers \X Items)

EmptyQueue == [queued |-> {},
               work |-> [p \in Peers |-> {}],
               scheduled |-> [p \in Peers |-> 0]]

NobodyScheduled(q) == \A p \in Peers : q.scheduled[p] = 0

-----------------------------------------------------------------------------
\* insert, for every <<peer, item>> of a batch.
Inserted(q, batch) ==
    LET itemsOf(p) == {i \in Items : <<p, i>> \in batch}
        vacant == {p \in Peers : itemsOf(p) # {}} \ q.queued
    IN  [queued |-> q.queued \cup vacant,
         work |-> [p \in Peers |-> q.work[p] \cup itemsOf(p)],
         scheduled |-> [p \in Peers |-> IF p \in vacant THEN q.scheduled[p] + 1
                                        ELSE q.scheduled[p]]]

\* advance_round
AdvanceRound(q) ==
    LET busy == {p \in q.queued : q.work[p] # {}}
    IN  IF NobodyScheduled(q)
        THEN [queued |-> busy,
              work |-> q.work,
              scheduled |-> [p \in Peers |-> IF p \in busy THEN 1 ELSE 0]]
        ELSE q

\* The peers in scheduled whose queue was removed.
Stale(q) == {p \in Peers : q.scheduled[p] > 0} \ q.queued

\* The entries of the stale peers drop are popped.
PopStale(q, drop) ==
    AdvanceRound([q EXCEPT !.scheduled =
        [p \in Peers |-> IF p \in drop THEN 0 ELSE q.scheduled[p]]])

\* The entry of p is popped, and p is left with the work rest.
Served(q, p, rest) ==
    AdvanceRound([q EXCEPT !.work[p] = rest, !.scheduled[p] = @ - 1])

\* pick finds p, after the stale entries drop.
Finds(q, drop, p) ==
    /\ drop \subseteq Stale(q)
    /\ p \in PopStale(q, drop).queued
    /\ PopStale(q, drop).scheduled[p] > 0

\* The assertion in pick.
HasWork(q, p) == q.work[p] # {}

\* pick for p, whose queue is popped up to the first item the handler takes
\* (taken = {item}), or to the end.
Picked(q, drop, p, taken) ==
    LET r == PopStale(q, drop)
    IN  Served(r, p, {j \in r.work[p] : \E i \in taken : j > i})

\* As RemovedPeer, but the queue of the peer is only cleared.
ClearedPeer(q, p) == [q EXCEPT !.work[p] = {}]

\* remove_peer
RemovedPeer(q, p) ==
    [q EXCEPT !.queued = @ \ {p}, !.work[p] = {}]

\* The history after a turn of p in queue q.
OvertakenBy(p, q) ==
    [r \in Peers |-> [s \in Peers |->
        IF r = p \/ q.work[r] = {} THEN 0
        ELSE IF s = p THEN overtaken[r][s] + 1 ELSE overtaken[r][s]]]

-----------------------------------------------------------------------------
QueueInit ==
    /\ wq = EmptyQueue
    /\ panicked = FALSE
    /\ gone = {}
    /\ late = {}
    /\ overtaken = [p \in Peers |-> [r \in Peers |-> 0]]

\* The removed peers that a batch has work for: insert does not refuse them.
LateIn(batch) == {p \in gone : \E i \in Items : <<p, i>> \in batch}

Insert(batch) ==
    /\ wq' = Inserted(wq, batch)
    /\ late' = late \cup LateIn(batch)
    /\ UNCHANGED <<panicked, gone, overtaken>>

\* A turn of p, and the work that processing the taken item leads to.
PickWork(drop, p, taken, batch) ==
    /\ ~NobodyScheduled(wq)
    /\ Finds(wq, drop, p)
    /\ HasWork(wq, p)
    /\ taken \subseteq wq.work[p]
    /\ \A i, j \in taken : i = j
    /\ wq' = Inserted(Picked(wq, drop, p, taken), batch)
    /\ late' = late \cup LateIn(batch)
    /\ overtaken' = OvertakenBy(p, wq)
    /\ UNCHANGED <<panicked, gone>>

\* The assertion fails.  The queue is lost, so what was popped does not matter.
PickPanics(drop, p) ==
    /\ Finds(wq, drop, p)
    /\ ~HasWork(wq, p)
    /\ panicked' = TRUE
    /\ UNCHANGED <<wq, gone, late, overtaken>>

\* Only stale entries are left: pick drops them and returns None.
PickNothing ==
    /\ ~NobodyScheduled(wq)
    /\ NobodyScheduled(PopStale(wq, Stale(wq)))
    /\ wq' = PopStale(wq, Stale(wq))
    /\ UNCHANGED <<panicked, gone, late, overtaken>>

RemovePeer(p) ==
    /\ p \notin gone
    /\ wq' = RemovedPeer(wq, p)
    /\ gone' = gone \cup {p}
    /\ overtaken' = [overtaken EXCEPT ![p] = [r \in Peers |-> 0]]
    /\ UNCHANGED <<panicked, late>>

QueueNext ==
    /\ ~panicked
    /\ \/ \E batch \in Batches : Insert(batch)
       \/ \E drop \in SUBSET Peers, p \in Peers, taken \in SUBSET Items, batch \in Batches :
              PickWork(drop, p, taken, batch)
       \/ \E drop \in SUBSET Peers, p \in Peers : PickPanics(drop, p)
       \/ PickNothing
       \/ \E p \in Peers : RemovePeer(p)

QueueSpec == QueueInit /\ [][QueueNext]_queueVars

-----------------------------------------------------------------------------
\* The type of the queue and of the history.
QueueTypeOK ==
    /\ wq \in Queues
    /\ panicked \in BOOLEAN
    /\ gone \subseteq Peers
    /\ late \subseteq gone
    /\ overtaken \in [Peers -> [Peers -> Nat]]

\* check_integrity of work_queue/test.rs, for all peers but those that got work
\* after they were removed: no peer is scheduled twice, and a scheduled peer that
\* was not removed has work.  The late ones are scheduled at most twice, and the
\* assertion in pick only ever fails when there are some.
QueueIntegrity ==
    /\ \A p \in Peers \ late :
           /\ wq.scheduled[p] <= 1
           /\ p \in wq.queued /\ wq.scheduled[p] > 0 => wq.work[p] # {}
    /\ \A p \in late : wq.scheduled[p] <= 2
    /\ panicked => late # {}

\* is_empty, which decides whether background work is done at all, looks at
\* scheduled only: when it is empty there is no work left for any peer,
\* whichever peers were served or removed before, and whatever came late.
WorkNotForgotten ==
    NobodyScheduled(wq) => \A p \in Peers : wq.work[p] = {}

\* Fair scheduling: however fast work arrives for another peer r, it has at
\* most two turns (the rest of this round, and the next) before p has one, and
\* one more if r was removed and got work all the same.
FairRounds ==
    \A p, r \in Peers : overtaken[p][r] <= IF r \in late THEN 3 ELSE 2

\* What the mempool relies on: pick panics only after work that came late, is_empty
\* tells the truth and every peer gets its turn.
QueueSound == QueueIntegrity /\ WorkNotForgotten /\ FairRounds

\* "The panic should never happen as a data structure invariant" (the comment on
\* WorkQueue, of a scheduled peer without work).
PickNeverPanics == ~panicked
=============================================================================
