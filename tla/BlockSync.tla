----------------------------- MODULE BlockSync -----------------------------
(***************************************************************************)
(* Block synchronization between honest nodes (p2p/src/sync): every node   *)
(* runs one PeerBlockSyncManager for each of its peers.  A manager asks    *)
(* its peer for headers, downloads the blocks it does not have in batches, *)
(* answers the requests of the peer, and announces new tips.               *)
(*                                                                         *)
(* All blocks are valid, and a node only gets blocks whose parent it has.  *)
(* A handler is one step: its calls of the chainstate only see a set of    *)
(* blocks that grows, and nothing of a connection is shared with the tasks *)
(* of the other peers.  The messages of a connection arrive in order.      *)
(***************************************************************************)
EXTENDS BlockTree, Sequences, FiniteSets

CONSTANTS
    Node,            \* the nodes
    NoBlock,         \* None of an Option<Id<GenBlock>>
    Fresh,           \* the blocks whose timestamp ends the initial download
    Networks         \* the networks to look at, with
                     \*   links: the connections that get made, sets of two nodes
                     \*   source[n]: the blocks n gets other than over links
                     \*   inIbd: the nodes that start in initial block download
                     \*   headerLimit: msg_header_count_limit
                     \*   blockLimit: max_request_blocks_count
                     \*   maxDisconnects: a bound on the connections lost
                     \*     although an answer was under way

ASSUME SyncAssumption ==
    /\ NoBlock \notin GenBlock
    /\ Fresh \subseteq GenBlock
    /\ \A net \in Networks :
         /\ \A l \in net.links : l \subseteq Node /\ Cardinality(l) = 2
         /\ net.source \in [Node -> SUBSET Block]
         /\ net.inIbd \subseteq Node
         /\ net.headerLimit \in Nat \ {0} /\ net.blockLimit \in Nat \ {0}
         /\ net.maxDisconnects \in Nat

VARIABLES
    network,     \* one of Networks
    known,       \* known[n]: the blocks persisted by the chainstate of n
    tip,         \* tip[n]: its best block
    ibd,         \* the nodes in initial block download
    up,          \* the connections that are up
    chan,        \* chan[n][p]: the messages from n to p
    events,      \* events[n][p]: new tips, on their way to n's manager for p
    sync,        \* sync[n][p]: the state of n's PeerBlockSyncManager for p
    errors,      \* history: the protocol errors peers were blamed for
    disconnects  \* number of connections lost although an answer was under way

vars == <<network, known, tip, ibd, up, chan, events, sync, errors, disconnects>>

-----------------------------------------------------------------------------
Links == network.links
Source == network.source
HeaderLimit == network.headerLimit
BlockLimit == network.blockLimit
MaxDisconnects == network.maxDisconnects

Pairs == {pair \in Node \X Node : {pair[1], pair[2]} \in Links}
IsUp(n, p) == {n, p} \in up

\* IncomingDataState, OutgoingDataState, PeerActivity and have_sent_all_headers
\* of a new peer.
NewManager ==
    [pending         |-> <<>>,      \* pending_headers
     requested       |-> <<>>,      \* requested_blocks
     peersBest       |-> NoBlock,   \* peers_best_block_that_we_have
     queue           |-> <<>>,      \* blocks_queue
     bestSent        |-> NoBlock,   \* best_sent_block
     sentAll         |-> FALSE,     \* have_sent_all_headers
     expectsHeaders  |-> FALSE,     \* expecting_headers_since
     expectsBlocks   |-> FALSE]     \* expecting_blocks_since

HeaderListRequest(locator) == [type |-> "HeaderListRequest", locator |-> locator]
HeaderList(headers)        == [type |-> "HeaderList", headers |-> headers]
BlockListRequest(ids)      == [type |-> "BlockListRequest", ids |-> ids]
BlockResponse(b)           == [type |-> "BlockResponse", block |-> b]

-----------------------------------------------------------------------------
\* is_block_in_main_chain, where t is the tip
InMainChain(b, t) == IsAncestorOrSelf(b, t)

\* get_locator: the blocks of the main chain at distance 0, 1, 2, 4, 8, ...
\* from the tip t.  The order of the locator is the order of the heights.
Locator(t) ==
    {Ancestor[t][h] : h \in {i \in 0 .. Height[t] :
        Height[t] - i \in {0} \cup {2 ^ k : k \in 0 .. Height[t]}}}

\* The largest height of a set of heights.
MaxHeight(hs) == CHOOSE h \in hs : \A k \in hs : k \leq h

\* get_mainchain_headers_higher_than
HeadersAbove(t, h) ==
    LET limit == IF h + HeaderLimit < Height[t] THEN h + HeaderLimit ELSE Height[t]
    IN  [i \in 1 .. limit - h |-> Ancestor[t][h + i]]

\* get_mainchain_headers_by_locator: genesis if nothing of it is in our chain
HeadersByLocator(t, locator) ==
    HeadersAbove(t, MaxHeight({0} \cup {Height[b] : b \in {c \in locator : InMainChain(c, t)}}))

\* last_common_ancestor_in_main_chain
LastCommonHeight(b, t) ==
    MaxHeight({h \in 0 .. Height[b] : h \leq Height[t] /\ Ancestor[b][h] = Ancestor[t][h]})

\* As HeadersSinceFork, but from the height of the blocks themselves.
HeadersSinceBlock(t, bs) == HeadersAbove(t, MaxHeight({0} \cup {Height[b] : b \in bs}))

\* get_mainchain_headers_since_latest_fork_point
HeadersSinceFork(t, bs) ==
    HeadersAbove(t, MaxHeight({0} \cup {LastCommonHeight(b, t) : b \in bs}))

\* split_off_leading_known_headers: how many headers are known
LeadingKnown(headers, blocks) ==
    MaxHeight({i \in 0 .. Len(headers) : \A j \in 1 .. i : headers[j] \in blocks})

\* choose_peers_best_block
ChoosePeersBest(old, new) ==
    IF new = NoBlock THEN old
    ELSE IF old = NoBlock THEN new
    ELSE IF ChainTrust[new] >= ChainTrust[old] THEN new ELSE old

-----------------------------------------------------------------------------
\* The chainstate of n gets block b, whose parent it has.  A new tip may end
\* the initial block download, and is announced to the managers of all peers.
\* handle_new_tip of the sync manager drops it during the download: see there.
ProcessBlock(n, b) ==
    LET better == b \notin known[n] /\ ChainTrust[b] > ChainTrust[tip[n]]
    IN  /\ known' = [known EXCEPT ![n] = @ \cup {b}]
        /\ tip' = IF better THEN [tip EXCEPT ![n] = b] ELSE tip
        /\ ibd' = IF better /\ b \in Fresh THEN ibd \ {n} ELSE ibd
        /\ events' = IF better
                     THEN [events EXCEPT ![n] =
                             [p \in Node |-> IF IsUp(n, p) THEN Append(@[p], b) ELSE @[p]]]
                     ELSE events

\* Block b reaches n in another way: from other peers, or produced locally.
Receive(n, b) ==
    /\ b \in Source[n] \ known[n]
    /\ Parent[b] \in known[n]
    /\ ProcessBlock(n, b)
    /\ UNCHANGED <<up, chan, sync, errors, disconnects>>

-----------------------------------------------------------------------------
\* The manager of n for p gets a message of this type.
Gets(n, p, type) ==
    /\ IsUp(n, p)
    /\ chan[p][n] # <<>>
    /\ Head(chan[p][n]).type = type

\* It has handled the message, sends msgs, and its state is then s.
Handled(n, p, s, msgs) ==
    /\ chan' = [chan EXCEPT ![p][n] = Tail(@), ![n][p] = @ \o msgs]
    /\ sync' = [sync EXCEPT ![n][p] = s]
    /\ UNCHANGED <<up, disconnects>>

\* The chainstate does not change in this step.
SameChainstate == UNCHANGED <<known, tip, ibd, events>>

\* request_headers with the locator of tip t: the new state, and what is sent
AfterHeaderRequest(s) == [s EXCEPT !.expectsHeaders = TRUE]
HeaderRequest(t) == <<HeaderListRequest(Locator(t))>>

\* request_blocks: the first headers are requested, the others are pending
FirstBatch(headers) ==
    SubSeq(headers, 1, IF Len(headers) > BlockLimit THEN BlockLimit ELSE Len(headers))

\* As AfterBlockRequest, but all headers count as requested.
AfterRequestOfAll(s, headers) == [s EXCEPT !.requested = headers, !.expectsBlocks = TRUE]

AfterBlockRequest(s, headers) ==
    [s EXCEPT !.pending = IF Len(headers) > BlockLimit
                          THEN SubSeq(headers, BlockLimit + 1, Len(headers)) ELSE @,
              !.requested = FirstBatch(headers),
              !.expectsBlocks = TRUE]

\* handle_header_request during the initial block download
RefuseHeaders(n, p) ==
    /\ Gets(n, p, "HeaderListRequest")
    /\ n \in ibd
    /\ Handled(n, p, sync[n][p], <<HeaderList(<<>>)>>)
    /\ SameChainstate /\ UNCHANGED errors

\* What the peer has, when these are the headers above its locator: the block
\* below the first of them, or our tip.
PeersBestAfter(n, p, headers) ==
    IF headers = <<>> THEN tip[n]
    ELSE ChoosePeersBest(sync[n][p].peersBest, Parent[headers[1]])

\* As SentAll, but no list is the last one.
SentAllNever(headers) == Len(headers) > HeaderLimit

\* have_sent_all_headers: a list below the limit tells the peer there is no more.
SentAll(headers) == Len(headers) < HeaderLimit

\* handle_header_request
SendHeaders(n, p) ==
    /\ Gets(n, p, "HeaderListRequest")
    /\ n \notin ibd
    /\ LET headers == HeadersByLocator(tip[n], Head(chan[p][n]).locator)
       IN  Handled(n, p, [sync[n][p] EXCEPT !.peersBest = PeersBestAfter(n, p, headers),
                                            !.sentAll = SentAll(headers)],
                   <<HeaderList(headers)>>)
    /\ SameChainstate /\ UNCHANGED errors

-----------------------------------------------------------------------------
\* best_sent_block, of a height not below that of b, is still in the main chain.
SentAlready(n, p, b) ==
    /\ sync[n][p].bestSent # NoBlock
    /\ Height[b] \leq Height[sync[n][p].bestSent]
    /\ InMainChain(sync[n][p].bestSent, tip[n])

\* The checks of handle_block_request; "" is no error.
BlockRequestError(n, p, ids) ==
    IF ids = <<>> THEN "ZeroBlocksInRequest"
    ELSE IF n \in ibd THEN ""
    ELSE IF Len(ids) + Len(sync[n][p].queue) > BlockLimit THEN "BlocksRequestLimitExceeded"
    ELSE IF \E i \in 1 .. Len(ids), j \in 1 .. Len(sync[n][p].queue) : ids[i] = sync[n][p].queue[j]
         THEN "DuplicatedBlockRequest"
    ELSE IF \E i \in 1 .. Len(ids) : /\ ids[i] \notin known[n]
                                     /\ \A j \in 1 .. i - 1 : ~SentAlready(n, p, ids[j])
         THEN "UnknownBlockRequested"
    ELSE IF \E i \in 1 .. Len(ids) : SentAlready(n, p, ids[i]) THEN "DuplicatedBlockRequest"
    ELSE ""

\* handle_block_request
QueueBlocks(n, p) ==
    /\ Gets(n, p, "BlockListRequest")
    /\ LET ids == Head(chan[p][n]).ids
           err == BlockRequestError(n, p, ids)
       IN  /\ Handled(n, p, IF err = "" /\ n \notin ibd
                            THEN [sync[n][p] EXCEPT !.queue = @ \o ids] ELSE sync[n][p], <<>>)
           /\ errors' = IF err = "" THEN errors ELSE errors \cup {err}
    /\ SameChainstate

\* send_block of the first block in the queue
SendBlock(n, p) ==
    /\ IsUp(n, p)
    /\ sync[n][p].queue # <<>>
    /\ LET b == Head(sync[n][p].queue)
       IN  /\ sync' = [sync EXCEPT ![n][p].queue = Tail(@),
                                   ![n][p].bestSent = ChoosePeersBest(@, b)]
           /\ chan' = [chan EXCEPT ![n][p] = Append(@, BlockResponse(b))]
    /\ SameChainstate /\ UNCHANGED <<up, errors, disconnects>>

-----------------------------------------------------------------------------
\* The checks of handle_header_list on headers that are not empty.
HeaderListError(n, headers) ==
    IF Len(headers) > HeaderLimit THEN "HeadersLimitExceeded"
    ELSE IF \/ \E i \in 2 .. Len(headers) : Parent[headers[i]] # headers[i - 1]
            \/ Parent[headers[1]] \notin known[n]
         THEN "DisconnectedHeaders"
    ELSE ""

\* handle_header_list that ends early: an empty list, or an error
IgnoreHeaders(n, p) ==
    /\ Gets(n, p, "HeaderList")
    /\ LET headers == Head(chan[p][n]).headers
           err == IF headers = <<>> THEN "" ELSE HeaderListError(n, headers)
       IN  /\ headers = <<>> \/ err # ""
           /\ errors' = IF err = "" THEN errors ELSE errors \cup {err}
    /\ Handled(n, p, [sync[n][p] EXCEPT !.expectsHeaders = FALSE], <<>>)
    /\ SameChainstate

\* handle_header_list: while blocks are downloaded the new headers replace the
\* pending ones; otherwise their blocks are requested, or more headers.
HandleHeaders(n, p) ==
    /\ Gets(n, p, "HeaderList")
    /\ LET headers == Head(chan[p][n]).headers
           nKnown  == LeadingKnown(headers, known[n])
           new     == SubSeq(headers, nKnown + 1, Len(headers))
           best    == ChoosePeersBest(sync[n][p].peersBest,
                                      IF nKnown = 0 THEN NoBlock ELSE headers[nKnown])
           s       == [sync[n][p] EXCEPT !.expectsHeaders = FALSE, !.peersBest = best]
       IN  /\ headers # <<>> /\ HeaderListError(n, headers) = ""
           /\ \/ /\ s.requested # <<>>
                 /\ Handled(n, p, [s EXCEPT !.pending = new], <<>>)
              \/ /\ s.requested = <<>> /\ new = <<>> /\ Len(headers) = HeaderLimit
                 /\ Handled(n, p, AfterHeaderRequest(s), HeaderRequest(tip[n]))
              \/ /\ s.requested = <<>> /\ new = <<>> /\ Len(headers) # HeaderLimit
                 /\ Handled(n, p, s, <<>>)
              \/ /\ s.requested = <<>> /\ new # <<>>
                 /\ Handled(n, p, AfterBlockRequest(s, new), <<BlockListRequest(FirstBatch(new))>>)
    /\ SameChainstate /\ UNCHANGED errors

-----------------------------------------------------------------------------
\* The checks of handle_block_response: only the first requested block will do.
BlockError(n, p, b) ==
    LET requested == sync[n][p].requested
    IN  IF requested # <<>> /\ Head(requested) = b THEN ""
        ELSE IF \E i \in 1 .. Len(requested) : requested[i] = b THEN "BlocksReceivedInWrongOrder"
        ELSE "UnsolicitedBlockReceived"

\* handle_block_response of the expected block: it is processed; when it was the
\* last one that was requested, the pending headers are next, or the peer is
\* asked for more.
AcceptBlock(n, p, b) ==
    LET rest == Tail(sync[n][p].requested)
        s == [sync[n][p] EXCEPT !.requested = rest,
                                !.expectsBlocks = rest # <<>>,
                                !.peersBest = ChoosePeersBest(@, b)]
        left == SubSeq(s.pending, LeadingKnown(s.pending, known[n] \cup {b}) + 1, Len(s.pending))
        taken == [s EXCEPT !.pending = <<>>]
    IN  /\ ProcessBlock(n, b)
        /\ \/ /\ rest # <<>>
              /\ Handled(n, p, s, <<>>)
           \/ /\ rest = <<>> /\ left = <<>>
              /\ Handled(n, p, AfterHeaderRequest(taken), HeaderRequest(tip'[n]))
           \/ /\ rest = <<>> /\ left # <<>>
              /\ Handled(n, p, AfterBlockRequest(taken, left), <<BlockListRequest(FirstBatch(left))>>)

\* handle_block_response
HandleBlock(n, p) ==
    /\ Gets(n, p, "BlockResponse")
    /\ LET b == Head(chan[p][n]).block
           err == BlockError(n, p, b)
       IN  IF err = "" THEN AcceptBlock(n, p, b) /\ UNCHANGED errors
           ELSE /\ errors' = errors \cup {err}
                /\ Handled(n, p, sync[n][p], <<>>)
                /\ SameChainstate

-----------------------------------------------------------------------------
\* handle_new_tip: headers are announced if the peer has all the earlier ones,
\* downloads nothing, and the event is about the tip as it is now.  The sync
\* manager passes no event on during the initial block download.
HandleNewTip(n, p) ==
    /\ IsUp(n, p)
    /\ events[n][p] # <<>>
    /\ LET s == sync[n][p]
           bases == {s.peersBest, s.bestSent} \ {NoBlock}
           headers == HeadersSinceFork(tip[n], bases)
           announce == /\ n \notin ibd
                       /\ s.sentAll /\ s.queue = <<>>
                       /\ bases # {}
                       /\ headers # <<>> /\ Head(events[n][p]) = tip[n]
       IN  chan' = IF announce THEN [chan EXCEPT ![n][p] = Append(@, HeaderList(headers))]
                   ELSE chan
    /\ events' = [events EXCEPT ![n][p] = Tail(@)]
    /\ UNCHANGED <<known, tip, ibd, up, sync, errors, disconnects>>

-----------------------------------------------------------------------------
Expects(n, p) == sync[n][p].expectsHeaders \/ sync[n][p].expectsBlocks

\* The connection is closed: the managers of both sides end.
Close(n, p) ==
    /\ up' = up \ {{n, p}}
    /\ chan' = [chan EXCEPT ![n][p] = <<>>, ![p][n] = <<>>]
    /\ events' = [events EXCEPT ![n][p] = <<>>, ![p][n] = <<>>]
    /\ sync' = [sync EXCEPT ![n][p] = NewManager, ![p][n] = NewManager]
    /\ UNCHANGED <<known, tip, ibd, errors>>

\* p has nothing left that could answer the request n waits for.
NoAnswerComing(n, p) ==
    chan[n][p] = <<>> /\ chan[p][n] = <<>> /\ sync[p][n].queue = <<>>

\* disconnect_if_stalling
DisconnectStalled(n, p) ==
    /\ IsUp(n, p) /\ Expects(n, p) /\ NoAnswerComing(n, p)
    /\ Close(n, p)
    /\ UNCHANGED disconnects

\* disconnect_if_stalling, when the answer is late
DisconnectLate(n, p) ==
    /\ IsUp(n, p) /\ Expects(n, p) /\ ~NoAnswerComing(n, p)
    /\ disconnects < MaxDisconnects
    /\ Close(n, p)
    /\ disconnects' = disconnects + 1

\* Two nodes connect; main_loop of both managers asks for headers.
Connect(n, p) ==
    /\ {n, p} \in Links \ up
    /\ up' = up \cup {{n, p}}
    /\ sync' = [sync EXCEPT ![n][p] = AfterHeaderRequest(NewManager),
                            ![p][n] = AfterHeaderRequest(NewManager)]
    /\ chan' = [chan EXCEPT ![n][p] = HeaderRequest(tip[n]), ![p][n] = HeaderRequest(tip[p])]
    /\ UNCHANGED <<known, tip, ibd, events, errors, disconnects>>

-----------------------------------------------------------------------------
Init ==
    /\ network \in Networks
    /\ known = [n \in Node |-> {Genesis}]
    /\ tip = [n \in Node |-> Genesis]
    /\ ibd = network.inIbd
    /\ up = {}
    /\ chan = [n \in Node |-> [p \in Node |-> <<>>]]
    /\ events = [n \in Node |-> [p \in Node |-> <<>>]]
    /\ sync = [n \in Node |-> [p \in Node |-> NewManager]]
    /\ errors = {}
    /\ disconnects = 0

\* One turn of main_loop of the manager of n for p.
Turn(n, p) ==
    \/ RefuseHeaders(n, p) \/ SendHeaders(n, p)
    \/ QueueBlocks(n, p) \/ SendBlock(n, p)
    \/ IgnoreHeaders(n, p) \/ HandleHeaders(n, p)
    \/ HandleBlock(n, p)

\* What the nodes do by themselves, whatever blocks arrive from elsewhere.
Progress ==
    \E pair \in Pairs :
        \/ Turn(pair[1], pair[2])
        \/ HandleNewTip(pair[1], pair[2])
        \/ DisconnectStalled(pair[1], pair[2])
        \/ Connect(pair[1], pair[2])

Next ==
    /\ \/ \E n \in Node : \E b \in Source[n] : Receive(n, b)
       \/ \E pair \in Pairs : DisconnectLate(pair[1], pair[2])
       \/ Progress
    /\ UNCHANGED network

Spec == Init /\ [][Next]_vars

\* As long as some main loop has something to do, one of them does it: requests
\* that get no answer time out, and the peer manager connects again.
Fairness == WF_vars(Progress /\ UNCHANGED network)

FairSpec == Spec /\ Fairness

-----------------------------------------------------------------------------
Messages ==
    [type : {"HeaderListRequest"}, locator : SUBSET GenBlock]
        \cup [type : {"HeaderList"}, headers : Seq(Block)]
        \cup [type : {"BlockListRequest"}, ids : Seq(Block)]
        \cup [type : {"BlockResponse"}, block : Block]

Manager ==
    [pending : Seq(Block), requested : Seq(Block), peersBest : GenBlock \cup {NoBlock},
     queue : Seq(Block), bestSent : Block \cup {NoBlock}, sentAll : BOOLEAN,
     expectsHeaders : BOOLEAN, expectsBlocks : BOOLEAN]

\* The protocol errors of the block sync manager (ProtocolError of p2p/src/error.rs).
Errors ==
    {"ZeroBlocksInRequest", "BlocksRequestLimitExceeded", "DuplicatedBlockRequest",
     "UnknownBlockRequested", "HeadersLimitExceeded", "DisconnectedHeaders",
     "BlocksReceivedInWrongOrder", "UnsolicitedBlockReceived"}

\* The types of the variables; what a node has is closed under parents.
TypeOK ==
    /\ known \in [Node -> SUBSET GenBlock]
    /\ \A n \in Node : \A b \in known[n] \ {Genesis} : Parent[b] \in known[n]
    /\ tip \in [Node -> GenBlock]
    /\ \A n \in Node : tip[n] \in known[n]
    /\ ibd \subseteq Node
    /\ up \subseteq Links
    /\ chan \in [Node -> [Node -> Seq(Messages)]]
    /\ events \in [Node -> [Node -> Seq(Block)]]
    /\ sync \in [Node -> [Node -> Manager]]
    /\ errors \subseteq Errors
    /\ disconnects \in 0 .. MaxDisconnects

-----------------------------------------------------------------------------
\* Nodes that follow the protocol are not blamed for a protocol error
\* (handle_message_processing_result raises their ban score), whatever blocks
\* reach them in between.  The exception are requests that follow a tip that
\* went to another branch and back, which block_manager.rs:503 takes for
\* duplicates.
HonestPeersNotBlamed == errors \subseteq {"DuplicatedBlockRequest"}

\* The positions of the messages of this type.
PositionsOf(msgs, type) == {i \in 1 .. Len(msgs) : msgs[i].type = type}

\* The blocks on their way in msgs are these, in this order.
Carries(msgs, blocks) ==
    \E at \in [1 .. Len(blocks) -> PositionsOf(msgs, "BlockResponse")] :
        /\ \A i, j \in 1 .. Len(blocks) : i < j => at[i] < at[j]
        /\ \A k \in PositionsOf(msgs, "BlockResponse") : \E i \in 1 .. Len(blocks) : at[i] = k
        /\ \A i \in 1 .. Len(blocks) : blocks[i] = msgs[at[i]].block

\* What n has requested from p is, in this order: the blocks on their way to n,
\* the blocks in the queue of p, and the request on its way to p.  No block that
\* was requested gets lost, and none is sent that was not requested.
RequestsAccountedFor ==
    errors = {} => \A pair \in Pairs :
        LET n == pair[1]
            p == pair[2]
            requested == sync[n][p].requested
            asked == PositionsOf(chan[n][p], "BlockListRequest")
        IN  /\ \A i, j \in asked : i = j
            /\ \E k \in 0 .. Len(requested) :
                  /\ Carries(chan[p][n], SubSeq(requested, 1, k))
                  /\ SubSeq(requested, k + 1, Len(requested)) =
                        sync[p][n].queue \o (IF asked = {} THEN <<>>
                                             ELSE chan[n][p][CHOOSE i \in asked : TRUE].ids)

\* What n takes for the best block that p has (peers_best_block_that_we_have) is
\* a block that p has, and a block that n has sent is one p has or will get: new
\* headers that start there connect to the chainstate of p.
BelievedBestIsReal ==
    \A pair \in Pairs :
        LET n == pair[1]
            p == pair[2]
            s == sync[n][p]
        IN  IsUp(n, p) =>
              /\ s.peersBest \in (known[n] \cap known[p]) \cup {NoBlock}
              /\ \/ s.bestSent \in known[p] \cup {NoBlock}
                 \/ \E i \in 1 .. Len(chan[n][p]) : chan[n][p][i] = BlockResponse(s.bestSent)

\* n will hear from p: a request is on its way, p waits for something, or gets a
\* list of headers after which it asks for more.
WillAsk(p, n) ==
    \/ Expects(p, n)
    \/ \E i \in 1 .. Len(chan[p][n]) : chan[p][n][i].type = "HeaderListRequest"
    \/ \E i \in 1 .. Len(chan[n][p]) : /\ chan[n][p][i].type = "HeaderList"
                                       /\ Len(chan[n][p][i].headers) = HeaderLimit

\* handle_new_tip announces nothing before all headers were sent, because, says
\* block_manager.rs:257, "if we haven't sent all our headers last time, the peer
\* will ask us for more anyway".  This is so for a node that was never in initial
\* block download; one that was has answered with an empty list, after which the
\* peer does not ask again on this connection.
PeerWillAsk ==
    \A pair \in Pairs :
        LET n == pair[1]
            p == pair[2]
        IN  IsUp(n, p) /\ n \notin network.inIbd /\ ~sync[n][p].sentAll => WillAsk(p, n)

\* Both ends of a connection have the same idea of what was sent and asked for:
\* requests are accounted for, headers start at blocks the peer has, and a node
\* that does not announce its tips is asked for them.
EndsAgree == TypeOK /\ RequestsAccountedFor /\ BelievedBestIsReal /\ PeerWillAsk

\* n does not hear of the new tips of p: p answered the last request of n during
\* its initial block download, with an empty list, and n does not ask again on
\* this connection.
Unheard(n, p) ==
    /\ IsUp(n, p)
    /\ p \in network.inIbd
    /\ ~sync[p][n].sentAll
    /\ ~WillAsk(n, p)

\* Once no more blocks come from elsewhere, every node gets the best block of
\* each of its peers and has a best chain of no less trust; the only blocks it
\* may miss are those of a peer it does not hear of since that peer's initial
\* block download.  A connection that is made anew ends the exception.
Converges ==
    <>[](\A pair \in Pairs :
            LET n == pair[1]
                p == pair[2]
            IN  \/ /\ tip[p] \in known[n]
                   /\ ChainTrust[tip[n]] >= ChainTrust[tip[p]]
                \/ Unheard(n, p))
=============================================================================
