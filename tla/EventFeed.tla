------------------------------ MODULE EventFeed ------------------------------
(***************************************************************************)
(* The event journal and its live subscribers, and the shutdown that ends  *)
(* both: integration loops, workers and HTTP handlers publish, event       *)
(* streams replay the journal, subscribe and deliver, and App.Close joins  *)
(* the loops and the workers before it closes the database, while the      *)
(* handoff of a self-update joins the workers only.                        *)
(*                                                                         *)
(* An event is its journal id.  A channel is its buffer, whether it is in  *)
(* the map of subscribers, and how often it was closed: closing it twice,  *)
(* or sending on it after a close, would panic.                            *)
(***************************************************************************)
EXTENDS Naturals, Sequences

CONSTANTS
    Loop, Worker, Handler,  \* publishers: what runDone joins, what wg joins, the rest
    Stream,                 \* bound: clients of GET events
    BufferSize,             \* subscriber buffer (32)
    ReplayLimit,            \* rows of one replay (200)
    MaxEvents, MaxConnects  \* bounds: events, and connections of one client

\* Buffers, replays and bounds are numbers; none of them has to be positive.
ASSUME FeedAssumption == BufferSize \in Nat /\ ReplayLimit \in Nat /\ MaxEvents \in Nat

VARIABLES
    journal,   \* rows of event_journal: the ids 1..journal
    fanned,    \* history: the ids in the order of their fan-out
    pubs,      \* per publisher: its position in publish and the id it was given
    streams,   \* per client: its connection, its channel, what it was sent
    shutdown   \* how far App.Close, or the handoff of an update, is

feedVars == <<journal, fanned, pubs, streams, shutdown>>

Publisher == Loop \cup Worker \cup Handler
Stages == {"serving", "cancelled", "stopping", "closed", "aborted", "handing", "handed"}

NoChannel == [pc |-> "off", last |-> 0, from |-> 0, got |-> <<>>, buf |-> <<>>,
              member |-> FALSE, closes |-> 0, connects |-> 0]

FeedInit ==
    /\ journal = 0 /\ fanned = <<>> /\ shutdown = "serving"
    /\ pubs = [p \in Publisher |-> [pc |-> "idle", id |-> 0]]
    /\ streams = [s \in Stream |-> NoChannel]

---------------------------------------------------------------------------
(* Publishing.                                                             *)

StoppingClosed == shutdown \notin {"serving", "cancelled"}
RepoOpen == shutdown \notin {"closed", "handed"}

\* publish: nothing once the stopping flag is up.
Publish(p) ==
    /\ pubs[p].pc = "idle"
    /\ ~StoppingClosed
    /\ pubs' = [pubs EXCEPT ![p].pc = "append"]
    /\ UNCHANGED <<journal, fanned, streams, shutdown>>

\* AppendEvent: the row gives the id; a closed database gives an error and no fan-out.
AppendEvent(p) ==
    /\ pubs[p].pc = "append"
    /\ IF RepoOpen /\ journal < MaxEvents
       THEN journal' = journal + 1 /\ pubs' = [pubs EXCEPT ![p] = [pc |-> "fanout", id |-> journal']]
       ELSE UNCHANGED journal /\ pubs' = [pubs EXCEPT ![p].pc = "idle"]
    /\ UNCHANGED <<fanned, streams, shutdown>>

\* Mutant of Offer: a full buffer skips the event and keeps the subscriber.
OfferOrSkip(ch, id) == IF Len(ch.buf) < BufferSize THEN [ch EXCEPT !.buf = Append(@, id)] ELSE ch

\* Mutant of Offer: the channel has no bound.
OfferUnbounded(ch, id) == [ch EXCEPT !.buf = Append(@, id)]

\* A subscriber with room takes the event, one whose buffer is full is dropped.
Offer(ch, id) ==
    IF Len(ch.buf) < BufferSize THEN [ch EXCEPT !.buf = Append(@, id)]
    ELSE [ch EXCEPT !.member = FALSE, !.closes = @ + 1]

FanOut(p) ==
    /\ pubs[p].pc = "fanout"
    /\ fanned' = Append(fanned, pubs[p].id)
    /\ streams' = [s \in Stream |->
                      IF streams[s].member THEN Offer(streams[s], pubs[p].id) ELSE streams[s]]
    /\ pubs' = [pubs EXCEPT ![p] = [pc |-> "idle", id |-> 0]]
    /\ UNCHANGED <<journal, shutdown>>

---------------------------------------------------------------------------
(* A stream.                                                               *)

\* A first connection is cold; one that saw events sends the last id it saw.
Connect(s) ==
    /\ streams[s].pc = "off"
    /\ streams[s].connects < MaxConnects
    /\ streams' = [streams EXCEPT ![s].pc = IF streams[s].last > 0 THEN "replay" ELSE "subscribe",
                                  ![s].connects = @ + 1]
    /\ UNCHANGED <<journal, fanned, pubs, shutdown>>

\* Events: at most ReplayLimit rows after the last id, oldest first; an error replays nothing.
Replay(s) ==
    /\ streams[s].pc = "replay"
    /\ LET rows == IF RepoOpen THEN streams[s].last + ReplayLimit ELSE streams[s].last IN
       streams' = [streams EXCEPT ![s].pc = "subscribe",
                      ![s].last = IF @ > journal THEN @ ELSE IF rows < journal THEN rows ELSE journal]
    /\ UNCHANGED <<journal, fanned, pubs, shutdown>>

SubscribeEvents(s) ==
    /\ streams[s].pc = "subscribe"
    /\ streams' = [streams EXCEPT ![s] = [NoChannel EXCEPT
          !.pc = "live", !.last = streams[s].last, !.from = Len(fanned),
          !.member = TRUE, !.connects = streams[s].connects]]
    /\ UNCHANGED <<journal, fanned, pubs, shutdown>>

Receive(s) ==
    /\ streams[s].pc = "live"
    /\ streams[s].buf # <<>>
    /\ streams' = [streams EXCEPT ![s].got = Append(@, Head(streams[s].buf)),
                                  ![s].buf = Tail(@), ![s].last = Head(streams[s].buf)]
    /\ UNCHANGED <<journal, fanned, pubs, shutdown>>

\* cancel: a channel still in the map is taken out and closed.
Cancelled(ch) ==
    [NoChannel EXCEPT !.closes = ch.closes + (IF ch.member THEN 1 ELSE 0),
                      !.last = ch.last, !.connects = ch.connects]

\* The client goes away, or the handler finds its channel closed and empty.
Disconnect(s) ==
    /\ streams[s].pc = "live"
    /\ streams' = [streams EXCEPT ![s] = Cancelled(@)]
    /\ UNCHANGED <<journal, fanned, pubs, shutdown>>

---------------------------------------------------------------------------
(* The shutdown.                                                           *)

Stage(from, to) ==
    /\ shutdown = from
    /\ shutdown' = to
    /\ UNCHANGED <<journal, fanned, pubs, streams>>

Exit(p) ==
    /\ pubs[p].pc = "idle"
    /\ \/ p \in Loop /\ shutdown \in {"cancelled", "stopping"}
       \/ p \in Worker /\ StoppingClosed
    /\ pubs' = [pubs EXCEPT ![p].pc = "exited"]
    /\ UNCHANGED <<journal, fanned, streams, shutdown>>

Exited(group) == \A p \in group : pubs[p].pc = "exited"

\* Mutant of AppClose: the loops are not joined.
AppCloseUnjoined == Stage("serving", "cancelled") \/ Stage("cancelled", "stopping")

\* App.Close: the loops are cancelled and joined (a timeout keeps the stage),
\* then Service.Close stops the workers and joins them, or gives up for good.
AppClose ==
    \/ Stage("serving", "cancelled")
    \/ Exited(Loop) /\ Stage("cancelled", "stopping")

JoinAndClose ==
    \/ Exited(Worker) /\ (Stage("stopping", "closed") \/ Stage("handing", "handed"))
    \/ Stage("stopping", "aborted") \/ Stage("handing", "aborted")

\* stopServing before an update: Service.Close at once, the loops still run.
StopServing == Stage("serving", "handing")

FeedNext ==
    \/ \E p \in Publisher : Publish(p) \/ AppendEvent(p) \/ FanOut(p) \/ Exit(p)
    \/ \E s \in Stream : Connect(s) \/ Replay(s) \/ SubscribeEvents(s) \/ Receive(s) \/ Disconnect(s)
    \/ AppClose \/ JoinAndClose \/ StopServing

FeedSpec == FeedInit /\ [][FeedNext]_feedVars

---------------------------------------------------------------------------
FeedTypeOK ==
    /\ journal \in 0..MaxEvents /\ fanned \in Seq(1..MaxEvents) /\ shutdown \in Stages
    /\ pubs \in [Publisher -> [pc : {"idle", "append", "fanout", "exited"}, id : 0..MaxEvents]]
    /\ \A s \in Stream : /\ streams[s].pc \in {"off", "replay", "subscribe", "live"}
                         /\ Len(streams[s].buf) <= BufferSize
                         /\ streams[s].last \in 0..MaxEvents

\* No publisher sends on a closed channel and nobody closes one twice, whoever
\* drops the subscriber first: a full buffer or the handler that leaves.
ChannelSafe ==
    \A s \in Stream : /\ streams[s].closes <= 1
                      /\ streams[s].member => streams[s].closes = 0 /\ streams[s].pc = "live"

\* A live stream delivers what was fanned out since its subscription, in
\* order and without a gap; one that was dropped delivers a prefix of it.
StreamFaithful ==
    \A s \in Stream :
        LET ch == streams[s]
            sent == ch.got \o ch.buf
            owed == SubSeq(fanned, ch.from + 1, Len(fanned)) IN
        ch.pc = "live" =>
            /\ sent = SubSeq(owed, 1, Len(sent))
            /\ ch.member => sent = owed

\* What the feed promises a subscriber.
FeedDelivery == ChannelSafe /\ StreamFaithful

\* A loop or a worker that passed the stopping check never reaches the database
\* App.Close closed: it waits for both.  The handoff of an update waits for the workers.
JoinedBeforeClose ==
    ~RepoOpen => \A p \in Worker \cup (IF shutdown = "closed" THEN Loop ELSE {}) :
                    pubs[p].pc \notin {"append", "fanout"}
=============================================================================
