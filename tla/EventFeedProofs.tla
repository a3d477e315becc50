--------------------------- MODULE EventFeedProofs ---------------------------
(***************************************************************************)
(* What the event feed promises, for any publishers, clients and bounds:   *)
(* no channel is closed twice or sent on after its close, a live stream    *)
(* misses nothing, and what the shutdown joins is gone from the database   *)
(* before it closes.                                                       *)
(***************************************************************************)
EXTENDS EventFeed, SequenceTheorems, TLAPS

Channel == [pc : {"off", "replay", "subscribe", "live"}, last : Nat, from : Nat, got : Seq(Nat),
            buf : Seq(Nat), member : BOOLEAN, closes : Nat, connects : Nat]

\* The log from an index on, by index: what the client got, then what is buffered.
Within(got, buf, from, log) ==
    /\ from + Len(got) + Len(buf) <= Len(log)
    /\ \A i \in 1..Len(got) : got[i] = log[from + i]
    /\ \A i \in 1..Len(buf) : buf[i] = log[from + Len(got) + i]

UpToDate(got, buf, from, log) == from + Len(got) + Len(buf) = Len(log)

\* What a channel carried: a part of the log, all since its subscription while it
\* is in the map.
Carried(ch, log) == /\ Within(ch.got, ch.buf, ch.from, log)
                    /\ ch.member => UpToDate(ch.got, ch.buf, ch.from, log)

Unclosed(ch) == /\ ch.closes <= 1
                /\ ch.member => ch.closes = 0 /\ ch.pc = "live"

FeedTyped ==
    /\ journal \in Nat /\ fanned \in Seq(Nat)
    /\ pubs \in [Publisher -> [pc : {"idle", "append", "fanout", "exited"}, id : Nat]]
    /\ streams \in [Stream -> Channel]
    /\ shutdown \in Stages

Joined ==
    /\ shutdown \in {"stopping", "closed"} => Exited(Loop)
    /\ shutdown \in {"closed", "handed"} => Exited(Worker)

FeedInv ==
    /\ FeedTyped
    /\ Joined
    /\ \A s \in Stream : Unclosed(streams[s]) /\ Carried(streams[s], fanned)

---------------------------------------------------------------------------
(* Buffers.                                                                *)

\* A new channel has carried nothing.
LEMMA FreshWithin ==
    ASSUME NEW log \in Seq(Nat), NEW from \in 0..Len(log)
    PROVE  /\ Within(<<>>, <<>>, from, log)
           /\ from = Len(log) => UpToDate(<<>>, <<>>, from, log)
  BY DEF Within, UpToDate

\* What was carried stays so when the log grows.
LEMMA GrownWithin ==
    ASSUME NEW log \in Seq(Nat), NEW got \in Seq(Nat), NEW buf \in Seq(Nat), NEW from \in Nat,
           NEW id \in Nat, Within(got, buf, from, log)
    PROVE  Within(got, buf, from, Append(log, id))
<1> DEFINE log2 == Append(log, id)
<1>1. Len(got) \in Nat /\ Len(buf) \in Nat /\ Len(log) \in Nat
  OBVIOUS
<1>2. Len(log2) = Len(log) + 1 /\ \A i \in 1..Len(log) : log2[i] = log[i]
  BY AppendProperties
<1> HIDE DEF log2
<1>3. from + Len(got) + Len(buf) <= Len(log)
  BY DEF Within
<1>4. ASSUME NEW i \in 1..Len(got) PROVE got[i] = log2[from + i]
  <2>1. from + i \in 1..Len(log)
    BY <1>1, <1>3
  <2> QED BY <2>1, <1>2 DEF Within
<1>5. ASSUME NEW i \in 1..Len(buf) PROVE buf[i] = log2[from + Len(got) + i]
  <2>1. from + Len(got) + i \in 1..Len(log)
    BY <1>1, <1>3
  <2> QED BY <2>1, <1>2 DEF Within
<1>6. from + Len(got) + Len(buf) <= Len(log2)
  BY <1>1, <1>2, <1>3
<1> QED BY <1>4, <1>5, <1>6 DEF Within, log2

\* A subscriber that takes an event has carried the log with it.
LEMMA TakenWithin ==
    ASSUME NEW log \in Seq(Nat), NEW got \in Seq(Nat), NEW buf \in Seq(Nat), NEW from \in Nat,
           NEW id \in Nat, Within(got, buf, from, log), UpToDate(got, buf, from, log)
    PROVE  /\ Within(got, Append(buf, id), from, Append(log, id))
           /\ UpToDate(got, Append(buf, id), from, Append(log, id))
<1> DEFINE log2 == Append(log, id)
           buf2 == Append(buf, id)
<1>1. Len(got) \in Nat /\ Len(buf) \in Nat /\ Len(log) \in Nat
  OBVIOUS
<1>2. Len(log2) = Len(log) + 1 /\ log2[Len(log) + 1] = id /\ \A i \in 1..Len(log) : log2[i] = log[i]
  BY AppendProperties
<1>3. Len(buf2) = Len(buf) + 1 /\ buf2[Len(buf) + 1] = id /\ \A i \in 1..Len(buf) : buf2[i] = buf[i]
  BY AppendProperties
<1> HIDE DEF log2, buf2
<1>4. from + Len(got) + Len(buf) = Len(log)
  BY DEF UpToDate
<1>5. ASSUME NEW i \in 1..Len(got) PROVE got[i] = log2[from + i]
  <2>1. from + i \in 1..Len(log)
    BY <1>1, <1>4
  <2> QED BY <2>1, <1>2 DEF Within
<1>6. ASSUME NEW i \in 1..Len(buf2) PROVE buf2[i] = log2[from + Len(got) + i]
  <2>1. CASE i = Len(buf) + 1
    <3>1. from + Len(got) + i = Len(log) + 1
      BY <2>1, <1>1, <1>4
    <3> QED BY <2>1, <3>1, <1>2, <1>3
  <2>2. CASE i # Len(buf) + 1
    <3>1. i \in 1..Len(buf)
      BY <2>2, <1>1, <1>3
    <3>2. from + Len(got) + i \in 1..Len(log)
      BY <3>1, <1>1, <1>4
    <3> QED BY <3>1, <3>2, <1>2, <1>3 DEF Within
  <2> QED BY <2>1, <2>2
<1>7. from + Len(got) + Len(buf2) = Len(log2) /\ from + Len(got) + Len(buf2) <= Len(log2)
  BY <1>1, <1>2, <1>3, <1>4
<1> QED BY <1>5, <1>6, <1>7 DEF Within, UpToDate, log2, buf2

\* A delivery moves the head of the buffer to what the client got.
LEMMA ReceivedWithin ==
    ASSUME NEW log \in Seq(Nat), NEW got \in Seq(Nat), NEW buf \in Seq(Nat), NEW from \in Nat,
           buf # <<>>, Within(got, buf, from, log)
    PROVE  /\ Within(Append(got, Head(buf)), Tail(buf), from, log)
           /\ UpToDate(got, buf, from, log) => UpToDate(Append(got, Head(buf)), Tail(buf), from, log)
<1> DEFINE got2 == Append(got, Head(buf))
           rest == Tail(buf)
<1>1. Len(got) \in Nat /\ Len(buf) \in Nat
  OBVIOUS
<1>2. Head(buf) \in Nat /\ Head(buf) = buf[1] /\ Len(buf) >= 1
  OBVIOUS
<1>3. Len(got2) = Len(got) + 1 /\ got2[Len(got) + 1] = Head(buf) /\ \A i \in 1..Len(got) : got2[i] = got[i]
  BY <1>2, AppendProperties
<1>4. Len(rest) = Len(buf) - 1 /\ \A i \in 1..Len(rest) : rest[i] = buf[i + 1]
  BY HeadTailProperties
<1> HIDE DEF got2, rest
<1>5. ASSUME NEW i \in 1..Len(got2) PROVE got2[i] = log[from + i]
  <2>1. CASE i = Len(got) + 1
    <3>1. buf[1] = log[from + Len(got) + 1]
      BY <1>1, <1>2 DEF Within
    <3>2. from + Len(got) + 1 = from + i
      BY <2>1, <1>1
    <3> QED BY <2>1, <3>1, <3>2, <1>2, <1>3
  <2>2. CASE i # Len(got) + 1
    <3>1. i \in 1..Len(got)
      BY <2>2, <1>1, <1>3
    <3> QED BY <3>1, <1>3 DEF Within
  <2> QED BY <2>1, <2>2
<1>6. ASSUME NEW i \in 1..Len(rest) PROVE rest[i] = log[from + Len(got2) + i]
  <2>1. i + 1 \in 1..Len(buf) /\ from + Len(got) + (i + 1) = from + Len(got2) + i
    BY <1>1, <1>3, <1>4
  <2>2. buf[i + 1] = log[from + Len(got) + (i + 1)]
    BY <2>1 DEF Within
  <2> QED BY <2>1, <2>2, <1>4
<1>7. from + Len(got2) + Len(rest) = from + Len(got) + Len(buf)
  BY <1>1, <1>3, <1>4
<1> QED BY <1>5, <1>6, <1>7 DEF Within, UpToDate, got2, rest

---------------------------------------------------------------------------
(* Steps.                                                                  *)

LEMMA FeedInitially == FeedInit => FeedInv
<1> SUFFICES ASSUME FeedInit PROVE FeedInv
  OBVIOUS
<1>1. NoChannel \in Channel
  BY DEF NoChannel, Channel
<1>2. FeedTyped
  BY <1>1 DEF FeedInit, FeedTyped, Stages
<1>3. Joined
  BY DEF FeedInit, Joined
<1>4. Unclosed(NoChannel)
  BY DEF NoChannel, Unclosed
<1>5. Carried(NoChannel, <<>>)
  <2>1. Within(<<>>, <<>>, 0, <<>>)
    BY DEF Within
  <2> QED BY <2>1 DEF NoChannel, Carried
<1> QED BY <1>2, <1>3, <1>4, <1>5 DEF FeedInit, FeedInv

\* A step of a publisher or of the shutdown, which leaves the channels alone.
LEMMA FeedQuiet ==
    ASSUME FeedInv, FeedTyped', Joined', UNCHANGED <<fanned, streams>>
    PROVE  FeedInv'
  BY DEF FeedInv

\* A publisher that has not exited moves: the exited ones stay so.
LEMMA JoinedStays ==
    ASSUME FeedTyped, Joined, NEW p \in Publisher, pubs[p].pc # "exited",
           NEW q \in [pc : {"idle", "append", "fanout", "exited"}, id : Nat],
           pubs' = [pubs EXCEPT ![p] = q], UNCHANGED shutdown
    PROVE  Joined'
  BY DEF FeedTyped, Joined, Exited, Publisher

\* One channel changes, to one that carried what it should.
LEMMA ChannelStep ==
    ASSUME FeedInv, NEW s \in Stream, NEW ch \in Channel, Unclosed(ch), Carried(ch, fanned),
           streams' = [streams EXCEPT ![s] = ch], UNCHANGED <<journal, fanned, pubs, shutdown>>
    PROVE  FeedInv'
<1>1. FeedTyped'
  BY DEF FeedInv, FeedTyped
<1>2. Joined'
  BY DEF FeedInv, Joined, Exited
<1>3. ASSUME NEW t \in Stream PROVE Unclosed(streams'[t]) /\ Carried(streams'[t], fanned')
  BY DEF FeedInv, FeedTyped
<1> QED BY <1>1, <1>2, <1>3 DEF FeedInv

LEMMA PublishStep == ASSUME FeedInv, NEW p \in Publisher, Publish(p) PROVE FeedInv'
<1> DEFINE q == [pubs[p] EXCEPT !.pc = "append"]
<1>1. q \in [pc : {"idle", "append", "fanout", "exited"}, id : Nat]
  BY DEF FeedInv, FeedTyped
<1>2. pubs' = [pubs EXCEPT ![p] = q] /\ pubs[p].pc # "exited"
  BY DEF Publish
<1> HIDE DEF q
<1>3. FeedTyped' /\ Joined'
  BY <1>1, <1>2, JoinedStays DEF FeedInv, Publish, FeedTyped
<1> QED BY <1>3, FeedQuiet DEF Publish

LEMMA AppendEventStep == ASSUME FeedInv, NEW p \in Publisher, AppendEvent(p) PROVE FeedInv'
<1>1. PICK q \in [pc : {"idle", "append", "fanout", "exited"}, id : Nat] :
          pubs' = [pubs EXCEPT ![p] = q]
  BY DEF FeedInv, FeedTyped, AppendEvent
<1>2. pubs[p].pc # "exited" /\ journal' \in Nat
  BY DEF FeedInv, FeedTyped, AppendEvent
<1>3. FeedTyped' /\ Joined'
  BY <1>1, <1>2, JoinedStays DEF FeedInv, AppendEvent, FeedTyped
<1> QED BY <1>3, FeedQuiet DEF AppendEvent

LEMMA ExitStep == ASSUME FeedInv, NEW p \in Publisher, Exit(p) PROVE FeedInv'
<1> DEFINE q == [pubs[p] EXCEPT !.pc = "exited"]
<1>1. q \in [pc : {"idle", "append", "fanout", "exited"}, id : Nat]
  BY DEF FeedInv, FeedTyped
<1>2. pubs' = [pubs EXCEPT ![p] = q] /\ pubs[p].pc # "exited"
  BY DEF Exit
<1> HIDE DEF q
<1>3. FeedTyped' /\ Joined'
  BY <1>1, <1>2, JoinedStays DEF FeedInv, Exit, FeedTyped
<1> QED BY <1>3, FeedQuiet DEF Exit

\* The channels an event is offered to take it or are dropped and closed once.
LEMMA FanOutStep == ASSUME FeedInv, NEW p \in Publisher, FanOut(p) PROVE FeedInv'
<1> DEFINE id == pubs[p].id
           q == [pc |-> "idle", id |-> 0]
<1>1. id \in Nat /\ q \in [pc : {"idle", "append", "fanout", "exited"}, id : Nat]
  BY DEF FeedInv, FeedTyped
<1>2. pubs' = [pubs EXCEPT ![p] = q] /\ pubs[p].pc # "exited" /\ fanned' = Append(fanned, id)
  BY DEF FanOut
<1>3. fanned \in Seq(Nat) /\ fanned' \in Seq(Nat)
  BY <1>1, <1>2, AppendProperties DEF FeedInv, FeedTyped
<1>4. ASSUME NEW s \in Stream
      PROVE  streams'[s] \in Channel /\ Unclosed(streams'[s]) /\ Carried(streams'[s], fanned')
  <2> DEFINE ch == streams[s]
  <2>1. ch \in Channel /\ Unclosed(ch) /\ Carried(ch, fanned)
    BY DEF FeedInv, FeedTyped
  <2>2. streams'[s] = IF ch.member THEN Offer(ch, id) ELSE ch
    BY DEF FanOut
  <2> HIDE DEF id, ch
  <2>3. /\ ch.got \in Seq(Nat) /\ ch.buf \in Seq(Nat) /\ ch.from \in Nat /\ ch.closes \in Nat
        /\ Within(ch.got, ch.buf, ch.from, fanned)
    BY <2>1 DEF Channel, Carried
  <2>4. Within(ch.got, ch.buf, ch.from, fanned')
    BY <2>3, <1>1, <1>2, <1>3, GrownWithin
  <2>5. CASE ~ch.member
    <3>1. streams'[s] = ch
      BY <2>2, <2>5
    <3> QED BY <2>1, <2>4, <2>5, <3>1 DEF Carried
  <2>6. CASE ch.member /\ Len(ch.buf) < BufferSize
    <3> DEFINE new == [ch EXCEPT !.buf = Append(@, id)]
    <3>1. streams'[s] = new
      BY <2>2, <2>6 DEF Offer
    <3>2. new \in Channel /\ Unclosed(new)
      BY <2>1, <2>3, <1>1, AppendProperties DEF Channel, Unclosed
    <3>3. new.got = ch.got /\ new.from = ch.from /\ new.buf = Append(ch.buf, id)
      BY <2>1 DEF Channel
    <3> HIDE DEF new
    <3>4. UpToDate(ch.got, ch.buf, ch.from, fanned)
      BY <2>1, <2>6 DEF Carried
    <3>5. Within(new.got, new.buf, new.from, fanned') /\ UpToDate(new.got, new.buf, new.from, fanned')
      BY <3>3, <3>4, <2>3, <1>1, <1>2, <1>3, TakenWithin
    <3> QED BY <3>1, <3>2, <3>5 DEF Carried
  <2>7. CASE ch.member /\ ~(Len(ch.buf) < BufferSize)
    <3> DEFINE new == [ch EXCEPT !.member = FALSE, !.closes = @ + 1]
    <3>1. streams'[s] = new
      BY <2>2, <2>7 DEF Offer
    <3>6. ch.closes + 1 \in Nat
      BY <2>3
    <3>2. new \in Channel
      BY <2>1, <3>6 DEF Channel
    <3>3. /\ new.got = ch.got /\ new.from = ch.from /\ new.buf = ch.buf
          /\ new.member = FALSE /\ new.closes = ch.closes + 1
      BY <2>1 DEF Channel
    <3>4. ch.closes = 0
      BY <2>1, <2>7 DEF Unclosed
    <3> HIDE DEF new
    <3>5. Unclosed(new)
      BY <3>3, <3>4 DEF Unclosed
    <3> QED BY <3>1, <3>2, <3>3, <3>5, <2>4 DEF Carried
  <2> QED BY <2>5, <2>6, <2>7
<1>5. streams' = [s \in Stream |-> streams'[s]]
  BY DEF FanOut
<1>6. streams' \in [Stream -> Channel]
  BY <1>4, <1>5
<1> HIDE DEF q
<1>7. FeedTyped' /\ Joined'
  BY <1>1, <1>2, <1>3, <1>6, JoinedStays DEF FeedInv, FanOut, FeedTyped
<1> QED BY <1>4, <1>7 DEF FeedInv

LEMMA ConnectStep == ASSUME FeedInv, NEW s \in Stream, Connect(s) PROVE FeedInv'
<1> DEFINE ch == streams[s]
           new == [ch EXCEPT !.pc = IF ch.last > 0 THEN "replay" ELSE "subscribe", !.connects = @ + 1]
<1>1. ch \in Channel /\ Unclosed(ch) /\ Carried(ch, fanned) /\ ~ch.member
  BY DEF FeedInv, FeedTyped, Connect, Unclosed
<1>2. streams' = [streams EXCEPT ![s] = new]
  BY DEF Connect
<1> HIDE DEF ch
<1>6. ch.connects + 1 \in Nat
  BY <1>1 DEF Channel
<1>3. new \in Channel
  BY <1>1, <1>6 DEF Channel
<1>4. /\ new.got = ch.got /\ new.buf = ch.buf /\ new.from = ch.from
      /\ new.member = ch.member /\ new.closes = ch.closes
  BY <1>1 DEF Channel
<1> HIDE DEF new
<1>5. Unclosed(new) /\ Carried(new, fanned)
  BY <1>1, <1>4 DEF Unclosed, Carried
<1> QED BY <1>2, <1>3, <1>5, ChannelStep DEF Connect

LEMMA ReplayStep == ASSUME FeedInv, NEW s \in Stream, Replay(s) PROVE FeedInv'
<1> DEFINE ch == streams[s]
<1>1. ch \in Channel /\ Unclosed(ch) /\ Carried(ch, fanned) /\ ~ch.member
  BY DEF FeedInv, FeedTyped, Replay, Unclosed
<1>2. PICK n \in Nat : streams' = [streams EXCEPT ![s] = [ch EXCEPT !.pc = "subscribe", !.last = n]]
  <2> DEFINE rows == IF RepoOpen THEN ch.last + ReplayLimit ELSE ch.last
             n == IF ch.last > journal THEN ch.last ELSE IF rows < journal THEN rows ELSE journal
  <2>1. ch.last \in Nat /\ journal \in Nat /\ ReplayLimit \in Nat
    BY <1>1, FeedAssumption DEF FeedInv, FeedTyped, Channel
  <2>2. n \in Nat
    BY <2>1
  <2>3. streams' = [streams EXCEPT ![s] = [ch EXCEPT !.pc = "subscribe", !.last = n]]
    BY DEF Replay
  <2> HIDE DEF n
  <2> QED BY <2>2, <2>3
<1> DEFINE new == [ch EXCEPT !.pc = "subscribe", !.last = n]
<1> HIDE DEF ch
<1>3. new \in Channel /\ Unclosed(new) /\ Carried(new, fanned)
  BY <1>1 DEF Channel, Unclosed, Carried
<1>4. streams' = [streams EXCEPT ![s] = new]
  BY <1>2
<1> HIDE DEF new
<1> QED BY <1>3, <1>4, ChannelStep DEF Replay

LEMMA SubscribeStep == ASSUME FeedInv, NEW s \in Stream, SubscribeEvents(s) PROVE FeedInv'
<1> DEFINE new == [NoChannel EXCEPT !.pc = "live", !.last = streams[s].last, !.from = Len(fanned),
                                    !.member = TRUE, !.connects = streams[s].connects]
<1>1. streams[s] \in Channel /\ fanned \in Seq(Nat) /\ Len(fanned) \in Nat
  BY DEF FeedInv, FeedTyped
<1>2. new.got = <<>> /\ new.buf = <<>> /\ new.from = Len(fanned) /\ new.closes = 0 /\ new.pc = "live"
  BY DEF NoChannel
<1>6. <<>> \in Seq(Nat) /\ streams[s].last \in Nat /\ streams[s].connects \in Nat
  BY <1>1 DEF Channel
<1>7. new \in Channel
  BY <1>1, <1>6 DEF NoChannel, Channel
<1>4. streams' = [streams EXCEPT ![s] = new]
  BY DEF SubscribeEvents
<1> HIDE DEF new
<1>3. Unclosed(new)
  BY <1>2 DEF Unclosed
<1>5. Carried(new, fanned)
  BY <1>1, <1>2, FreshWithin DEF Carried
<1> QED BY <1>3, <1>4, <1>5, <1>7, ChannelStep DEF SubscribeEvents

LEMMA ReceiveStep == ASSUME FeedInv, NEW s \in Stream, Receive(s) PROVE FeedInv'
<1> DEFINE ch == streams[s]
           new == [ch EXCEPT !.got = Append(@, Head(ch.buf)), !.buf = Tail(@), !.last = Head(ch.buf)]
<1>1. ch \in Channel /\ Unclosed(ch) /\ Carried(ch, fanned) /\ ch.buf # <<>> /\ fanned \in Seq(Nat)
  BY DEF FeedInv, FeedTyped, Receive
<1>2. streams' = [streams EXCEPT ![s] = new]
  BY DEF Receive
<1> HIDE DEF ch
<1>3. ch.got \in Seq(Nat) /\ ch.buf \in Seq(Nat) /\ ch.from \in Nat /\ Head(ch.buf) \in Nat /\ Tail(ch.buf) \in Seq(Nat)
  BY <1>1, HeadTailProperties DEF Channel
<1>4. Append(ch.got, Head(ch.buf)) \in Seq(Nat)
  BY <1>3, AppendProperties
<1>5. new \in Channel
  BY <1>1, <1>3, <1>4 DEF Channel
<1>6. /\ new.got = Append(ch.got, Head(ch.buf)) /\ new.buf = Tail(ch.buf) /\ new.from = ch.from
      /\ new.member = ch.member /\ new.closes = ch.closes /\ new.pc = ch.pc
  BY <1>1 DEF Channel
<1> HIDE DEF new
<1>7. Unclosed(new)
  BY <1>1, <1>6 DEF Unclosed
<1>8. Carried(new, fanned)
  BY <1>1, <1>3, <1>6, ReceivedWithin DEF Carried
<1> QED BY <1>2, <1>5, <1>7, <1>8, ChannelStep DEF Receive

LEMMA DisconnectStep == ASSUME FeedInv, NEW s \in Stream, Disconnect(s) PROVE FeedInv'
<1> DEFINE ch == streams[s]
           new == Cancelled(ch)
<1>1. ch \in Channel /\ Unclosed(ch) /\ fanned \in Seq(Nat)
  BY DEF FeedInv, FeedTyped
<1>2. streams' = [streams EXCEPT ![s] = new]
  BY DEF Disconnect
<1> HIDE DEF ch
<1>3. ch.closes + (IF ch.member THEN 1 ELSE 0) \in 0..1
  BY <1>1 DEF Channel, Unclosed
<1>4. /\ new.got = <<>> /\ new.buf = <<>> /\ new.from = 0 /\ new.member = FALSE
      /\ new.closes = ch.closes + (IF ch.member THEN 1 ELSE 0)
  BY DEF Cancelled, NoChannel
<1>9. <<>> \in Seq(Nat) /\ ch.last \in Nat /\ ch.connects \in Nat
  BY <1>1 DEF Channel
<1>6. new \in Channel
  <2>1. PICK n \in Nat : n = ch.closes + (IF ch.member THEN 1 ELSE 0)
    BY <1>3
  <2>2. new = [NoChannel EXCEPT !.closes = n, !.last = ch.last, !.connects = ch.connects]
    BY <2>1 DEF Cancelled
  <2>3. [NoChannel EXCEPT !.closes = n, !.last = ch.last, !.connects = ch.connects] \in Channel
    BY <1>9 DEF NoChannel, Channel
  <2> QED BY <2>2, <2>3
<1> HIDE DEF new
<1>5. Carried(new, fanned)
  BY <1>1, <1>4, FreshWithin DEF Carried
<1>7. Unclosed(new)
  BY <1>3, <1>4 DEF Unclosed
<1> QED BY <1>2, <1>5, <1>6, <1>7, ChannelStep DEF Disconnect

\* The loops are joined before the workers are stopped, and these before the close.
LEMMA ShutdownStep == ASSUME FeedInv, AppClose \/ JoinAndClose \/ StopServing PROVE FeedInv'
<1>1. FeedTyped'
  BY DEF FeedInv, FeedTyped, AppClose, JoinAndClose, StopServing, Stage, Stages
<1>2. Joined'
  BY DEF FeedInv, Joined, Exited, AppClose, JoinAndClose, StopServing, Stage
<1>3. UNCHANGED <<fanned, streams>>
  BY DEF AppClose, JoinAndClose, StopServing, Stage
<1> QED BY <1>1, <1>2, <1>3, FeedQuiet

LEMMA FeedKept == ASSUME FeedInv, [FeedNext]_feedVars PROVE FeedInv'
<1>1. ASSUME NEW p \in Publisher, Publish(p) \/ AppendEvent(p) \/ FanOut(p) \/ Exit(p) PROVE FeedInv'
  BY <1>1, PublishStep, AppendEventStep, FanOutStep, ExitStep
<1>2. ASSUME NEW s \in Stream,
             Connect(s) \/ Replay(s) \/ SubscribeEvents(s) \/ Receive(s) \/ Disconnect(s)
      PROVE  FeedInv'
  BY <1>2, ConnectStep, ReplayStep, SubscribeStep, ReceiveStep, DisconnectStep
<1>3. CASE AppClose \/ JoinAndClose \/ StopServing
  BY <1>3, ShutdownStep
<1>4. CASE UNCHANGED feedVars
  BY <1>4 DEF feedVars, FeedInv, FeedTyped, Joined, Exited
<1> QED BY <1>1, <1>2, <1>3, <1>4 DEF FeedNext

LEMMA FeedInductive == FeedSpec => []FeedInv
<1>1. FeedInit => FeedInv
  BY FeedInitially
<1>2. FeedInv /\ [FeedNext]_feedVars => FeedInv'
  BY FeedKept
<1> QED BY <1>1, <1>2, PTL DEF FeedSpec

---------------------------------------------------------------------------
(* Ids and buffers stay within their bounds.                               *)

Id == 1..MaxEvents

\* An id is given by the journal, and everything that is passed on was given.
Given ==
    /\ journal <= MaxEvents /\ fanned \in Seq(Id)
    /\ \A p \in Publisher : /\ pubs[p].id \in 0..MaxEvents
                            /\ pubs[p].pc = "fanout" => pubs[p].id \in Id

Fits(ch) == ch.last <= MaxEvents /\ ch.buf \in Seq(Id) /\ Len(ch.buf) <= BufferSize

BoundsInv == FeedInv /\ Given /\ \A s \in Stream : Fits(streams[s])

\* One channel changes, into one that fits.
LEMMA FitsStep ==
    ASSUME BoundsInv, FeedInv', UNCHANGED <<journal, fanned, pubs>>, NEW s \in Stream, NEW new, Fits(new),
           streams' = [streams EXCEPT ![s] = new]
    PROVE  BoundsInv'
<1>1. \A t \in Stream : streams'[t] = IF t = s THEN new ELSE streams[t]
  BY DEF BoundsInv, FeedInv, FeedTyped
<1> QED BY <1>1 DEF BoundsInv, Given

LEMMA PublisherBounds ==
    ASSUME BoundsInv, FeedInv', NEW p \in Publisher, Publish(p) \/ AppendEvent(p) \/ Exit(p)
    PROVE  BoundsInv'
<1>1. UNCHANGED <<fanned, streams>>
  BY DEF Publish, AppendEvent, Exit
<1>2. journal \in Nat /\ journal <= MaxEvents /\ MaxEvents \in Nat
  BY FeedAssumption DEF BoundsInv, FeedInv, FeedTyped, Given
<1>3. PICK q : pubs' = [pubs EXCEPT ![p] = q] /\ q.id \in 0..MaxEvents /\ (q.pc = "fanout" => q.id \in Id)
  <2>1. pubs[p].id \in 0..MaxEvents
    BY DEF BoundsInv, Given
  <2>2. ASSUME NEW pc \in {"append", "exited", "idle"}, pubs' = [pubs EXCEPT ![p].pc = pc]
        PROVE  \E q : pubs' = [pubs EXCEPT ![p] = q] /\ q.id \in 0..MaxEvents /\ (q.pc = "fanout" => q.id \in Id)
    <3> DEFINE q == [pubs[p] EXCEPT !.pc = pc]
    <3>1. pubs' = [pubs EXCEPT ![p] = q]
      BY <2>2
    <3>2. q.id = pubs[p].id /\ q.pc = pc
      BY DEF BoundsInv, FeedInv, FeedTyped
    <3> HIDE DEF q
    <3> QED BY <2>1, <3>1, <3>2
  <2>3. CASE Publish(p) \/ Exit(p)
    BY <2>2, <2>3 DEF Publish, Exit
  <2>4. CASE AppendEvent(p) /\ RepoOpen /\ journal < MaxEvents
    <3> DEFINE q == [pc |-> "fanout", id |-> journal + 1]
    <3>1. pubs' = [pubs EXCEPT ![p] = q]
      BY <2>4 DEF AppendEvent
    <3>2. q.id \in Id /\ q.id \in 0..MaxEvents
      BY <1>2, <2>4 DEF Id
    <3> HIDE DEF q
    <3> QED BY <3>1, <3>2
  <2>5. CASE AppendEvent(p) /\ ~(RepoOpen /\ journal < MaxEvents)
    BY <2>2, <2>5 DEF AppendEvent
  <2> QED BY <2>3, <2>4, <2>5
<1>4. journal' <= MaxEvents
  BY <1>2 DEF Publish, AppendEvent, Exit
<1>5. Given'
  BY <1>1, <1>3, <1>4 DEF BoundsInv, Given, FeedInv, FeedTyped
<1> QED BY <1>1, <1>5 DEF BoundsInv, Fits

LEMMA FanOutBounds ==
    ASSUME BoundsInv, FeedInv', NEW p \in Publisher, FanOut(p) PROVE BoundsInv'
<1>1. PICK id \in Id : id = pubs[p].id
  BY DEF BoundsInv, Given, FanOut
<1>2. fanned' \in Seq(Id) /\ journal' <= MaxEvents
  BY <1>1 DEF FanOut, BoundsInv, Given
<1>3. \A q \in Publisher : pubs'[q] = IF q = p THEN [pc |-> "idle", id |-> 0] ELSE pubs[q]
  BY DEF FanOut, BoundsInv, FeedInv, FeedTyped
<1>4. Given'
  BY <1>2, <1>3, FeedAssumption DEF Given, BoundsInv
<1>5. ASSUME NEW s \in Stream PROVE Fits(streams'[s])
  <2>1. streams'[s] = IF streams[s].member THEN Offer(streams[s], id) ELSE streams[s]
    BY <1>1 DEF FanOut
  <2>2. streams[s] \in Channel /\ Fits(streams[s])
    BY DEF BoundsInv, FeedInv, FeedTyped
  <2>3. Fits(Offer(streams[s], id))
    <3>1. PICK ch : ch = streams[s]
      OBVIOUS
    <3>2. PICK buf : buf = ch.buf
      OBVIOUS
    <3>3. buf \in Seq(Id) /\ Len(buf) <= BufferSize /\ ch.last <= MaxEvents /\ ch \in Channel
      BY <2>2, <3>1, <3>2 DEF Fits
    <3>4. CASE Len(buf) < BufferSize
      <4>1. Offer(ch, id) = [ch EXCEPT !.buf = Append(buf, id)]
        BY <3>2, <3>4 DEF Offer
      <4>2. Offer(ch, id).buf = Append(buf, id) /\ Offer(ch, id).last = ch.last
        BY <3>3, <4>1 DEF Channel
      <4>3. Append(buf, id) \in Seq(Id) /\ Len(Append(buf, id)) <= BufferSize
        BY <3>3, <3>4, FeedAssumption
      <4> QED BY <3>1, <3>3, <4>2, <4>3 DEF Fits
    <3>5. CASE ~(Len(buf) < BufferSize)
      <4>1. Offer(ch, id) = [ch EXCEPT !.member = FALSE, !.closes = @ + 1]
        BY <3>2, <3>5 DEF Offer
      <4>2. Offer(ch, id).buf = buf /\ Offer(ch, id).last = ch.last
        BY <3>2, <3>3, <4>1 DEF Channel
      <4> QED BY <3>1, <3>3, <4>2 DEF Fits
    <3> QED BY <3>4, <3>5
  <2> QED BY <2>1, <2>2, <2>3
<1> QED BY <1>4, <1>5 DEF BoundsInv

LEMMA StreamBounds ==
    ASSUME BoundsInv, FeedInv', NEW s \in Stream,
           Connect(s) \/ Replay(s) \/ SubscribeEvents(s) \/ Receive(s) \/ Disconnect(s)
    PROVE  BoundsInv'
<1>1. PICK ch : ch = streams[s]
  OBVIOUS
<1>2. ch \in Channel /\ Fits(ch) /\ <<>> \in Seq(Id) /\ Len(<<>>) <= BufferSize
  BY <1>1, FeedAssumption DEF BoundsInv, FeedInv, FeedTyped
<1>3. UNCHANGED <<journal, fanned, pubs>>
  BY DEF Connect, Replay, SubscribeEvents, Receive, Disconnect
<1>4. CASE Connect(s)
  <2> DEFINE new == [ch EXCEPT !.pc = IF ch.last > 0 THEN "replay" ELSE "subscribe", !.connects = @ + 1]
  <2>1. streams' = [streams EXCEPT ![s] = new]
    BY <1>1, <1>4 DEF Connect
  <2>2. new.buf = ch.buf /\ new.last = ch.last
    BY <1>2 DEF Channel
  <2> HIDE DEF new
  <2> QED BY <1>2, <1>3, <2>1, <2>2, FitsStep DEF Fits
<1>5. CASE Replay(s)
  <2> DEFINE rows == IF RepoOpen THEN ch.last + ReplayLimit ELSE ch.last
             n == IF ch.last > journal THEN ch.last ELSE IF rows < journal THEN rows ELSE journal
             new == [ch EXCEPT !.pc = "subscribe", !.last = n]
  <2>1. streams' = [streams EXCEPT ![s] = new]
    BY <1>1, <1>5 DEF Replay
  <2>2. new.buf = ch.buf /\ new.last = n
    BY <1>2 DEF Channel
  <2>3. ch.last \in Nat /\ journal \in Nat /\ ReplayLimit \in Nat /\ MaxEvents \in Nat
        /\ journal <= MaxEvents /\ ch.last <= MaxEvents
    BY <1>2, FeedAssumption DEF BoundsInv, FeedInv, FeedTyped, Given, Channel, Fits
  <2>4. n <= MaxEvents
    BY <2>3
  <2> HIDE DEF new, n
  <2> QED BY <1>2, <1>3, <2>1, <2>2, <2>4, FitsStep DEF Fits
<1>6. CASE SubscribeEvents(s)
  <2> DEFINE new == [NoChannel EXCEPT !.pc = "live", !.last = streams[s].last, !.from = Len(fanned),
                                      !.member = TRUE, !.connects = streams[s].connects]
  <2>1. streams' = [streams EXCEPT ![s] = new]
    BY <1>6 DEF SubscribeEvents
  <2>2. new.buf = <<>> /\ new.last = ch.last
    BY <1>1 DEF NoChannel
  <2> HIDE DEF new
  <2> QED BY <1>2, <1>3, <2>1, <2>2, FitsStep DEF Fits
<1>7. CASE Receive(s)
  <2>1. PICK buf : buf = ch.buf
    OBVIOUS
  <2> DEFINE new == [ch EXCEPT !.got = Append(@, Head(buf)), !.buf = Tail(buf), !.last = Head(buf)]
  <2>2. streams' = [streams EXCEPT ![s] = new] /\ buf # <<>>
    BY <1>1, <1>7, <2>1 DEF Receive
  <2>3. new.buf = Tail(buf) /\ new.last = Head(buf)
    BY <1>2 DEF Channel
  <2>4. buf \in Seq(Id) /\ Len(buf) <= BufferSize
    BY <1>2, <2>1 DEF Fits
  <2>5. Tail(buf) \in Seq(Id) /\ Len(Tail(buf)) <= BufferSize /\ Head(buf) \in Id
    BY <2>2, <2>4, FeedAssumption
  <2> HIDE DEF new
  <2>6. Head(buf) <= MaxEvents
    BY <2>5 DEF Id
  <2> QED BY <1>3, <2>2, <2>3, <2>5, <2>6, FitsStep DEF Fits
<1>8. CASE Disconnect(s)
  <2> DEFINE new == Cancelled(ch)
  <2>1. streams' = [streams EXCEPT ![s] = new]
    BY <1>1, <1>8 DEF Disconnect
  <2>2. new.buf = <<>> /\ new.last = ch.last
    BY DEF Cancelled, NoChannel
  <2> HIDE DEF new
  <2> QED BY <1>2, <1>3, <2>1, <2>2, FitsStep DEF Fits
<1> QED BY <1>4, <1>5, <1>6, <1>7, <1>8

LEMMA BoundsInitially == FeedInit => BoundsInv
<1> SUFFICES ASSUME FeedInit PROVE BoundsInv
  OBVIOUS
<1>1. <<>> \in Seq(Id) /\ Len(<<>>) = 0
  OBVIOUS
<1>2. Given
  BY <1>1, FeedAssumption DEF FeedInit, Given
<1>3. NoChannel.buf = <<>> /\ NoChannel.last = 0
  BY DEF NoChannel
<1>4. Fits(NoChannel)
  BY <1>1, <1>3, FeedAssumption DEF Fits
<1> QED BY <1>2, <1>4, FeedInitially DEF FeedInit, BoundsInv

LEMMA BoundsKept == ASSUME BoundsInv, [FeedNext]_feedVars PROVE BoundsInv'
<1>1. FeedInv'
  BY FeedKept DEF BoundsInv
<1>2. CASE AppClose \/ JoinAndClose \/ StopServing
  <2>1. UNCHANGED <<journal, fanned, pubs, streams>>
    BY <1>2 DEF AppClose, JoinAndClose, StopServing, Stage
  <2> QED BY <1>1, <2>1 DEF BoundsInv, Given
<1>3. CASE UNCHANGED feedVars
  BY <1>1, <1>3 DEF feedVars, BoundsInv, Given
<1> QED BY <1>1, <1>2, <1>3, PublisherBounds, FanOutBounds, StreamBounds DEF FeedNext

\* The bounds are those of the type.
LEMMA FeedTypes == BoundsInv => FeedTypeOK
<1> SUFFICES ASSUME BoundsInv PROVE FeedTypeOK
  OBVIOUS
<1>1. journal \in 0..MaxEvents /\ fanned \in Seq(1..MaxEvents) /\ shutdown \in Stages
  BY FeedAssumption DEF BoundsInv, FeedInv, FeedTyped, Given, Id
<1>2. pubs \in [Publisher -> [pc : {"idle", "append", "fanout", "exited"}, id : 0..MaxEvents]]
  BY DEF BoundsInv, FeedInv, FeedTyped, Given
<1>3. \A s \in Stream : /\ streams[s].pc \in {"off", "replay", "subscribe", "live"}
                        /\ Len(streams[s].buf) <= BufferSize
                        /\ streams[s].last \in 0..MaxEvents
  BY FeedAssumption DEF BoundsInv, FeedInv, FeedTyped, Channel, Fits
<1> QED BY <1>1, <1>2, <1>3 DEF FeedTypeOK

---------------------------------------------------------------------------
(* What the feed promises.                                                 *)

\* What a channel carried is the log from its subscription on.
LEMMA WithinIsSubSeq ==
    ASSUME NEW log \in Seq(Nat), NEW got \in Seq(Nat), NEW buf \in Seq(Nat), NEW from \in Nat,
           Within(got, buf, from, log)
    PROVE  LET sent == got \o buf
               owed == SubSeq(log, from + 1, Len(log)) IN
           /\ sent = SubSeq(owed, 1, Len(sent))
           /\ UpToDate(got, buf, from, log) => sent = owed
<1> DEFINE sent == got \o buf
           owed == SubSeq(log, from + 1, Len(log))
<1>1. Len(got) \in Nat /\ Len(buf) \in Nat /\ Len(log) \in Nat
  OBVIOUS
<1>2. /\ sent \in Seq(Nat) /\ Len(sent) = Len(got) + Len(buf)
      /\ \A i \in 1..Len(got) + Len(buf) : sent[i] = IF i <= Len(got) THEN got[i] ELSE buf[i - Len(got)]
  BY ConcatProperties
<1>3. from + Len(got) + Len(buf) <= Len(log)
  BY DEF Within
<1>4. owed \in Seq(Nat) /\ Len(owed) = Len(log) - from /\ \A i \in 1..Len(log) - from : owed[i] = log[from + i]
  <2>1. \A i \in from + 1..Len(log) : log[i] \in Nat
    OBVIOUS
  <2>2. from + 1 \in Int /\ Len(log) \in Int
    BY <1>1
  <2>3. /\ owed \in Seq(Nat) /\ Len(owed) = IF from + 1 <= Len(log) THEN Len(log) - (from + 1) + 1 ELSE 0
        /\ \A i \in 1..Len(log) - (from + 1) + 1 : owed[i] = log[from + 1 + i - 1]
    BY <2>1, <2>2, SubSeqProperties
  <2> HIDE DEF owed
  <2>4. Len(log) - (from + 1) + 1 = Len(log) - from
    BY <1>1
  <2>5. Len(owed) = Len(log) - from
    BY <2>3, <1>1, <1>3
  <2>6. ASSUME NEW i \in 1..Len(log) - from PROVE owed[i] = log[from + i]
    <3>1. from + 1 + i - 1 = from + i
      BY <1>1
    <3>2. i \in 1..Len(log) - (from + 1) + 1
      BY <2>4
    <3>3. owed[i] = log[from + 1 + i - 1]
      BY <2>3, <3>2
    <3> QED BY <3>1, <3>3, Zenon
  <2> QED BY <2>3, <2>5, <2>6
<1> HIDE DEF sent, owed
<1>5. ASSUME NEW i \in 1..Len(sent) PROVE sent[i] = owed[i]
  <2>4. i \in 1..Len(log) - from
    BY <1>1, <1>2, <1>3
  <2>1. owed[i] = log[from + i]
    BY <1>4, <2>4
  <2>2. CASE i <= Len(got)
    <3>1. i \in 1..Len(got)
      BY <2>2, <1>1, <1>2
    <3> QED BY <2>1, <2>2, <3>1, <1>2 DEF Within
  <2>3. CASE ~(i <= Len(got))
    <3>1. i - Len(got) \in 1..Len(buf) /\ from + Len(got) + (i - Len(got)) = from + i
      BY <2>3, <1>1, <1>2
    <3>2. buf[i - Len(got)] = log[from + Len(got) + (i - Len(got))]
      BY <3>1 DEF Within
    <3> QED BY <2>1, <2>3, <3>1, <3>2, <1>2
  <2> QED BY <2>2, <2>3
<1>6. sent = SubSeq(owed, 1, Len(sent))
  <2> DEFINE part == SubSeq(owed, 1, Len(sent))
  <2>1. Len(sent) \in Nat /\ Len(sent) <= Len(owed)
    BY <1>1, <1>2, <1>3, <1>4
  <2>2. ASSUME NEW i \in 1..Len(sent) PROVE owed[i] \in Nat
    <3>1. i \in 1..Len(owed)
      BY <1>4, <2>1
    <3> QED BY <3>1, <1>4, ElementOfSeq
  <2>3. /\ part \in Seq(Nat) /\ Len(part) = IF 1 <= Len(sent) THEN Len(sent) - 1 + 1 ELSE 0
        /\ \A i \in 1..Len(sent) - 1 + 1 : part[i] = owed[1 + i - 1]
    BY <2>1, <2>2, SubSeqProperties
  <2> HIDE DEF part
  <2>4. Len(part) = Len(sent)
    BY <2>1, <2>3
  <2>5. ASSUME NEW i \in 1..Len(sent) PROVE sent[i] = part[i]
    <3>1. i \in 1..Len(sent) - 1 + 1 /\ 1 + i - 1 = i
      BY <2>1
    <3> QED BY <3>1, <2>3, <1>5
  <2>6. sent = part
    BY <1>2, <2>3, <2>4, <2>5, SeqEqual
  <2> QED BY <2>6 DEF part
<1>7. ASSUME UpToDate(got, buf, from, log) PROVE sent = owed
  <2>1. Len(sent) = Len(owed)
    BY <1>7, <1>1, <1>2, <1>4 DEF UpToDate
  <2> QED BY <2>1, <1>2, <1>4, <1>5, SeqEqual
<1> QED BY <1>6, <1>7 DEF sent, owed

\* No channel is closed twice or sent on after its close, whoever drops the
\* subscriber first, and a live stream delivers what was fanned out since its
\* subscription without a gap.
THEOREM FeedDelivers == FeedSpec => []FeedDelivery
<1>1. FeedInv => FeedDelivery
  <2> SUFFICES ASSUME FeedInv PROVE FeedDelivery
    OBVIOUS
  <2>1. ChannelSafe
    BY DEF FeedInv, ChannelSafe, Unclosed
  <2>2. StreamFaithful
    <3> SUFFICES ASSUME NEW s \in Stream
                 PROVE  LET ch == streams[s]
                            sent == ch.got \o ch.buf
                            owed == SubSeq(fanned, ch.from + 1, Len(fanned)) IN
                        /\ sent = SubSeq(owed, 1, Len(sent))
                        /\ ch.member => sent = owed
      BY DEF StreamFaithful
    <3>1. streams[s] \in Channel /\ Carried(streams[s], fanned) /\ fanned \in Seq(Nat)
      BY DEF FeedInv, FeedTyped
    <3>2. PICK got, buf, from : got = streams[s].got /\ buf = streams[s].buf /\ from = streams[s].from
      OBVIOUS
    <3>3. /\ got \in Seq(Nat) /\ buf \in Seq(Nat) /\ from \in Nat
          /\ Within(got, buf, from, fanned)
          /\ streams[s].member => UpToDate(got, buf, from, fanned)
      BY <3>1, <3>2 DEF Channel, Carried
    <3> DEFINE sent == got \o buf
               owed == SubSeq(fanned, from + 1, Len(fanned))
    <3>4. /\ sent = SubSeq(owed, 1, Len(sent))
          /\ UpToDate(got, buf, from, fanned) => sent = owed
      BY <3>1, <3>3, WithinIsSubSeq, Zenon
    <3> QED BY <3>2, <3>3, <3>4
  <2> QED BY <2>1, <2>2 DEF FeedDelivery
<1>2. FeedSpec => []FeedInv
  BY FeedInductive
<1> QED BY <1>1, <1>2, PTL

\* The loops and the workers that passed the stopping check are gone before the
\* database closes.
THEOREM ClosesAfterJoin == FeedSpec => []JoinedBeforeClose
<1>1. FeedInv => JoinedBeforeClose
  BY DEF FeedInv, FeedTyped, Joined, Exited, JoinedBeforeClose, RepoOpen, Stages
<1>2. FeedSpec => []FeedInv
  BY FeedInductive
<1> QED BY <1>1, <1>2, PTL
=============================================================================
