------------------------------- MODULE EventBus -------------------------------
(***************************************************************************)
(* The dashboard's event bus and one browser that follows it over SSE      *)
(* (internal/dashboard/sse.go): Publish, Subscribe, Since and Stream.      *)
(*                                                                         *)
(* Every notification is published to the topic "all" and to the topic of  *)
(* its deployment, each time under the next id of the whole bus; the       *)
(* browser follows one of the two.  The browser reads when it likes,       *)
(* closes the connection when it likes, and reconnects with the id of the  *)
(* last event it received.  A restart of the server forgets ids, history   *)
(* and connections.                                                        *)
(***************************************************************************)
EXTENDS Integers, Sequences, SequencesExt

CONSTANTS
  MaxHistory,    \* events kept for replay, per topic
  ChanCap,       \* events a subscriber's channel holds
  MaxConnects    \* bound on the number of connections

ASSUME BusAssumption == {MaxHistory, ChanCap} \subseteq Nat \ {0} /\ MaxConnects \in Nat

Topic == {"all", "deployment"}

VARIABLES
  topic,      \* the topic the browser follows
  bus,        \* the bus: last id used, history and subscriber channel of the topic
  stream,     \* the handler of the connection: where it is, and its lastID
  browser,    \* the id it would reconnect with, and how often it still connects
  life,       \* how often the server was started
  seen,       \* history: events written to the browser
  twice,      \* history: events written to it more than once
  overlap,    \* history: events published between a Subscribe and its replay
  excused     \* history: events it was told about, or that were lost in a known way

busVars == <<topic, bus, stream, browser, life, seen, twice, overlap, excused>>

NewBus == [nextID |-> 0, history |-> <<>>, chan |-> <<>>, published |-> {}]
NoStream == [pc |-> "closed", lastID |-> 0]

BusInit ==
  /\ topic \in Topic
  /\ bus = NewBus
  /\ stream = NoStream
  /\ browser \in [lastEventID : {0}, connects : 0 .. MaxConnects]
  /\ life = 1 /\ seen = {} /\ twice = {} /\ overlap = {} /\ excused = {}

\* An event is known by the server's life and its id.
Known(id) == [life |-> life, id |-> id]
AllKnown(ids) == {Known(id) : id \in ids}
HistoryIDs == ToSet(bus.history)
-----------------------------------------------------------------------------
(* Publish, once to "all" and once to the deployment's topic.  The send to *)
(* the subscriber never blocks: a full channel drops the event.            *)

Connected == stream.pc # "closed"

\* Mutant: the history is never trimmed.
KeepAll(h) == h

KeepLast(h) == IF Len(h) > MaxHistory THEN Tail(h) ELSE h

PublishedID == bus.nextID + (IF topic = "all" THEN 1 ELSE 2)

SentToChannel(id) == Connected /\ Len(bus.chan) < ChanCap

Publish ==
  LET id == PublishedID IN
  /\ bus' = [bus EXCEPT !.nextID = @ + 2,
                        !.history = KeepLast(Append(@, id)),
                        !.chan = IF SentToChannel(id) THEN Append(@, id) ELSE @,
                        !.published = @ \cup {id}]
  /\ overlap' = IF stream.pc = "subscribed" THEN overlap \cup {Known(id)} ELSE overlap
  /\ excused' = IF Connected /\ ~SentToChannel(id) THEN excused \cup {Known(id)} ELSE excused
  /\ UNCHANGED <<topic, stream, browser, life, seen, twice>>

(* What the handler writes reaches the browser, which remembers the id of  *)
(* the last event.                                                         *)
Write(ids, last) ==
  /\ twice' = twice \cup (AllKnown(ids) \cap seen)
  /\ seen' = seen \cup AllKnown(ids)
  /\ browser' = IF ids = {} THEN browser ELSE [browser EXCEPT !.lastEventID = last]

(* Stream, first half: Subscribe.                                          *)
Subscribe ==
  /\ stream.pc = "closed"
  /\ browser.connects > 0
  /\ bus' = [bus EXCEPT !.chan = <<>>]
  /\ stream' = [pc |-> "subscribed", lastID |-> browser.lastEventID]
  /\ browser' = [browser EXCEPT !.connects = @ - 1]
  /\ UNCHANGED <<topic, life, seen, twice, overlap, excused>>

\* Mutant: an oldest event two past the last one seen is not taken for a gap.
GapOffByOne(lastID) == lastID # 0 /\ bus.history # <<>> /\ Head(bus.history) > lastID + 4

(* Since: the buffered events after an id, and whether some were lost.     *)
Gap(lastID) == lastID # 0 /\ bus.history # <<>> /\ Head(bus.history) > lastID + 1

\* Mutant: the whole history is replayed at every connection.
SinceEver(lastID) == HistoryIDs

Since(lastID) == {id \in HistoryIDs : id > lastID}

\* The browser named an id of an earlier life of the server.
StaleID == stream.lastID # 0 /\ Known(stream.lastID) \notin seen

(* Stream, second half: a gap is told, then the history is replayed in its *)
(* order, up to its end; lastID stays what the browser asked for.  Excused *)
(* are the events the gap stands for, those older than the history at a    *)
(* connection that names no id, and those a stale id of an earlier life of *)
(* the server skips.                                                       *)
Replay ==
  LET lastID == stream.lastID
      old == bus.published \ HistoryIDs
      skipped == {id \in bus.published : id <= lastID}
  IN
  /\ stream.pc = "subscribed"
  /\ Write(Since(lastID), Last(bus.history))
  /\ excused' = excused \cup AllKnown(
                  (IF Gap(lastID) \/ lastID = 0 THEN old ELSE {})
                    \cup (IF StaleID THEN skipped ELSE {}))
  /\ stream' = [stream EXCEPT !.pc = "streaming"]
  /\ UNCHANGED <<topic, bus, life, overlap>>

(* "already replayed": compares with lastID, which the replay did not move. *)
Fresh(id) == id > stream.lastID

Receive ==
  /\ stream.pc = "streaming"
  /\ bus.chan # <<>>
  /\ bus' = [bus EXCEPT !.chan = Tail(@)]
  /\ IF Fresh(Head(bus.chan))
       THEN /\ stream' = [stream EXCEPT !.lastID = Head(bus.chan)]
            /\ Write({Head(bus.chan)}, Head(bus.chan))
            /\ UNCHANGED excused
       ELSE /\ excused' = IF StaleID THEN excused \cup {Known(Head(bus.chan))} ELSE excused
            /\ UNCHANGED <<stream, browser, seen, twice>>
  /\ UNCHANGED <<topic, life, overlap>>

(* The tab is closed or the connection breaks: the handler unsubscribes.   *)
Disconnect ==
  /\ Connected
  /\ stream' = NoStream
  /\ bus' = [bus EXCEPT !.chan = <<>>]
  /\ UNCHANGED <<topic, browser, life, seen, twice, overlap, excused>>

(* The server restarts with an empty bus; the browser keeps its id.        *)
BusRestarts ==
  /\ bus' = NewBus
  /\ stream' = NoStream
  /\ life' = life + 1
  /\ UNCHANGED <<topic, browser, seen, twice, overlap, excused>>

BrowserNext == Subscribe \/ Replay \/ Receive \/ Disconnect
-----------------------------------------------------------------------------
(* Properties.                                                             *)

Events == [life : Nat, id : Nat]

BusTypeOK ==
  /\ topic \in Topic
  /\ bus \in [nextID : Nat, history : Seq(Nat), chan : Seq(Nat), published : SUBSET Nat]
  /\ Len(bus.history) <= MaxHistory /\ Len(bus.chan) <= ChanCap
  /\ stream \in [pc : {"closed", "subscribed", "streaming"}, lastID : Nat]
  /\ browser \in [lastEventID : Nat, connects : Nat]
  /\ life \in Nat
  /\ {seen, twice, overlap, excused} \subseteq SUBSET Events

(* What the two properties below rest on.  Ids grow, in the history and in *)
(* the channel; the history is the newest end of what was published.       *)
Ascending(s) == \A i, j \in DOMAIN s : i < j => s[i] < s[j]

QueuedIDs == ToSet(bus.chan)

IDsInv ==
  /\ \A id \in bus.published : 0 < id /\ id <= bus.nextID
  /\ HistoryIDs \subseteq bus.published /\ QueuedIDs \subseteq bus.published
  /\ Ascending(bus.history) /\ Ascending(bus.chan)
  /\ \A e \in seen : e.life <= life /\ (e.life = life => e.id \in bus.published)
  /\ bus.published # {} => bus.history # <<>>
  /\ \A id \in bus.published \ HistoryIDs, h \in HistoryIDs : id < h
  /\ stream.pc = "closed" => bus.chan = <<>>

(* What the browser saw and would be sent again, because it is newer than  *)
(* the id it would reconnect with or than an event still in the channel,   *)
(* was published in an overlap; before a replay, so was all of the history *)
(* that is also in the channel.                                            *)
TwiceInv ==
  /\ stream.pc = "subscribed" => stream.lastID = browser.lastEventID
  /\ \A e \in seen : e.life = life /\ e.id > browser.lastEventID => e \in overlap
  /\ \A c \in QueuedIDs, e \in seen : e.life = life /\ e.id >= c => e \in overlap
  /\ stream.pc = "subscribed" =>
       \A c \in QueuedIDs, id \in HistoryIDs : id >= c => Known(id) \in overlap

(* Nothing up to the id the browser would reconnect with is missing,       *)
(* unless excused, if that id is of this life of the server; and a         *)
(* connected one still has in its channel whatever it was not sent.        *)
LossInv ==
  /\ Known(browser.lastEventID) \in seen =>
       \A id \in bus.published : id <= browser.lastEventID => Known(id) \in seen \cup excused
  /\ Connected /\ ~StaleID => \A c \in QueuedIDs : c > stream.lastID
  /\ stream.pc = "streaming" =>
       \A id \in bus.published : Known(id) \in seen \cup excused \/ id \in QueuedIDs

(* An event is written twice to a browser only when it was published while *)
(* the connection was between Subscribe and the replay, so that it was in  *)
(* the channel and in the history.                                         *)
TwiceOnlyInOverlap == twice \subseteq overlap

(* "A gap it is told about rather than one it cannot detect": once a       *)
(* connected browser has read its channel, every event of its topic was    *)
(* written to it, unless a gap was told, the channel was full, or the id   *)
(* it reconnected with was of no use (none yet, or of an earlier life).    *)
LossIsExplained ==
  (stream.pc = "streaming" /\ bus.chan = <<>>) =>
    AllKnown(bus.published) \subseteq (seen \cup excused)

BusInv == BusTypeOK /\ IDsInv /\ TwiceInv /\ LossInv /\ TwiceOnlyInOverlap
=============================================================================
