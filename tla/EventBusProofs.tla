--------------------------- MODULE EventBusProofs ---------------------------
(***************************************************************************)
(* Why TwiceOnlyInOverlap and LossIsExplained hold: every step of the bus  *)
(* and of the browser keeps BusInv, whatever module composes them.         *)
(***************************************************************************)
EXTENDS EventBus, TLAPS

(***************************************************************************)
(* Ascending sequences of ids.                                             *)
(***************************************************************************)

LEMMA SetOfAppend ==
  ASSUME NEW s \in Seq(Nat), NEW x \in Nat
  PROVE  /\ Append(s, x) \in Seq(Nat) /\ Append(s, x) # <<>> /\ Len(Append(s, x)) = Len(s) + 1
         /\ ToSet(Append(s, x)) = ToSet(s) \cup {x}
<1>1. /\ Append(s, x) \in Seq(Nat) /\ Len(Append(s, x)) = Len(s) + 1
      /\ DOMAIN Append(s, x) = 1 .. Len(s) + 1 /\ DOMAIN s = 1 .. Len(s)
      /\ \A i \in 1 .. Len(s) : Append(s, x)[i] = s[i]
      /\ Append(s, x)[Len(s) + 1] = x
      /\ Len(s) \in Nat
  OBVIOUS
<1>2. Append(s, x) # <<>>
  BY <1>1
<1>3. ToSet(Append(s, x)) = ToSet(s) \cup {x}
  BY <1>1 DEF ToSet
<1>4. QED
  BY <1>1, <1>2, <1>3

LEMMA SetOfTail ==
  ASSUME NEW s \in Seq(Nat), s # <<>>, Ascending(s)
  PROVE  /\ Tail(s) \in Seq(Nat) /\ Head(s) \in ToSet(s) /\ Head(s) \in Nat
         /\ Len(Tail(s)) = Len(s) - 1
         /\ ToSet(Tail(s)) = ToSet(s) \ {Head(s)}
         /\ \A y \in ToSet(s) : Head(s) <= y
         /\ \A y \in ToSet(Tail(s)) : Head(s) < y
         /\ Ascending(Tail(s))
<1>1. /\ Tail(s) \in Seq(Nat) /\ Len(Tail(s)) = Len(s) - 1 /\ Head(s) = s[1]
      /\ Len(s) \in Nat /\ Len(s) >= 1
      /\ DOMAIN s = 1 .. Len(s) /\ DOMAIN Tail(s) = 1 .. Len(s) - 1
      /\ \A i \in 1 .. Len(s) - 1 : Tail(s)[i] = s[i + 1]
      /\ \A i \in 1 .. Len(s) : s[i] \in Nat
  OBVIOUS
<1>2. Ascending(Tail(s))
  BY <1>1 DEF Ascending
<1>3. \A i \in 2 .. Len(s) : s[1] < s[i]
  BY <1>1 DEF Ascending
<1>4. ToSet(Tail(s)) = ToSet(s) \ {Head(s)}
  <2>1. ASSUME NEW y \in ToSet(Tail(s)) PROVE y \in ToSet(s) /\ y > s[1]
    BY <1>1, <1>3, <2>1 DEF ToSet
  <2>2. ASSUME NEW y \in ToSet(s), y # s[1] PROVE y \in ToSet(Tail(s))
    <3>1. PICK i \in 2 .. Len(s) : y = s[i]
      BY <1>1, <2>2 DEF ToSet
    <3>2. i - 1 \in DOMAIN Tail(s) /\ Tail(s)[i - 1] = y
      BY <1>1, <3>1
    <3>3. QED
      BY <3>2 DEF ToSet
  <2>3. s[1] \notin ToSet(Tail(s))
    BY <1>1, <2>1
  <2>4. QED
    BY <1>1, <2>1, <2>2, <2>3
<1>5. \A y \in ToSet(s) : s[1] <= y
  BY <1>1, <1>3 DEF ToSet
<1>6. s[1] \in ToSet(s)
  BY <1>1 DEF ToSet
<1>7. \A y \in ToSet(Tail(s)) : s[1] < y
  BY <1>1, <1>3 DEF ToSet
<1>8. QED
  BY <1>1, <1>2, <1>4, <1>5, <1>6, <1>7

LEMMA AscendingAppend ==
  ASSUME NEW s \in Seq(Nat), Ascending(s), NEW x \in Nat, \A y \in ToSet(s) : y < x
  PROVE  Ascending(Append(s, x))
<1>1. /\ DOMAIN Append(s, x) = 1 .. Len(s) + 1 /\ DOMAIN s = 1 .. Len(s)
      /\ \A i \in 1 .. Len(s) : Append(s, x)[i] = s[i]
      /\ Append(s, x)[Len(s) + 1] = x
      /\ Len(s) \in Nat
  OBVIOUS
<1>2. \A i \in 1 .. Len(s) : s[i] < x
  BY <1>1 DEF ToSet
<1>3. QED
  BY <1>1, <1>2 DEF Ascending

LEMMA LastIsNewest ==
  ASSUME NEW s \in Seq(Nat), s # <<>>, Ascending(s)
  PROVE  Last(s) \in ToSet(s) /\ \A y \in ToSet(s) : y <= Last(s)
<1>1. Len(s) \in Nat /\ Len(s) >= 1 /\ DOMAIN s = 1 .. Len(s) /\ \A i \in 1 .. Len(s) : s[i] \in Nat
  OBVIOUS
<1>2. \A i \in 1 .. Len(s) : i < Len(s) => s[i] < s[Len(s)]
  BY <1>1 DEF Ascending
<1>3. QED
  BY <1>1, <1>2 DEF Last, ToSet

\* A history takes the newest id and forgets at most its oldest.
LEMMA History ==
  ASSUME NEW s \in Seq(Nat), Len(s) <= MaxHistory, Ascending(s),
         NEW x \in Nat, \A y \in ToSet(s) : y < x
  PROVE  LET h == KeepLast(Append(s, x)) IN
         /\ h \in Seq(Nat) /\ h # <<>> /\ Len(h) <= MaxHistory /\ Ascending(h)
         /\ x \in ToSet(h) /\ ToSet(h) \subseteq ToSet(s) \cup {x}
         /\ \A y \in ToSet(s) \ ToSet(h), z \in ToSet(h) : y < z
<1> DEFINE a == Append(s, x)
           h == KeepLast(a)
<1>1. /\ a \in Seq(Nat) /\ a # <<>> /\ Len(a) = Len(s) + 1 /\ ToSet(a) = ToSet(s) \cup {x}
      /\ Ascending(a) /\ MaxHistory \in Nat /\ MaxHistory > 0 /\ Len(s) \in Nat
  BY SetOfAppend, AscendingAppend, BusAssumption
<1> HIDE DEF a
<1>2. CASE Len(a) > MaxHistory
  <2>1. h = Tail(a)
    BY <1>2 DEF KeepLast
  <2>2. /\ Tail(a) \in Seq(Nat) /\ Len(Tail(a)) = Len(a) - 1
        /\ ToSet(Tail(a)) = ToSet(a) \ {Head(a)} /\ Ascending(Tail(a))
        /\ \A y \in ToSet(Tail(a)) : Head(a) < y
    BY <1>1, SetOfTail
  <2>3. Head(a) # x
    <3>1. Len(s) >= 1
      BY <1>1, <1>2
    <3>2. Head(a) = a[1]
      BY <1>1
    <3>3. a[1] = s[1] /\ 1 \in DOMAIN s
      BY <1>1, <3>1 DEF a
    <3>4. s[1] \in ToSet(s)
      BY <3>3 DEF ToSet
    <3>5. QED
      BY <3>2, <3>3, <3>4
  <2>4. Tail(a) # <<>> /\ Len(Tail(a)) <= MaxHistory
    BY <1>1, <1>2, <2>2
  <2>5. QED
    BY <1>1, <2>1, <2>2, <2>3, <2>4 DEF a
<1>3. CASE ~(Len(a) > MaxHistory)
  BY <1>1, <1>3 DEF KeepLast, a
<1>4. QED
  BY <1>2, <1>3 DEF a

(***************************************************************************)
(* The invariant.                                                          *)
(***************************************************************************)

\* What BusInv says of the pieces of the state.
LEMMA BusTypes ==
  ASSUME BusTypeOK
  PROVE  /\ bus.nextID \in Nat /\ bus.history \in Seq(Nat) /\ bus.chan \in Seq(Nat)
         /\ bus.published \in SUBSET Nat
         /\ HistoryIDs \subseteq Nat /\ QueuedIDs \subseteq Nat
         /\ stream.lastID \in Nat /\ stream.pc \in {"closed", "subscribed", "streaming"}
         /\ browser.lastEventID \in Nat /\ life \in Nat
         /\ seen \subseteq Events /\ overlap \subseteq Events /\ excused \subseteq Events
  BY DEF BusTypeOK, HistoryIDs, QueuedIDs, ToSet

LEMMA KnownEvents ==
  ASSUME BusTypeOK, NEW id \in Nat
  PROVE  /\ Known(id) \in Events /\ Known(id).life = life /\ Known(id).id = id
         /\ \A e \in Events : e.life = life /\ e.id = id => e = Known(id)
  BY BusTypes DEF Known, Events

LEMMA BusInvInitially == ASSUME BusInit PROVE BusInv
<1>1. NewBus = [nextID |-> 0, history |-> <<>>, chan |-> <<>>, published |-> {}]
  BY DEF NewBus
<1>2. stream = [pc |-> "closed", lastID |-> 0] /\ bus = NewBus /\ seen = {}
  BY DEF BusInit, NoStream
<1>3. HistoryIDs = {} /\ QueuedIDs = {} /\ bus.history = <<>> /\ bus.chan = <<>>
  BY <1>1, <1>2 DEF HistoryIDs, QueuedIDs, ToSet
<1>4. BusTypeOK
  BY <1>1, <1>2, BusAssumption DEF BusInit, BusTypeOK
<1>5. IDsInv
  BY <1>1, <1>2, <1>3 DEF IDsInv, Ascending
<1>6. TwiceInv /\ LossInv /\ TwiceOnlyInOverlap
  BY <1>1, <1>2, <1>3 DEF TwiceInv, LossInv, TwiceOnlyInOverlap, Connected, BusInit
<1>7. QED
  BY <1>4, <1>5, <1>6 DEF BusInv

LEMMA DisconnectKeeps == ASSUME BusInv, Disconnect PROVE BusInv'
<1>1. /\ bus' = [bus EXCEPT !.chan = <<>>] /\ stream' = [pc |-> "closed", lastID |-> 0]
      /\ UNCHANGED <<topic, browser, life, seen, twice, overlap, excused>>
  BY DEF Disconnect, NoStream
<1>2. /\ bus'.nextID = bus.nextID /\ bus'.history = bus.history /\ bus'.chan = <<>>
      /\ bus'.published = bus.published /\ QueuedIDs' = {} /\ HistoryIDs' = HistoryIDs
      /\ stream'.pc = "closed"
  BY <1>1 DEF BusInv, BusTypeOK, QueuedIDs, HistoryIDs, ToSet
<1>3. BusTypeOK'
  <2>1. bus' \in [nextID : Nat, history : Seq(Nat), chan : Seq(Nat), published : SUBSET Nat]
    <3>1. <<>> \in Seq(Nat)
      OBVIOUS
    <3>2. QED
      BY <1>1, <3>1 DEF BusInv, BusTypeOK
  <2>2. Len(bus'.history) <= MaxHistory /\ Len(bus'.chan) <= ChanCap
    BY <1>2, BusAssumption DEF BusInv, BusTypeOK
  <2>3. QED
    BY <1>1, <2>1, <2>2 DEF BusInv, BusTypeOK
<1>4. IDsInv'
  BY <1>1, <1>2 DEF BusInv, IDsInv, Ascending
<1>5. (TwiceInv /\ LossInv /\ TwiceOnlyInOverlap)'
  BY <1>1, <1>2 DEF BusInv, TwiceInv, LossInv, TwiceOnlyInOverlap, Connected, Known
<1>6. QED
  BY <1>3, <1>4, <1>5 DEF BusInv

LEMMA SubscribeKeeps == ASSUME BusInv, Subscribe PROVE BusInv'
<1>1. /\ bus' = [bus EXCEPT !.chan = <<>>]
      /\ stream' = [pc |-> "subscribed", lastID |-> browser.lastEventID]
      /\ browser' = [browser EXCEPT !.connects = @ - 1] /\ browser.connects > 0
      /\ UNCHANGED <<topic, life, seen, twice, overlap, excused>>
  BY DEF Subscribe
<1>2. /\ bus'.nextID = bus.nextID /\ bus'.history = bus.history /\ bus'.chan = <<>>
      /\ bus'.published = bus.published /\ QueuedIDs' = {} /\ HistoryIDs' = HistoryIDs
      /\ stream'.pc = "subscribed" /\ stream'.lastID = browser.lastEventID
      /\ browser'.lastEventID = browser.lastEventID
  BY <1>1 DEF BusInv, BusTypeOK, QueuedIDs, HistoryIDs, ToSet
<1>3. BusTypeOK'
  <2>1. bus' \in [nextID : Nat, history : Seq(Nat), chan : Seq(Nat), published : SUBSET Nat]
    <3>1. <<>> \in Seq(Nat)
      OBVIOUS
    <3>2. QED
      BY <1>1, <3>1 DEF BusInv, BusTypeOK
  <2>2. Len(bus'.history) <= MaxHistory /\ Len(bus'.chan) <= ChanCap
    BY <1>2, BusAssumption DEF BusInv, BusTypeOK
  <2>3. browser' \in [lastEventID : Nat, connects : Nat]
    <3>1. browser \in [lastEventID : Nat, connects : Nat]
      BY DEF BusInv, BusTypeOK
    <3>2. browser.connects - 1 \in Nat
      BY <1>1, <3>1
    <3>3. QED
      BY <1>1, <3>1, <3>2
  <2>4. stream' \in [pc : {"closed", "subscribed", "streaming"}, lastID : Nat]
    BY <1>1, BusTypes DEF BusInv
  <2>5. QED
    BY <1>1, <2>1, <2>2, <2>3, <2>4 DEF BusInv, BusTypeOK
<1>4. IDsInv'
  BY <1>1, <1>2 DEF BusInv, IDsInv, Ascending
<1>5. (TwiceInv /\ LossInv /\ TwiceOnlyInOverlap)'
  BY <1>1, <1>2 DEF BusInv, TwiceInv, LossInv, TwiceOnlyInOverlap, Connected, Known
<1>6. QED
  BY <1>3, <1>4, <1>5 DEF BusInv

\* The ids of the new bus are taken for those of another life.
LEMMA RestartKeeps == ASSUME BusInv, BusRestarts PROVE BusInv'
<1>1. /\ bus' = [nextID |-> 0, history |-> <<>>, chan |-> <<>>, published |-> {}]
      /\ stream' = [pc |-> "closed", lastID |-> 0] /\ life' = life + 1
      /\ UNCHANGED <<topic, browser, seen, twice, overlap, excused>>
  BY DEF BusRestarts, NewBus, NoStream
<1>2. /\ bus'.nextID = 0 /\ bus'.history = <<>> /\ bus'.chan = <<>> /\ bus'.published = {}
      /\ QueuedIDs' = {} /\ HistoryIDs' = {} /\ stream'.pc = "closed"
  BY <1>1 DEF QueuedIDs, HistoryIDs, ToSet
<1>3. life \in Nat /\ \A e \in seen : e.life \in Nat /\ e.life <= life
  BY BusTypes DEF BusInv, IDsInv, Events
<1>4. BusTypeOK'
  BY <1>1, <1>2, BusAssumption DEF BusInv, BusTypeOK
<1>5. IDsInv'
  BY <1>1, <1>2, <1>3 DEF IDsInv, Ascending
<1>6. (TwiceInv /\ LossInv /\ TwiceOnlyInOverlap)'
  BY <1>1, <1>2, <1>3 DEF BusInv, TwiceInv, LossInv, TwiceOnlyInOverlap, Connected, Known
<1>7. QED
  BY <1>4, <1>5, <1>6 DEF BusInv

LEMMA PublishKeeps == ASSUME BusInv, Publish PROVE BusInv'
<1>1. PICK id : id = PublishedID
  OBVIOUS
<1>2. PICK h : h = KeepLast(Append(bus.history, id))
  OBVIOUS
<1>3. PICK q : q = IF SentToChannel(id) THEN Append(bus.chan, id) ELSE bus.chan
  OBVIOUS
<1>4. bus \in [nextID : Nat, history : Seq(Nat), chan : Seq(Nat), published : SUBSET Nat]
  BY DEF BusInv, BusTypeOK
<1>5. /\ id \in Nat /\ bus.nextID \in Nat /\ bus.nextID < id /\ id <= bus.nextID + 2
      /\ \A i \in bus.published : i \in Nat /\ i < id
  <2>1. bus.nextID \in Nat
    BY <1>4
  <2>2. id \in Nat /\ bus.nextID < id /\ id <= bus.nextID + 2
    BY <1>1, <2>1 DEF PublishedID
  <2>3. \A i \in bus.published : i \in Nat /\ i <= bus.nextID
    BY <1>4 DEF BusInv, IDsInv
  <2>4. QED
    BY <2>1, <2>2, <2>3
<1>6. bus' = [bus EXCEPT !.nextID = @ + 2, !.history = h, !.chan = q,
                         !.published = bus.published \cup {id}]
  BY <1>1, <1>2, <1>3 DEF Publish
<1>7. /\ bus'.nextID = bus.nextID + 2 /\ bus'.history = h /\ bus'.chan = q
      /\ bus'.published = bus.published \cup {id}
      /\ UNCHANGED <<topic, stream, browser, life, seen, twice>>
  BY <1>4, <1>6 DEF Publish
<1>8. /\ h \in Seq(Nat) /\ h # <<>> /\ Len(h) <= MaxHistory /\ Ascending(h)
      /\ id \in ToSet(h) /\ ToSet(h) \subseteq HistoryIDs \cup {id}
      /\ \A y \in HistoryIDs \ ToSet(h), z \in ToSet(h) : y < z
  BY <1>2, <1>4, <1>5, History DEF BusInv, BusTypeOK, IDsInv, HistoryIDs
<1>9. /\ q \in Seq(Nat) /\ Len(q) <= ChanCap /\ Ascending(q)
      /\ ToSet(q) \subseteq QueuedIDs \cup {id} /\ QueuedIDs \subseteq ToSet(q)
      /\ SentToChannel(id) => id \in ToSet(q)
      /\ ~SentToChannel(id) => q = bus.chan
  <2>1. /\ bus.chan \in Seq(Nat) /\ Ascending(bus.chan) /\ Len(bus.chan) <= ChanCap
        /\ \A y \in ToSet(bus.chan) : y < id
    BY <1>4, <1>5 DEF BusInv, BusTypeOK, IDsInv, QueuedIDs
  <2>2. CASE SentToChannel(id)
    <3>1. q = Append(bus.chan, id)
      BY <1>3, <2>2
    <3>2. Len(q) <= ChanCap
      BY <1>5, <2>1, <2>2, <3>1, BusAssumption, SetOfAppend DEF SentToChannel
    <3>3. QED
      BY <1>5, <2>1, <2>2, <3>1, <3>2, SetOfAppend, AscendingAppend DEF QueuedIDs
  <2>3. CASE ~SentToChannel(id)
    BY <1>3, <2>1, <2>3 DEF QueuedIDs
  <2>4. QED
    BY <2>2, <2>3
<1>10. /\ HistoryIDs' = ToSet(h) /\ QueuedIDs' = ToSet(q) /\ \A i : Known(i)' = Known(i)
       /\ StaleID' = StaleID /\ Connected' = Connected
  BY <1>7 DEF HistoryIDs, QueuedIDs, Known, StaleID, Connected
<1>11. /\ overlap \subseteq overlap' /\ excused \subseteq excused'
       /\ stream.pc = "subscribed" => Known(id) \in overlap'
       /\ Connected /\ ~SentToChannel(id) => Known(id) \in excused'
       /\ overlap' \subseteq overlap \cup {Known(id)} /\ excused' \subseteq excused \cup {Known(id)}
  BY <1>1 DEF Publish
<1>12. \A e \in seen : e.life = life => e.id \in bus.published
  BY DEF BusInv, IDsInv
<1>13. BusTypeOK'
  <2>1. bus' \in [nextID : Nat, history : Seq(Nat), chan : Seq(Nat), published : SUBSET Nat]
    <3>1. bus.nextID + 2 \in Nat /\ bus.published \cup {id} \in SUBSET Nat
      BY <1>4, <1>5
    <3>2. QED
      BY <1>4, <1>6, <1>8, <1>9, <3>1
  <2>2. {seen, twice, overlap, excused}' \subseteq SUBSET Events
    BY <1>5, <1>7, <1>11, KnownEvents DEF BusInv, BusTypeOK
  <2>3. QED
    BY <1>7, <1>8, <1>9, <2>1, <2>2 DEF BusInv, BusTypeOK
<1>14. IDsInv'
  <2>1. \A i \in bus'.published : 0 < i /\ i <= bus'.nextID
    BY <1>5, <1>7 DEF BusInv, IDsInv
  <2>2. \A i \in bus'.published \ HistoryIDs', z \in HistoryIDs' : i < z
    BY <1>5, <1>7, <1>8, <1>10 DEF BusInv, IDsInv
  <2>3. HistoryIDs' \subseteq bus'.published /\ QueuedIDs' \subseteq bus'.published
    BY <1>7, <1>8, <1>9, <1>10 DEF BusInv, IDsInv
  <2>4. stream'.pc = "closed" => bus'.chan = <<>>
    BY <1>7, <1>9 DEF BusInv, IDsInv, SentToChannel, Connected
  <2>5. QED
    BY <1>7, <1>8, <1>9, <2>1, <2>2, <2>3, <2>4 DEF BusInv, IDsInv
<1>15. TwiceInv'
  <2>1. \A e \in seen : e.life = life => e.id < id
    BY <1>5, <1>12
  <2>2. \A c \in ToSet(q), e \in seen : e.life = life /\ e.id >= c => e \in overlap'
    BY <1>5, <1>9, <1>11, <1>12, <2>1, BusTypes DEF BusInv, TwiceInv
  <2>3. ASSUME stream.pc = "subscribed", NEW c \in ToSet(q), NEW i \in ToSet(h), i >= c
        PROVE  Known(i) \in overlap'
    <3>1. CASE i = id
      BY <1>11, <2>3, <3>1
    <3>2. CASE i # id
      <4>1. i \in HistoryIDs /\ i < id /\ c # id
        BY <1>5, <1>8, <2>3, <3>2 DEF BusInv, IDsInv
      <4>2. c \in QueuedIDs
        BY <1>9, <4>1
      <4>3. QED
        BY <1>11, <2>3, <4>1, <4>2 DEF BusInv, TwiceInv
    <3>3. QED
      BY <3>1, <3>2
  <2>4. QED
    BY <1>7, <1>10, <1>11, <2>2, <2>3 DEF BusInv, TwiceInv
<1>16. LossInv'
  <2>1. Known(browser.lastEventID) \in seen => browser.lastEventID \in bus.published
    BY <1>12, KnownEvents, BusTypes DEF BusInv
  <2>2. ~StaleID => stream.lastID = 0 \/ stream.lastID \in bus.published
    BY <1>12, KnownEvents, BusTypes DEF BusInv, StaleID
  <2>3. ~StaleID => stream.lastID < id
    BY <1>5, <2>2, BusTypes DEF BusInv
  <2>4. Connected /\ ~StaleID => \A c \in ToSet(q) : c > stream.lastID
    BY <1>9, <2>3 DEF BusInv, LossInv
  <2>5. Known(browser.lastEventID) \in seen =>
          \A i \in bus'.published : i <= browser.lastEventID => Known(i) \in seen \cup excused'
    BY <1>5, <1>7, <1>11, <2>1 DEF BusInv, LossInv
  <2>6. stream.pc = "streaming" =>
          \A i \in bus'.published : Known(i) \in seen \cup excused' \/ i \in ToSet(q)
    BY <1>7, <1>9, <1>11 DEF BusInv, LossInv, Connected
  <2>7. QED
    BY <1>7, <1>10, <2>4, <2>5, <2>6 DEF LossInv
<1>17. TwiceOnlyInOverlap'
  BY <1>7, <1>11 DEF BusInv, TwiceOnlyInOverlap
<1>18. QED
  BY <1>13, <1>14, <1>15, <1>16, <1>17 DEF BusInv

LEMMA ReplayKeeps == ASSUME BusInv, Replay PROVE BusInv'
<1>1. PICK lastID : lastID = stream.lastID
  OBVIOUS
<1>2. PICK last : last = Last(bus.history)
  OBVIOUS
<1>3. PICK new : new = {id \in HistoryIDs : id > lastID}
  OBVIOUS
<1>4. /\ stream.pc = "subscribed" /\ lastID \in Nat /\ lastID = browser.lastEventID
      /\ bus.history \in Seq(Nat) /\ HistoryIDs \subseteq Nat /\ life \in Nat
      /\ bus.published \subseteq Nat /\ HistoryIDs \subseteq bus.published
      /\ stream \in [pc : {"closed", "subscribed", "streaming"}, lastID : Nat]
      /\ browser \in [lastEventID : Nat, connects : Nat]
  BY <1>1, BusTypes DEF BusInv, BusTypeOK, TwiceInv, IDsInv, Replay
<1>5. /\ twice' = twice \cup (AllKnown(new) \cap seen) /\ seen' = seen \cup AllKnown(new)
      /\ browser' = IF new = {} THEN browser ELSE [browser EXCEPT !.lastEventID = last]
  BY <1>1, <1>2, <1>3 DEF Replay, Write, Since
<1>6. /\ stream' = [stream EXCEPT !.pc = "streaming"]
      /\ UNCHANGED <<topic, bus, life, overlap>>
  BY DEF Replay
<1>7. stream'.pc = "streaming" /\ stream'.lastID = lastID
  BY <1>1, <1>4, <1>6
<1>8. /\ new \subseteq Nat /\ new \subseteq HistoryIDs
      /\ new # {} => last \in new /\ last \in Nat /\ \A id \in HistoryIDs : id <= last
  <2>1. new # {} => bus.history # <<>>
    BY <1>3 DEF HistoryIDs, ToSet
  <2>2. new # {} => last \in HistoryIDs /\ \A id \in HistoryIDs : id <= last
    BY <1>2, <1>4, <2>1, LastIsNewest DEF BusInv, IDsInv, HistoryIDs
  <2>3. ASSUME new # {} PROVE last \in new
    <3>1. PICK id \in HistoryIDs : id > lastID
      BY <1>3, <2>3
    <3>2. id <= last /\ last \in Nat /\ id \in Nat
      BY <1>4, <2>2, <2>3
    <3>3. last > lastID
      BY <1>4, <3>1, <3>2
    <3>4. QED
      BY <1>3, <2>2, <2>3, <3>3
  <2>4. QED
    BY <1>3, <1>4, <2>2, <2>3
<1>9. /\ \A id \in Nat : Known(id) \in AllKnown(new) <=> id \in new
      /\ \A e \in AllKnown(new) : e \in Events /\ e.life = life /\ e.id \in new /\ e = Known(e.id)
  <2>1. \A id : Known(id).id = id /\ Known(id).life = life
    BY DEF Known
  <2>2. \A id : Known(id) \in AllKnown(new) <=> id \in new
    BY <2>1 DEF AllKnown
  <2>3. \A e \in AllKnown(new) : \E id \in new : e = Known(id)
    BY DEF AllKnown
  <2>4. \A id \in Nat : Known(id) \in Events
    BY <1>4 DEF Known, Events
  <2>5. QED
    BY <1>8, <2>1, <2>2, <2>3, <2>4
<1>10. /\ browser'.lastEventID \in Nat /\ browser.lastEventID <= browser'.lastEventID
       /\ new = {} => browser'.lastEventID = browser.lastEventID
       /\ new # {} => browser'.lastEventID = last
  BY <1>3, <1>4, <1>5, <1>8
<1>11. /\ HistoryIDs' = HistoryIDs /\ QueuedIDs' = QueuedIDs /\ \A i : Known(i)' = Known(i)
  BY <1>6 DEF HistoryIDs, QueuedIDs, Known
<1>12. excused' = excused \cup AllKnown(
                    (IF Gap(lastID) \/ lastID = 0 THEN bus.published \ HistoryIDs ELSE {})
                      \cup (IF StaleID THEN {id \in bus.published : id <= lastID} ELSE {}))
  BY <1>1 DEF Replay
<1>13. BusTypeOK'
  <2>1. stream' \in [pc : {"closed", "subscribed", "streaming"}, lastID : Nat]
    BY <1>4, <1>6
  <2>2. browser' \in [lastEventID : Nat, connects : Nat]
    BY <1>4, <1>5, <1>8
  <2>3. excused' \subseteq Events
    BY <1>4, <1>12, BusTypes DEF BusInv, AllKnown, Known, Events
  <2>4. {seen, twice, overlap, excused}' \subseteq SUBSET Events
    BY <1>5, <1>6, <1>9, <2>3 DEF BusInv, BusTypeOK
  <2>5. QED
    BY <1>6, <2>1, <2>2, <2>4 DEF BusInv, BusTypeOK
<1>14. IDsInv'
  <2>1. \A e \in seen' : e.life <= life /\ (e.life = life => e.id \in bus.published)
    BY <1>4, <1>5, <1>8, <1>9 DEF BusInv, IDsInv
  <2>2. QED
    BY <1>6, <1>7, <1>11, <2>1 DEF BusInv, IDsInv
<1>15. \A e \in seen : e.life = life /\ e.id > lastID => e \in overlap
  BY <1>4 DEF BusInv, TwiceInv
<1>16. TwiceInv'
  <2>1. ASSUME NEW e \in seen', e.life = life, e.id > browser'.lastEventID
        PROVE  e \in overlap
    <3>1. CASE e \in seen
      BY <1>4, <1>10, <1>15, <2>1, <3>1, BusTypes DEF BusInv, Events
    <3>2. CASE e \notin seen
      <4>1. e.id \in new
        BY <1>5, <1>9, <3>2
      <4>2. e.id <= last /\ browser'.lastEventID = last /\ e.id \in Nat /\ last \in Nat
        BY <1>8, <1>10, <4>1
      <4>3. QED
        BY <2>1, <4>2
    <3>3. QED
      BY <3>1, <3>2
  <2>2. ASSUME NEW c \in QueuedIDs, NEW e \in seen', e.life = life, e.id >= c
        PROVE  e \in overlap
    <3>1. CASE e \in seen
      BY <2>2, <3>1 DEF BusInv, TwiceInv
    <3>2. CASE e \notin seen
      BY <1>4, <1>5, <1>8, <1>9, <2>2, <3>2 DEF BusInv, TwiceInv
    <3>3. QED
      BY <3>1, <3>2
  <2>3. QED
    BY <1>6, <1>7, <1>11, <2>1, <2>2 DEF TwiceInv
<1>17. TwiceOnlyInOverlap'
  <2>1. \A e \in AllKnown(new) \cap seen : e \in overlap
    BY <1>3, <1>8, <1>9, <1>15
  <2>2. QED
    BY <1>5, <1>6, <2>1 DEF BusInv, TwiceOnlyInOverlap
<1>18. \A id \in bus.published : Known(id) \in seen' \cup excused'
  <2> SUFFICES ASSUME NEW id \in bus.published PROVE Known(id) \in seen' \cup excused'
    OBVIOUS
  <2>1. id \in Nat /\ 0 < id
    BY <1>4 DEF BusInv, IDsInv
  <2>2. CASE id \in new
    BY <1>5, <1>9, <2>1, <2>2
  <2>3. CASE StaleID /\ id <= lastID
    BY <1>12, <2>3 DEF AllKnown
  <2>4. CASE ~StaleID /\ id <= lastID
    <3>1. lastID # 0 /\ Known(lastID) \in seen
      BY <1>1, <1>4, <2>1, <2>4 DEF StaleID
    <3>2. Known(id) \in seen \cup excused
      BY <1>4, <2>4, <3>1 DEF BusInv, LossInv
    <3>3. QED
      BY <1>5, <1>12, <3>2
  <2>5. CASE id \notin HistoryIDs /\ id > lastID
    <3>1. bus.history # <<>> /\ Head(bus.history) \in HistoryIDs /\ Head(bus.history) \in Nat
      BY <1>4, SetOfTail DEF BusInv, IDsInv, HistoryIDs
    <3>2. id < Head(bus.history)
      BY <2>5, <3>1 DEF BusInv, IDsInv
    <3>3. Gap(lastID) \/ lastID = 0
      BY <1>4, <2>1, <2>5, <3>1, <3>2 DEF Gap
    <3>4. QED
      BY <1>12, <2>5, <3>3 DEF AllKnown
  <2>6. QED
    BY <1>3, <1>4, <2>1, <2>2, <2>3, <2>4, <2>5
<1>19. LossInv'
  <2>1. ~StaleID' => ~StaleID
    <3>1. ASSUME lastID # 0, Known(lastID) \in seen' PROVE Known(lastID) \in seen
      BY <1>3, <1>4, <1>5, <1>9, <3>1
    <3>2. QED
      BY <1>1, <1>7, <1>11, <3>1 DEF StaleID
  <2>2. ~StaleID' => \A c \in QueuedIDs : c > lastID
    BY <1>1, <1>4, <2>1 DEF BusInv, LossInv, Connected
  <2>3. QED
    BY <1>6, <1>7, <1>11, <1>18, <2>2 DEF LossInv
<1>20. QED
  BY <1>13, <1>14, <1>16, <1>17, <1>19 DEF BusInv

LEMMA ReceiveKeeps == ASSUME BusInv, Receive PROVE BusInv'
<1>1. PICK h : h = Head(bus.chan)
  OBVIOUS
<1>2. PICK q : q = Tail(bus.chan)
  OBVIOUS
<1>3. /\ bus \in [nextID : Nat, history : Seq(Nat), chan : Seq(Nat), published : SUBSET Nat]
      /\ stream \in [pc : {"closed", "subscribed", "streaming"}, lastID : Nat]
      /\ browser \in [lastEventID : Nat, connects : Nat]
      /\ Len(bus.chan) <= ChanCap
  BY DEF BusInv, BusTypeOK
<1>4. /\ stream.pc = "streaming" /\ bus' = [bus EXCEPT !.chan = q]
      /\ UNCHANGED <<topic, life, overlap>>
  BY <1>2 DEF Receive
<1>5. /\ q \in Seq(Nat) /\ h \in QueuedIDs /\ h \in Nat /\ Len(q) <= ChanCap
      /\ ToSet(q) = QueuedIDs \ {h} /\ Ascending(q)
      /\ \A y \in QueuedIDs : h <= y
      /\ \A y \in ToSet(q) : h < y
  <2>1. bus.chan # <<>> /\ bus.chan \in Seq(Nat) /\ Ascending(bus.chan)
    BY <1>3 DEF Receive, BusInv, IDsInv
  <2>2. Len(q) = Len(bus.chan) - 1 /\ Len(bus.chan) \in Nat /\ ChanCap \in Nat
    BY <1>2, <2>1, SetOfTail, BusAssumption
  <2>3. QED
    BY <1>1, <1>2, <1>3, <2>1, <2>2, SetOfTail DEF QueuedIDs
<1>6. /\ bus'.nextID = bus.nextID /\ bus'.history = bus.history /\ bus'.chan = q
      /\ bus'.published = bus.published
      /\ HistoryIDs' = HistoryIDs /\ QueuedIDs' = ToSet(q) /\ \A i : Known(i)' = Known(i)
  BY <1>3, <1>4 DEF HistoryIDs, QueuedIDs, Known
<1>7. bus' \in [nextID : Nat, history : Seq(Nat), chan : Seq(Nat), published : SUBSET Nat]
  BY <1>3, <1>4, <1>5
<1>8. h \in bus.published
  BY <1>5 DEF BusInv, IDsInv
<1>9. CASE Fresh(h)
  <2>1. /\ stream' = [stream EXCEPT !.lastID = h] /\ excused' = excused
        /\ twice' = twice \cup (AllKnown({h}) \cap seen) /\ seen' = seen \cup AllKnown({h})
        /\ browser' = [browser EXCEPT !.lastEventID = h]
    BY <1>1, <1>9 DEF Receive, Write
  <2>2. AllKnown({h}) = {Known(h)} /\ Known(h) \in Events /\ Known(h).life = life /\ Known(h).id = h
    BY <1>5, KnownEvents DEF BusInv, AllKnown
  <2>3. /\ stream'.pc = "streaming" /\ stream'.lastID = h /\ browser'.lastEventID = h
    BY <1>3, <1>4, <2>1
  <2>4. \A e \in seen' : e \in seen \/ (e.life = life /\ e.id = h)
    BY <2>1, <2>2
  <2>5. BusTypeOK'
    <3>1. stream' \in [pc : {"closed", "subscribed", "streaming"}, lastID : Nat]
      BY <1>3, <1>5, <2>1
    <3>2. browser' \in [lastEventID : Nat, connects : Nat]
      BY <1>3, <1>5, <2>1
    <3>3. {seen, twice, overlap, excused}' \subseteq SUBSET Events
      BY <1>4, <2>1, <2>2 DEF BusInv, BusTypeOK
    <3>4. QED
      BY <1>4, <1>5, <1>6, <1>7, <3>1, <3>2, <3>3 DEF BusInv, BusTypeOK
  <2>6. IDsInv'
    <3>1. life \in Nat
      BY BusTypes DEF BusInv
    <3>2. \A e \in seen' : e.life <= life /\ (e.life = life => e.id \in bus.published)
      BY <1>8, <2>4, <3>1 DEF BusInv, IDsInv
    <3>3. QED
      BY <1>4, <1>5, <1>6, <2>3, <3>2 DEF BusInv, IDsInv
  <2>7. \A e \in seen : e.life = life /\ e.id >= h => e \in overlap
    BY <1>5 DEF BusInv, TwiceInv
  <2>8. TwiceInv'
    <3>1. \A e \in seen' : e.life = life /\ e.id > h => e \in overlap
      <4>1. \A e \in seen : e.id \in Nat
        BY BusTypes DEF BusInv, Events
      <4>2. QED
        BY <1>5, <2>7, <2>4, <4>1
    <3>2. \A c \in ToSet(q), e \in seen' : e.life = life /\ e.id >= c => e \in overlap
      <4>1. \A c \in ToSet(q) : c \in Nat /\ h < c /\ c \in QueuedIDs
        BY <1>5, BusTypes DEF BusInv
      <4>2. QED
        BY <1>5, <2>4, <4>1 DEF BusInv, TwiceInv
    <3>3. QED
      BY <1>4, <1>6, <2>3, <3>1, <3>2 DEF TwiceInv
  <2>9. TwiceOnlyInOverlap'
    BY <1>4, <1>5, <2>1, <2>2, <2>7 DEF BusInv, TwiceOnlyInOverlap
  <2>10. LossInv'
    <3>1. \A i \in bus.published : Known(i) \in seen' \cup excused \/ i \in ToSet(q)
      BY <1>4, <1>5, <2>1, <2>2 DEF BusInv, LossInv
    <3>2. \A i \in bus.published : i <= h => Known(i) \in seen' \cup excused
      BY <1>5, <3>1, BusTypes DEF BusInv
    <3>3. QED
      BY <1>5, <1>6, <2>1, <2>3, <3>1, <3>2 DEF LossInv
  <2>11. QED
    BY <2>5, <2>6, <2>8, <2>9, <2>10 DEF BusInv
<1>10. CASE ~Fresh(h)
  <2>1. /\ UNCHANGED <<stream, browser, seen, twice>>
        /\ excused' = IF StaleID THEN excused \cup {Known(h)} ELSE excused
    BY <1>1, <1>10 DEF Receive
  <2>2. StaleID
    BY <1>3, <1>4, <1>5, <1>10 DEF BusInv, LossInv, Connected, Fresh
  <2>3. BusTypeOK'
    <3>1. {seen, twice, overlap, excused}' \subseteq SUBSET Events
      BY <1>4, <1>5, <2>1, KnownEvents DEF BusInv, BusTypeOK
    <3>2. QED
      BY <1>4, <1>5, <1>6, <1>7, <2>1, <3>1 DEF BusInv, BusTypeOK
  <2>4. IDsInv'
    BY <1>4, <1>5, <1>6, <2>1 DEF BusInv, IDsInv
  <2>5. TwiceInv' /\ TwiceOnlyInOverlap'
    BY <1>4, <1>5, <1>6, <2>1 DEF BusInv, TwiceInv, TwiceOnlyInOverlap
  <2>6. LossInv'
    <3>1. StaleID' /\ excused' = excused \cup {Known(h)}
      BY <1>6, <2>1, <2>2 DEF StaleID
    <3>2. QED
      BY <1>4, <1>5, <1>6, <2>1, <3>1 DEF BusInv, LossInv
  <2>7. QED
    BY <2>3, <2>4, <2>5, <2>6 DEF BusInv
<1>11. QED
  BY <1>9, <1>10

LEMMA BusKept == ASSUME BusInv, UNCHANGED busVars PROVE BusInv'
  BY DEF BusInv, busVars, BusTypeOK, IDsInv, TwiceInv, LossInv, TwiceOnlyInOverlap, HistoryIDs,
         QueuedIDs, Known, Connected, StaleID

(* However publishing, reading, closing, reconnecting and restarting        *)
(* interleave, the bus and the browser stay in BusInv.                      *)
THEOREM BusInductive ==
  ASSUME BusInv, Publish \/ BrowserNext \/ BusRestarts \/ UNCHANGED busVars
  PROVE  BusInv'
  BY PublishKeeps, SubscribeKeeps, ReplayKeeps, ReceiveKeeps, DisconnectKeeps, RestartKeeps,
     BusKept DEF BrowserNext

\* An event whose loss nobody explains is still on its way.
LEMMA LossFollows == ASSUME BusInv PROVE LossIsExplained
<1>1. bus.chan = <<>> => QueuedIDs = {}
  BY DEF QueuedIDs, ToSet
<1>2. QED
  BY <1>1 DEF BusInv, LossInv, LossIsExplained, AllKnown
=============================================================================
