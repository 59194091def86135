------------------------- MODULE MessageHistoryProofs -------------------------
(***************************************************************************)
(* Proofs about MessageHistory, for any pages, messages and places they    *)
(* take: a sent message is delivered, and no message is lost between the   *)
(* pages, the snapshots and the events.                                    *)
(***************************************************************************)
EXTENDS MessageHistory, FiniteSetTheorems, WellFoundedInduction, TLAPS

Cursors == 0 .. Last
Pages == [messages : SUBSET Messages, more : BOOLEAN, cursor : Cursors]

AgentTypeOK ==
    /\ table \in [Agents -> SUBSET Messages]
    /\ from \in [Messages -> Agents \cup {"none"}]
    /\ out \in [Messages -> {"none", "asked", "saved", "sent", "done", "failed"}]
    /\ in \in [Messages -> {"none", "saved", "accepted"}]
    /\ events \in Seq(Messages)

PageTypeOK ==
    /\ loaded \in BOOLEAN
    /\ viewCursor \in Cursors
    /\ reading \subseteq [page : Pages, stored : SUBSET Messages]
    /\ refresh \subseteq [page : Pages, seq : Nat, missed : SUBSET Messages]
    /\ history \in [open : BOOLEAN, more : BOOLEAN, cursor : Cursors, loading : BOOLEAN,
                    older : SUBSET Messages]
    /\ reply \subseteq Pages

\* Where a message is on its way decides in which stores it can be.
InFlight(m) ==
    /\ from[m] = "none" <=> out[m] = "none"
    /\ in[m] # "none" => from[m] # "none" /\ m \in table[Other(from[m])]
    /\ from[m] # "none" /\ m \in table[from[m]] => in[m] = "accepted"

MessagesInFlight == \A m \in Messages : InFlight(m)

\* The page is never ahead of the stream, and its snapshot never behind what
\* it has applied.
EventsInOrder ==
    /\ seen \in Nat /\ viewSeq \in Nat
    /\ seen <= viewSeq /\ viewSeq <= Len(events)
    /\ \A r \in refresh : r.seq <= Len(events)

\* The history is open when it is read; while there is more it knows where.
HistoryKnowsItsPlace ==
    /\ history.open => loaded
    /\ history.open /\ history.more => history.cursor # 0
    /\ history.loading => history.open /\ history.cursor # 0
    /\ reply # {} => history.loading
    /\ \A p \in reply : p.more => p.cursor # 0

\* A page read from the store covers what was stored; the rest has an event,
\* published or to come.
ReadingAccounts ==
    \A b \in reading : b.stored \subseteq table["own"] /\ \A m \in table["own"] :
        IF m \in b.stored THEN Covers(b.page, m) ELSE AnnouncedAfter(m, 0)

\* A snapshot on its way covers the store, but for what came between its reads
\* and what the events after it tell.
RefreshAccounts ==
    \A r \in refresh : \A m \in table["own"] :
        Covers(r.page, m) \/ m \in r.missed \/ AnnouncedAfter(m, r.seq)

\* An older page on its way covers what lies before the cursor.
ReplyAccounts ==
    \A p \in reply : \A m \in table["own"] :
        m < history.cursor =>
            Covers(p, m) \/ m \in Shown \cup missed \cup dropped \/ Announced(m)

IInv ==
    /\ AgentTypeOK /\ PageTypeOK
    /\ MessagesInFlight
    /\ EventsInOrder /\ HistoryKnowsItsPlace
    /\ ReadingAccounts /\ RefreshAccounts /\ ReplyAccounts /\ EveryMessageAccounted

---------------------------------------------------------------------------
(* Pages.                                                                  *)

LEMMA LeastOf ==
    ASSUME NEW ns \in SUBSET Nat, ns # {}
    PROVE  \E n \in ns : \A k \in ns : n <= k
<1>1. PICK n \in ns : \A k \in ns : ~ (<<k, n>> \in OpToRel(<, Nat))
  BY NatLessThanWellFounded, WFMin
<1>2. \A k \in ns : ~ (k < n)
  BY <1>1 DEF OpToRel
<1> QED
  BY <1>2

LEMMA GreatestOf ==
    ASSUME NEW ms \in SUBSET Messages, ms # {}
    PROVE  \E m \in ms : \A n \in ms : n <= m
<1> DEFINE bounds == {k \in Nat : \A n \in ms : n <= k}
<1>1. Last \in bounds
  BY HistoryAssumption DEF Messages
<1>2. PICK k \in bounds : \A l \in bounds : k <= l
  BY <1>1, LeastOf
<1>3. PICK n \in ms : TRUE
  OBVIOUS
<1>4. n \in Nat \ {0} /\ n <= k /\ k \in Nat
  BY <1>2, <1>3, HistoryAssumption DEF Messages
<1>5. k - 1 \in Nat /\ k - 1 \notin bounds
  BY <1>2, <1>4
<1>6. PICK m \in ms : ~ (m <= k - 1)
  BY <1>5
<1>7. m = k
  BY <1>2, <1>4, <1>6, HistoryAssumption DEF Messages
<1> QED
  BY <1>2, <1>7

\* The newest messages of a store are some of it; the others are older than
\* each of them.
LEMMA NewestPrecede ==
    ASSUME NEW ms \in SUBSET Messages
    PROVE  /\ Newest(ms) \subseteq ms
           /\ ms # {} => Newest(ms) # {}
           /\ \A m \in ms \ Newest(ms) : \A n \in Newest(ms) : m < n
<1> DEFINE above(m) == {n \in ms : n > m}
<1>0. IsFiniteSet(ms) /\ \A m \in ms : m \in Nat
  <2>1. IsFiniteSet(Messages)
    BY FS_Interval, HistoryAssumption DEF Messages
  <2>2. IsFiniteSet(ms)
    BY <2>1, FS_Subset
  <2> QED
    BY <2>2, HistoryAssumption DEF Messages
<1>1. Newest(ms) \subseteq ms
  BY DEF Newest
<1>2. ASSUME ms # {} PROVE Newest(ms) # {}
  <2>1. PICK m \in ms : \A n \in ms : n <= m
    BY <1>2, GreatestOf
  <2>2. above(m) = {}
    BY <2>1, <1>0
  <2>3. Cardinality(above(m)) < PageSize
    BY <2>2, FS_EmptySet, HistoryAssumption
  <2> QED
    BY <2>3 DEF Newest
<1>3. ASSUME NEW m \in ms \ Newest(ms), NEW n \in Newest(ms) PROVE m < n
  <2>1. SUFFICES ASSUME n < m PROVE FALSE
    BY <1>0, <1>1
  <2>2. above(m) \subseteq above(n) /\ above(n) \subseteq ms
    BY <2>1, <1>0, <1>1
  <2>3. IsFiniteSet(above(n))
    BY <2>2, <1>0, FS_Subset
  <2>4. IsFiniteSet(above(m)) /\ Cardinality(above(m)) <= Cardinality(above(n))
    BY <2>2, <2>3, FS_Subset
  <2>5. Cardinality(above(m)) \in Nat /\ Cardinality(above(n)) \in Nat
    BY <2>3, <2>4, FS_CardinalityType
  <2>6. Cardinality(above(n)) < PageSize
    BY DEF Newest
  <2>7. Cardinality(above(m)) < PageSize
    BY <2>4, <2>5, <2>6, HistoryAssumption
  <2> QED
    BY <2>7, <1>1 DEF Newest
<1> QED
  BY <1>1, <1>2, <1>3

\* A page covers all that lies before its boundary (ListMessagesPage).
LEMMA PageCovers ==
    ASSUME NEW ms \in SUBSET Messages, NEW before \in Cursors
    PROVE  LET p == ListMessagesPage(ms, before)
           IN /\ p \in Pages
              /\ p.more => p.cursor # 0
              /\ \A m \in ms : before = 0 \/ m < before => Covers(p, m)
<1> DEFINE older == {m \in ms : before = 0 \/ m < before}
           page  == Newest(older)
           p     == ListMessagesPage(ms, before)
<1>1. /\ page \subseteq older /\ (older # {} => page # {})
      /\ \A m \in older \ page : \A n \in page : m < n
  BY NewestPrecede
<1>2. p = [messages |-> page, more |-> older # page,
           cursor |-> IF older # page THEN Oldest(page) ELSE 0]
  BY DEF ListMessagesPage
<1> HIDE DEF page, p
<1>3. older # page => Oldest(page) \in page
  <2>1. older # page => page # {}
    BY <1>1
  <2>2. page \subseteq Nat
    BY <1>1, HistoryAssumption DEF Messages
  <2> QED
    BY <2>1, <2>2, LeastOf DEF Oldest
<1>4. page \subseteq Messages
  BY <1>1
<1>5. \A m \in Messages : m \in Cursors /\ m # 0
  BY HistoryAssumption DEF Messages, Cursors
<1>6. p \in Pages /\ (p.more => p.cursor # 0)
  <2>1. 0 \in Cursors
    BY HistoryAssumption DEF Cursors
  <2>2. older # page => Oldest(page) \in Cursors /\ Oldest(page) # 0
    BY <1>3, <1>4, <1>5
  <2> HIDE DEF older
  <2> QED
    BY <1>2, <1>4, <2>1, <2>2 DEF Pages
<1>7. \A m \in older : Covers(p, m)
  BY <1>1, <1>2, <1>3, <1>4, <1>5, <1>6 DEF Covers
<1> QED
  BY <1>6, <1>7 DEF p
---------------------------------------------------------------------------
(* The invariant.                                                          *)

\* A step of the agents: the page only learns the answer to its own command.
AgentStep(m) == Deliver(m) \/ \E a \in Agents : SendTextMessage(m, a)

PageKeeps ==
    /\ view \subseteq view'
    /\ UNCHANGED <<loaded, seen, viewSeq, viewCursor, reading, refresh, history, reply,
                   missed, dropped>>

LEMMA AgentsKeepThePage ==
    ASSUME NEW m \in Messages, AgentStep(m)
    PROVE  PageKeeps
<1>1. CASE CommandReturns(m)
  BY <1>1 DEF CommandReturns, PageKeeps
<1>2. CASE \/ SaveIncoming(m) \/ PublishIncoming(m) \/ SaveSent(m) \/ SendFails(m)
           \/ PublishSent(m) \/ \E a \in Agents : SendTextMessage(m, a)
  BY <1>2 DEF SaveIncoming, PublishIncoming, SaveSent, SendFails, PublishSent,
     SendTextMessage, pageVars, PageKeeps
<1> QED
  BY <1>1, <1>2 DEF AgentStep, Deliver

PageStep == Refresh \/ BootstrapFails \/ ApplyEvent \/ Scroll \/ PageFails

LEMMA PageKeepsTheAgents ==
    ASSUME PageStep \/ UNCHANGED vars
    PROVE  UNCHANGED agentVars
BY DEF PageStep, Refresh, Scroll, Bootstrap, ReadEventSeq, ApplySnapshot, BootstrapFails,
   ApplyEvent, LoadOlder, ListMessageHistory, ApplyPage, PageFails, vars

LEMMA StepIsOfOne ==
    ASSUME [Next]_vars
    PROVE  (\E m \in Messages : AgentStep(m)) \/ PageStep \/ UNCHANGED vars
BY DEF Next, AgentStep, PageStep

\* The agents keep their types, and a message its way (SendTextMessage,
\* AcceptIncomingTextMessage).
LEMMA AgentInvariantStep ==
    ASSUME AgentTypeOK, MessagesInFlight, NEW k \in Messages, AgentStep(k)
    PROVE  AgentTypeOK' /\ MessagesInFlight'
<1> USE DEF AgentTypeOK, MessagesInFlight, InFlight, Agents, Other
<1>1. ASSUME NEW a \in Agents, SendTextMessage(k, a)
      PROVE  AgentTypeOK' /\ MessagesInFlight'
  BY <1>1 DEF SendTextMessage
<1>2. CASE SaveIncoming(k)
  <2>1. AgentTypeOK'
    BY <1>2 DEF SaveIncoming, Save
  <2>2. MessagesInFlight'
    BY <1>2 DEF SaveIncoming, Save
  <2> QED
    BY <2>1, <2>2
<1>3. CASE PublishIncoming(k)
  BY <1>3 DEF PublishIncoming, PublishMessage
<1>4. CASE SaveSent(k)
  <2>1. AgentTypeOK'
    BY <1>4 DEF SaveSent, Save
  <2>2. MessagesInFlight'
    BY <1>4 DEF SaveSent, Save
  <2> QED
    BY <2>1, <2>2
<1>5. CASE SendFails(k)
  BY <1>5 DEF SendFails
<1>6. CASE PublishSent(k)
  BY <1>6 DEF PublishSent, PublishMessage
<1>7. CASE CommandReturns(k)
  BY <1>7 DEF CommandReturns
<1> QED
  BY <1>1, <1>2, <1>3, <1>4, <1>5, <1>6, <1>7 DEF AgentStep, Deliver

\* The events only grow.
EventsGrow ==
    /\ Len(events) <= Len(events')
    /\ \A i \in 1 .. Len(events) : events'[i] = events[i]

LEMMA AgentsGrowEvents ==
    ASSUME AgentTypeOK, NEW k \in Messages, AgentStep(k)
    PROVE  EventsGrow
<1> USE DEF AgentTypeOK, EventsGrow
<1>1. CASE PublishIncoming(k)
  BY <1>1 DEF PublishIncoming, PublishMessage
<1>2. CASE PublishSent(k)
  BY <1>2 DEF PublishSent, PublishMessage
<1>3. CASE UNCHANGED events
  BY <1>3
<1> QED
  BY <1>1, <1>2, <1>3 DEF AgentStep, Deliver, SaveIncoming, SaveSent, SendFails,
     CommandReturns, SendTextMessage

\* What is announced stays so, until the page has read its event; what enters
\* the store is announced.
LEMMA AnnouncedStays ==
    ASSUME AgentTypeOK, MessagesInFlight, NEW k \in Messages, AgentStep(k),
           NEW m \in Messages, NEW n \in 0 .. Len(events), AnnouncedAfter(m, n)
    PROVE  AnnouncedAfter(m, n)'
<1>0. EventsGrow /\ events' \in Seq(Messages)
  BY AgentsGrowEvents, AgentInvariantStep DEF AgentTypeOK
<1>1. CASE \E i \in (n + 1) .. Len(events) : events[i] = m
  <2>1. PICK i \in (n + 1) .. Len(events) : events[i] = m
    BY <1>1
  <2>2. i \in (n + 1) .. Len(events') /\ events'[i] = m
    BY <2>1, <1>0 DEF AgentTypeOK, EventsGrow
  <2> QED
    BY <2>2 DEF AnnouncedAfter
<1>2. CASE from[m] = "peer" /\ in[m] = "saved"
  <2>1. CASE PublishIncoming(k) /\ k = m
    <3>1. events' = Append(events, m)
      BY <1>2, <2>1 DEF PublishIncoming, PublishMessage, Other
    <3>2. Len(events) + 1 \in (n + 1) .. Len(events') /\ events'[Len(events) + 1] = m
      BY <3>1 DEF AgentTypeOK
    <3> QED
      BY <3>2 DEF AnnouncedAfter
  <2>2. CASE from'[m] = from[m] /\ in'[m] = in[m]
    BY <1>2, <2>2 DEF AnnouncedAfter
  <2> QED
    BY <1>2, <2>1, <2>2 DEF AgentStep, Deliver, SaveIncoming, SaveSent, SendFails,
       CommandReturns, SendTextMessage, PublishIncoming, PublishSent, AgentTypeOK,
       MessagesInFlight, InFlight
<1>3. CASE from[m] = "own" /\ out[m] = "saved"
  <2>1. CASE PublishSent(k) /\ k = m
    <3>1. events' = Append(events, m)
      BY <1>3, <2>1 DEF PublishSent, PublishMessage
    <3>2. Len(events) + 1 \in (n + 1) .. Len(events') /\ events'[Len(events) + 1] = m
      BY <3>1 DEF AgentTypeOK
    <3> QED
      BY <3>2 DEF AnnouncedAfter
  <2>2. CASE from'[m] = from[m] /\ out'[m] = out[m]
    BY <1>3, <2>2 DEF AnnouncedAfter
  <2> QED
    BY ZenonT(40), <1>3, <2>1, <2>2 DEF AgentStep, Deliver, SaveIncoming, SaveSent, SendFails,
       CommandReturns, SendTextMessage, PublishIncoming, PublishSent, AgentTypeOK,
       MessagesInFlight, InFlight
<1> QED
  BY <1>1, <1>2, <1>3 DEF AnnouncedAfter

LEMMA SavedIsAnnounced ==
    ASSUME AgentTypeOK, MessagesInFlight, NEW k \in Messages, AgentStep(k),
           NEW m \in table'["own"], m \notin table["own"], NEW n \in Nat
    PROVE  AnnouncedAfter(m, n)'
<1> USE DEF AgentTypeOK, Agents, Other, AnnouncedAfter
<1>1. CASE SaveIncoming(k)
  BY <1>1 DEF SaveIncoming, Save, MessagesInFlight, InFlight
<1>2. CASE SaveSent(k)
  BY <1>2 DEF SaveSent, Save, MessagesInFlight, InFlight
<1>3. CASE UNCHANGED table
  BY <1>3
<1> QED
  BY <1>1, <1>2, <1>3 DEF AgentStep, Deliver, SendFails, CommandReturns, SendTextMessage,
     PublishIncoming, PublishSent
---------------------------------------------------------------------------
(* The page's own steps.                                                   *)

LEMMA PageTypeStep ==
    ASSUME AgentTypeOK, PageTypeOK, EventsInOrder, PageStep
    PROVE  PageTypeOK'
<1> USE DEF AgentTypeOK, PageTypeOK, Cursors, Pages, Agents
<1>0. 0 \in Cursors
  BY HistoryAssumption
<1>1. CASE Bootstrap
  <2>1. ListMessagesPage(table["own"], 0) \in Pages
    BY <1>0, PageCovers
  <2> QED
    BY <1>1, <2>1 DEF Bootstrap
<1>9. CASE ReadEventSeq
  <2>1. Len(events) \in Nat /\ table["own"] \subseteq Messages
    OBVIOUS
  <2>2. \A b \in reading : MissedBy(b.page, b.stored) \in SUBSET Messages
    BY <2>1 DEF MissedBy
  <2> QED
    BY <1>9, <2>1, <2>2 DEF ReadEventSeq
<1>2. CASE ApplySnapshot
  BY <1>2 DEF ApplySnapshot
<1>3. CASE BootstrapFails
  BY <1>3 DEF BootstrapFails
<1>4. CASE ApplyEvent
  BY <1>4 DEF ApplyEvent
<1>5. CASE LoadOlder
  BY <1>5 DEF LoadOlder, BeforeCursor, HasMore
<1>6. CASE ListMessageHistory
  <2>1. ListMessagesPage(table["own"], history.cursor) \in Pages
    BY PageCovers
  <2> QED
    BY <1>6, <2>1 DEF ListMessageHistory
<1>7. CASE ApplyPage
  <2>1. PICK p \in reply :
          history' = [open |-> TRUE, more |-> p.more, cursor |-> p.cursor,
                      loading |-> FALSE, older |-> history.older \cup p.messages]
    BY <1>7 DEF ApplyPage
  <2> QED
    BY <1>7, <2>1 DEF ApplyPage
<1>8. CASE PageFails
  BY <1>8 DEF PageFails
<1> QED
  BY <1>1, <1>2, <1>3, <1>4, <1>5, <1>6, <1>7, <1>8, <1>9 DEF PageStep, Refresh, Scroll

LEMMA EventsInOrderStep ==
    ASSUME AgentTypeOK, PageTypeOK, EventsInOrder, PageStep
    PROVE  EventsInOrder'
<1> USE DEF AgentTypeOK, EventsInOrder
<1>0. events' = events /\ Len(events) \in Nat
  BY PageKeepsTheAgents DEF agentVars
<1>1. CASE Bootstrap \/ ReadEventSeq
  BY <1>0, <1>1 DEF Bootstrap, ReadEventSeq
<1>2. CASE ApplySnapshot
  BY <1>0, <1>2 DEF ApplySnapshot, PageTypeOK
<1>3. CASE BootstrapFails
  BY <1>0, <1>3 DEF BootstrapFails
<1>4. CASE ApplyEvent
  BY <1>0, <1>4 DEF ApplyEvent
<1>5. CASE Scroll \/ PageFails
  BY <1>0, <1>5 DEF Scroll, LoadOlder, ListMessageHistory, ApplyPage, PageFails
<1> QED
  BY <1>1, <1>2, <1>3, <1>4, <1>5 DEF PageStep, Refresh

LEMMA HistoryStep ==
    ASSUME AgentTypeOK, PageTypeOK, HistoryKnowsItsPlace, PageStep
    PROVE  HistoryKnowsItsPlace'
<1> USE DEF PageTypeOK, HistoryKnowsItsPlace
<1>1. CASE Refresh \/ BootstrapFails \/ ApplyEvent
  BY <1>1 DEF Refresh, Bootstrap, ReadEventSeq, ApplySnapshot, BootstrapFails, ApplyEvent
<1>2. CASE LoadOlder
  BY <1>2 DEF LoadOlder, BeforeCursor, HasMore
<1>3. CASE ListMessageHistory
  <2>1. LET p == ListMessagesPage(table["own"], history.cursor) IN p.more => p.cursor # 0
    BY PageCovers DEF AgentTypeOK, Agents
  <2> QED
    BY <1>3, <2>1 DEF ListMessageHistory
<1>4. CASE ApplyPage
  BY <1>4 DEF ApplyPage, Pages
<1>5. CASE PageFails
  BY <1>5 DEF PageFails
<1> QED
  BY <1>1, <1>2, <1>3, <1>4, <1>5 DEF PageStep, Scroll

\* The announcements of what the page has not read yet (applyEvent).
LEMMA AnnouncedOrRead ==
    ASSUME AgentTypeOK, EventsInOrder, ApplyEvent, NEW m, Announced(m)
    PROVE  m \in view' \/ Announced(m)'
<1>1. CASE \E i \in (seen + 1) .. Len(events) : events[i] = m
  <2>1. PICK i \in (seen + 1) .. Len(events) : events[i] = m
    BY <1>1
  <2>2. i = seen + 1 \/ i \in (seen' + 1) .. Len(events')
    BY <2>1 DEF ApplyEvent, agentVars, EventsInOrder, AgentTypeOK
  <2> QED
    BY <2>1, <2>2 DEF ApplyEvent, agentVars, Announced, AnnouncedAfter
<1>2. CASE \/ from[m] = "peer" /\ in[m] = "saved"
           \/ from[m] = "own" /\ out[m] = "saved"
  BY <1>2 DEF ApplyEvent, agentVars, Announced, AnnouncedAfter
<1> QED
  BY <1>1, <1>2 DEF Announced, AnnouncedAfter

\* What comes after later events comes after earlier ones.
LEMMA AnnouncedEarlier ==
    ASSUME AgentTypeOK, NEW m, NEW k \in Nat, NEW n \in 0 .. k, AnnouncedAfter(m, k)
    PROVE  AnnouncedAfter(m, n)
BY DEF AnnouncedAfter, AgentTypeOK

LEMMA ReadingAccountsStep ==
    ASSUME AgentTypeOK, PageTypeOK, ReadingAccounts, PageStep
    PROVE  ReadingAccounts'
<1>0. UNCHANGED <<table, from, out, in, events>>
  BY PageKeepsTheAgents DEF agentVars
<1>1. CASE Bootstrap
  <2>1. \A m \in table["own"] : Covers(ListMessagesPage(table["own"], 0), m)
    BY PageCovers, HistoryAssumption DEF AgentTypeOK, Agents, Cursors
  <2> QED
    BY <1>0, <1>1, <2>1 DEF Bootstrap, ReadingAccounts, Covers
<1>2. CASE reading' \subseteq reading
  BY <1>0, <1>2 DEF ReadingAccounts, Covers, AnnouncedAfter
<1> QED
  BY <1>1, <1>2 DEF PageStep, Refresh, Scroll, ReadEventSeq, ApplySnapshot, BootstrapFails,
     ApplyEvent, LoadOlder, ListMessageHistory, ApplyPage, PageFails

\* The event number comes after the page: what was published before it, and the
\* page does not cover, is missed (server.go:164-176).
LEMMA RefreshAccountsStep ==
    ASSUME AgentTypeOK, PageTypeOK, ReadingAccounts, RefreshAccounts, PageStep
    PROVE  RefreshAccounts'
<1>0. UNCHANGED <<table, from, out, in, events>>
  BY PageKeepsTheAgents DEF agentVars
<1>1. CASE ReadEventSeq
  <2>1. PICK b \in reading :
          refresh' = {[page |-> b.page, seq |-> Len(events),
                       missed |-> MissedBy(b.page, b.stored)]}
    BY <1>1 DEF ReadEventSeq
  <2> SUFFICES ASSUME NEW m \in table["own"]
               PROVE  \/ Covers(b.page, m) \/ m \in MissedBy(b.page, b.stored)
                      \/ AnnouncedAfter(m, Len(events))
    BY <1>0, <2>1 DEF RefreshAccounts, Covers, AnnouncedAfter
  <2>2. CASE m \in b.stored
    BY <2>2 DEF ReadingAccounts
  <2>3. CASE m \notin b.stored /\ AnnouncedAfter(m, 0)
    BY <2>3 DEF AnnouncedAfter, MissedBy, Published
  <2> QED
    BY <2>2, <2>3 DEF ReadingAccounts
<1>2. CASE refresh' \subseteq refresh
  BY <1>0, <1>2 DEF RefreshAccounts, Covers, AnnouncedAfter
<1> QED
  BY <1>1, <1>2 DEF PageStep, Refresh, Scroll, Bootstrap, ApplySnapshot, BootstrapFails,
     ApplyEvent, LoadOlder, ListMessageHistory, ApplyPage, PageFails

\* A refresh moves what it takes from the shown messages to the dropped ones,
\* once older pages are open (reconcileBootstrapSnapshot).
LEMMA NothingVanishes ==
    ASSUME PageTypeOK, PageStep, ApplySnapshot => history.open,
           NEW m \in Shown \cup missed \cup dropped
    PROVE  m \in (Shown \cup missed \cup dropped)'
<1>1. CASE ApplySnapshot
  BY <1>1 DEF ApplySnapshot, Shown
<1>2. CASE ApplyEvent
  BY <1>2 DEF ApplyEvent, Shown
<1>3. CASE ApplyPage
  BY <1>3 DEF ApplyPage, Shown
<1>4. CASE \/ Bootstrap \/ ReadEventSeq \/ BootstrapFails
           \/ LoadOlder \/ ListMessageHistory \/ PageFails
  BY <1>4 DEF Bootstrap, ReadEventSeq, BootstrapFails, LoadOlder, ListMessageHistory,
     PageFails, Shown, PageTypeOK
<1> QED
  BY <1>1, <1>2, <1>3, <1>4 DEF PageStep, Refresh, Scroll

\* But for the snapshots and the events, the page's steps leave Announced alone.
LEMMA AnnouncedKept ==
    ASSUME PageStep, seen' = seen, NEW m, Announced(m)
    PROVE  Announced(m)'
BY PageKeepsTheAgents DEF agentVars, Announced, AnnouncedAfter

LEMMA ReplyAccountsStep ==
    ASSUME AgentTypeOK, PageTypeOK, EventsInOrder, HistoryKnowsItsPlace, ReplyAccounts,
           PageStep
    PROVE  ReplyAccounts'
<1> USE DEF ReplyAccounts, HistoryKnowsItsPlace
<1>0. table' = table
  BY PageKeepsTheAgents DEF agentVars
<1>1. CASE LoadOlder \/ ApplyPage \/ PageFails
  <2>1. reply' = {}
    BY <1>1 DEF LoadOlder, ApplyPage, PageFails
  <2> QED
    BY <2>1
<1>2. CASE ListMessageHistory
  <2>1. \A m \in table["own"] : m < history.cursor =>
            Covers(ListMessagesPage(table["own"], history.cursor), m)
    BY PageCovers DEF AgentTypeOK, Agents, PageTypeOK
  <2> QED
    BY <1>0, <1>2, <2>1 DEF ListMessageHistory, Covers
<1>3. CASE Refresh \/ BootstrapFails \/ ApplyEvent
  <2>1. reply' = reply /\ history' = history
    BY <1>3 DEF Refresh, Bootstrap, ReadEventSeq, ApplySnapshot, BootstrapFails, ApplyEvent
  <2> SUFFICES ASSUME NEW p \in reply, NEW m \in table["own"], m < history.cursor
               PROVE  \/ Covers(p, m) \/ m \in (Shown \cup missed \cup dropped)'
                      \/ Announced(m)'
    BY <1>0, <2>1 DEF Covers
  <2>2. history.open /\ loaded
    OBVIOUS
  <2>3. CASE m \in Shown \cup missed \cup dropped
    BY <2>2, <2>3, NothingVanishes
  <2>4. CASE Announced(m)
    <3>1. CASE ApplyEvent
      BY <2>4, <3>1, AnnouncedOrRead DEF Shown
    <3>2. CASE seen' = seen
      BY <2>4, <3>2, AnnouncedKept
    <3> QED
      BY <1>3, <2>2, <3>1, <3>2
      DEF Refresh, Bootstrap, ReadEventSeq, ApplySnapshot, BootstrapFails
  <2> QED
    BY <2>3, <2>4 DEF Covers
<1> QED
  BY <1>1, <1>2, <1>3 DEF PageStep, Scroll

LEMMA AccountedStep ==
    ASSUME AgentTypeOK, PageTypeOK, EventsInOrder, HistoryKnowsItsPlace,
           RefreshAccounts, ReplyAccounts, EveryMessageAccounted, PageStep
    PROVE  EveryMessageAccounted'
<1> USE DEF EveryMessageAccounted
<1>0. table' = table
  BY PageKeepsTheAgents DEF agentVars
<1> SUFFICES ASSUME loaded', NEW m \in table["own"]
             PROVE  (m \in Shown \cup missed \cup dropped \/ Announced(m) \/ Loadable(m))'
  BY <1>0
<1>m. m \in Messages
  BY DEF AgentTypeOK, Agents
<1>1. CASE ApplySnapshot
  <2>1. PICK r \in refresh :
          /\ IF ~loaded \/ r.seq >= viewSeq
             THEN /\ view' = r.page.messages /\ missed' = r.missed
                  /\ viewCursor' = r.page.cursor
             ELSE UNCHANGED <<view, viewCursor, missed, dropped>>
          /\ seen' = IF loaded THEN seen ELSE r.seq
    BY <1>1 DEF ApplySnapshot
  <2>2. UNCHANGED <<table, from, out, in, events, history>>
    BY <1>1 DEF ApplySnapshot, agentVars
  <2>3. CASE history.open
    <3>1. loaded /\ seen' = seen
      BY <2>1, <2>3 DEF HistoryKnowsItsPlace
    <3>2. Loadable(m) => Loadable(m)'
      BY <2>2, <2>3 DEF Loadable, HasMore, BeforeCursor, HistoryKnowsItsPlace
    <3> QED
      BY <2>3, <3>1, <3>2, NothingVanishes, AnnouncedKept
  <2>4. CASE ~history.open /\ (~loaded \/ r.seq >= viewSeq)
    <3>1. seen' \in 0 .. r.seq /\ r.seq \in Nat
      BY <2>1, <2>4 DEF EventsInOrder, PageTypeOK
    <3>2. CASE Covers(r.page, m)
      BY <2>1, <2>2, <2>4, <3>2 DEF Covers, Shown, Loadable, HasMore, BeforeCursor
    <3>3. CASE AnnouncedAfter(m, r.seq)
      <4>1. \A n \in 0 .. r.seq : AnnouncedAfter(m, n)
        BY <3>1, <3>3, AnnouncedEarlier
      <4> QED
        BY <2>2, <3>1, <4>1 DEF Announced, AnnouncedAfter
    <3>4. CASE m \in r.missed
      BY <2>1, <2>4, <3>4
    <3> QED
      BY <3>2, <3>3, <3>4 DEF RefreshAccounts
  <2>5. CASE ~history.open /\ loaded /\ ~(r.seq >= viewSeq)
    BY <2>1, <2>2, <2>5 DEF Shown, Announced, AnnouncedAfter, Loadable, HasMore,
       BeforeCursor
  <2> QED
    BY <2>3, <2>4, <2>5
<1>2. CASE ApplyPage
  <2>1. PICK p \in reply :
          history' = [open |-> TRUE, more |-> p.more, cursor |-> p.cursor,
                      loading |-> FALSE, older |-> history.older \cup p.messages]
    BY <1>2 DEF ApplyPage
  <2>2. seen' = seen /\ loaded
    BY <1>2 DEF ApplyPage
  <2>3. CASE Loadable(m)
    <3>1. m < history.cursor
      BY <2>1, <2>3 DEF Loadable, BeforeCursor, HistoryKnowsItsPlace
    <3>2. CASE Covers(p, m)
      BY <2>1, <3>2 DEF Covers, Shown, Loadable, HasMore, BeforeCursor
    <3> QED
      BY <1>2, <2>1, <2>2, <3>1, <3>2, NothingVanishes, AnnouncedKept
      DEF ReplyAccounts, ApplyPage, ApplySnapshot
  <2> QED
    BY <1>2, <2>2, <2>3, NothingVanishes, AnnouncedKept DEF ApplyPage, ApplySnapshot
<1>3. CASE ApplyEvent
  <2>1. loaded /\ (Loadable(m) => Loadable(m)')
    BY <1>3 DEF ApplyEvent, Loadable, HasMore, BeforeCursor
  <2>2. Announced(m) => m \in Shown' \/ Announced(m)'
    BY <1>3, AnnouncedOrRead DEF Shown
  <2>3. m \in Shown \cup missed \cup dropped => m \in (Shown \cup missed \cup dropped)'
    BY <1>3 DEF ApplyEvent, Shown
  <2> QED
    BY <2>1, <2>2, <2>3
<1>4. CASE \/ Bootstrap \/ ReadEventSeq \/ BootstrapFails
           \/ LoadOlder \/ ListMessageHistory \/ PageFails
  <2>1. seen' = seen /\ loaded
    BY <1>4 DEF Bootstrap, ReadEventSeq, BootstrapFails, LoadOlder, ListMessageHistory,
       PageFails
  <2>2. Loadable(m) => Loadable(m)'
    BY <1>4 DEF Bootstrap, ReadEventSeq, BootstrapFails, LoadOlder, ListMessageHistory,
       PageFails, Loadable, HasMore, BeforeCursor, PageTypeOK
  <2>3. m \in Shown \cup missed \cup dropped => m \in (Shown \cup missed \cup dropped)'
    BY <1>4 DEF Bootstrap, ReadEventSeq, BootstrapFails, LoadOlder, ListMessageHistory,
       PageFails, Shown, PageTypeOK
  <2> QED
    BY <2>1, <2>2, <2>3, AnnouncedKept
<1> QED
  BY <1>1, <1>2, <1>3, <1>4 DEF PageStep, Refresh, Scroll

---------------------------------------------------------------------------
(* The theorems.                                                           *)

LEMMA AgentsAccount ==
    ASSUME IInv, NEW k \in Messages, AgentStep(k)
    PROVE  /\ ReadingAccounts' /\ RefreshAccounts'
           /\ ReplyAccounts' /\ EveryMessageAccounted'
<1> USE DEF IInv
<1>0. PageKeeps
  BY AgentsKeepThePage
<1>1. \A m \in table'["own"] \ table["own"] : \A n \in Nat : AnnouncedAfter(m, n)'
  BY SavedIsAnnounced
<1>2. \A m \in Messages : \A n \in 0 .. Len(events) :
          AnnouncedAfter(m, n) => AnnouncedAfter(m, n)'
  BY AnnouncedStays
<1>3. table["own"] \subseteq Messages
  BY DEF AgentTypeOK, Agents
<1>4. seen \in 0 .. Len(events) /\ seen' = seen
  BY <1>0 DEF EventsInOrder, PageKeeps, AgentTypeOK
<1>5. \A m \in table'["own"] : (m \in table["own"] => Announced(m)) => Announced(m)'
  <2> SUFFICES ASSUME NEW m \in table'["own"], m \in table["own"] => Announced(m)
               PROVE  Announced(m)'
    OBVIOUS
  <2>1. CASE m \in table["own"]
    BY <1>2, <1>3, <1>4, <2>1 DEF Announced, AnnouncedAfter
  <2>2. CASE m \notin table["own"]
    BY <1>1, <1>4, <2>2 DEF Announced, AnnouncedAfter
  <2> QED
    BY <2>1, <2>2
<1>6. Shown \cup missed \cup dropped \subseteq (Shown \cup missed \cup dropped)'
  BY <1>0 DEF PageKeeps, Shown
<1>7. RefreshAccounts'
  <2> SUFFICES ASSUME NEW r \in refresh, NEW m \in table'["own"]
               PROVE  Covers(r.page, m) \/ m \in r.missed \/ AnnouncedAfter(m, r.seq)'
    BY <1>0 DEF RefreshAccounts, PageKeeps, Covers
  <2>1. r.seq \in 0 .. Len(events)
    BY DEF EventsInOrder, PageTypeOK
  <2> QED
    BY <1>1, <1>2, <1>3, <2>1 DEF RefreshAccounts, EventsInOrder, AgentTypeOK
<1>8. ReplyAccounts'
  BY <1>0, <1>5, <1>6 DEF ReplyAccounts, PageKeeps, Covers
<1>9. EveryMessageAccounted'
  <2>1. \A m : Loadable(m) => Loadable(m)'
    BY <1>0 DEF PageKeeps, Loadable, HasMore, BeforeCursor
  <2> QED
    BY <1>0, <1>5, <1>6, <2>1 DEF EveryMessageAccounted, PageKeeps
<1>11. table["own"] \subseteq table'["own"]
  BY DEF AgentTypeOK, Agents, Other, AgentStep, Deliver, SaveIncoming, SaveSent, SendFails,
     CommandReturns, SendTextMessage, PublishIncoming, PublishSent, Save, MessagesInFlight,
     InFlight
<1>10. ReadingAccounts'
  <2> SUFFICES ASSUME NEW b \in reading, NEW m \in table'["own"]
               PROVE  IF m \in b.stored THEN Covers(b.page, m) ELSE AnnouncedAfter(m, 0)'
    BY <1>0, <1>11 DEF ReadingAccounts, PageKeeps, Covers
  <2>1. CASE m \in table["own"]
    BY <1>2, <1>3, <1>4, <2>1 DEF ReadingAccounts
  <2>2. CASE m \notin table["own"]
    BY <1>1, <2>2 DEF ReadingAccounts
  <2> QED
    BY <2>1, <2>2
<1> QED
  BY <1>7, <1>8, <1>9, <1>10

\* In every run the page never holds less than its events and pages allow:
\* the invariant is inductive.
THEOREM Invariance == Spec => []IInv
<1>1. Init => IInv
  <2> SUFFICES ASSUME Init PROVE IInv
    OBVIOUS
  <2>1. AgentTypeOK /\ MessagesInFlight
    BY HistoryAssumption DEF Init, AgentTypeOK, MessagesInFlight, InFlight, Agents
  <2>2. PageTypeOK /\ HistoryKnowsItsPlace
    <3>1. 0 \in Cursors
      BY HistoryAssumption DEF Cursors
    <3>2. PageTypeOK
      BY <3>1 DEF Init, PageTypeOK, Closed
    <3> QED
      BY <3>2 DEF Init, HistoryKnowsItsPlace, Closed
  <2>3. /\ EventsInOrder /\ ReadingAccounts /\ RefreshAccounts
        /\ ReplyAccounts /\ EveryMessageAccounted
    BY DEF Init, EventsInOrder, ReadingAccounts, RefreshAccounts, ReplyAccounts,
       EveryMessageAccounted
  <2> QED
    BY <2>1, <2>2, <2>3 DEF IInv
<1>2. IInv /\ [Next]_vars => IInv'
  <2> SUFFICES ASSUME IInv, [Next]_vars PROVE IInv'
    OBVIOUS
  <2>1. ASSUME NEW k \in Messages, AgentStep(k) PROVE IInv'
    <3>1. AgentTypeOK' /\ MessagesInFlight'
      BY <2>1, AgentInvariantStep DEF IInv
    <3>2. PageTypeOK' /\ HistoryKnowsItsPlace'
      BY <2>1, AgentsKeepThePage
      DEF IInv, PageKeeps, PageTypeOK, HistoryKnowsItsPlace
    <3>3. EventsInOrder'
      BY <2>1, <3>1, AgentsKeepThePage, AgentsGrowEvents
      DEF IInv, AgentTypeOK, PageTypeOK, PageKeeps, EventsGrow, EventsInOrder
    <3> QED
      BY <2>1, <3>1, <3>2, <3>3, AgentsAccount DEF IInv
  <2>2. CASE PageStep
    <3>1. AgentTypeOK' /\ MessagesInFlight'
      BY <2>2, PageKeepsTheAgents
      DEF IInv, agentVars, AgentTypeOK, MessagesInFlight, InFlight
    <3>2. PageTypeOK' /\ EventsInOrder' /\ HistoryKnowsItsPlace'
      BY <2>2, PageTypeStep, EventsInOrderStep, HistoryStep DEF IInv
    <3>3. /\ ReadingAccounts' /\ RefreshAccounts'
          /\ ReplyAccounts' /\ EveryMessageAccounted'
      BY <2>2, ReadingAccountsStep, RefreshAccountsStep, ReplyAccountsStep, AccountedStep
      DEF IInv
    <3> QED
      BY <3>1, <3>2, <3>3 DEF IInv
  <2>3. CASE UNCHANGED vars
    BY <2>3 DEF IInv, vars, agentVars, pageVars, AgentTypeOK, PageTypeOK, MessagesInFlight,
       InFlight, EventsInOrder, HistoryKnowsItsPlace, ReadingAccounts, RefreshAccounts,
       ReplyAccounts, EveryMessageAccounted, Covers, Shown, Announced, AnnouncedAfter, Loadable, HasMore,
       BeforeCursor
  <2> QED
    BY <2>1, <2>2, <2>3, StepIsOfOne
<1> QED
  BY <1>1, <1>2, PTL DEF Spec

\* A message its sender lists as sent is in the other agent's store, whatever
\* became of calls and answers (SendTextMessage, AcceptIncomingTextMessage).
THEOREM SentDelivered == Spec => []SentIsDelivered
<1>1. IInv => SentIsDelivered
  BY DEF IInv, MessagesInFlight, InFlight, SentIsDelivered
<1> QED
  BY <1>1, Invariance, PTL

\* Every message of the store is shown, announced or still to be found by
\* scrolling up, or came between the two reads of the snapshot shown, or a
\* refresh dropped it, for every page size, whatever places the messages take
\* and however the two reads, pages and events interleave (server.go:164-176).
THEOREM EveryMessageFound == Spec => []EveryMessageAccounted
<1>1. IInv => EveryMessageAccounted
  BY DEF IInv
<1> QED
  BY <1>1, Invariance, PTL
=============================================================================
