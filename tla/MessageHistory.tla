---------------------------- MODULE MessageHistory ----------------------------
(***************************************************************************)
(* Text messages between two agents, and the page of one of them: the      *)
(* newest messages that every bootstrap snapshot carries, the events that  *)
(* add to them, and the older pages the user loads by scrolling up.        *)
(*                                                                         *)
(* A message is known by its place in the order of the store, (created_at, *)
(* message_id).  The sender's clock, and the text form of its time, decide *)
(* that place, so messages reach a store in any order.  The stream hands   *)
(* the page every event in order; what it may lose is EventStream's        *)
(* subject, like restarts.                                                 *)
(***************************************************************************)
EXTENDS Naturals, FiniteSets, Sequences

CONSTANTS
    Last,        \* messages are 1 .. Last; 0 stands for no cursor
    Earlier,     \* what the agents may have exchanged before
    PageSize,    \* messageHistoryPageSize (10 in the code)
    MaxNew,      \* bound: messages sent while the page is open
    MaxFaults    \* bound: bootstrap and history requests that fail

Messages == 1 .. Last

ASSUME HistoryAssumption ==
    /\ Last \in Nat /\ Earlier \subseteq SUBSET Messages
    /\ PageSize \in Nat \ {0} /\ MaxNew \in Nat /\ MaxFaults \in Nat

Agents == {"own", "peer"}
Other(a) == IF a = "own" THEN "peer" ELSE "own"

VARIABLES
    table,      \* per agent: the messages in its store
    from,       \* per message: its sender, "none" if it was not sent yet
    out,        \* per message: SendTextMessage; "none", "asked", "saved", "sent", "done", "failed"
    in,         \* per message: AcceptIncomingTextMessage; "none", "saved", "accepted"
    events,     \* the message.upserted events of the page's agent, in order
    loaded,     \* the page has its first snapshot
    seen,       \* the events the page has applied
    view,       \* the page: snapshot.messages
    viewSeq,    \* the page: snapshot.eventSeq
    viewCursor, \* the page: nextCursor of the conversation in the snapshot
    reading,    \* bootstrap handlers that have read the store, but not the event number
    refresh,    \* bootstrap responses on their way
    history,    \* the page: historyStateByConversation of the conversation
    reply,      \* history responses on their way
    missed,     \* history: messages that came between the two reads of the snapshot shown
    dropped,    \* history: messages a refresh left out after older ones were loaded
    faults

agentVars == <<table, from, out, in, events>>
pageVars == <<loaded, seen, view, viewSeq, viewCursor, reading, refresh, history, reply,
              missed, dropped>>
vars == <<agentVars, pageVars, faults>>

Closed == [open |-> FALSE, more |-> FALSE, cursor |-> 0, loading |-> FALSE, older |-> {}]

\* Both agents have the same earlier messages.
Init ==
    /\ \E old \in Earlier : table = [a \in Agents |-> old]
    /\ from = [m \in Messages |-> "none"]
    /\ out = [m \in Messages |-> "none"] /\ in = [m \in Messages |-> "none"]
    /\ events = <<>> /\ loaded = FALSE /\ seen = 0
    /\ view = {} /\ viewSeq = 0 /\ viewCursor = 0
    /\ reading = {} /\ refresh = {}
    /\ history = Closed /\ reply = {} /\ missed = {} /\ dropped = {}
    /\ faults = 0

Fault == faults < MaxFaults /\ faults' = faults + 1

---------------------------------------------------------------------------
(* SendTextMessage and AcceptIncomingTextMessage.                          *)

Save(a, m) == table' = [table EXCEPT ![a] = @ \cup {m}]

\* publishMessageEvent; only one of the agents has a page here.
PublishMessage(a, m) == events' = IF a = "own" THEN Append(events, m) ELSE events

SendTextMessage(m, a) ==
    /\ out[m] = "none" /\ \A b \in Agents : m \notin table[b]
    /\ Cardinality({n \in Messages : out[n] # "none"}) < MaxNew
    /\ out' = [out EXCEPT ![m] = "asked"] /\ from' = [from EXCEPT ![m] = a]
    /\ UNCHANGED <<table, in, events, pageVars, faults>>

\* The request arrives, perhaps when its sender has given up.  Where the store
\* fails it is as if it had not arrived.
SaveIncoming(m) ==
    /\ out[m] # "none" /\ in[m] = "none"
    /\ Save(Other(from[m]), m) /\ in' = [in EXCEPT ![m] = "saved"]
    /\ UNCHANGED <<from, out, events, pageVars, faults>>

PublishIncoming(m) ==
    /\ in[m] = "saved" /\ in' = [in EXCEPT ![m] = "accepted"]
    /\ PublishMessage(Other(from[m]), m)
    /\ UNCHANGED <<table, from, out, pageVars, faults>>

\* Mutant: a call without an answer counts as sent.
SaveSentUnanswered(m) ==
    /\ out[m] = "asked"
    /\ Save(from[m], m) /\ out' = [out EXCEPT ![m] = "saved"]
    /\ UNCHANGED <<from, in, events, pageVars, faults>>

\* The call returns with the ack: only now the sender saves its message.
SaveSent(m) ==
    /\ out[m] = "asked" /\ in[m] = "accepted"
    /\ Save(from[m], m) /\ out' = [out EXCEPT ![m] = "saved"]
    /\ UNCHANGED <<from, in, events, pageVars, faults>>

\* The call returns an error, whatever became of the request, or the save
\* fails: the message is dropped.
SendFails(m) ==
    /\ out[m] = "asked" /\ out' = [out EXCEPT ![m] = "failed"]
    /\ UNCHANGED <<table, from, in, events, pageVars, faults>>

PublishSent(m) ==
    /\ out[m] = "saved" /\ from[m] = "own" /\ out' = [out EXCEPT ![m] = "sent"]
    /\ PublishMessage("own", m)
    /\ UNCHANGED <<table, from, in, pageVars, faults>>

\* The response to the page's own command (handleSendText).
CommandReturns(m) ==
    /\ out[m] = "sent" /\ from[m] = "own" /\ out' = [out EXCEPT ![m] = "done"]
    /\ view' = IF loaded THEN view \cup {m} ELSE view
    /\ UNCHANGED <<table, from, in, events, loaded, seen, viewSeq, viewCursor, reading,
                   refresh, history, reply, missed, dropped, faults>>

---------------------------------------------------------------------------
(* ListMessagesPage: the newest messages before a boundary.                *)

Newest(ms) == {m \in ms : Cardinality({n \in ms : n > m}) < PageSize}

Oldest(ms) == CHOOSE m \in ms : \A n \in ms : m <= n

\* Mutant: the boundary is the first message the page has no room for.
ListMessagesPageSkipping(ms, before) ==
    LET older == {m \in ms : before = 0 \/ m < before}
        rest  == older \ Newest(older)
    IN [messages |-> Newest(older), more |-> rest # {},
        cursor |-> IF rest = {} THEN 0 ELSE CHOOSE m \in rest : \A n \in rest : n <= m]

ListMessagesPage(ms, before) ==
    LET older == {m \in ms : before = 0 \/ m < before}
        page  == Newest(older)
        more  == older # page
    IN [messages |-> page, more |-> more, cursor |-> IF more THEN Oldest(page) ELSE 0]

---------------------------------------------------------------------------
(* The snapshots and the events.                                           *)

\* A page holds the message, or scrolling up from it will find it.
Covers(p, m) == m \in p.messages \/ (p.more /\ p.cursor # 0 /\ m < p.cursor)

\* The bootstrap handler reads the store, and after that the event number.
Bootstrap ==
    /\ reading = {} /\ refresh = {}
    /\ reading' = {[page |-> ListMessagesPage(table["own"], 0), stored |-> table["own"]]}
    /\ UNCHANGED <<agentVars, loaded, seen, view, viewSeq, viewCursor, refresh, history,
                   reply, missed, dropped, faults>>

Published(m) == \E i \in 1 .. Len(events) : events[i] = m

\* What was saved and published between the two reads, and lies on the page.
MissedBy(p, stored) == {m \in table["own"] \ stored : Published(m) /\ ~Covers(p, m)}

ReadEventSeq ==
    /\ \E b \in reading :
          refresh' = {[page |-> b.page, seq |-> Len(events),
                       missed |-> MissedBy(b.page, b.stored)]}
    /\ reading' = {}
    /\ UNCHANGED <<agentVars, loaded, seen, view, viewSeq, viewCursor, history, reply,
                   missed, dropped, faults>>

\* reconcileBootstrapSnapshot.  The first snapshot opens the event stream.
ApplySnapshot ==
    /\ \E r \in refresh :
          /\ IF ~loaded \/ r.seq >= viewSeq
             THEN /\ view' = r.page.messages /\ missed' = r.missed
                  /\ viewSeq' = r.seq /\ viewCursor' = r.page.cursor
                  /\ dropped' = IF history.open THEN dropped \cup ((view \cup missed) \ view')
                                                ELSE dropped
             ELSE UNCHANGED <<view, viewSeq, viewCursor, missed, dropped>>
          /\ seen' = IF loaded THEN seen ELSE r.seq
    /\ loaded' = TRUE /\ refresh' = {}
    /\ UNCHANGED <<agentVars, reading, history, reply, faults>>

BootstrapFails ==
    /\ reading \cup refresh # {} /\ reading' = {} /\ refresh' = {} /\ Fault
    /\ UNCHANGED <<agentVars, loaded, seen, view, viewSeq, viewCursor, history, reply,
                   missed, dropped>>

\* applyEvent, upsertMessage.
ApplyEvent ==
    /\ loaded /\ seen < Len(events)
    /\ seen' = seen + 1 /\ viewSeq' = seen + 1
    /\ view' = view \cup {events[seen + 1]}
    /\ UNCHANGED <<agentVars, loaded, viewCursor, reading, refresh, history, reply, missed,
                   dropped, faults>>

---------------------------------------------------------------------------
(* handleLoadOlderMessages.                                                *)

\* An exhausted history has no cursor of its own, and falls back to the one
\* of the newest snapshot.
BeforeCursor == IF history.open /\ history.cursor # 0 THEN history.cursor ELSE viewCursor
HasMore == IF history.open THEN history.more ELSE viewCursor # 0

LoadOlder ==
    /\ loaded /\ BeforeCursor # 0 /\ HasMore /\ ~history.loading
    /\ history' = [history EXCEPT !.open = TRUE, !.more = HasMore, !.cursor = BeforeCursor,
                                  !.loading = TRUE]
    /\ UNCHANGED <<agentVars, loaded, seen, view, viewSeq, viewCursor, reading, refresh,
                   reply, missed, dropped, faults>>

ListMessageHistory ==
    /\ history.loading /\ reply = {}
    /\ reply' = {ListMessagesPage(table["own"], history.cursor)}
    /\ UNCHANGED <<agentVars, loaded, seen, view, viewSeq, viewCursor, reading, refresh,
                   history, missed, dropped, faults>>

\* mergeHistoryMessages
ApplyPage ==
    /\ \E p \in reply :
          history' = [open |-> TRUE, more |-> p.more, cursor |-> p.cursor, loading |-> FALSE,
                      older |-> history.older \cup p.messages]
    /\ reply' = {}
    /\ UNCHANGED <<agentVars, loaded, seen, view, viewSeq, viewCursor, reading, refresh,
                   missed, dropped, faults>>

\* Mutant: an error counts as an empty last page.
PageFailsExhausted ==
    /\ history.loading /\ Fault
    /\ reply' = {} /\ history' = [history EXCEPT !.loading = FALSE, !.more = FALSE]
    /\ UNCHANGED <<agentVars, loaded, seen, view, viewSeq, viewCursor, reading, refresh,
                   missed, dropped>>

PageFails ==
    /\ history.loading /\ Fault
    /\ reply' = {} /\ history' = [history EXCEPT !.loading = FALSE]
    /\ UNCHANGED <<agentVars, loaded, seen, view, viewSeq, viewCursor, reading, refresh,
                   missed, dropped>>

---------------------------------------------------------------------------
Deliver(m) ==
    \/ SaveIncoming(m) \/ PublishIncoming(m)
    \/ SaveSent(m) \/ SendFails(m) \/ PublishSent(m) \/ CommandReturns(m)

Refresh == Bootstrap \/ ReadEventSeq \/ ApplySnapshot
Scroll == LoadOlder \/ ListMessageHistory \/ ApplyPage

Next ==
    \/ \E m \in Messages : Deliver(m) \/ \E a \in Agents : SendTextMessage(m, a)
    \/ Refresh \/ BootstrapFails \/ ApplyEvent \/ Scroll \/ PageFails

Spec == Init /\ [][Next]_vars

\* The handlers end, the page reloads and reads its stream, and its user
\* scrolls up as long as there is more.
FairSpec ==
    /\ Spec
    /\ \A m \in Messages : WF_vars(PublishIncoming(m)) /\ WF_vars(PublishSent(m))
                           /\ WF_vars(CommandReturns(m))
    /\ WF_vars(ApplyEvent) /\ WF_vars(Refresh) /\ WF_vars(Scroll)

---------------------------------------------------------------------------
(* Properties.                                                             *)

\* What buildConversationMessages shows.
Shown == history.older \cup view

\* A message that its sender has in its own history, sent, is in the other
\* agent's store: the call that failed is not in the history, whatever became
\* of its request.
SentIsDelivered ==
    \A m \in Messages : from[m] # "none" /\ m \in table[from[m]] => m \in table[Other(from[m])]

\* Of m there will be an event after the first n ones.
AnnouncedAfter(m, n) ==
    \/ from[m] = "peer" /\ in[m] = "saved"
    \/ from[m] = "own" /\ out[m] = "saved"
    \/ \E i \in (n + 1) .. Len(events) : events[i] = m

\* An event about m is still to come.
Announced(m) == AnnouncedAfter(m, seen)

\* Scrolling up finds it.
Loadable(m) == HasMore /\ m < BeforeCursor

\* Every stored message is shown, or an event will show it, or scrolling up
\* will, however messages arrive between the pages and between the two reads of
\* a snapshot.  There are two exceptions: what came between the two reads of the
\* snapshot now shown, until the next one, and what a refresh left out after
\* older messages had been loaded.
EveryMessageAccounted ==
    loaded => \A m \in table["own"] :
                 m \in Shown \cup missed \cup dropped \/ Announced(m) \/ Loadable(m)

\* A user who keeps scrolling up ends with the whole history, also when page
\* requests fail on the way: what came between the two reads of one snapshot is
\* in the next one, or older messages had been loaded before it and it is lost
\* with what that refresh left out.
HistoryIsReached == <>[](table["own"] \subseteq Shown \cup dropped)

\* After the user has loaded older messages, no new message takes away what
\* is shown (openspec/specs/message-history-pagination/spec.md:35-37).
LoadedHistoryStays == [][history.older # {} => Shown \subseteq Shown']_vars
=============================================================================
