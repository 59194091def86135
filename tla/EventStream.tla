----------------------------- MODULE EventStream -----------------------------
(***************************************************************************)
(* How a change in the agent reaches the browser page: a goroutine commits *)
(* a record and publishes it on the EventBus, the handler of               *)
(* /api/events/stream forwards the bus to an EventSource, and AppShell     *)
(* applies events while it reloads the whole bootstrap snapshot every      *)
(* three seconds.                                                          *)
(*                                                                         *)
(* Publish is three steps, because the sequence number is taken before the *)
(* bus lock and the channels are written after it.  The connection between *)
(* handler and page is not a variable of its own: an event on its way      *)
(* stands in the subscriber's backlog or channel until the page has it.    *)
(***************************************************************************)
EXTENDS Integers, Sequences, SequencesExt

CONSTANTS
    Publishers,   \* goroutines that commit a record and publish it
    Commands,     \* those of them that serve a request of the page itself
    Items,        \* records of the store: peers, pairings, messages, transfers
    MaxVersion,   \* bound on the commits of one record
    Capacity,     \* buffer of a subscriber's channel (16 in the code)
    MaxFaults,    \* bound on broken connections and failing bootstrap calls
    MaxRestarts   \* bound on restarts of the agent

ASSUME StreamAssumption ==
    /\ Commands \subseteq Publishers /\ Items # {}
    /\ MaxVersion \in Nat /\ Capacity \in Nat \ {0}
    /\ MaxFaults \in Nat /\ MaxRestarts \in Nat

VARIABLES
    row,        \* version of each record in the store
    next,       \* EventBus.next
    log,        \* EventBus.log
    pc,         \* where each publisher is
    carry,      \* the event a publisher is working on, and its addressee
    conn,       \* number of the newest subscription
    linked,     \* the page's EventSource is connected to it
    backlog,    \* events of the subscription's backlog not yet with the page
    stream,     \* the subscription's channel
    load,       \* AppShell's load: "idle", "reading" or "answered"
    unread,     \* records the bootstrap handler still has to read
    snap,       \* the snapshot it has read
    snapSeq,    \* the eventSeq of its response
    subscribed, \* subscribeEvents was called
    openSeq,    \* afterSeq in the URL of the EventSource
    cursor,     \* cursor of subscribeEvents
    view,       \* version of each record on the page
    viewSeq,    \* eventSeq of the page's snapshot
    applied,    \* history: events handed to onEvent
    late,       \* history: events that came when the cursor had passed them
    dropped,    \* history: events this subscription had no room for
    faults, restarts \* how often the bounded failures happened

bus     == <<row, next, log, pc, carry>>
feed    == <<conn, linked, backlog, stream>>
loading == <<load, unread, snap, snapSeq>>
page    == <<subscribed, openSeq, cursor, view, viewSeq>>
history == <<applied, late, dropped>>
vars == <<bus, feed, loading, page, history, faults, restarts>>

Blank == [i \in Items |-> 0]
NoEvent == [seq |-> 0, item |-> CHOOSE i \in Items : TRUE, val |-> 0, to |-> 0]

Init ==
    /\ row = Blank /\ next = 0 /\ log = <<>>
    /\ pc = [p \in Publishers |-> "idle"]
    /\ carry = [p \in Publishers |-> NoEvent]
    /\ conn = 0 /\ linked = FALSE /\ backlog = <<>> /\ stream = <<>>
    /\ load = "idle" /\ unread = {} /\ snap = Blank /\ snapSeq = 0
    /\ subscribed = FALSE /\ openSeq = 0 /\ cursor = 0
    /\ view = Blank /\ viewSeq = 0
    /\ applied = {} /\ late = {} /\ dropped = {}
    /\ faults = 0 /\ restarts = 0

---------------------------------------------------------------------------
(* EventBus.Publish, after the store has the record.                       *)

Goto(p, l) == pc' = [pc EXCEPT ![p] = l]

\* A publisher that returns holds no event any more.
Return(p) ==
    /\ Goto(p, "idle")
    /\ carry' = [carry EXCEPT ![p] = NoEvent]

Commit(p, i) ==
    /\ pc[p] = "idle" /\ row[i] < MaxVersion
    /\ row' = [row EXCEPT ![i] = @ + 1]
    /\ carry' = [carry EXCEPT ![p] = [NoEvent EXCEPT !.item = i, !.val = row[i] + 1]]
    /\ Goto(p, "number")
    /\ UNCHANGED <<next, log, feed, loading, page, history, faults, restarts>>

\* publishPeerEvent reads the record again before it publishes it.
ReadAgain(p) ==
    /\ pc[p] = "number" /\ carry[p].val # row[carry[p].item]
    /\ carry' = [carry EXCEPT ![p].val = row[carry[p].item]]
    /\ UNCHANGED <<row, next, log, pc, feed, loading, page, history, faults, restarts>>

TakeSeq(p) ==
    /\ pc[p] = "number"
    /\ next' = next + 1
    /\ carry' = [carry EXCEPT ![p].seq = next + 1]
    /\ Goto(p, "append")
    /\ UNCHANGED <<row, log, feed, loading, page, history, faults, restarts>>

\* Under the bus lock: the log, and which channel the event will go to.
Append2Log(p) ==
    /\ pc[p] = "append"
    /\ log' = Append(log, carry[p])
    /\ carry' = [carry EXCEPT ![p].to = IF linked THEN conn ELSE 0]
    /\ Goto(p, "send")
    /\ UNCHANGED <<row, next, feed, loading, page, history, faults, restarts>>

Addressed(p) == linked /\ carry[p].to = conn

\* The send that does not block.
SendLive(p) ==
    /\ pc[p] = "send"
    /\ \/ /\ Addressed(p) /\ Len(stream) < Capacity
          /\ stream' = Append(stream, carry[p])
          /\ UNCHANGED dropped
       \/ /\ Addressed(p) /\ Len(stream) >= Capacity
          /\ dropped' = dropped \cup {carry[p].seq}
          /\ UNCHANGED stream
       \/ ~Addressed(p) /\ UNCHANGED <<stream, dropped>>
    /\ IF p \in Commands THEN Goto(p, "respond") /\ UNCHANGED carry ELSE Return(p)
    /\ UNCHANGED <<row, next, log, conn, linked, backlog, loading, page,
                   applied, late, faults, restarts>>

\* The response to the page's own request puts the record on the page,
\* whatever events have done to it meanwhile.
CommandReturns(p) ==
    /\ pc[p] = "respond"
    /\ view' = IF subscribed THEN [view EXCEPT ![carry[p].item] = carry[p].val] ELSE view
    /\ Return(p)
    /\ UNCHANGED <<row, next, log, feed, loading, subscribed, openSeq, cursor,
                   viewSeq, history, faults, restarts>>

---------------------------------------------------------------------------
(* handleEvents and the EventSource of the page.                           *)

\* The loop over the log that collects the backlog.
Later(s) ==
    LET kept[k \in 0 .. Len(log)] ==
            IF k = 0 THEN <<>>
            ELSE IF log[k].seq > s THEN Append(kept[k - 1], log[k]) ELSE kept[k - 1]
    IN  kept[Len(log)]

\* Mutant: the subscriber is registered, but the backlog is not copied.
SubscribeLive ==
    /\ subscribed /\ ~linked
    /\ conn' = conn + 1 /\ linked' = TRUE
    /\ backlog' = <<>> /\ stream' = <<>>
    /\ dropped' = {}
    /\ UNCHANGED <<bus, loading, page, applied, late, faults, restarts>>

\* EventBus.Subscribe copies the backlog and registers the channel under one
\* lock.  The EventSource, also when it reconnects by itself, asks for the
\* afterSeq of the URL it was opened with.
Subscribe ==
    /\ subscribed /\ ~linked
    /\ conn' = conn + 1 /\ linked' = TRUE
    /\ backlog' = Later(openSeq) /\ stream' = <<>>
    /\ dropped' = {}
    /\ UNCHANGED <<bus, loading, page, applied, late, faults, restarts>>

Disconnect ==
    /\ linked /\ faults < MaxFaults
    /\ faults' = faults + 1
    /\ linked' = FALSE /\ backlog' = <<>> /\ stream' = <<>>
    /\ UNCHANGED <<bus, conn, loading, page, history, restarts>>

\* onmessage: the cursor filter, then applyEvent.
Receive(e) ==
    \/ /\ e.seq <= cursor
       /\ late' = late \cup ({e.seq} \ applied)
       /\ UNCHANGED <<cursor, view, viewSeq, applied>>
    \/ /\ e.seq > cursor
       /\ cursor' = e.seq
       /\ view' = [view EXCEPT ![e.item] = e.val]
       /\ viewSeq' = e.seq
       /\ applied' = applied \cup {e.seq}
       /\ UNCHANGED late

\* The handler writes the backlog first, then what the channel holds.
Deliver ==
    /\ linked
    /\ \/ /\ backlog # <<>>
          /\ Receive(Head(backlog))
          /\ backlog' = Tail(backlog) /\ UNCHANGED stream
       \/ /\ backlog = <<>> /\ stream # <<>>
          /\ Receive(Head(stream))
          /\ stream' = Tail(stream) /\ UNCHANGED backlog
    /\ UNCHANGED <<bus, conn, linked, loading, subscribed, openSeq, dropped, faults,
                   restarts>>

---------------------------------------------------------------------------
(* AppShell's load: once at the start, then every three seconds.           *)

StartLoad ==
    /\ load = "idle"
    /\ load' = "reading"
    /\ unread' = Items
    /\ UNCHANGED <<bus, feed, snap, snapSeq, page, history, faults, restarts>>

\* Bootstrap reads the tables one after the other.
ReadItem(i) ==
    /\ load = "reading" /\ i \in unread
    /\ snap' = [snap EXCEPT ![i] = row[i]]
    /\ unread' = unread \ {i}
    /\ UNCHANGED <<bus, feed, load, snapSeq, page, history, faults, restarts>>

\* handleBootstrap asks for EventSeq when the snapshot is complete.
ReadSeq ==
    /\ load = "reading" /\ unread = {}
    /\ snapSeq' = next
    /\ load' = "answered"
    /\ UNCHANGED <<bus, feed, unread, snap, page, history, faults, restarts>>

\* Mutant: a snapshot replaces the page's only if it is newer.
ReconcileNewer ==
    IF snapSeq > viewSeq \/ ~subscribed
    THEN view' = snap /\ viewSeq' = snapSeq
    ELSE UNCHANGED <<view, viewSeq>>

\* reconcileBootstrapSnapshot
Reconcile ==
    IF snapSeq >= viewSeq
    THEN view' = snap /\ viewSeq' = snapSeq
    ELSE UNCHANGED <<view, viewSeq>>

\* The response arrives; the first one also opens the event stream.
ApplySnapshot ==
    /\ load = "answered"
    /\ load' = "idle"
    /\ Reconcile
    /\ IF subscribed
       THEN UNCHANGED <<openSeq, cursor>>
       ELSE openSeq' = snapSeq /\ cursor' = snapSeq
    /\ subscribed' = TRUE
    /\ snap' = Blank /\ snapSeq' = 0
    /\ UNCHANGED <<bus, feed, unread, history, faults, restarts>>

LoadFails ==
    /\ load # "idle" /\ faults < MaxFaults
    /\ faults' = faults + 1
    /\ load' = "idle" /\ unread' = {} /\ snap' = Blank /\ snapSeq' = 0
    /\ UNCHANGED <<bus, feed, page, history, restarts>>

---------------------------------------------------------------------------
\* The agent restarts and the page stays open: the bus is memory, the store
\* is not, and the page keeps its cursor.
Restart ==
    /\ restarts < MaxRestarts
    /\ restarts' = restarts + 1
    /\ next' = 0 /\ log' = <<>>
    /\ pc' = [p \in Publishers |-> "idle"]
    /\ carry' = [p \in Publishers |-> NoEvent]
    /\ linked' = FALSE /\ backlog' = <<>> /\ stream' = <<>>
    /\ load' = "idle" /\ unread' = {} /\ snap' = Blank /\ snapSeq' = 0
    /\ applied' = {} /\ late' = {} /\ dropped' = {}
    /\ UNCHANGED <<row, conn, page, faults>>

Publish(p) == TakeSeq(p) \/ Append2Log(p) \/ SendLive(p) \/ CommandReturns(p)

Load == StartLoad \/ (\E i \in Items : ReadItem(i)) \/ ReadSeq \/ ApplySnapshot

Next ==
    \/ \E p \in Publishers :
          Publish(p) \/ ReadAgain(p) \/ (\E i \in Items : Commit(p, i))
    \/ Subscribe \/ Deliver \/ Disconnect
    \/ Load \/ LoadFails
    \/ Restart

Spec == Init /\ [][Next]_vars

\* Goroutines run, the browser reconnects and reads, the interval timer keeps
\* firing.  Commits are never forced.
Fairness ==
    /\ \A p \in Publishers : WF_vars(Publish(p))
    /\ WF_vars(Subscribe) /\ WF_vars(Deliver) /\ WF_vars(Load)

FairSpec == Spec /\ Fairness

---------------------------------------------------------------------------
(* Properties.                                                             *)

SeqsOf(s) == {e.seq : e \in ToSet(s)}

\* An event that the page will still be sent over the present connection.
OnItsWay(n) ==
    \/ n \in SeqsOf(backlog) \cup SeqsOf(stream)
    \/ \E p \in Publishers : carry[p].seq = n /\
          (pc[p] = "append" \/ (pc[p] = "send" /\ Addressed(p)))

\* While the page is connected, each event after the one its stream was
\* opened at is on its way, was applied, or was lost for one of two reasons:
\* the channel was full, or the cursor had passed it.  Nothing falls between
\* the backlog and the live stream, also when the connection breaks.
EveryEventAccounted ==
    linked => \A n \in (openSeq + 1) .. next :
                 OnItsWay(n) \/ n \in applied \cup late \cup dropped

\* Until the agent restarts, the page is never ahead of the bus: a snapshot
\* taken now would replace the page's, and the next event would be applied,
\* whatever responses and events have overtaken each other.
PageIsNotAhead == restarts = 0 => viewSeq <= next /\ cursor <= next

\* When the store changes no more, the page ends with what is in the store,
\* whatever events were dropped, overtaken or overwritten by a late response,
\* as long as the agent does not restart.
ViewCatchesUp == <>[](view = row \/ restarts > 0)

\* The page ends with what is in the store: the periodic reload sees to it.
\* (frontend/src/App.refresh.test.tsx)
ReloadsReflectState == <>[](view = row)
=============================================================================
