-------------------------- MODULE EventStreamProofs --------------------------
(***************************************************************************)
(* Proofs about EventStream, for any number of publishers, records and     *)
(* restarts: while the page is connected each event is accounted for, and  *)
(* until the agent restarts the page is not ahead of the bus.              *)
(*                                                                         *)
(* Both come down to where a number is between TakeSeq and the page.  The  *)
(* bus lock is what makes Subscribe atomic: a number that is taken is in   *)
(* the log, so in the backlog, or its publisher has yet to append it, and  *)
(* then finds the new channel.                                             *)
(***************************************************************************)
EXTENDS EventStream, SequenceTheorems, WellFoundedInduction, TLAPS

Events == [seq : Nat, item : Items, val : Nat, to : Nat]
Steps == {"idle", "number", "append", "send", "respond"}

BusTypeOK ==
    /\ row \in [Items -> Nat] /\ next \in Nat
    /\ log \in Seq(Events)
    /\ pc \in [Publishers -> Steps] /\ carry \in [Publishers -> Events]

FeedTypeOK ==
    /\ conn \in Nat /\ linked \in BOOLEAN
    /\ backlog \in Seq(Events) /\ stream \in Seq(Events)

PageTypeOK ==
    /\ load \in {"idle", "reading", "answered"} /\ unread \subseteq Items
    /\ snap \in [Items -> Nat] /\ snapSeq \in Nat
    /\ subscribed \in BOOLEAN
    /\ openSeq \in Nat /\ cursor \in Nat
    /\ view \in [Items -> Nat] /\ viewSeq \in Nat
    /\ applied \subseteq Nat /\ late \subseteq Nat /\ dropped \subseteq Nat
    /\ faults \in 0 .. MaxFaults /\ restarts \in 0 .. MaxRestarts

\* The EventSource is opened by subscribeEvents and never by the agent.
LinkedIsOpen == linked => subscribed

\* A number that was taken is in the log or about to be.
NumberedIsHeld ==
    \A n \in 1 .. next :
        n \in SeqsOf(log) \/ \E p \in Publishers : pc[p] = "append" /\ carry[p].seq = n

\* Nothing that carries a number carries one that is not taken yet.
UpTo(s) == \A e \in ToSet(s) : e.seq <= next

NothingAhead ==
    /\ UpTo(log) /\ UpTo(backlog) /\ UpTo(stream)
    /\ \A p \in Publishers : carry[p].seq <= next
    /\ snapSeq <= next

EInv ==
    /\ BusTypeOK /\ FeedTypeOK /\ PageTypeOK
    /\ LinkedIsOpen /\ NumberedIsHeld /\ EveryEventAccounted
    /\ NothingAhead /\ PageIsNotAhead

---------------------------------------------------------------------------
(* Sequences of events, and the loop over the log.                         *)

LEMMA LeastOf ==
    ASSUME NEW ns \in SUBSET Nat, ns # {}
    PROVE  \E n \in ns : \A k \in ns : n <= k
<1>1. PICK n \in ns : \A k \in ns : ~ (<<k, n>> \in OpToRel(<, Nat))
  BY NatLessThanWellFounded, WFMin
<1>2. \A k \in ns : ~ (k < n)
  BY <1>1 DEF OpToRel
<1> QED
  BY <1>2

LEMMA AppendAdds ==
    ASSUME NEW S, NEW q \in Seq(S), NEW e \in S
    PROVE  /\ Append(q, e) \in Seq(S)
           /\ ToSet(Append(q, e)) = ToSet(q) \cup {e}
<1> DEFINE r == Append(q, e)
<1>1. r \in Seq(S) /\ Len(r) = Len(q) + 1 /\ Len(q) \in Nat
  OBVIOUS
<1>2. r[Len(q) + 1] = e /\ \A i \in 1 .. Len(q) : r[i] = q[i]
  OBVIOUS
<1>3. DOMAIN r = 1 .. (Len(q) + 1) /\ DOMAIN q = 1 .. Len(q)
  BY <1>1
<1> HIDE DEF r
<1>4. \A x \in ToSet(r) : x \in ToSet(q) \cup {e}
  BY <1>1, <1>2, <1>3 DEF ToSet
<1>5. \A x \in ToSet(q) : x \in ToSet(r)
  BY <1>1, <1>2, <1>3 DEF ToSet
<1>6. e \in ToSet(r)
  BY <1>1, <1>2, <1>3 DEF ToSet
<1>7. ToSet(r) = ToSet(q) \cup {e}
  BY <1>4, <1>5, <1>6
<1> QED
  BY <1>1, <1>7 DEF r

LEMMA TailKeeps ==
    ASSUME NEW S, NEW q \in Seq(S), q # <<>>
    PROVE  /\ Tail(q) \in Seq(S) /\ Head(q) \in S
           /\ ToSet(q) = ToSet(Tail(q)) \cup {Head(q)}
<1> DEFINE r == Tail(q)
<1>1. r \in Seq(S) /\ Len(r) = Len(q) - 1 /\ Len(q) \in Nat \ {0} /\ Head(q) = q[1] /\ q[1] \in S
  BY HeadTailProperties
<1>2. \A i \in 1 .. Len(r) : r[i] = q[i + 1]
  BY <1>1, HeadTailProperties
<1>3. DOMAIN r = 1 .. (Len(q) - 1) /\ DOMAIN q = 1 .. Len(q)
  BY <1>1
<1> HIDE DEF r
<1>4. \A x \in ToSet(r) : x \in ToSet(q)
  BY SMTT(40), <1>1, <1>2, <1>3 DEF ToSet
<1>5. \A x \in ToSet(q) : x \in ToSet(r) \cup {q[1]}
  <2> SUFFICES ASSUME NEW i \in 1 .. Len(q), i # 1 PROVE q[i] \in ToSet(r)
    BY <1>3 DEF ToSet
  <2>1. i - 1 \in 1 .. Len(r) /\ r[i - 1] = q[i]
    BY <1>1, <1>2
  <2> QED
    BY <1>1, <1>3, <2>1 DEF ToSet
<1>6. q[1] \in ToSet(q)
  BY <1>1, <1>3 DEF ToSet
<1>7. ToSet(q) = ToSet(r) \cup {q[1]}
  BY <1>4, <1>5, <1>6
<1> QED
  BY <1>1, <1>7 DEF r

\* One turn of the loop over the log, and the loop up to its n-th event.
Turn(f, k, s) ==
    IF k = 0 THEN <<>>
    ELSE IF log[k].seq > s THEN Append(f[k - 1], log[k]) ELSE f[k - 1]

Runs(f, n, s) == f = [k \in 0 .. n |-> Turn(f, k, s)]

Selected(n, s) == {log[j] : j \in {i \in 1 .. n : log[i].seq > s}}

LEMMA LoopRuns ==
    ASSUME NEW s, NEW N \in Nat
    PROVE  \E f : Runs(f, N, s)
<1> DEFINE T == {n \in Nat : ~ \E f : Runs(f, n, s)}
<1> SUFFICES ASSUME T # {} PROVE FALSE
  OBVIOUS
<1>1. PICK n \in T : \A m \in T : n <= m
  <2>1. T \in SUBSET Nat /\ T # {}
    OBVIOUS
  <2> HIDE DEF T
  <2> QED
    BY <2>1, LeastOf
<1>2. n # 0
  <2> DEFINE e == [k \in 0 .. 0 |-> <<>>]
  <2>1. \A k \in 0 .. 0 : Turn(e, k, s) = <<>>
    BY DEF Turn
  <2>2. e = [k \in 0 .. 0 |-> Turn(e, k, s)]
    BY <2>1
  <2> HIDE DEF e
  <2> QED
    BY <2>2 DEF Runs
<1>3. n - 1 \in Nat /\ n - 1 \notin T
  BY <1>1, <1>2
<1>4. PICK f : Runs(f, n - 1, s)
  BY <1>3
<1> DEFINE g == [k \in 0 .. n |-> IF k = n THEN Turn(f, n, s) ELSE f[k]]
<1>5. \A k \in 0 .. n : g[k] = Turn(g, k, s)
  <2> SUFFICES ASSUME NEW k \in 0 .. n PROVE g[k] = Turn(g, k, s)
    OBVIOUS
  <2>1. k # 0 => g[k - 1] = f[k - 1]
    BY <1>3
  <2>2. CASE k = n
    BY <2>1, <2>2, <1>2 DEF Turn
  <2>3. CASE k # n
    <3>1. k \in 0 .. (n - 1)
      BY <1>3, <2>3
    <3>2. f[k] = Turn(f, k, s)
      BY <1>4, <3>1 DEF Runs
    <3> QED
      BY <2>1, <2>3, <3>2 DEF Turn
  <2> QED
    BY <2>2, <2>3
<1>6. g = [k \in 0 .. n |-> g[k]]
  OBVIOUS
<1>7. Runs(g, n, s)
  <2> HIDE DEF g
  <2> QED
    BY <1>5, <1>6 DEF Runs
<1> QED
  BY <1>7, <1>1

LEMMA LoopSelects ==
    ASSUME log \in Seq(Events), NEW s, NEW f, Runs(f, Len(log), s), NEW k \in 0 .. Len(log)
    PROVE  f[k] \in Seq(Events) /\ ToSet(f[k]) = Selected(k, s)
<1> DEFINE Good(n) == f[n] \in Seq(Events) /\ ToSet(f[n]) = Selected(n, s)
           T == {n \in 0 .. Len(log) : ~ Good(n)}
<1> SUFFICES ASSUME T # {} PROVE FALSE
  OBVIOUS
<1>0. Len(log) \in Nat
  OBVIOUS
<1>1. PICK n \in T : \A m \in T : n <= m
  <2>1. T \in SUBSET Nat /\ T # {}
    BY <1>0
  <2> HIDE DEF T
  <2> QED
    BY <2>1, LeastOf
<1>2. n \in 0 .. Len(log) /\ ~ Good(n) /\ n \in Nat
  BY <1>0, <1>1
<1>3. f[n] = Turn(f, n, s)
  BY <1>2 DEF Runs
<1>4. n # 0
  <2> SUFFICES ASSUME n = 0 PROVE FALSE
    OBVIOUS
  <2>1. f[n] = <<>>
    BY <1>3 DEF Turn
  <2>2. Selected(n, s) = {} /\ ToSet(<<>>) = {}
    BY DEF Selected, ToSet
  <2> QED
    BY <1>2, <2>1, <2>2
<1>5. n - 1 \in 0 .. Len(log) /\ n - 1 \notin T
  BY <1>0, <1>1, <1>2, <1>4
<1>6. Good(n - 1)
  BY <1>5
<1>7. n \in 1 .. Len(log) /\ log[n] \in Events
  BY <1>0, <1>2, <1>4
<1>8. Selected(n, s) = Selected(n - 1, s) \cup {e \in {log[n]} : e.seq > s}
  <2>1. {i \in 1 .. n : log[i].seq > s}
          = {i \in 1 .. (n - 1) : log[i].seq > s} \cup {i \in {n} : log[i].seq > s}
    BY <1>2, <1>7
  <2> QED
    BY <2>1 DEF Selected
<1>9. \A q \in Seq(Events) :
        /\ Append(q, log[n]) \in Seq(Events)
        /\ ToSet(Append(q, log[n])) = ToSet(q) \cup {log[n]}
  BY <1>7, AppendAdds
<1>10. f[n] = IF log[n].seq > s THEN Append(f[n - 1], log[n]) ELSE f[n - 1]
  BY <1>3, <1>4 DEF Turn
<1>11. CASE log[n].seq > s
  <2>1. f[n] \in Seq(Events) /\ ToSet(f[n]) = ToSet(f[n - 1]) \cup {log[n]}
    BY <1>6, <1>9, <1>10, <1>11
  <2> QED
    BY <1>2, <1>6, <1>8, <1>11, <2>1
<1>12. CASE ~ (log[n].seq > s)
  <2>1. f[n] = f[n - 1]
    BY <1>10, <1>12
  <2> QED
    BY <1>2, <1>6, <1>8, <1>12, <2>1
<1> QED
  BY <1>11, <1>12

LEMMA LaterSelects ==
    ASSUME log \in Seq(Events), NEW s
    PROVE  /\ Later(s) \in Seq(Events)
           /\ ToSet(Later(s)) = {e \in ToSet(log) : e.seq > s}
<1> DEFINE F == CHOOSE f : Runs(f, Len(log), s)
<1>0. Len(log) \in Nat
  OBVIOUS
<1>1. Runs(F, Len(log), s)
  BY <1>0, LoopRuns
<1>2. Later(s) = F[Len(log)]
  BY DEF Later, Runs, Turn
<1>3. Len(log) \in 0 .. Len(log)
  BY <1>0
<1>4. Later(s) \in Seq(Events) /\ ToSet(Later(s)) = Selected(Len(log), s)
  <2> HIDE DEF F
  <2> QED
    BY <1>1, <1>2, <1>3, LoopSelects
<1>5. Selected(Len(log), s) = {e \in ToSet(log) : e.seq > s}
  BY DEF Selected, ToSet
<1> QED
  BY <1>4, <1>5

---------------------------------------------------------------------------
(* The steps.                                                              *)

LEMMA NoEventIsOne == NoEvent \in Events /\ NoEvent.seq = 0
  BY StreamAssumption DEF NoEvent, Events

LEMMA EventsOfSequence ==
    ASSUME NEW q \in Seq(Events)
    PROVE  ToSet(q) \subseteq Events /\ ToSet(<<>>) = {}
<1>1. DOMAIN q = 1 .. Len(q)
  OBVIOUS
<1> QED
  BY <1>1 DEF ToSet

\* The steps of the connection and the page leave the bus alone.
LEMMA OthersLeaveBus ==
    Subscribe \/ Deliver \/ Disconnect \/ LoadFails \/ Load \/ UNCHANGED vars => UNCHANGED bus
  BY DEF Subscribe, Deliver, Disconnect, LoadFails, Load, StartLoad, ReadItem, ReadSeq,
     ApplySnapshot, vars

\* What a publisher does to its event leaves one.
LEMMA CarryStep ==
    ASSUME BusTypeOK, conn \in Nat, [Next]_vars
    PROVE  carry' \in [Publishers -> Events]
<1> USE DEF BusTypeOK, Goto, Return, vars, bus
<1>0. ASSUME NEW p \in Publishers, NEW e \in Events, carry' = [carry EXCEPT ![p] = e]
      PROVE  carry' \in [Publishers -> Events]
  BY <1>0
<1>1. ASSUME NEW p \in Publishers, NEW i \in Items, Commit(p, i)
      PROVE  carry' \in [Publishers -> Events]
  <2> DEFINE e == [NoEvent EXCEPT !.item = i, !.val = row[i] + 1]
  <2>1. row[i] + 1 \in Nat
    OBVIOUS
  <2>4. e \in Events
    BY <2>1, NoEventIsOne DEF Events
  <2>3. carry' = [carry EXCEPT ![p] = e]
    BY <1>1 DEF Commit
  <2> HIDE DEF e
  <2> QED
    BY <1>0, <2>3, <2>4
<1>2. ASSUME NEW p \in Publishers, NEW n \in Nat
      PROVE  /\ [carry[p] EXCEPT !.val = n] \in Events
             /\ [carry[p] EXCEPT !.seq = n] \in Events
             /\ [carry[p] EXCEPT !.to = n] \in Events
  <2>1. carry[p] \in Events
    OBVIOUS
  <2> QED
    BY <2>1 DEF Events
<1>3. ASSUME NEW p \in Publishers, ReadAgain(p) PROVE carry' \in [Publishers -> Events]
  <2>1. row[carry[p].item] \in Nat
    BY DEF Events
  <2>2. carry' = [carry EXCEPT ![p] = [carry[p] EXCEPT !.val = row[carry[p].item]]]
    BY <1>3 DEF ReadAgain
  <2> QED
    BY <1>0, <1>2, <2>1, <2>2
<1>4. ASSUME NEW p \in Publishers, TakeSeq(p) PROVE carry' \in [Publishers -> Events]
  <2>1. carry' = [carry EXCEPT ![p] = [carry[p] EXCEPT !.seq = next + 1]] /\ next + 1 \in Nat
    BY <1>4 DEF TakeSeq
  <2> QED
    BY <1>0, <1>2, <2>1
<1>5. ASSUME NEW p \in Publishers, Append2Log(p)
      PROVE  carry' \in [Publishers -> Events]
  <2>1. carry' = [carry EXCEPT ![p] = [carry[p] EXCEPT !.to = IF linked THEN conn ELSE 0]]
    BY <1>5 DEF Append2Log
  <2> QED
    BY <1>0, <1>2, <1>5, <2>1
<1>6. ASSUME NEW p \in Publishers, SendLive(p) \/ CommandReturns(p)
      PROVE  carry' \in [Publishers -> Events]
  BY <1>6, NoEventIsOne DEF SendLive, CommandReturns
<1>7. Restart => carry' \in [Publishers -> Events]
  BY NoEventIsOne DEF Restart
<1>8. Subscribe \/ Deliver \/ Disconnect \/ LoadFails \/ Load \/ UNCHANGED vars => UNCHANGED bus
  BY OthersLeaveBus
<1> QED
  BY <1>1, <1>3, <1>4, <1>5, <1>6, <1>7, <1>8 DEF Next, Publish

\* A delivery takes one event, off the backlog or off the channel.
LEMMA DeliverTakes ==
    ASSUME FeedTypeOK, Deliver
    PROVE  \E e \in Events :
              /\ Receive(e)
              /\ backlog' \in Seq(Events) /\ stream' \in Seq(Events)
              /\ ToSet(backlog) \cup ToSet(stream) = ToSet(backlog') \cup ToSet(stream') \cup {e}
              /\ ToSet(backlog') \subseteq ToSet(backlog)
              /\ ToSet(stream') \subseteq ToSet(stream)
<1>1. CASE backlog # <<>>
  <2>1. Receive(Head(backlog)) /\ backlog' = Tail(backlog) /\ stream' = stream
    BY <1>1 DEF Deliver
  <2>2. /\ Head(backlog) \in Events /\ Tail(backlog) \in Seq(Events)
        /\ ToSet(backlog) = ToSet(Tail(backlog)) \cup {Head(backlog)}
    BY <1>1, TailKeeps DEF FeedTypeOK
  <2> QED
    BY <2>1, <2>2 DEF FeedTypeOK
<1>2. CASE backlog = <<>>
  <2>1. Receive(Head(stream)) /\ stream' = Tail(stream) /\ backlog' = backlog /\ stream # <<>>
    BY <1>2 DEF Deliver
  <2>2. /\ Head(stream) \in Events /\ Tail(stream) \in Seq(Events)
        /\ ToSet(stream) = ToSet(Tail(stream)) \cup {Head(stream)}
    BY <2>1, TailKeeps DEF FeedTypeOK
  <2> QED
    BY <2>1, <2>2 DEF FeedTypeOK
<1> QED
  BY <1>1, <1>2

LEMMA TypeStep ==
    ASSUME BusTypeOK, FeedTypeOK, PageTypeOK, [Next]_vars
    PROVE  BusTypeOK' /\ FeedTypeOK' /\ PageTypeOK'
<1>0. carry' \in [Publishers -> Events] /\ <<>> \in Seq(Events)
  BY CarryStep DEF FeedTypeOK
<1> USE <1>0, StreamAssumption DEF BusTypeOK, FeedTypeOK, PageTypeOK, Steps, Goto, Return,
      vars, bus, feed, loading, page, history
<1>1. ASSUME NEW p \in Publishers, NEW i \in Items, Commit(p, i)
      PROVE  BusTypeOK' /\ FeedTypeOK' /\ PageTypeOK'
  <2>0. row' = [row EXCEPT ![i] = row[i] + 1]
    BY <1>1 DEF Commit
  <2>1. row' \in [Items -> Nat]
    BY <2>0
  <2>3. pc' = [pc EXCEPT ![p] = "number"]
    BY <1>1 DEF Commit
  <2>4. pc' \in [Publishers -> Steps]
    BY <2>3
  <2>2. UNCHANGED <<next, log, feed, loading, page, history, faults, restarts>>
    BY <1>1 DEF Commit
  <2> QED
    BY <2>1, <2>2, <2>4
<1>2. ASSUME NEW p \in Publishers, ReadAgain(p)
      PROVE  BusTypeOK' /\ FeedTypeOK' /\ PageTypeOK'
  BY <1>2 DEF ReadAgain
<1>3. ASSUME NEW p \in Publishers, TakeSeq(p)
      PROVE  BusTypeOK' /\ FeedTypeOK' /\ PageTypeOK'
  <2>0. next' = next + 1
    BY <1>3 DEF TakeSeq
  <2>1. next' \in Nat
    BY <2>0
  <2>3. pc' = [pc EXCEPT ![p] = "append"]
    BY <1>3 DEF TakeSeq
  <2>4. pc' \in [Publishers -> Steps]
    BY <2>3
  <2>2. UNCHANGED <<row, log, feed, loading, page, history, faults, restarts>>
    BY <1>3 DEF TakeSeq
  <2> QED
    BY <2>1, <2>2, <2>4
<1>4. ASSUME NEW p \in Publishers, Append2Log(p)
      PROVE  BusTypeOK' /\ FeedTypeOK' /\ PageTypeOK'
  <2>1. log' \in Seq(Events)
    BY <1>4, AppendAdds DEF Append2Log
  <2> QED
    BY <1>4, <2>1 DEF Append2Log
<1>5. ASSUME NEW p \in Publishers, SendLive(p)
      PROVE  BusTypeOK' /\ FeedTypeOK' /\ PageTypeOK'
  <2>1. carry[p] \in Events /\ carry[p].seq \in Nat
    BY DEF Events
  <2>4. Append(stream, carry[p]) \in Seq(Events)
    BY <2>1
  <2>5. stream' \in {stream, Append(stream, carry[p])}
        /\ dropped' \in {dropped, dropped \cup {carry[p].seq}}
    BY <1>5 DEF SendLive
  <2>2. stream' \in Seq(Events) /\ dropped' \subseteq Nat
    BY <2>1, <2>4, <2>5
  <2>3. pc' \in [Publishers -> Steps]
    BY <1>5 DEF SendLive
  <2> QED
    BY <1>5, <2>2, <2>3 DEF SendLive
<1>6. ASSUME NEW p \in Publishers, CommandReturns(p)
      PROVE  BusTypeOK' /\ FeedTypeOK' /\ PageTypeOK'
  <2>1. pc' \in [Publishers -> Steps]
    BY <1>6 DEF CommandReturns
  <2>2. view' \in [Items -> Nat]
    BY <1>6 DEF CommandReturns, Events
  <2> QED
    BY <1>6, <2>1, <2>2 DEF CommandReturns
<1>7. CASE Subscribe
  BY <1>7, LaterSelects DEF Subscribe
<1>8. CASE Deliver
  <2>1. PICK e \in Events : Receive(e) /\ backlog' \in Seq(Events) /\ stream' \in Seq(Events)
    BY <1>8, DeliverTakes
  <2>2. /\ cursor' \in Nat /\ viewSeq' \in Nat /\ view' \in [Items -> Nat]
        /\ applied' \subseteq Nat /\ late' \subseteq Nat
    BY <2>1 DEF Receive, Events
  <2> QED
    BY <1>8, <2>1, <2>2 DEF Deliver
<1>9. CASE Disconnect
  <2>1. UNCHANGED <<bus, loading, page, history>> /\ conn' = conn
    BY <1>9 DEF Disconnect
  <2>2. /\ linked' = FALSE /\ backlog' = <<>> /\ stream' = <<>>
        /\ faults' \in 0 .. MaxFaults /\ restarts' = restarts
    BY <1>9 DEF Disconnect
  <2> QED
    BY <2>1, <2>2
<1>10. CASE StartLoad
  BY <1>10 DEF StartLoad
<1>11. ASSUME NEW i \in Items, ReadItem(i)
       PROVE  BusTypeOK' /\ FeedTypeOK' /\ PageTypeOK'
  BY <1>11 DEF ReadItem
<1>12. CASE ReadSeq
  BY <1>12 DEF ReadSeq
<1>13. CASE ApplySnapshot
  BY <1>13 DEF ApplySnapshot, Reconcile, Blank
<1>14. CASE LoadFails
  BY <1>14 DEF LoadFails, Blank
<1>15. CASE Restart
  <2>1. Blank \in [Items -> Nat] /\ pc' \in [Publishers -> Steps] /\ restarts' \in 0 .. MaxRestarts
    BY <1>15 DEF Restart, Blank
  <2>2. BusTypeOK'
    BY <1>15, <2>1 DEF Restart
  <2>3. FeedTypeOK'
    BY <1>15 DEF Restart
  <2>4. PageTypeOK'
    BY <1>15, <2>1 DEF Restart
  <2> QED
    BY <2>2, <2>3, <2>4
<1>16. CASE UNCHANGED vars
  BY <1>16
<1> QED
  BY <1>1, <1>2, <1>3, <1>4, <1>5, <1>6, <1>7, <1>8, <1>9, <1>10, <1>11, <1>12, <1>13,
     <1>14, <1>15, <1>16 DEF Next, Publish, Load

\* What a sequence of events gains and loses.
LEMMA SeqsOfSequences ==
    ASSUME NEW q \in Seq(Events)
    PROVE  /\ \A e \in Events : SeqsOf(Append(q, e)) = SeqsOf(q) \cup {e.seq}
           /\ q # <<>> => SeqsOf(q) = SeqsOf(Tail(q)) \cup {Head(q).seq}
  BY AppendAdds, TailKeeps DEF SeqsOf

\* A number in the log stays there; one about to be appended gets there.
LEMMA HeldStep ==
    ASSUME BusTypeOK, NumberedIsHeld, [Next]_vars
    PROVE  NumberedIsHeld'
<1> USE DEF BusTypeOK, Goto, Return, vars, bus
<1>1. ASSUME NEW p \in Publishers, TakeSeq(p) PROVE NumberedIsHeld'
  <2> SUFFICES ASSUME NEW n \in 1 .. next'
               PROVE  \/ n \in SeqsOf(log)'
                      \/ \E q \in Publishers : pc'[q] = "append" /\ carry'[q].seq = n
    BY DEF NumberedIsHeld
  <2>1. CASE n = next + 1
    <3>1. pc'[p] = "append" /\ carry'[p].seq = n
      BY <1>1, <2>1 DEF TakeSeq, Events
    <3> QED
      BY <3>1
  <2>2. CASE n # next + 1
    <3>1. n \in 1 .. next
      BY <1>1, <2>2 DEF TakeSeq
    <3>2. CASE n \in SeqsOf(log)
      BY <1>1, <3>2 DEF TakeSeq, SeqsOf
    <3>3. ASSUME NEW q \in Publishers, pc[q] = "append", carry[q].seq = n
          PROVE  pc'[q] = "append" /\ carry'[q].seq = n
      BY <1>1, <3>3 DEF TakeSeq
    <3> QED
      BY <3>1, <3>2, <3>3 DEF NumberedIsHeld
  <2> QED
    BY <2>1, <2>2
<1>2. ASSUME NEW p \in Publishers, Append2Log(p) PROVE NumberedIsHeld'
  <2> SUFFICES ASSUME NEW n \in 1 .. next
               PROVE  \/ n \in SeqsOf(log)'
                      \/ \E q \in Publishers : pc'[q] = "append" /\ carry'[q].seq = n
    BY <1>2 DEF NumberedIsHeld, Append2Log
  <2>1. SeqsOf(log)' = SeqsOf(log) \cup {carry[p].seq}
    BY <1>2, SeqsOfSequences DEF Append2Log, SeqsOf
  <2>2. ASSUME NEW q \in Publishers, q # p, pc[q] = "append", carry[q].seq = n
        PROVE  pc'[q] = "append" /\ carry'[q].seq = n
    BY <1>2, <2>2 DEF Append2Log
  <2> QED
    BY <2>1, <2>2 DEF NumberedIsHeld
<1>3. CASE Restart
  BY <1>3 DEF Restart, NumberedIsHeld
<1>4. ASSUME UNCHANGED <<next, log>>,
             \A q \in Publishers : pc[q] = "append" => pc'[q] = "append" /\ carry'[q] = carry[q]
      PROVE  NumberedIsHeld'
  BY <1>4 DEF NumberedIsHeld, SeqsOf
<1>5. ASSUME NEW p \in Publishers, SendLive(p) PROVE NumberedIsHeld'
  BY <1>4, <1>5 DEF SendLive
<1>6. ASSUME NEW p \in Publishers, CommandReturns(p) PROVE NumberedIsHeld'
  BY <1>4, <1>6 DEF CommandReturns
<1>7. ASSUME NEW p \in Publishers, ReadAgain(p) PROVE NumberedIsHeld'
  BY <1>4, <1>7 DEF ReadAgain
<1>8. ASSUME NEW p \in Publishers, NEW i \in Items, Commit(p, i) PROVE NumberedIsHeld'
  BY <1>4, <1>8 DEF Commit
<1>9. CASE UNCHANGED bus
  BY <1>4, <1>9
<1> QED
  BY <1>1, <1>2, <1>3, <1>5, <1>6, <1>7, <1>8, <1>9, OthersLeaveBus DEF Next, Publish

\* A number is copied from something that already carries it.
LEMMA AheadStep ==
    ASSUME BusTypeOK, FeedTypeOK, PageTypeOK, NothingAhead, PageIsNotAhead, [Next]_vars
    PROVE  NothingAhead' /\ PageIsNotAhead'
<1> USE DEF BusTypeOK, FeedTypeOK, PageTypeOK, Goto, Return, vars, bus, feed, loading, page,
      history, UpTo
<1>0. \A q \in Publishers : carry[q].seq \in Nat
  BY DEF Events
<1>1. ASSUME NEW p \in Publishers, TakeSeq(p) PROVE NothingAhead' /\ PageIsNotAhead'
  <2>1. next' = next + 1
    BY <1>1 DEF TakeSeq
  <2>2. \A q \in Publishers : carry'[q].seq <= next'
    <3> SUFFICES ASSUME NEW q \in Publishers PROVE carry'[q].seq <= next'
      OBVIOUS
    <3>1. CASE q = p
      BY <1>1, <2>1, <3>1 DEF TakeSeq, Events
    <3>2. CASE q # p
      <4>1. carry'[q] = carry[q]
        BY <1>1, <3>2 DEF TakeSeq
      <4> QED
        BY <1>0, <2>1, <4>1 DEF NothingAhead
    <3> QED
      BY <3>1, <3>2
  <2>3. \A e \in ToSet(log) \cup ToSet(backlog) \cup ToSet(stream) : e.seq \in Nat
    BY EventsOfSequence DEF Events
  <2>4. UNCHANGED <<log, backlog, stream, snapSeq, viewSeq, cursor, restarts>>
    BY <1>1 DEF TakeSeq
  <2>5. \A k \in Nat : k <= next => k <= next'
    BY <2>1
  <2>6. NothingAhead'
    BY <2>2, <2>3, <2>4, <2>5 DEF NothingAhead
  <2>7. PageIsNotAhead'
    BY <2>4, <2>5 DEF PageIsNotAhead
  <2> QED
    BY <2>6, <2>7
<1>2. ASSUME NEW p \in Publishers, Append2Log(p) PROVE NothingAhead' /\ PageIsNotAhead'
  <2>1. ToSet(log') = ToSet(log) \cup {carry[p]}
    BY <1>2, AppendAdds DEF Append2Log
  <2>2. \A q \in Publishers : carry'[q].seq = carry[q].seq
    BY <1>2 DEF Append2Log, Events
  <2> QED
    BY <1>2, <2>1, <2>2 DEF Append2Log, NothingAhead, PageIsNotAhead
<1>3. ASSUME NEW p \in Publishers, SendLive(p) PROVE NothingAhead' /\ PageIsNotAhead'
  <2>1. ToSet(stream') \subseteq ToSet(stream) \cup {carry[p]}
    <3>1. ToSet(Append(stream, carry[p])) = ToSet(stream) \cup {carry[p]}
      BY AppendAdds
    <3>2. stream' \in {stream, Append(stream, carry[p])}
      BY <1>3 DEF SendLive
    <3> QED
      BY <3>1, <3>2
  <2>2. \A q \in Publishers : carry'[q].seq \in {carry[q].seq, 0}
    BY <1>3, NoEventIsOne DEF SendLive
  <2>3. UNCHANGED <<next, log, backlog, snapSeq, viewSeq, cursor, restarts>>
    BY <1>3 DEF SendLive
  <2>4. UpTo(stream)'
    BY <2>1, <2>3 DEF NothingAhead
  <2>5. \A q \in Publishers : carry'[q].seq <= next'
    <3>1. 0 <= next /\ next' = next
      BY <2>3
    <3> QED
      BY <2>2, <3>1 DEF NothingAhead
  <2>6. UpTo(log)' /\ UpTo(backlog)' /\ snapSeq' <= next' /\ PageIsNotAhead'
    BY <2>3 DEF NothingAhead, PageIsNotAhead
  <2> QED
    BY <2>4, <2>5, <2>6 DEF NothingAhead
<1>4. ASSUME NEW p \in Publishers, CommandReturns(p) PROVE NothingAhead' /\ PageIsNotAhead'
  <2>1. \A q \in Publishers : carry'[q].seq \in {carry[q].seq, 0}
    BY <1>4, NoEventIsOne DEF CommandReturns
  <2> QED
    BY <1>4, <2>1 DEF CommandReturns, NothingAhead, PageIsNotAhead
<1>5. ASSUME NEW p \in Publishers, ReadAgain(p) PROVE NothingAhead' /\ PageIsNotAhead'
  <2>1. \A q \in Publishers : carry'[q].seq = carry[q].seq
    BY <1>5 DEF ReadAgain, Events
  <2> QED
    BY <1>5, <2>1 DEF ReadAgain, NothingAhead, PageIsNotAhead
<1>6. ASSUME NEW p \in Publishers, NEW i \in Items, Commit(p, i)
      PROVE  NothingAhead' /\ PageIsNotAhead'
  <2>1. [NoEvent EXCEPT !.item = i, !.val = row[i] + 1].seq = 0
    <3>1. row[i] + 1 \in Nat
      OBVIOUS
    <3> QED
      BY <3>1, NoEventIsOne DEF Events
  <2>2. \A q \in Publishers : carry'[q].seq \in {carry[q].seq, 0}
    BY <1>6, <2>1 DEF Commit
  <2> QED
    BY <1>6, <2>2 DEF Commit, NothingAhead, PageIsNotAhead
<1>7. CASE Subscribe
  <2>1. backlog' = Later(openSeq) /\ stream' = <<>>
        /\ UNCHANGED <<next, log, carry, snapSeq, viewSeq, cursor, restarts>>
    BY <1>7 DEF Subscribe
  <2>2. ToSet(backlog') \subseteq ToSet(log) /\ ToSet(stream') = {}
    BY <2>1, LaterSelects, EventsOfSequence
  <2> QED
    BY <2>1, <2>2 DEF NothingAhead, PageIsNotAhead
<1>8. CASE Deliver
  <2>1. PICK e \in Events : /\ Receive(e) /\ e.seq <= next
                            /\ ToSet(backlog') \subseteq ToSet(backlog)
                            /\ ToSet(stream') \subseteq ToSet(stream)
    BY <1>8, DeliverTakes DEF NothingAhead
  <2>2. viewSeq' \in {viewSeq, e.seq} /\ cursor' \in {cursor, e.seq}
    BY <2>1 DEF Receive
  <2> QED
    BY <1>8, <2>1, <2>2 DEF Deliver, NothingAhead, PageIsNotAhead
<1>9. CASE Disconnect
  BY <1>9 DEF Disconnect, NothingAhead, PageIsNotAhead, ToSet
<1>10. CASE StartLoad
  BY <1>10 DEF StartLoad, NothingAhead, PageIsNotAhead
<1>11. ASSUME NEW i \in Items, ReadItem(i) PROVE NothingAhead' /\ PageIsNotAhead'
  BY <1>11 DEF ReadItem, NothingAhead, PageIsNotAhead
<1>12. CASE ReadSeq
  BY <1>12 DEF ReadSeq, NothingAhead, PageIsNotAhead
<1>13. CASE ApplySnapshot
  BY <1>13 DEF ApplySnapshot, Reconcile, NothingAhead, PageIsNotAhead
<1>14. CASE LoadFails
  BY <1>14 DEF LoadFails, NothingAhead, PageIsNotAhead
<1>15. CASE Restart
  BY <1>15, NoEventIsOne DEF Restart, NothingAhead, PageIsNotAhead, ToSet
<1>16. CASE UNCHANGED vars
  BY <1>16 DEF NothingAhead, PageIsNotAhead
<1> QED
  BY <1>1, <1>2, <1>3, <1>4, <1>5, <1>6, <1>7, <1>8, <1>9, <1>10, <1>11, <1>12, <1>13,
     <1>14, <1>15, <1>16 DEF Next, Publish, Load

\* What may open a connection, open the stream anew, or take a number.
LEMMA FrameStep ==
    ASSUME [Next]_vars
    PROVE  /\ linked' => linked \/ Subscribe
           /\ subscribed => subscribed' /\ openSeq' = openSeq
           /\ next' # next => Restart \/ \E p \in Publishers : TakeSeq(p)
<1> DEFINE Frame == /\ linked' => linked \/ Subscribe
                    /\ subscribed => subscribed' /\ openSeq' = openSeq
                    /\ next' # next => Restart \/ \E p \in Publishers : TakeSeq(p)
<1> USE DEF vars, bus, feed, loading, page, history
<1>1. ASSUME NEW p \in Publishers, NEW i \in Items, Commit(p, i) PROVE Frame
  BY <1>1 DEF Commit
<1>2. ASSUME NEW p \in Publishers, ReadAgain(p) PROVE Frame
  BY <1>2 DEF ReadAgain
<1>3. ASSUME NEW p \in Publishers, TakeSeq(p) PROVE Frame
  BY <1>3 DEF TakeSeq
<1>4. ASSUME NEW p \in Publishers, Append2Log(p) PROVE Frame
  BY <1>4 DEF Append2Log
<1>5. ASSUME NEW p \in Publishers, SendLive(p) PROVE Frame
  BY <1>5 DEF SendLive
<1>6. ASSUME NEW p \in Publishers, CommandReturns(p) PROVE Frame
  BY <1>6 DEF CommandReturns
<1>7. CASE Subscribe
  BY <1>7 DEF Subscribe
<1>8. CASE Deliver
  BY <1>8 DEF Deliver
<1>9. CASE Disconnect
  BY <1>9 DEF Disconnect
<1>10. CASE StartLoad
  BY <1>10 DEF StartLoad
<1>11. ASSUME NEW i \in Items, ReadItem(i) PROVE Frame
  BY <1>11 DEF ReadItem
<1>12. CASE ReadSeq
  BY <1>12 DEF ReadSeq
<1>13. CASE ApplySnapshot
  BY <1>13 DEF ApplySnapshot
<1>14. CASE LoadFails
  BY <1>14 DEF LoadFails
<1>15. CASE Restart
  BY <1>15 DEF Restart
<1>16. CASE UNCHANGED vars
  BY <1>16
<1> QED
  BY <1>1, <1>2, <1>3, <1>4, <1>5, <1>6, <1>7, <1>8, <1>9, <1>10, <1>11, <1>12,
     <1>13, <1>14, <1>15, <1>16 DEF Next, Publish, Load

LEMMA OpenStep ==
    ASSUME LinkedIsOpen, [Next]_vars PROVE LinkedIsOpen'
<1>1. Subscribe => subscribed'
  BY DEF Subscribe, page
<1> QED
  BY <1>1, FrameStep DEF LinkedIsOpen

\* What is settled about a number while the connection stays: it is on its
\* way, or it arrived or was lost.
Settled(n) == OnItsWay(n) \/ n \in applied \cup late \cup dropped

\* A number stays settled in every step that keeps the connection.
LEMMA SettledStep ==
    ASSUME BusTypeOK, FeedTypeOK, PageTypeOK, [Next]_vars, linked, linked',
           NEW n \in Nat, Settled(n)
    PROVE  Settled(n)'
<1> USE DEF BusTypeOK, FeedTypeOK, Goto, Return, vars, bus, feed, history
<1>1. ASSUME SeqsOf(backlog) \cup SeqsOf(stream) \subseteq SeqsOf(backlog') \cup SeqsOf(stream')
             \cup applied' \cup late' \cup dropped',
             applied \cup late \cup dropped \subseteq applied' \cup late' \cup dropped',
             conn' = conn,
             \A p \in Publishers :
                pc[p] \in {"append", "send"} => pc'[p] = pc[p] /\ carry'[p] = carry[p]
      PROVE  Settled(n)'
  BY <1>1 DEF Settled, OnItsWay, Addressed, SeqsOf
<1>2. ASSUME NEW p \in Publishers, Append2Log(p) PROVE Settled(n)'
  <2>1. pc'[p] = "send" /\ carry'[p].seq = carry[p].seq /\ carry'[p].to = conn /\ pc[p] = "append"
    BY <1>2 DEF Append2Log, Events
  <2>2. \A q \in Publishers \ {p} : pc'[q] = pc[q] /\ carry'[q] = carry[q]
    BY <1>2 DEF Append2Log
  <2>3. UNCHANGED <<conn, linked, backlog, stream, applied, late, dropped>>
    BY <1>2 DEF Append2Log
  <2> QED
    BY <2>1, <2>2, <2>3 DEF Settled, OnItsWay, Addressed, SeqsOf
<1>3. ASSUME NEW p \in Publishers, SendLive(p) PROVE Settled(n)'
  <2>1. \A q \in Publishers \ {p} : pc'[q] = pc[q] /\ carry'[q] = carry[q]
    BY <1>3 DEF SendLive
  <2>2. UNCHANGED <<conn, linked, backlog, applied, late>> /\ pc[p] = "send"
    BY <1>3 DEF SendLive
  <2> DEFINE q == Append(stream, carry[p])
  <2>0. SeqsOf(q) = SeqsOf(stream) \cup {carry[p].seq}
    <3>1. carry[p] \in Events
      OBVIOUS
    <3> QED
      BY <3>1, SeqsOfSequences
  <2> HIDE DEF q
  <2>5. \/ stream' = q /\ dropped' = dropped
        \/ stream' = stream /\ dropped' = dropped \cup {carry[p].seq}
        \/ stream' = stream /\ dropped' = dropped /\ ~ Addressed(p)
    BY <1>3 DEF SendLive, q
  <2>3. SeqsOf(stream) \subseteq SeqsOf(stream') /\ dropped \subseteq dropped'
    BY <2>0, <2>5
  <2>4. Addressed(p) => carry[p].seq \in SeqsOf(stream') \cup dropped'
    BY <2>0, <2>5
  <2> QED
    BY <2>1, <2>2, <2>3, <2>4 DEF Settled, OnItsWay, Addressed, SeqsOf
<1>4. CASE Deliver
  <2>1. PICK e \in Events :
          /\ Receive(e)
          /\ SeqsOf(backlog) \cup SeqsOf(stream)
               = SeqsOf(backlog') \cup SeqsOf(stream') \cup {e.seq}
    <3>1. PICK e \in Events : Receive(e) /\ ToSet(backlog) \cup ToSet(stream)
                                         = ToSet(backlog') \cup ToSet(stream') \cup {e}
      BY <1>4, DeliverTakes
    <3>2. SeqsOf(backlog) \cup SeqsOf(stream) = {x.seq : x \in ToSet(backlog) \cup ToSet(stream)}
      BY DEF SeqsOf
    <3>3. SeqsOf(backlog') \cup SeqsOf(stream') \cup {e.seq}
            = {x.seq : x \in ToSet(backlog') \cup ToSet(stream') \cup {e}}
      BY DEF SeqsOf
    <3> QED
      BY <3>1, <3>2, <3>3
  <2>2. e.seq \in applied' \cup late' /\ applied \cup late \subseteq applied' \cup late'
    BY <2>1 DEF Receive, PageTypeOK, Events
  <2>3. UNCHANGED <<pc, carry, conn, dropped>>
    BY <1>4 DEF Deliver
  <2> QED
    BY <1>1, <2>1, <2>2, <2>3
<1>5. ASSUME NEW p \in Publishers,
             TakeSeq(p) \/ CommandReturns(p) \/ ReadAgain(p) \/ \E i \in Items : Commit(p, i)
      PROVE  Settled(n)'
  <2>1. /\ UNCHANGED <<feed, history>>
        /\ pc[p] \notin {"append", "send"}
        /\ \A q \in Publishers \ {p} : pc'[q] = pc[q] /\ carry'[q] = carry[q]
    <3>1. CASE TakeSeq(p)
      BY <3>1 DEF TakeSeq
    <3>2. CASE CommandReturns(p)
      BY <3>2 DEF CommandReturns
    <3>3. CASE ReadAgain(p)
      BY <3>3 DEF ReadAgain
    <3>4. ASSUME NEW i \in Items, Commit(p, i)
          PROVE  /\ UNCHANGED <<feed, history>>
                 /\ pc[p] \notin {"append", "send"}
                 /\ \A q \in Publishers \ {p} : pc'[q] = pc[q] /\ carry'[q] = carry[q]
      BY <3>4 DEF Commit
    <3> QED
      BY <1>5, <3>1, <3>2, <3>3, <3>4
  <2> QED
    BY <1>1, <2>1
<1>6. ASSUME Load \/ LoadFails \/ UNCHANGED vars PROVE UNCHANGED <<bus, feed, history>>
  BY <1>6 DEF Load, StartLoad, ReadItem, ReadSeq, ApplySnapshot, LoadFails
<1>7. ~ (Subscribe \/ Disconnect \/ Restart)
  BY DEF Subscribe, Disconnect, Restart
<1>8. UNCHANGED <<bus, feed, history>> => Settled(n)'
  BY <1>1
<1> QED
  BY <1>2, <1>3, <1>4, <1>5, <1>6, <1>7, <1>8 DEF Next, Publish

\* A new connection finds every number that is taken in its backlog or in
\* the hands of a publisher that will find the connection.
LEMMA SubscribeSettles ==
    ASSUME BusTypeOK, PageTypeOK, NumberedIsHeld, Subscribe, NEW n \in (openSeq + 1) .. next
    PROVE  OnItsWay(n)'
<1>1. n \in 1 .. next /\ n > openSeq /\ openSeq \in Nat
  BY DEF PageTypeOK, BusTypeOK
<1>2. UNCHANGED <<pc, carry>> /\ backlog' = Later(openSeq)
  BY DEF Subscribe, bus
<1>3. CASE n \in SeqsOf(log)
  <2>1. PICK e \in ToSet(log) : e.seq = n
    BY <1>3 DEF SeqsOf
  <2>2. e \in ToSet(backlog')
    BY <1>1, <1>2, <2>1, LaterSelects DEF BusTypeOK
  <2> QED
    BY <2>1, <2>2 DEF OnItsWay, SeqsOf
<1>4. ASSUME NEW p \in Publishers, pc[p] = "append", carry[p].seq = n PROVE OnItsWay(n)'
  BY <1>2, <1>4 DEF OnItsWay
<1> QED
  BY <1>1, <1>3, <1>4 DEF NumberedIsHeld

LEMMA AccountedStep ==
    ASSUME EInv, [Next]_vars
    PROVE  EveryEventAccounted'
<1> SUFFICES ASSUME linked', NEW n \in (openSeq' + 1) .. next' PROVE Settled(n)'
  BY DEF EveryEventAccounted, Settled
<1> USE DEF EInv
<1>0. BusTypeOK' /\ FeedTypeOK' /\ PageTypeOK' /\ n \in Nat /\ n <= next' /\ openSeq' < n
  BY SMTT(40), TypeStep DEF BusTypeOK, PageTypeOK
<1>1. CASE ~ linked
  <2>1. Subscribe
    BY <1>1, FrameStep
  <2>2. openSeq' = openSeq /\ next' = next
    BY <2>1 DEF Subscribe, page, bus
  <2> QED
    BY <2>1, <2>2, SubscribeSettles DEF Settled
<1>2. CASE linked
  <2>1. openSeq' = openSeq
    BY <1>2, FrameStep DEF LinkedIsOpen
  <2>2. CASE n <= next
    <3>1. n \in (openSeq + 1) .. next
      BY <1>0, <2>1, <2>2 DEF BusTypeOK, PageTypeOK
    <3>2. Settled(n)
      BY <1>2, <3>1 DEF EveryEventAccounted, Settled
    <3> QED
      BY <1>0, <1>2, <3>2, SettledStep
  <2>3. CASE ~ (n <= next)
    <3>1. PICK p \in Publishers : TakeSeq(p)
      <4>1. next' # next /\ ~ Restart
        BY <1>0, <2>3 DEF Restart
      <4> QED
        BY <4>1, FrameStep
    <3>2. pc'[p] = "append" /\ carry'[p].seq = n
      BY <1>0, <2>3, <3>1 DEF TakeSeq, Goto, BusTypeOK, Events
    <3> QED
      BY <3>2 DEF Settled, OnItsWay
  <2> QED
    BY <2>2, <2>3
<1> QED
  BY <1>1, <1>2

---------------------------------------------------------------------------
(* The theorems.                                                           *)

LEMMA InitInv == Init => EInv
<1> SUFFICES ASSUME Init PROVE EInv
  OBVIOUS
<1> USE StreamAssumption DEF Init
<1>1. <<>> \in Seq(Events) /\ Blank \in [Items -> Nat]
  BY DEF Blank
<1>4. BusTypeOK
  BY <1>1, NoEventIsOne DEF BusTypeOK, Steps
<1>5. FeedTypeOK
  BY <1>1 DEF FeedTypeOK
<1>6. PageTypeOK
  <2>1. 0 \in 0 .. MaxFaults /\ 0 \in 0 .. MaxRestarts
    OBVIOUS
  <2>2. load \in {"idle", "reading", "answered"} /\ unread \subseteq Items
    OBVIOUS
  <2>3. snap \in [Items -> Nat] /\ view \in [Items -> Nat]
    BY <1>1
  <2> QED
    BY <2>1, <2>2, <2>3 DEF PageTypeOK
<1>2. LinkedIsOpen /\ NumberedIsHeld /\ EveryEventAccounted
  BY DEF LinkedIsOpen, NumberedIsHeld, EveryEventAccounted
<1>3. NothingAhead /\ PageIsNotAhead
  BY NoEventIsOne DEF NothingAhead, PageIsNotAhead, UpTo, ToSet
<1> QED
  BY <1>2, <1>3, <1>4, <1>5, <1>6 DEF EInv

\* The invariant of the bus, the connection and the page together: where
\* every number is, and that nothing carries one that was not taken.
THEOREM Invariance == Spec => []EInv
<1>1. ASSUME EInv, [Next]_vars PROVE EInv'
  BY <1>1, TypeStep, HeldStep, AheadStep, OpenStep, AccountedStep DEF EInv
<1> QED
  BY <1>1, InitInv, PTL DEF Spec

\* While the page is connected, no event after the one its stream was opened
\* at is lost between the backlog and the channel, however publishers, the
\* connection and the agent's restarts interleave.
THEOREM EventsAccounted == Spec => []EveryEventAccounted
<1>1. EInv => EveryEventAccounted
  BY DEF EInv
<1> QED
  BY <1>1, Invariance, PTL

\* Until the agent restarts, a snapshot taken now replaces the page's, so a
\* reload is never refused for having come from the past.
THEOREM NeverAhead == Spec => []PageIsNotAhead
<1>1. EInv => PageIsNotAhead
  BY DEF EInv
<1> QED
  BY <1>1, Invariance, PTL
=============================================================================
