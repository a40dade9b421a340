---------------------------- MODULE LossesProofs ----------------------------
(* What can become of an entry that is not too old, whatever fails, dies or   *)
(* comes back: the only steps in which a settled client loses a message.      *)
EXTENDS DeliveryProofs

\* What is assumed: streams, those of dead pods too, are trimmed no earlier than
\* messages are too old, as the defaults of config.go have it.
OldTrims ==
  /\ Retention > 0 => MaxPending <= Retention
  /\ MaxPending <= DeadRetention

\* A client has a row unless it is off.
Rows == \A i \in Clients : sess[i] = "off" <=> row[i] = NoPod

\* Streams are in the order of time, so that trimming hits only old entries.
Ordered(q) == \A i, j \in DOMAIN q : i < j => q[i].t <= q[j].t
InTime == \A s \in Pods :
  /\ Ordered(stream[s].unread)
  /\ \A d \in stream[s].pel, e \in Unread(s) : d.t <= e.t
  /\ \A e \in Unread(s) \cup stream[s].pel : e.t <= now
Ghosts == \A s \in Pods : \A e \in stream[s].ghost : Age(e) > MaxPending
Trims == \A p \in Pods :
  /\ trim[p] <= now
  /\ \A e \in Unread(p) \cup stream[p].pel : e.t < trim[p] => Age(e) > MaxPending

\* What a loop found out of the client of its entry is true until the client's
\* session changes.
UnmovedOf(w) ==
  /\ ~wk[w].moved => /\ wk[w].pc = "deliver" => Client(w) \in pool[Pod(w)]
                     /\ wk[w].pc = "relook" => Broken(Client(w), Pod(w))
                     /\ wk[w].pc = "race" => row[Client(w)] = Pod(w)
  /\ wk[w].pc = "xadd" => wk[w].dst \in Pods

Unmoved == \A w \in Loops : wk[w].pc \in Steps => UnmovedOf(w)

----------------------------------------------------------------------------
(* Loops, field by field.                                                   *)

Others(w) == \A v \in Loops \ {w} : wk'[v] = wk[v]

LEMMA GotoFields ==
  ASSUME TypeOK, NEW w \in Loops, NEW where, Goto(w, where)
  PROVE  /\ Others(w) /\ wk'[w].pc = where
         /\ wk'[w].batch = wk[w].batch /\ wk'[w].src = wk[w].src /\ wk'[w].dst = wk[w].dst
         /\ wk'[w].back = wk[w].back /\ wk'[w].ids = wk[w].ids
         /\ wk'[w].kept = wk[w].kept /\ wk'[w].moved = wk[w].moved
BY DEF TypeOK, Worker, Goto, Others

LEMMA StartFields ==
  ASSUME TypeOK, NEW w \in Loops, NEW s, NEW batch, NEW back, StartBatch(w, s, batch, back)
  PROVE  /\ Others(w) /\ wk'[w].pc = "find"
         /\ wk'[w].batch = batch /\ wk'[w].src = s /\ wk'[w].back = back
         /\ wk'[w].kept = wk[w].kept
BY DEF TypeOK, Worker, StartBatch, Others

LEMMA RestFields ==
  ASSUME TypeOK, NEW w \in Loops, wk' = [wk EXCEPT ![w] = Resting]
  PROVE  Others(w) /\ wk'[w].pc = "idle" /\ wk'[w].batch = <<>>
BY DEF TypeOK, Resting, Others

LEMMA StirFields ==
  ASSUME TypeOK, NEW i, Stir(i), NEW w \in Loops
  PROVE  /\ wk'[w].pc = wk[w].pc /\ wk'[w].batch = wk[w].batch /\ wk'[w].src = wk[w].src
         /\ wk'[w].dst = wk[w].dst /\ wk'[w].back = wk[w].back /\ wk'[w].ids = wk[w].ids
         /\ wk'[w].kept = wk[w].kept
         /\ ~wk'[w].moved => ~wk[w].moved /\ (wk[w].batch = <<>> \/ Client(w) # i)
<1> DEFINE b == wk[w].moved \/ (wk[w].batch # <<>> /\ Client(w) = i)
<1>1. wk'[w] = [wk[w] EXCEPT !.moved = b] /\ wk[w] \in Worker
  BY DEF TypeOK, Stir
<1>2. wk'[w].moved = b
  <2> HIDE DEF b
  <2> QED BY <1>1 DEF Worker
<1> HIDE DEF b
<1> QED BY <1>1, <1>2 DEF Worker, b

LEMMA NextFields ==
  ASSUME TypeOK, NEW w \in Loops, wk[w].pc \in Steps, NEW left, NextInBatch(w, left)
  PROVE  /\ Others(w) /\ wk'[w].batch = Tail(wk[w].batch)
         /\ \/ /\ wk'[w].batch = <<>> /\ wk[w].back = "idle" /\ wk'[w].pc = "idle"
            \/ /\ wk'[w].src = wk[w].src /\ wk'[w].back = wk[w].back
               /\ wk'[w].ids = wk[w].ids /\ wk'[w].kept = wk[w].kept \cup left
               /\ wk'[w].pc = IF wk'[w].batch = <<>> THEN wk[w].back ELSE "find"
               /\ wk'[w].batch = <<>> => wk[w].back # "idle"
<1> DEFINE k == [wk[w] EXCEPT !.batch = Tail(@), !.dst = NoPod, !.moved = FALSE,
                              !.kept = @ \cup left]
<1>1. /\ wk \in [Loops -> Worker] /\ k.batch = Tail(wk[w].batch) /\ k.src = wk[w].src
      /\ k.back = wk[w].back /\ k.ids = wk[w].ids /\ k.kept = wk[w].kept \cup left
  BY DEF TypeOK, Worker
<1>2. wk' = [wk EXCEPT ![w] = IF k.batch # <<>> THEN [k EXCEPT !.pc = "find"]
                              ELSE IF k.back = "idle" THEN Resting
                              ELSE [k EXCEPT !.pc = k.back]]
  BY DEF NextInBatch
<1>3. \A where : LET j == [k EXCEPT !.pc = where]
                 IN /\ j.batch = k.batch /\ j.src = k.src /\ j.back = k.back
                    /\ j.ids = k.ids /\ j.kept = k.kept /\ j.pc = where
  BY DEF TypeOK, Worker
<1>4. Resting.pc = "idle" /\ Resting.batch = <<>>
  BY DEF Resting
<1> HIDE DEF k
<1> QED BY <1>1, <1>2, <1>3, <1>4 DEF Others

----------------------------------------------------------------------------
(* Streams.                                                                 *)

LEMMA TrimmedPel ==
  ASSUME NEW st \in Good, NEW cut
  PROVE  /\ Trimmed(st, cut).pel = st.pel
         /\ Trimmed(st, cut).ghost = st.ghost \cup {e \in st.pel : e.t < cut}
<1> DEFINE older == {n \in DOMAIN st.unread : st.unread[n].t < cut}
           old == Cardinality(older)
           new == [st EXCEPT !.unread = SubSeq(@, old + 1, Len(@)),
                             !.ghost = @ \cup {e \in st.pel : e.t < cut},
                             !.acked = IF @ < cut THEN -1 ELSE @]
<1>1. Trimmed(st, cut) = new
  BY DEF Trimmed
<1>2. /\ new.ghost = st.ghost \cup {e \in st.pel : e.t < cut}
      /\ new.pel = st.pel
  <2> HIDE DEF old
  <2> QED BY DEF Good, Stream
<1> HIDE DEF old, new
<1> QED BY <1>1, <1>2

----------------------------------------------------------------------------
(* Clients and pods.                                                        *)

\* The loops touch neither.
LEMMA LoopRest ==
  ASSUME NEW w \in Loops, Loop(w)
  PROVE  UNCHANGED <<up, hb, row, sess, pool, trim, now, pub>>
<1> USE DEF session, redis
<1>1. CASE ProcessMessage(w)
  BY <1>1 DEF ProcessMessage, Find, Deliver, Relook, Lookup, LookupMiss, SourceAlive,
     Republish, Add, Ack
<1>2. CASE DrainDeadPod(w)
  BY <1>2 DEF DrainDeadPod, AcquireLock, DrainGroup, DrainTrim, DrainClaim, DrainRead,
     ListPending, ForceAck, CheckEmpty, DeleteStream, ReleaseLock, DrainCancelled
<1>3. CASE Own(w) \/ \E s \in Pods : FindDeadPod(w, s)
  BY <1>3 DEF Own, CreateGroup, ReadGroup, AutoClaim, FindDeadPod
<1> QED BY <1>1, <1>2, <1>3 DEF Loop

LEMMA StepRows == ASSUME TypeOK, Rows, [Next]_vars PROVE Rows'
<1> USE DEF session, redis
<1>0. NoPod \notin Pods
  BY RouterAssumption
<1>1. CASE \E i \in Clients : Session(i) \/ Disconnect(i) \/ RemoveDeadRow(i)
  BY <1>1 DEF Session, PoolRegister, ReadEnd, RemoveOwnRow, Disconnect, RemoveDeadRow, Rows, TypeOK
<1>2. CASE \E i \in Clients, p \in Pods : AddConnectedClient(i, p) \/ Evicted(i, p)
  BY <1>0, <1>2 DEF AddConnectedClient, Evicted, Rows, TypeOK
<1>3. CASE \E p \in Pods : Die(p)
  <2>1. PICK p \in Pods : Die(p)
    BY <1>3
  <2>2. \A i \in Clients : sess'[i] = (IF row[i] = p THEN "lost" ELSE sess[i]) /\ row'[i] = row[i]
    BY <2>1 DEF Die
  <2> QED BY <1>0, <2>2 DEF Rows
<1>4. CASE UNCHANGED <<row, sess>>
  BY <1>4 DEF Rows
<1>5. CASE \E p \in Pods : \/ Stop(p) \/ Restart(p) \/ HeartbeatExpires(p) \/ Heartbeat(p)
                           \/ LeaseExpires(p) \/ TrimCutoff(p) \/ TrimStream(p)
  BY <1>4, <1>5 DEF Stop, Restart, HeartbeatExpires, Heartbeat, LeaseExpires, TrimCutoff, TrimStream
<1>6. CASE \/ \E p \in Pods, e \in Entry : GrowIdle(p, e)
           \/ \E m \in Msgs : PublishLookup(m) \/ PublishAdd(m)
           \/ Tick \/ UNCHANGED vars
  BY <1>4, <1>6 DEF GrowIdle, PublishLookup, PublishAdd, Tick, vars
<1>7. CASE \E w \in Loops : Loop(w)
  BY <1>4, <1>7, LoopRest
<1> QED BY <1>1, <1>2, <1>3, <1>5, <1>6, <1>7 DEF Next

----------------------------------------------------------------------------
(* processMessage: what it does to the loop.                                *)

SameLoop(w) ==
  /\ wk'[w].batch = wk[w].batch /\ wk'[w].src = wk[w].src /\ wk'[w].back = wk[w].back
  /\ wk'[w].ids = wk[w].ids /\ wk'[w].kept = wk[w].kept
  /\ wk'[w].pc = wk[w].pc \/ (wk[w].pc \in Steps /\ wk'[w].pc \in Steps)

LEMMA MessageMoves ==
  ASSUME TypeOK, NEW w \in Loops, ProcessMessage(w)
  PROVE  /\ wk[w].pc \in Steps /\ UNCHANGED <<hb, lock>>
         /\ \/ Others(w) /\ SameLoop(w) /\ (UNCHANGED stream \/ Add(w))
            \/ LookupMiss(w) /\ UNCHANGED stream /\ NextInBatch(w, {InHand(w).m})
            \/ Ack(w) /\ NextInBatch(w, {})
<1> USE DEF session, redis
<1>1. \A where \in Steps : Goto(w, where) /\ wk[w].pc \in Steps => Others(w) /\ SameLoop(w)
  BY GotoFields DEF SameLoop
<1>2. CASE Find(w)
  BY <1>1, <1>2 DEF Find, Steps
<1>3. CASE Deliver(w)
  BY <1>1, <1>3 DEF Deliver, Steps
<1>4. CASE Relook(w)
  BY <1>1, <1>4 DEF Relook, Steps
<1>5. CASE Lookup(w)
  <2>1. wk[w].pc \in Steps /\ UNCHANGED <<hb, lock, stream>>
    BY <1>5 DEF Lookup, Steps
  <2>2. PICK where \in {"race", "source", "repub"} : Goto(w, where)
    BY <1>5 DEF Lookup
  <2> QED BY <1>1, <2>1, <2>2 DEF Steps
<1>6. CASE LookupMiss(w)
  BY <1>1, <1>6 DEF LookupMiss, Steps
<1>7. ASSUME NEW d, wk' = [wk EXCEPT ![w].pc = "xadd", ![w].dst = d], wk[w].pc \in Steps
      PROVE  Others(w) /\ SameLoop(w)
  <2>1. /\ wk'[w].batch = wk[w].batch /\ wk'[w].src = wk[w].src /\ wk'[w].back = wk[w].back
        /\ wk'[w].ids = wk[w].ids /\ wk'[w].kept = wk[w].kept /\ wk'[w].pc = "xadd"
        /\ Others(w)
    BY <1>7 DEF TypeOK, Worker, Others
  <2> QED BY <1>7, <2>1 DEF SameLoop, Steps
<1>8. CASE SourceAlive(w)
  BY <1>1, <1>7, <1>8 DEF SourceAlive, Steps
<1>9. CASE Republish(w)
  BY <1>1, <1>7, <1>9 DEF Republish, Steps
<1>10. CASE Add(w)
  BY <1>1, <1>10 DEF Add, Steps
<1>11. CASE Ack(w)
  BY <1>11 DEF Ack, Steps
<1> QED BY <1>2, <1>3, <1>4, <1>5, <1>6, <1>8, <1>9, <1>10, <1>11 DEF ProcessMessage

----------------------------------------------------------------------------
(* Time: streams stay in order, and what is trimmed is too old.             *)

\* Nothing comes into a stream, and nothing leaves it unless a loop acknowledges
\* or deletes; it is trimmed; an entry is appended; the first of its entries
\* become pending.
Solid(st, new) ==
  new.unread = st.unread /\ st.pel \ st.ghost \subseteq new.pel \ new.ghost
Drops(s) ==
  \E w \in Loops : wk[w].src = s /\ (Ack(w) \/ ForceAck(w) \/ DeleteStream(w))
Thins(st, new) ==
  /\ new.unread \in {st.unread, <<>>} /\ new.pel \subseteq st.pel /\ new.ghost \subseteq st.ghost
TrimsTo(s, new) ==
  \E cut \in Int : /\ new = Trimmed(stream[s], cut)
                   /\ cut <= now - DeadRetention \/ cut <= trim[s]
Appends(st, new) ==
  /\ new.pel = st.pel /\ new.ghost = st.ghost
  /\ \E e \in Entry : e.t = now /\ new.unread = Append(st.unread, e)
Advances(st, new) ==
  \E n \in 0..Len(st.unread) :
    /\ new.unread = SubSeq(st.unread, n + 1, Len(st.unread)) /\ new.ghost = st.ghost
    /\ new.pel = st.pel \cup Elems(SubSeq(st.unread, 1, n))
Change(s) == \/ /\ Thins(stream[s], stream'[s])
                /\ Solid(stream[s], stream'[s]) \/ Drops(s)
             \/ TrimsTo(s, stream'[s])
             \/ Appends(stream[s], stream'[s]) \/ Advances(stream[s], stream'[s])
Changes == \A s \in Pods : Change(s)

LEMMA SetChanges ==
  ASSUME TypeOK, NEW s, NEW st, stream' = [stream EXCEPT ![s] = st],
         s \in Pods => \/ Thins(stream[s], st) /\ (Solid(stream[s], st) \/ Drops(s))
                       \/ TrimsTo(s, st)
                       \/ Appends(stream[s], st) \/ Advances(stream[s], st)
  PROVE  Changes
<1>1. \A q \in Pods : stream'[q] = stream[q] \/ (q = s /\ stream'[q] = st)
  BY DEF TypeOK
<1>2. \A q \in Pods : Thins(stream[q], stream[q]) /\ Solid(stream[q], stream[q])
  BY DEF Thins, Solid
<1> QED BY <1>1, <1>2 DEF Changes, Change

LEMMA SameChanges == UNCHANGED stream => Changes
BY DEF Changes, Change, Thins, Solid

LEMMA EnsureThins ==
  ASSUME NEW st \in Good PROVE Thins(st, EnsureGroup(st)) /\ Solid(st, EnsureGroup(st))
BY DEF Good, Stream, EnsureGroup, Thins, Solid

LEMMA AckedThins == ASSUME NEW st \in Good, NEW e PROVE Thins(st, Acked(st, e))
BY DEF Good, Stream, Acked, Thins

LEMMA AckedAllThins == ASSUME NEW st \in Good, NEW ids PROVE Thins(st, AckedAll(st, ids))
<1> DEFINE hit  == ids \cap st.pel
           kept == {e.t : e \in hit \ st.ghost}
           top  == CHOOSE t \in kept : \A u \in kept : t >= u
           new  == [st EXCEPT !.pel = @ \ hit, !.idle = @ \ hit, !.ghost = @ \ hit,
                              !.acked = IF kept = {} THEN @ ELSE Later(@, top)]
<1>1. AckedAll(st, ids) = new
  BY DEF AckedAll
<1>2. new.pel = st.pel \ hit /\ new.ghost = st.ghost \ hit /\ new.unread = st.unread
  <2> HIDE DEF hit, kept, top
  <2> QED BY DEF Good, Stream
<1> HIDE DEF kept, top, new
<1> QED BY <1>1, <1>2 DEF Thins

LEMMA EmptyThins == ASSUME NEW st PROVE Thins(st, Empty)
BY DEF Thins, Empty

LEMMA AddChanges ==
  ASSUME TypeOK, NEW s, NEW m \in Msgs, AddTo(s, m) PROVE Changes
<1> DEFINE k == CHOOSE i \in Fresh(m) : \A j \in Fresh(m) : i <= j
           e == [m |-> m, k |-> k, t |-> now]
<1>1. Fresh(m) \in SUBSET Nat /\ Fresh(m) \in SUBSET (1..MaxCopies) /\ Fresh(m) # {}
  BY RouterAssumption, SMTT(30) DEF Fresh, AddTo
<1>2. k \in 1..MaxCopies
  BY <1>1, Least
<1>3. e \in Entry /\ e.t = now
  <2> HIDE DEF k
  <2> QED BY <1>2 DEF Entry, TypeOK
<1>4. stream' = [stream EXCEPT ![s].key = TRUE, ![s].unread = Append(@, e)]
  BY DEF AddTo
<1> HIDE DEF e
<1>5. \A q \in Pods : \/ stream'[q] = stream[q]
                      \/ /\ stream'[q].unread = Append(stream[q].unread, e)
                         /\ stream'[q].pel = stream[q].pel /\ stream'[q].ghost = stream[q].ghost
  BY <1>4 DEF TypeOK, Stream
<1>6. \A q \in Pods : Thins(stream[q], stream[q]) /\ Solid(stream[q], stream[q])
  BY DEF Thins, Solid
<1> QED BY <1>3, <1>5, <1>6 DEF Changes, Change, Appends

LEMMA ReadChanges ==
  ASSUME TypeOK, NEW s \in Pods, stream' = [stream EXCEPT ![s] = Delivered(@, FirstUnread(s))]
  PROVE  Changes
<1> DEFINE q == stream[s].unread
           n == IF Len(q) < ReadCount THEN Len(q) ELSE ReadCount
           st == Delivered(stream[s], FirstUnread(s))
<1>1. q \in Seq(Entry) /\ stream[s] \in Good
  BY Parts DEF Good, Stream
<1>2. Len(q) \in Nat /\ n \in 0..Len(q) /\ FirstUnread(s) = SubSeq(q, 1, n)
  BY <1>1, LenProperties, RouterAssumption DEF FirstUnread
<1>3. Len(FirstUnread(s)) = n
  BY <1>1, <1>2, SubSeqProperties
<1>4. /\ st.unread = SubSeq(q, n + 1, Len(q)) /\ st.ghost = stream[s].ghost
      /\ st.pel = stream[s].pel \cup Elems(SubSeq(q, 1, n))
  <2> HIDE DEF n
  <2> QED BY <1>1, <1>2, <1>3 DEF Delivered, Good, Stream
<1> HIDE DEF n
<1>5. Advances(stream[s], st)
  BY <1>2, <1>4 DEF Advances
<1>6. stream' = [stream EXCEPT ![s] = st]
  OBVIOUS
<1> HIDE DEF st
<1> QED BY <1>5, <1>6, SetChanges

LEMMA IdleChanges ==
  ASSUME TypeOK, NEW s \in Pods, NEW S, stream' = [stream EXCEPT ![s].idle = S] PROVE Changes
<1> DEFINE st == [stream[s] EXCEPT !.idle = S]
<1>1. Thins(stream[s], st) /\ Solid(stream[s], st)
  BY DEF TypeOK, Stream, Thins, Solid
<1>2. stream' = [stream EXCEPT ![s] = st]
  OBVIOUS
<1> HIDE DEF st
<1> QED BY <1>1, <1>2, SetChanges

LEMMA CutRange ==
  ASSUME NEW c \in Int, NEW cut \in Cuts(c) PROVE cut \in Int /\ cut <= c
BY RouterAssumption DEF Cuts

LEMMA LoopChanges == ASSUME TypeOK, NEW w \in Loops, Loop(w) PROVE Changes
<1> USE DEF session, redis
<1> DEFINE s == wk[w].src
<1>0. /\ s \in Pods => stream[s] \in Good
      /\ Pod(w) \in Pods /\ stream[Pod(w)] \in Good
      /\ wk[w].pc # "idle" => s \in Pods
  BY LoopParts, Parts
<1>1. CASE ProcessMessage(w)
  <2>1. CASE UNCHANGED stream
    BY <2>1, SameChanges
  <2>2. CASE Add(w)
    <3>1. wk[w].pc \in Steps
      BY <2>2 DEF Add, Steps
    <3>2. InHand(w).m \in Msgs
      BY <3>1, LoopParts
    <3> QED BY <2>2, <3>2, AddChanges, SameChanges DEF Add
  <2>3. CASE Ack(w)
    <3>1. CASE UNCHANGED stream
      BY <3>1, SameChanges
    <3>2. CASE stream' = [stream EXCEPT ![s] = Acked(@, InHand(w))]
      <4>1. s \in Pods => Thins(stream[s], Acked(stream[s], InHand(w)))
        BY <1>0, AckedThins
      <4>2. Drops(s)
        BY <2>3 DEF Drops
      <4> QED BY <3>2, <4>1, <4>2, SetChanges
    <3> QED BY <2>3, <3>1, <3>2 DEF Ack
  <2> QED BY <1>1, <2>1, <2>2, <2>3, MessageMoves
<1>2. CASE DrainDeadPod(w)
  <2>1. CASE UNCHANGED stream
    BY <2>1, SameChanges
  <2>2. CASE stream' = [stream EXCEPT ![s] = EnsureGroup(stream[s])]
    BY <1>0, <2>2, EnsureThins, SetChanges
  <2>3. ASSUME NEW cut \in Cuts(now - DeadRetention), stream' = [stream EXCEPT ![s] = Trimmed(stream[s], cut)]
        PROVE  Changes
    <3>1. now - DeadRetention \in Int
      BY RouterAssumption DEF TypeOK
    <3>2. TrimsTo(s, Trimmed(stream[s], cut))
      BY <3>1, CutRange DEF TrimsTo
    <3> QED BY <2>3, <3>2, SetChanges
  <2>4. ASSUME NEW e, s \in Pods, stream' = [stream EXCEPT ![s].idle = @ \ {e}] PROVE Changes
    BY <2>4, IdleChanges
  <2>5. CASE s \in Pods /\ stream' = [stream EXCEPT ![s] = Delivered(@, FirstUnread(s))]
    BY <2>5, ReadChanges
  <2>6. CASE ForceAck(w) /\ stream' = [stream EXCEPT ![s] = AckedAll(stream[s], wk[w].ids)]
    <3>1. Drops(s)
      BY <2>6 DEF Drops
    <3> QED BY <1>0, <2>6, <3>1, AckedAllThins, SetChanges
  <2>7. CASE DeleteStream(w) /\ stream' = [stream EXCEPT ![s] = Empty]
    <3>1. Drops(s)
      BY <2>7 DEF Drops
    <3> QED BY <2>7, <3>1, EmptyThins, SetChanges
  <2>8. CASE AcquireLock(w) \/ DrainGroup(w) \/ DrainTrim(w)
    BY <2>1, <2>2, <2>3, <2>8 DEF AcquireLock, DrainGroup, DrainTrim, SetStream
  <2>9. CASE DrainClaim(w) \/ DrainRead(w)
    <3>1. s \in Pods
      BY <1>0, <2>9 DEF DrainClaim, DrainRead, At
    <3> QED BY <2>1, <2>4, <2>5, <2>9, <3>1 DEF DrainClaim, DrainRead
  <2>10. CASE \/ ListPending(w) \/ ForceAck(w) \/ CheckEmpty(w) \/ DeleteStream(w)
              \/ ReleaseLock(w) \/ DrainCancelled(w)
    BY <2>1, <2>6, <2>7, <2>10
       DEF ListPending, ForceAck, CheckEmpty, DeleteStream, ReleaseLock, DrainCancelled, SetStream
  <2> QED BY <1>2, <2>8, <2>9, <2>10 DEF DrainDeadPod
<1>3. CASE Own(w)
  <2>1. CASE CreateGroup(w)
    BY <1>0, <2>1, EnsureThins, SetChanges DEF CreateGroup
  <2>2. CASE ReadGroup(w)
    BY <1>0, <2>2, ReadChanges DEF ReadGroup
  <2>3. CASE AutoClaim(w)
    BY <1>0, <2>3, IdleChanges DEF AutoClaim
  <2> QED BY <1>3, <2>1, <2>2, <2>3 DEF Own
<1>4. CASE \E q \in Pods : FindDeadPod(w, q)
  BY <1>4, SameChanges DEF FindDeadPod
<1> QED BY <1>1, <1>2, <1>3, <1>4 DEF Loop

LEMMA StepChanges == ASSUME TypeOK, [Next]_vars PROVE Changes
<1> USE DEF session, redis
<1>1. CASE UNCHANGED stream
  BY <1>1, SameChanges
<1>2. CASE \E p \in Pods : TrimStream(p)
  <2>1. PICK p \in Pods : TrimStream(p)
    BY <1>2
  <2>2. PICK cut \in Cuts(trim[p]) : stream' = [stream EXCEPT ![p] = Trimmed(stream[p], cut)]
    BY <2>1 DEF TrimStream
  <2>3. trim[p] \in Int
    BY RouterAssumption DEF TypeOK
  <2>4. TrimsTo(p, Trimmed(stream[p], cut))
    BY <2>3, CutRange DEF TrimsTo
  <2> QED BY <2>2, <2>4, SetChanges
<1>3. CASE \E p \in Pods, e \in Entry : GrowIdle(p, e)
  BY <1>3, IdleChanges DEF GrowIdle
<1>4. CASE \E m \in Msgs : PublishAdd(m)
  BY <1>4, AddChanges DEF PublishAdd
<1>5. CASE \E w \in Loops : Loop(w)
  BY <1>5, LoopChanges
<1>6. CASE \E i \in Clients : Session(i) \/ Disconnect(i) \/ RemoveDeadRow(i)
  BY <1>1, <1>6 DEF Session, PoolRegister, ReadEnd, RemoveOwnRow, Disconnect, RemoveDeadRow
<1>7. CASE \E i \in Clients, p \in Pods : AddConnectedClient(i, p) \/ Evicted(i, p)
  BY <1>1, <1>7 DEF AddConnectedClient, Evicted
<1>8. CASE \/ \E p \in Pods : \/ Stop(p) \/ Die(p) \/ Restart(p) \/ HeartbeatExpires(p)
                              \/ Heartbeat(p) \/ LeaseExpires(p) \/ TrimCutoff(p)
           \/ \E m \in Msgs : PublishLookup(m)
           \/ Tick \/ UNCHANGED vars
  BY <1>1, <1>8 DEF Stop, Die, Restart, HeartbeatExpires, Heartbeat, LeaseExpires, TrimCutoff,
     PublishLookup, Tick, vars
<1> QED BY <1>2, <1>3, <1>4, <1>5, <1>6, <1>7, <1>8 DEF Next

LEMMA EntryTimes == \A e \in Entry : e.t \in Nat /\ e.t <= MaxTime
BY RouterAssumption DEF Entry

LEMMA PartIndex ==
  ASSUME NEW S, NEW q \in Seq(S), NEW n \in Nat
  PROVE  /\ DOMAIN SubSeq(q, n + 1, Len(q)) = 1..(Len(q) - n)
         /\ \A i \in 1..(Len(q) - n) : SubSeq(q, n + 1, Len(q))[i] = q[n + i]
BY LenProperties

\* A trimmed stream loses a first part of what is unread ...
LEMMA TrimmedParts ==
  ASSUME NEW st \in Good, NEW cut
  PROVE  \E n \in Nat :
           /\ Trimmed(st, cut).unread = SubSeq(st.unread, n + 1, Len(st.unread))
           /\ n = Cardinality({j \in DOMAIN st.unread : st.unread[j].t < cut})
<1> DEFINE older == {n \in DOMAIN st.unread : st.unread[n].t < cut}
           old == Cardinality(older)
           new == [st EXCEPT !.unread = SubSeq(@, old + 1, Len(@)),
                             !.ghost = @ \cup {e \in st.pel : e.t < cut},
                             !.acked = IF @ < cut THEN -1 ELSE @]
<1>1. Trimmed(st, cut) = new
  BY DEF Trimmed
<1>2. new.unread = SubSeq(st.unread, old + 1, Len(st.unread))
  <2> HIDE DEF old
  <2> QED BY DEF Good, Stream
<1>3. DOMAIN st.unread = 1..Len(st.unread) /\ Len(st.unread) \in Nat
  BY LenProperties DEF Good, Stream
<1>4. old \in Nat
  <2>1. IsFiniteSet(1..Len(st.unread))
    BY <1>3, FS_Interval
  <2> QED BY <1>3, <2>1, FS_Subset, FS_CardinalityType
<1> HIDE DEF new
<1> QED BY <1>1, <1>2, <1>4

\* ... which is what is older than the cut, when it is in order.
LEMMA TrimmedOld ==
  ASSUME NEW st \in Good, NEW cut \in Int, Ordered(st.unread)
  PROVE  \A e \in Elems(st.unread) : e \in Elems(Trimmed(st, cut).unread) \/ e.t < cut
<1> DEFINE q == st.unread
           older == {j \in DOMAIN q : q[j].t < cut}
<1>1. PICK n \in Nat : /\ Trimmed(st, cut).unread = SubSeq(q, n + 1, Len(q))
                       /\ n = Cardinality(older)
  BY TrimmedParts
<1>2. /\ DOMAIN q = 1..Len(q) /\ Len(q) \in Nat /\ q \in Seq(Entry)
      /\ \A j \in DOMAIN q : q[j].t \in Int
  <2>1. DOMAIN q = 1..Len(q) /\ Len(q) \in Nat /\ q \in Seq(Entry)
    BY LenProperties DEF Good, Stream
  <2>2. \A j \in DOMAIN q : q[j] \in Entry
    BY <2>1, ElementOfSeq
  <2> QED BY <2>1, <2>2, EntryTimes
<1> SUFFICES ASSUME NEW j \in DOMAIN q, ~(q[j].t < cut)
             PROVE  q[j] \in Elems(SubSeq(q, n + 1, Len(q)))
  BY <1>1, ZenonT(40) DEF Elems
<1>3. older \subseteq 1..(j - 1)
  <2> SUFFICES ASSUME NEW i \in DOMAIN q, q[i].t < cut PROVE i \in 1..(j - 1)
    OBVIOUS
  <2>1. ~(j < i) /\ i # j
    <3>1. j < i => q[j].t <= q[i].t
      BY DEF Ordered
    <3> QED BY <1>2, <3>1
  <2> QED BY <1>2, <2>1
<1>4. n <= j - 1
  <2>1. j - 1 \in Nat /\ j - 1 \in Int /\ 1 \in Int
    BY <1>2
  <2>2. IsFiniteSet(1..(j - 1)) /\ Cardinality(1..(j - 1)) = j - 1
    BY <2>1, FS_Interval
  <2> QED BY <1>1, <1>3, <2>2, FS_Subset
<1>5. j - n \in 1..(Len(q) - n) /\ n + (j - n) = j
  BY <1>1, <1>2, <1>4, SMTT(30)
<1>6. /\ DOMAIN SubSeq(q, n + 1, Len(q)) = 1..(Len(q) - n)
      /\ \A i \in 1..(Len(q) - n) : SubSeq(q, n + 1, Len(q))[i] = q[n + i]
  <2> HIDE DEF q
  <2> QED BY <1>1, <1>2, PartIndex
<1> HIDE DEF q
<1> QED BY <1>5, <1>6 DEF Elems

LEMMA PartOrdered ==
  ASSUME NEW S, NEW q \in Seq(S), Ordered(q), NEW n \in Nat
  PROVE  Ordered(SubSeq(q, n + 1, Len(q)))
<1>1. /\ DOMAIN q = 1..Len(q) /\ Len(q) \in Nat
      /\ DOMAIN SubSeq(q, n + 1, Len(q)) = 1..(Len(q) - n)
      /\ \A i \in 1..(Len(q) - n) : SubSeq(q, n + 1, Len(q))[i] = q[n + i]
  BY LenProperties
<1> SUFFICES ASSUME NEW i \in 1..(Len(q) - n), NEW j \in 1..(Len(q) - n), i < j
             PROVE  q[n + i].t <= q[n + j].t
  BY <1>1 DEF Ordered
<1>2. n + i \in DOMAIN q /\ n + j \in DOMAIN q /\ n + i < n + j
  BY <1>1
<1> QED BY <1>2 DEF Ordered

LEMMA PartElems ==
  ASSUME NEW S, NEW q \in Seq(S), NEW n \in Nat
  PROVE  Elems(SubSeq(q, n + 1, Len(q))) \subseteq Elems(q)
BY PartOf, LenProperties

\* In order, what is read comes before what is left.
LEMMA FirstOlder ==
  ASSUME NEW S, NEW q \in Seq(S), Ordered(q), NEW n \in 0..Len(q)
  PROVE  \A d \in Elems(SubSeq(q, 1, n)), e \in Elems(SubSeq(q, n + 1, Len(q))) : d.t <= e.t
<1>1. Len(q) \in Nat /\ DOMAIN q = 1..Len(q)
  BY LenProperties
<1> SUFFICES ASSUME NEW i \in DOMAIN SubSeq(q, 1, n), NEW j \in DOMAIN SubSeq(q, n + 1, Len(q))
             PROVE  SubSeq(q, 1, n)[i].t <= SubSeq(q, n + 1, Len(q))[j].t
  BY DEF Elems
<1>2. i \in 1..n /\ SubSeq(q, 1, n)[i] = q[i]
  BY <1>1
<1>3. j \in 1..(Len(q) - n) /\ SubSeq(q, n + 1, Len(q))[j] = q[n + j]
  BY <1>1
<1>4. i \in DOMAIN q /\ n + j \in DOMAIN q /\ i < n + j
  BY <1>1, <1>2, <1>3
<1> QED BY <1>2, <1>3, <1>4 DEF Ordered

LEMMA MoreOrdered ==
  ASSUME NEW S, NEW q \in Seq(S), Ordered(q), NEW e, \A d \in Elems(q) : d.t <= e.t
  PROVE  Ordered(Append(q, e))
<1>1. /\ Len(q) \in Nat /\ DOMAIN q = 1..Len(q) /\ DOMAIN Append(q, e) = 1..(Len(q) + 1)
      /\ Append(q, e)[Len(q) + 1] = e /\ \A i \in 1..Len(q) : Append(q, e)[i] = q[i]
  BY LenProperties
<1> SUFFICES ASSUME NEW i \in 1..(Len(q) + 1), NEW j \in 1..(Len(q) + 1), i < j
             PROVE  Append(q, e)[i].t <= Append(q, e)[j].t
  BY <1>1 DEF Ordered
<1>2. i \in DOMAIN q /\ Append(q, e)[i] = q[i]
  BY <1>1
<1>3. CASE j = Len(q) + 1
  BY <1>1, <1>2, <1>3 DEF Elems
<1>4. CASE j # Len(q) + 1
  BY <1>1, <1>2, <1>4 DEF Ordered
<1> QED BY <1>3, <1>4

\* What a change brings and where it comes from.
LEMMA ChangeParts ==
  ASSUME TypeOK, NEW s \in Pods, Change(s)
  PROVE  /\ \A e \in Unread(s)' : e \in Unread(s) \/ (e \in Entry /\ e.t = now)
         /\ \A e \in stream'[s].pel : e \in Unread(s) \cup stream[s].pel
         /\ \A e \in stream'[s].ghost :
              \/ e \in stream[s].ghost
              \/ /\ e \in stream[s].pel
                 /\ \E cut \in Int : /\ e.t < cut
                                     /\ cut <= now - DeadRetention \/ cut <= trim[s]
<1>1. stream[s] \in Good /\ stream[s].unread \in Seq(Entry) /\ Len(stream[s].unread) \in Nat
  BY Parts, LenProperties DEF Good, Stream
<1>2. CASE Thins(stream[s], stream'[s])
  BY <1>2, Nothing DEF Thins, Unread
<1>3. CASE TrimsTo(s, stream'[s])
  <2>1. PICK cut \in Int : /\ stream'[s] = Trimmed(stream[s], cut)
                           /\ cut <= now - DeadRetention \/ cut <= trim[s]
    BY <1>3 DEF TrimsTo
  <2>2. Elems(stream'[s].unread) \subseteq Elems(stream[s].unread)
    BY <1>1, <2>1, TrimmedShrinks DEF Shrinks
  <2>3. /\ stream'[s].pel = stream[s].pel
        /\ stream'[s].ghost = stream[s].ghost \cup {e \in stream[s].pel : e.t < cut}
    BY <1>1, <2>1, TrimmedPel
  <2> QED BY <2>1, <2>2, <2>3 DEF Unread
<1>4. CASE Appends(stream[s], stream'[s])
  BY <1>1, <1>4, Longer DEF Appends, Unread
<1>5. CASE Advances(stream[s], stream'[s])
  <2>1. PICK n \in 0..Len(stream[s].unread) :
          /\ stream'[s].unread = SubSeq(stream[s].unread, n + 1, Len(stream[s].unread))
          /\ stream'[s].ghost = stream[s].ghost
          /\ stream'[s].pel = stream[s].pel \cup Elems(SubSeq(stream[s].unread, 1, n))
    BY <1>5 DEF Advances
  <2>2. n \in Nat /\ n <= Len(stream[s].unread) /\ 1 \in Nat /\ 1 >= 1
    BY <1>1
  <2>3. /\ Elems(SubSeq(stream[s].unread, 1, n)) \subseteq Elems(stream[s].unread)
        /\ Elems(SubSeq(stream[s].unread, n + 1, Len(stream[s].unread))) \subseteq Elems(stream[s].unread)
    BY <1>1, <2>2, PartOf, PartElems
  <2> QED BY <2>1, <2>3 DEF Unread
<1> QED BY <1>2, <1>3, <1>4, <1>5 DEF Change

\* Time goes on, and the trim loop computes its cutoff from the stream.
LEMMA StepClock ==
  ASSUME TypeOK, [Next]_vars
  PROVE  /\ now' >= now
         /\ \A p \in Pods : trim'[p] \in {trim[p], -1} \/ TrimCutoff(p)
<1> USE DEF session, redis
<1>0. now \in Int
  BY RouterAssumption DEF TypeOK
<1>1. CASE UNCHANGED <<now, trim>>
  BY <1>0, <1>1
<1>2. CASE Tick
  BY <1>0, <1>2 DEF Tick
<1>3. CASE \E p \in Pods : Die(p) \/ TrimStream(p) \/ TrimCutoff(p)
  BY <1>0, <1>3 DEF Die, TrimStream, TrimCutoff, TypeOK
<1>4. CASE \E w \in Loops : Loop(w)
  BY <1>1, <1>4, LoopRest
<1>5. CASE \E i \in Clients : Session(i) \/ Disconnect(i) \/ RemoveDeadRow(i)
  BY <1>1, <1>5 DEF Session, PoolRegister, ReadEnd, RemoveOwnRow, Disconnect, RemoveDeadRow
<1>6. CASE \E i \in Clients, p \in Pods : AddConnectedClient(i, p) \/ Evicted(i, p)
  BY <1>1, <1>6 DEF AddConnectedClient, Evicted
<1>7. CASE \/ \E p \in Pods : \/ Stop(p) \/ Restart(p) \/ HeartbeatExpires(p)
                              \/ Heartbeat(p) \/ LeaseExpires(p)
           \/ \E p \in Pods, e \in Entry : GrowIdle(p, e)
           \/ \E m \in Msgs : PublishLookup(m) \/ PublishAdd(m)
           \/ UNCHANGED vars
  BY <1>1, <1>7 DEF Stop, Restart, HeartbeatExpires, Heartbeat, LeaseExpires, GrowIdle,
     PublishLookup, PublishAdd, vars
<1> QED BY <1>2, <1>3, <1>4, <1>5, <1>6, <1>7 DEF Next

LEMMA OrderStays ==
  ASSUME TypeOK, InTime, NEW s \in Pods, Change(s)
  PROVE  /\ Ordered(stream'[s].unread)
         /\ \A d \in stream'[s].pel, e \in Unread(s)' : d.t <= e.t
<1>1. /\ stream[s] \in Good /\ stream[s].unread \in Seq(Entry) /\ Len(stream[s].unread) \in Nat
      /\ Unread(s) \subseteq Entry /\ stream[s].pel \subseteq Entry
  BY Parts, LenProperties, EntriesOfSeq DEF Good, Stream, Unread
<1>2. /\ Ordered(stream[s].unread)
      /\ \A d \in stream[s].pel, e \in Unread(s) : d.t <= e.t
      /\ \A e \in Unread(s) \cup stream[s].pel : e.t <= now
  BY DEF InTime
<1>3. CASE Thins(stream[s], stream'[s])
  <2>1. Ordered(<<>>)
    BY DEF Ordered
  <2> QED BY <1>2, <1>3, <2>1, Nothing DEF Thins, Unread
<1>4. CASE TrimsTo(s, stream'[s])
  <2>1. PICK cut \in Int : stream'[s] = Trimmed(stream[s], cut)
    BY <1>4 DEF TrimsTo
  <2>2. PICK n \in Nat : stream'[s].unread = SubSeq(stream[s].unread, n + 1, Len(stream[s].unread))
    <3>1. \E n \in Nat : Trimmed(stream[s], cut).unread = SubSeq(stream[s].unread, n + 1, Len(stream[s].unread))
      BY <1>1, TrimmedParts
    <3> QED BY <2>1, <3>1
  <2>3. Ordered(stream'[s].unread) /\ Unread(s)' \subseteq Unread(s)
    BY <1>1, <1>2, <2>2, PartOrdered, PartElems DEF Unread
  <2>4. stream'[s].pel = stream[s].pel
    BY <1>1, <2>1, TrimmedPel
  <2> QED BY <1>2, <2>3, <2>4
<1>5. CASE Appends(stream[s], stream'[s])
  <2>1. PICK e \in Entry : /\ stream'[s].pel = stream[s].pel /\ e.t = now
                           /\ stream'[s].unread = Append(stream[s].unread, e)
    BY <1>5 DEF Appends
  <2>2. Unread(s)' = Unread(s) \cup {e}
    BY <1>1, <2>1, Longer DEF Unread
  <2>3. Ordered(stream'[s].unread)
    <3>1. \A d \in Elems(stream[s].unread) : d.t <= e.t
      BY <1>2, <2>1 DEF Unread
    <3> QED BY <1>1, <1>2, <2>1, <3>1, MoreOrdered
  <2> QED BY <1>2, <2>1, <2>2, <2>3
<1>6. CASE Advances(stream[s], stream'[s])
  <2> DEFINE q == stream[s].unread
  <2>1. PICK n \in 0..Len(q) :
          /\ stream'[s].unread = SubSeq(q, n + 1, Len(q))
          /\ stream'[s].pel = stream[s].pel \cup Elems(SubSeq(q, 1, n))
    BY <1>6 DEF Advances
  <2>2. n \in Nat
    BY <1>1
  <2>3. Ordered(stream'[s].unread) /\ Unread(s)' \subseteq Unread(s)
    BY <1>1, <1>2, <2>1, <2>2, PartOrdered, PartElems DEF Unread
  <2>4. \A d \in Elems(SubSeq(q, 1, n)), e \in Unread(s)' : d.t <= e.t
    BY <1>1, <1>2, <2>1, FirstOlder DEF Unread
  <2> QED BY <1>2, <2>1, <2>3, <2>4
<1> QED BY <1>3, <1>4, <1>5, <1>6 DEF Change

LEMMA TimeStays ==
  ASSUME TypeOK, TypeOK', OldTrims, InTime, Ghosts, Trims, [Next]_vars
  PROVE  InTime' /\ Ghosts' /\ Trims'
<1>1. Changes /\ now' >= now /\ \A p \in Pods : trim'[p] \in {trim[p], -1} \/ TrimCutoff(p)
  BY StepChanges, StepClock
<1>2. /\ now \in Nat /\ now' \in Nat /\ MaxPending \in Nat /\ DeadRetention \in Nat
      /\ Retention \in Nat
      /\ \A p \in Pods : trim[p] \in Int /\ trim'[p] \in Int /\ trim[p] <= now
  BY RouterAssumption DEF TypeOK, Trims
<1>3. \A s \in Pods : /\ Unread(s) \cup stream[s].pel \subseteq Entry
                      /\ Unread(s)' \cup stream'[s].pel \subseteq Entry
                      /\ stream'[s].ghost \subseteq stream'[s].pel
  <2>1. \A s \in Pods : stream[s] \in Good /\ stream'[s] \in Good
    BY Parts DEF TypeOK, Good
  <2>2. \A st \in Good : Elems(st.unread) \cup st.pel \subseteq Entry /\ st.ghost \subseteq st.pel
    BY EntriesOfSeq DEF Good, Stream
  <2> QED BY <2>1, <2>2 DEF Unread
<1>4. \A e \in Entry : Age(e) > MaxPending => Age(e)' > MaxPending
  BY <1>1, <1>2, EntryTimes DEF Age
<1>5. ASSUME NEW s \in Pods
      PROVE  /\ \A e \in Unread(s)' : e \in Unread(s) \/ (e \in Entry /\ e.t = now)
             /\ \A e \in stream'[s].pel : e \in Unread(s) \cup stream[s].pel
             /\ \A e \in stream'[s].ghost :
                  \/ e \in stream[s].ghost
                  \/ /\ e \in stream[s].pel
                     /\ \E cut \in Int : /\ e.t < cut
                                         /\ cut <= now - DeadRetention \/ cut <= trim[s]
             /\ Ordered(stream'[s].unread)
             /\ \A d \in stream'[s].pel, e \in Unread(s)' : d.t <= e.t
  <2>1. Change(s)
    BY <1>1 DEF Changes
  <2> QED BY <2>1, ChangeParts, OrderStays
<1>6. InTime'
  <2>1. ASSUME NEW s \in Pods, NEW e \in Unread(s)' \cup stream'[s].pel PROVE e.t <= now'
    <3>1. e \in Entry /\ e.t \in Nat
      BY <1>3, EntryTimes
    <3>2. e.t <= now
      BY <1>2, <1>5 DEF InTime
    <3> QED BY <1>1, <1>2, <3>1, <3>2
  <2> QED BY <1>5, <2>1 DEF InTime
<1>7. Ghosts'
  <2> SUFFICES ASSUME NEW s \in Pods, NEW e \in stream'[s].ghost PROVE Age(e)' > MaxPending
    BY DEF Ghosts, Age
  <2>1. e \in Entry /\ e.t \in Nat
    BY <1>3, EntryTimes
  <2>2. CASE e \in stream[s].ghost
    BY <1>4, <2>1, <2>2 DEF Ghosts
  <2>3. ASSUME NEW cut \in Int, e \in stream[s].pel, e.t < cut,
               cut <= now - DeadRetention \/ cut <= trim[s]
        PROVE  Age(e)' > MaxPending
    <3>1. CASE cut <= now - DeadRetention
      <4>1. Age(e) > MaxPending
        BY <1>2, <2>1, <2>3, <3>1 DEF Age, OldTrims
      <4> QED BY <1>4, <2>1, <4>1
    <3>2. CASE cut <= trim[s]
      <4>1. e.t < trim[s]
        BY <1>2, <2>1, <2>3, <3>2
      <4>2. Age(e) > MaxPending
        BY <2>3, <4>1 DEF Trims
      <4> QED BY <1>4, <2>1, <4>2
    <3> QED BY <2>3, <3>1, <3>2
  <2> QED BY <1>5, <2>2, <2>3
<1>8. Trims'
  <2> SUFFICES ASSUME NEW s \in Pods
               PROVE  /\ trim'[s] <= now'
                      /\ \A e \in Unread(s)' \cup stream'[s].pel : e.t < trim'[s] => Age(e)' > MaxPending
    BY DEF Trims, Age
  <2>1. CASE trim'[s] = trim[s]
    <3>1. trim'[s] <= now'
      BY <1>1, <1>2, <2>1
    <3>2. ASSUME NEW e \in Unread(s)' \cup stream'[s].pel, e.t < trim'[s] PROVE Age(e)' > MaxPending
      <4>1. e \in Entry /\ e.t \in Nat
        BY <1>3, EntryTimes
      <4>2. e.t # now
        BY <1>2, <2>1, <3>2, <4>1
      <4>3. e \in Unread(s) \cup stream[s].pel
        BY <1>5, <4>2
      <4>4. Age(e) > MaxPending
        BY <2>1, <3>2, <4>3 DEF Trims
      <4> QED BY <1>4, <4>1, <4>4
    <3> QED BY <3>1, <3>2
  <2>2. CASE trim'[s] = -1
    <3>1. \A e \in Unread(s)' \cup stream'[s].pel : ~(e.t < -1)
      BY <1>3, EntryTimes
    <3> QED BY <1>2, <2>2, <3>1
  <2>3. CASE TrimCutoff(s)
    <3> DEFINE cut == Later(0, now - Retention)
               times == {e.t : e \in stream[s].pel}
    <3>1. /\ UNCHANGED <<stream, now>> /\ Retention > 0
          /\ trim'[s] = IF stream[s].pel = {} THEN cut
                        ELSE Later(cut, OldestPending(stream[s]))
      BY <2>3 DEF TrimCutoff, redis, TypeOK
    <3>2. cut \in Int /\ cut <= now /\ \A t \in Nat : t < cut => t < now - Retention
      BY <1>2 DEF Later
    <3> HIDE DEF cut
    <3>3. ASSUME stream[s].pel # {}
          PROVE  /\ OldestPending(stream[s]) \in times
                 /\ \A e \in stream[s].pel : OldestPending(stream[s]) <= e.t
      <4>1. times \in SUBSET Nat /\ times # {}
        <5>1. \A e \in stream[s].pel : e.t \in Nat
          BY <1>3, EntryTimes
        <5> QED BY <3>3, <5>1
      <4>2. PICK t \in times : \A u \in times : t <= u
        <5> HIDE DEF times
        <5> QED BY <4>1, Least
      <4>3. t \in times /\ \A e \in stream[s].pel : t <= e.t
        BY <4>2
      <4>4. OldestPending(stream[s]) = CHOOSE x \in times : \A e \in stream[s].pel : x <= e.t
        BY DEF OldestPending
      <4> HIDE DEF times
      <4> QED BY <4>3, <4>4
    <3>4. ASSUME NEW e \in Unread(s) \cup stream[s].pel, e.t < cut PROVE Age(e)' > MaxPending
      <4>1. e \in Entry /\ e.t \in Nat
        BY <1>3, EntryTimes
      <4>2. e.t < now - Retention /\ MaxPending <= Retention
        BY <3>1, <3>2, <3>4, <4>1 DEF OldTrims
      <4>3. Age(e) > MaxPending
        BY <1>2, <4>1, <4>2 DEF Age
      <4> QED BY <1>4, <4>1, <4>3
    <3>5. Unread(s)' = Unread(s) /\ stream'[s].pel = stream[s].pel
      BY <3>1 DEF Unread
    <3>6. CASE stream[s].pel = {}
      BY <3>1, <3>2, <3>4, <3>5, <3>6
    <3>7. CASE stream[s].pel # {}
      <4>1. PICK d \in stream[s].pel : OldestPending(stream[s]) = d.t
        BY <3>3, <3>7
      <4>2. d.t \in Nat /\ d.t <= now
        BY <1>3, EntryTimes DEF InTime
      <4>3. trim'[s] = Later(cut, d.t)
        BY <3>1, <3>7, <4>1
      <4>4. trim'[s] <= now'
        BY <1>2, <3>1, <3>2, <4>2, <4>3 DEF Later
      <4>5. ASSUME NEW e \in Unread(s) \cup stream[s].pel, e.t < trim'[s] PROVE e.t < cut
        <5>1. e.t \in Nat /\ d.t <= e.t
          <6>1. e.t \in Nat
            BY <1>3, EntryTimes
          <6>2. e \in stream[s].pel => d.t <= e.t
            BY <3>3, <3>7, <4>1
          <6>3. e \in Unread(s) => d.t <= e.t
            BY DEF InTime
          <6> QED BY <6>1, <6>2, <6>3
        <5> QED BY <3>2, <4>2, <4>3, <4>5, <5>1 DEF Later
      <4> QED BY <3>4, <3>5, <4>4, <4>5
    <3> QED BY <3>6, <3>7
  <2> QED BY <1>1, <2>1, <2>2, <2>3
<1> QED BY <1>6, <1>7, <1>8

----------------------------------------------------------------------------
(* What a loop knows of the client of its entry.                            *)

\* The loop is where it was, and its client too unless it is noted.
LEMMA SameUnmoved ==
  ASSUME Unmoved, NEW w \in Loops,
         wk'[w].pc \in Steps =>
           /\ wk'[w].pc = wk[w].pc /\ wk'[w].batch = wk[w].batch /\ wk'[w].dst = wk[w].dst
           /\ ~wk'[w].moved =>
                /\ ~wk[w].moved
                /\ row'[Client(w)] = row[Client(w)]
                /\ sess'[Client(w)] = "on" => sess[Client(w)] = "on"
                /\ Client(w) \in pool[Pod(w)] => Client(w) \in pool'[Pod(w)]
  PROVE  wk'[w].pc \in Steps => UnmovedOf(w)'
<1> SUFFICES ASSUME wk'[w].pc \in Steps PROVE UnmovedOf(w)'
  OBVIOUS
<1>1. UnmovedOf(w) /\ Client(w)' = Client(w)
  BY DEF Unmoved, Client, InHand
<1>2. ~wk'[w].moved => (Broken(Client(w), Pod(w)) => Broken(Client(w), Pod(w))')
  BY <1>1 DEF Broken, Pod
<1> QED BY <1>1, <1>2 DEF UnmovedOf, Pod, Broken

LEMMA StirUnmoved ==
  ASSUME TypeOK, Unmoved, NEW i \in Clients, Stir(i),
         \A j \in Clients \ {i} :
           /\ row'[j] = row[j] /\ sess'[j] = sess[j]
           /\ \A p \in Pods : j \in pool[p] => j \in pool'[p]
  PROVE  Unmoved'
<1> SUFFICES ASSUME NEW w \in Loops PROVE wk'[w].pc \in Steps => UnmovedOf(w)'
  BY DEF Unmoved
<1>1. /\ wk'[w].pc = wk[w].pc /\ wk'[w].batch = wk[w].batch /\ wk'[w].dst = wk[w].dst
      /\ ~wk'[w].moved => ~wk[w].moved /\ (wk[w].batch = <<>> \/ Client(w) # i)
  BY StirFields
<1>2. wk[w].pc \in Steps => wk[w].batch # <<>> /\ Client(w) \in Clients
  BY LoopParts
<1>3. Pod(w) \in Pods
  BY LoopParts
<1> QED BY <1>1, <1>2, <1>3, SameUnmoved

LEMMA MessageUnmoved ==
  ASSUME TypeOK, Unmoved, NEW w \in Loops, ProcessMessage(w), wk'[w].pc \in Steps
  PROVE  UnmovedOf(w)'
<1> USE DEF session, redis
<1>0. /\ wk[w].pc \in Steps /\ UNCHANGED <<row, sess, pool>> /\ UnmovedOf(w)
      /\ Pod(w) \in Pods /\ Client(w) \in Clients
  BY MessageMoves, LoopRest, LoopParts DEF Loop, Unmoved
<1>1. \A where : Goto(w, where) =>
        /\ wk'[w].pc = where /\ wk'[w].moved = wk[w].moved
        /\ Client(w)' = Client(w)
  BY GotoFields DEF Client, InHand
<1>2. CASE wk'[w].pc \in {"find", "lookup", "repub", "ack"}
  BY <1>2 DEF UnmovedOf
<1>3. CASE Find(w)
  <2>1. CASE wk'[w].pc = "deliver"
    <3>1. Client(w) \in pool[Pod(w)]
      BY <1>1, <1>3, <2>1 DEF Find
    <3> QED BY <1>0, <1>1, <1>3, <2>1, <3>1 DEF Find, UnmovedOf, Pod
  <2>2. CASE wk'[w].pc # "deliver"
    BY <1>1, <1>2, <1>3, <2>2 DEF Find
  <2> QED BY <2>1, <2>2
<1>4. CASE Deliver(w)
  <2>1. CASE wk'[w].pc = "relook"
    <3>1. /\ wk[w].pc = "deliver" /\ (Client(w) \notin pool[Pod(w)] \/ Broken(Client(w), Pod(w)))
          /\ wk'[w].moved = wk[w].moved /\ Client(w)' = Client(w)
      BY <1>1, <1>4, <2>1 DEF Deliver
    <3>2. ~wk[w].moved => Broken(Client(w), Pod(w))
      BY <1>0, <3>1 DEF UnmovedOf
    <3> QED BY <1>0, <2>1, <3>1, <3>2 DEF UnmovedOf, Broken, Pod
  <2>2. CASE wk'[w].pc = "ack"
    BY <1>2, <2>2
  <2> QED BY <1>1, <1>4, <2>1, <2>2 DEF Deliver
<1>5. CASE Relook(w)
  BY <1>1, <1>2, <1>5 DEF Relook
<1>6. CASE Lookup(w)
  <2>1. CASE row[Client(w)] = Pod(w)
    <3>1. Goto(w, "race")
      BY <1>6, <2>1 DEF Lookup
    <3> QED BY <1>0, <1>1, <2>1, <3>1 DEF UnmovedOf, Pod
  <2>2. CASE row[Client(w)] # Pod(w) /\ row[Client(w)] = wk[w].src
    <3>1. Goto(w, "source")
      BY <1>6, <2>2 DEF Lookup
    <3> QED BY <1>1, <3>1 DEF UnmovedOf
  <2>3. CASE row[Client(w)] # Pod(w) /\ row[Client(w)] # wk[w].src
    <3>1. Goto(w, "repub")
      BY <1>6, <2>3 DEF Lookup
    <3> QED BY <1>1, <1>2, <3>1
  <2> QED BY <2>1, <2>2, <2>3
<1>7. CASE LookupMiss(w)
  <2>1. Goto(w, "ack") \/ NextInBatch(w, {InHand(w).m})
    BY <1>7 DEF LookupMiss
  <2>2. wk[w].back \notin Steps
    <3>1. wk[w] \in Worker
      BY DEF TypeOK
    <3> QED BY <3>1 DEF Worker, Taking, Steps
  <2>3. NextInBatch(w, {InHand(w).m}) => wk'[w].pc = "find"
    <3>1. "idle" \notin Steps
      BY DEF Steps
    <3> QED BY <1>0, <2>2, <3>1, NextFields
  <2> QED BY <1>1, <1>2, <2>1, <2>3
<1>8. ASSUME NEW d \in Pods, wk' = [wk EXCEPT ![w].pc = "xadd", ![w].dst = d] PROVE UnmovedOf(w)'
  <2>1. wk'[w].pc = "xadd" /\ wk'[w].dst = d
    BY <1>8 DEF TypeOK, Worker
  <2> QED BY <2>1 DEF UnmovedOf
<1>9. CASE SourceAlive(w)
  BY <1>0, <1>1, <1>2, <1>8, <1>9 DEF SourceAlive
<1>10. CASE Republish(w)
  <2>1. row[Client(w)] # NoPod => row[Client(w)] \in Pods
    BY <1>0 DEF TypeOK
  <2> QED BY <1>1, <1>2, <1>8, <1>10, <2>1 DEF Republish
<1>11. CASE Add(w)
  BY <1>1, <1>2, <1>11 DEF Add
<1>12. CASE Ack(w)
  <2>1. NextInBatch(w, {})
    BY <1>12 DEF Ack
  <2>2. wk[w].back \notin Steps /\ "idle" \notin Steps
    <3>1. wk[w] \in Worker
      BY DEF TypeOK
    <3> QED BY <3>1 DEF Worker, Taking, Steps
  <2> QED BY <1>0, <1>2, <2>1, <2>2, NextFields
<1> QED
  BY <1>3, <1>4, <1>5, <1>6, <1>7, <1>9, <1>10, <1>11, <1>12 DEF ProcessMessage

\* A loop outside processMessage is at its first step, if at one, afterwards.
LEMMA PhaseMoves ==
  ASSUME TypeOK, NEW w \in Loops, Loop(w), ~ProcessMessage(w)
  PROVE  /\ \A v \in Loops \ {w} : wk'[v] = wk[v]
         /\ wk'[w].pc \in Steps => wk'[w].pc = "find"
<1> USE DEF session, redis
<1>0. \A phase \in Phases : phase \notin Steps
  BY DEF Phases, Taking, Steps
<1>1. \A where : Goto(w, where) => Others(w) /\ wk'[w].pc = where
  BY GotoFields
<1>2. \A s, batch, back : StartBatch(w, s, batch, back) => Others(w) /\ wk'[w].pc = "find"
  BY StartFields
<1>3. wk' = [wk EXCEPT ![w] = Resting] => Others(w) /\ wk'[w].pc = "idle"
  BY RestFields
<1>4. CASE Own(w)
  <2>1. CASE CreateGroup(w)
    <3>1. UNCHANGED wk /\ wk[w].pc = "idle"
      BY <2>1 DEF CreateGroup, Ready
    <3> QED BY <1>0, <3>1 DEF Phases
  <2>2. CASE ReadGroup(w) \/ AutoClaim(w)
    BY <1>2, <2>2 DEF ReadGroup, AutoClaim, Others
  <2> QED BY <1>4, <2>1, <2>2 DEF Own
<1>5. CASE \E s \in Pods : FindDeadPod(w, s)
  <2>1. Others(w) /\ wk'[w].pc = "lock"
    BY <1>5 DEF FindDeadPod, TypeOK, Worker, Others
  <2> QED BY <1>0, <2>1 DEF Phases, Others
<1>6. CASE AcquireLock(w)
  <2>1. \/ wk' = [wk EXCEPT ![w].pc = "group", ![w].leased = TRUE]
        \/ wk' = [wk EXCEPT ![w] = Resting]
    BY <1>6 DEF AcquireLock
  <2>2. Others(w) /\ wk'[w].pc \in {"group", "idle"}
    BY <1>3, <2>1 DEF TypeOK, Worker, Others
  <2> QED BY <1>0, <2>2 DEF Phases, Others
<1>7. CASE DrainGroup(w) \/ DrainTrim(w) \/ CheckEmpty(w) \/ DeleteStream(w)
  <2>1. PICK where \in {"trim", "unlock", "claim", "del"} : Goto(w, where)
    BY <1>7 DEF DrainGroup, DrainTrim, CheckEmpty, DeleteStream
  <2> QED BY <1>0, <1>1, <2>1 DEF Phases, Taking, Others
<1>8. CASE DrainClaim(w)
  <2>1. Goto(w, "read") \/ \E s, batch, back : StartBatch(w, s, batch, back)
    BY <1>8 DEF DrainClaim
  <2> QED BY <1>0, <1>1, <1>2, <2>1 DEF Phases, Taking, Others
<1>9. CASE DrainRead(w)
  <2>1. CASE Goto(w, "pending")
    BY <1>0, <1>1, <2>1 DEF Phases, Others
  <2>2. CASE wk' = [wk EXCEPT ![w].batch = FirstUnread(wk[w].src), ![w].pc = "find",
                              ![w].back = "read", ![w].reads = @ + 1]
    BY <2>2 DEF TypeOK, Worker
  <2> QED BY <1>9, <2>1, <2>2 DEF DrainRead
<1>10. CASE ListPending(w)
  <2>1. \/ wk' = [wk EXCEPT ![w].pc = "force", ![w].ids = stream[wk[w].src].pel]
        \/ Goto(w, "len")
    BY <1>10 DEF ListPending
  <2>2. Others(w) /\ wk'[w].pc \in {"force", "len"}
    BY <1>1, <2>1 DEF TypeOK, Worker, Others
  <2> QED BY <1>0, <2>2 DEF Phases, Others
<1>11. CASE ForceAck(w)
  <2>1. Others(w) /\ wk'[w].pc = "len"
    BY <1>11 DEF ForceAck, TypeOK, Worker, Others
  <2> QED BY <1>0, <2>1 DEF Phases, Others
<1>12. CASE ReleaseLock(w) \/ DrainCancelled(w)
  <2>1. Others(w) /\ wk'[w].pc = "idle"
    BY <1>3, <1>12 DEF ReleaseLock, DrainCancelled
  <2> QED BY <1>0, <2>1 DEF Phases, Others
<1> QED
  BY <1>4, <1>5, <1>6, <1>7, <1>8, <1>9, <1>10, <1>11, <1>12 DEF Loop, DrainDeadPod

LEMMA LoopUnmoved ==
  ASSUME TypeOK, Unmoved, NEW w \in Loops, Loop(w) PROVE Unmoved'
<1> USE DEF session, redis
<1>1. UNCHANGED <<row, sess, pool>>
  BY LoopRest
<1>2. CASE ProcessMessage(w)
  <2> SUFFICES ASSUME NEW v \in Loops PROVE wk'[v].pc \in Steps => UnmovedOf(v)'
    BY DEF Unmoved
  <2>1. CASE v = w
    BY <1>2, <2>1, MessageUnmoved
  <2>2. CASE v # w
    <3>1. wk'[v] = wk[v]
      <4>1. \/ Others(w)
            \/ wk[w].pc \in Steps /\ \E left : NextInBatch(w, left)
        BY <1>2, MessageMoves
      <4> QED BY <2>2, <4>1, NextFields DEF Others
    <3> QED BY <1>1, <3>1, SameUnmoved
  <2> QED BY <2>1, <2>2
<1>3. CASE ~ProcessMessage(w)
  <2>1. /\ \A v \in Loops \ {w} : wk'[v] = wk[v]
        /\ wk'[w].pc \in Steps => wk'[w].pc = "find"
    BY <1>3, PhaseMoves
  <2> SUFFICES ASSUME NEW v \in Loops PROVE wk'[v].pc \in Steps => UnmovedOf(v)'
    BY DEF Unmoved
  <2>2. CASE v # w
    BY <1>1, <2>1, <2>2, SameUnmoved
  <2>3. CASE v = w
    BY <2>1, <2>3 DEF UnmovedOf
  <2> QED BY <2>2, <2>3
<1> QED BY <1>2, <1>3

LEMMA StepUnmoved == ASSUME TypeOK, Unmoved, [Next]_vars PROVE Unmoved'
<1> USE DEF session, redis
<1>1. CASE \E i \in Clients : Session(i) \/ Disconnect(i) \/ RemoveDeadRow(i)
  <2>1. PICK i \in Clients : Session(i) \/ Disconnect(i) \/ RemoveDeadRow(i)
    BY <1>1
  <2>2. /\ Stir(i)
        /\ \A j \in Clients \ {i} :
             /\ row'[j] = row[j] /\ sess'[j] = sess[j]
             /\ \A p \in Pods : j \in pool[p] => j \in pool'[p]
    <3>1. CASE PoolRegister(i)
      BY <3>1 DEF PoolRegister, TypeOK
    <3>2. CASE ReadEnd(i)
      BY <3>2 DEF ReadEnd, TypeOK
    <3>3. CASE RemoveOwnRow(i) \/ RemoveDeadRow(i) \/ Disconnect(i)
      BY <3>3 DEF RemoveOwnRow, RemoveDeadRow, Disconnect, TypeOK
    <3> QED BY <2>1, <3>1, <3>2, <3>3 DEF Session
  <2> QED BY <2>2, StirUnmoved
<1>2. CASE \E i \in Clients, p \in Pods : AddConnectedClient(i, p) \/ Evicted(i, p)
  <2>1. PICK i \in Clients, p \in Pods : AddConnectedClient(i, p) \/ Evicted(i, p)
    BY <1>2
  <2>2. /\ Stir(i)
        /\ \A j \in Clients \ {i} :
             /\ row'[j] = row[j] /\ sess'[j] = sess[j]
             /\ \A q \in Pods : j \in pool[q] => j \in pool'[q]
    <3>1. CASE AddConnectedClient(i, p)
      BY <3>1 DEF AddConnectedClient, TypeOK
    <3>2. CASE Evicted(i, p)
      BY <3>2 DEF Evicted, TypeOK
    <3> QED BY <2>1, <3>1, <3>2
  <2> QED BY <2>2, StirUnmoved
<1>3. CASE \E p \in Pods : Die(p)
  <2>1. PICK p \in Pods : Die(p)
    BY <1>3
  <2> SUFFICES ASSUME NEW w \in Loops PROVE wk'[w].pc \in Steps => UnmovedOf(w)'
    BY DEF Unmoved
  <2>2. CASE Pod(w) = p
    BY <2>1, <2>2 DEF Die, Resting, Steps
  <2>3. CASE Pod(w) # p
    <3>1. wk[w].pc \in Steps => Client(w) \in Clients
      BY LoopParts
    <3>2. wk'[w] = wk[w] /\ row' = row /\ pool'[Pod(w)] = pool[Pod(w)]
      BY <2>1, <2>3 DEF Die, TypeOK
    <3>3. \A i \in Clients : sess'[i] = "on" => sess[i] = "on"
      BY <2>1 DEF Die
    <3> QED BY <3>1, <3>2, <3>3, SameUnmoved
  <2> QED BY <2>2, <2>3
<1>4. CASE \E p \in Pods : LeaseExpires(p)
  <2> SUFFICES ASSUME NEW w \in Loops PROVE wk'[w].pc \in Steps => UnmovedOf(w)'
    BY DEF Unmoved
  <2>1. /\ UNCHANGED <<row, sess, pool>> /\ wk'[w].pc = wk[w].pc
        /\ wk'[w].batch = wk[w].batch /\ wk'[w].dst = wk[w].dst /\ wk'[w].moved = wk[w].moved
    BY <1>4 DEF LeaseExpires, TypeOK, Worker
  <2> QED BY <2>1, SameUnmoved
<1>5. CASE UNCHANGED <<row, sess, pool, wk>>
  BY <1>5, SameUnmoved DEF Unmoved
<1>6. CASE \/ \E p \in Pods : \/ Stop(p) \/ Restart(p) \/ HeartbeatExpires(p)
                              \/ Heartbeat(p) \/ TrimCutoff(p) \/ TrimStream(p)
           \/ \E p \in Pods, e \in Entry : GrowIdle(p, e)
           \/ \E m \in Msgs : PublishLookup(m) \/ PublishAdd(m)
           \/ Tick \/ UNCHANGED vars
  BY <1>5, <1>6 DEF Stop, Restart, HeartbeatExpires, Heartbeat, TrimCutoff, TrimStream, GrowIdle,
     PublishLookup, PublishAdd, Tick, vars
<1>7. CASE \E w \in Loops : Loop(w)
  BY <1>7, LoopUnmoved
<1> QED BY <1>1, <1>2, <1>3, <1>4, <1>6, <1>7 DEF Next

----------------------------------------------------------------------------
(* Entries that are young stay until they are acknowledged.                 *)

\* Its entry is in a stream, and will be read or claimed.
In(st, e) == e \in Elems(st.unread) \/ e \in st.pel \ st.ghost
Young(e) == ~(Age(e) > MaxPending)

LEMMA BothParts ==
  ASSUME NEW S, NEW q \in Seq(S), NEW n \in 0..Len(q)
  PROVE  Elems(q) \subseteq Elems(SubSeq(q, 1, n)) \cup Elems(SubSeq(q, n + 1, Len(q)))
<1>1. /\ Len(q) \in Nat /\ DOMAIN q = 1..Len(q)
      /\ DOMAIN SubSeq(q, n + 1, Len(q)) = 1..(Len(q) - n)
      /\ \A i \in 1..(Len(q) - n) : SubSeq(q, n + 1, Len(q))[i] = q[n + i]
  BY LenProperties
<1>2. DOMAIN SubSeq(q, 1, n) = 1..n /\ \A i \in 1..n : SubSeq(q, 1, n)[i] = q[i]
  BY <1>1
<1> SUFFICES ASSUME NEW i \in 1..Len(q)
             PROVE  q[i] \in Elems(SubSeq(q, 1, n)) \cup Elems(SubSeq(q, n + 1, Len(q)))
  BY <1>1 DEF Elems
<1>3. CASE i <= n
  <2>1. i \in 1..n
    BY <1>1, <1>3
  <2> QED BY <1>2, <2>1 DEF Elems
<1>4. CASE ~(i <= n)
  <2>1. i - n \in 1..(Len(q) - n) /\ n + (i - n) = i
    BY <1>1, <1>4
  <2> QED BY <1>1, <2>1 DEF Elems
<1> QED BY <1>3, <1>4

LEMMA ChangeKeeps ==
  ASSUME TypeOK, OldTrims, InTime, Ghosts, Trims, NEW s \in Pods, Change(s), ~Drops(s),
         NEW e \in Entry, In(stream[s], e), Young(e)
  PROVE  In(stream'[s], e)
<1>1. /\ stream[s] \in Good /\ stream[s].unread \in Seq(Entry) /\ Len(stream[s].unread) \in Nat
      /\ stream[s].ghost \subseteq stream[s].pel
  BY Parts, LenProperties DEF Good, Stream
<1>2. CASE Solid(stream[s], stream'[s])
  BY <1>2 DEF Solid, In
<1>3. CASE TrimsTo(s, stream'[s])
  <2>1. PICK cut \in Int : /\ stream'[s] = Trimmed(stream[s], cut)
                           /\ cut <= now - DeadRetention \/ cut <= trim[s]
    BY <1>3 DEF TrimsTo
  <2>2. /\ e.t \in Nat /\ now \in Nat /\ trim[s] \in Int
        /\ MaxPending \in Nat /\ DeadRetention \in Nat
    BY EntryTimes, RouterAssumption DEF TypeOK
  <2>3. ~(e.t < cut)
    <3>1. CASE cut <= now - DeadRetention
      BY <2>2, <3>1 DEF Young, Age, OldTrims
    <3>2. CASE cut <= trim[s]
      <4>1. e \in Unread(s) \cup stream[s].pel
        BY DEF In, Unread
      <4>2. ~(e.t < trim[s])
        BY <4>1 DEF Trims, Young
      <4> QED BY <2>2, <3>2, <4>2
    <3> QED BY <2>1, <3>1, <3>2
  <2>4. e \in Elems(stream[s].unread) => e \in Elems(stream'[s].unread)
    <3>1. Ordered(stream[s].unread)
      BY DEF InTime
    <3> QED BY <1>1, <2>1, <2>3, <3>1, TrimmedOld
  <2>5. /\ stream'[s].pel = stream[s].pel
        /\ stream'[s].ghost = stream[s].ghost \cup {d \in stream[s].pel : d.t < cut}
    BY <1>1, <2>1, TrimmedPel
  <2> QED BY <2>3, <2>4, <2>5 DEF In
<1>4. CASE Appends(stream[s], stream'[s])
  BY <1>1, <1>4, Longer DEF Appends, In
<1>5. CASE Advances(stream[s], stream'[s])
  <2>1. PICK n \in 0..Len(stream[s].unread) :
          /\ stream'[s].unread = SubSeq(stream[s].unread, n + 1, Len(stream[s].unread))
          /\ stream'[s].ghost = stream[s].ghost
          /\ stream'[s].pel = stream[s].pel \cup Elems(SubSeq(stream[s].unread, 1, n))
    BY <1>5 DEF Advances
  <2>2. e \in Elems(stream[s].unread) => e \notin stream[s].ghost
    BY DEF Ghosts, Young
  <2>3. Elems(stream[s].unread) \subseteq
          Elems(SubSeq(stream[s].unread, 1, n)) \cup Elems(stream'[s].unread)
    BY <1>1, <2>1, BothParts
  <2> QED BY <2>1, <2>2, <2>3 DEF In
<1> QED BY <1>2, <1>3, <1>4, <1>5 DEF Change

LEMMA AckedAllParts ==
  ASSUME NEW st \in Good, NEW ids
  PROVE  /\ AckedAll(st, ids).unread = st.unread /\ AckedAll(st, ids).pel = st.pel \ ids
         /\ AckedAll(st, ids).ghost \subseteq st.ghost
<1> DEFINE hit  == ids \cap st.pel
           kept == {e.t : e \in hit \ st.ghost}
           top  == CHOOSE t \in kept : \A u \in kept : t >= u
           new  == [st EXCEPT !.pel = @ \ hit, !.idle = @ \ hit, !.ghost = @ \ hit,
                              !.acked = IF kept = {} THEN @ ELSE Later(@, top)]
<1>1. AckedAll(st, ids) = new
  BY DEF AckedAll
<1>2. new.pel = st.pel \ hit /\ new.ghost = st.ghost \ hit /\ new.unread = st.unread
  <2> HIDE DEF hit, kept, top
  <2> QED BY DEF Good, Stream
<1> HIDE DEF kept, top, new
<1> QED BY <1>1, <1>2

\* An entry that leaves its stream is acknowledged by the loop that has it, was
\* listed by a drain, or goes with the stream.
LEMMA DropsKeep ==
  ASSUME TypeOK, NEW s \in Pods, Drops(s), NEW e \in Entry, In(stream[s], e)
  PROVE  \/ In(stream'[s], e)
         \/ \E w \in Loops : wk[w].pc = "ack" /\ ~Cancelled(w) /\ InHand(w) = e
         \/ \E w \in Loops : wk'[w] # wk[w] /\ At(w, "force") /\ e \in wk[w].ids
         \/ \E w \in Loops : wk'[w] # wk[w] /\ At(w, "del") /\ wk[w].src = s
<1>1. PICK w \in Loops : wk[w].src = s /\ (Ack(w) \/ ForceAck(w) \/ DeleteStream(w))
  BY DEF Drops
<1>2. /\ stream[s] \in Good /\ stream \in [Pods -> Stream]
      /\ UNCHANGED stream => In(stream'[s], e)
  BY Parts DEF TypeOK
<1>3. CASE Ack(w)
  <2>1. CASE UNCHANGED stream
    BY <1>2, <2>1
  <2>2. CASE ~Cancelled(w) /\ stream' = [stream EXCEPT ![s] = Acked(@, InHand(w))]
    <3>1. /\ Acked(stream[s], InHand(w)).unread = stream[s].unread
          /\ Acked(stream[s], InHand(w)).pel = stream[s].pel \ {InHand(w)}
          /\ Acked(stream[s], InHand(w)).ghost \subseteq stream[s].ghost
      BY <1>2 DEF Good, Stream, Acked
    <3>2. stream'[s] = Acked(stream[s], InHand(w))
      BY <1>2, <2>2
    <3>3. InHand(w) # e => In(stream'[s], e)
      BY <3>1, <3>2 DEF In
    <3> QED BY <1>3, <2>2, <3>3 DEF Ack
  <2> QED BY <1>1, <1>3, <2>1, <2>2 DEF Ack
<1>4. CASE ForceAck(w)
  <2>1. At(w, "force") /\ wk'[w] # wk[w]
    <3>1. wk'[w].pc = "len" /\ wk[w].pc = "force"
      BY <1>4 DEF ForceAck, At, TypeOK, Worker
    <3> QED BY <1>4, <3>1 DEF ForceAck
  <2>2. CASE UNCHANGED stream
    BY <1>2, <2>2
  <2>3. CASE stream'[s] = AckedAll(stream[s], wk[w].ids)
    <3>1. /\ AckedAll(stream[s], wk[w].ids).unread = stream[s].unread
          /\ AckedAll(stream[s], wk[w].ids).pel = stream[s].pel \ wk[w].ids
          /\ AckedAll(stream[s], wk[w].ids).ghost \subseteq stream[s].ghost
      BY <1>2, AckedAllParts
    <3>2. e \notin wk[w].ids => In(stream'[s], e)
      BY <2>3, <3>1 DEF In
    <3> QED BY <2>1, <3>2
  <2> QED BY <1>1, <1>2, <1>4, <2>2, <2>3 DEF ForceAck, SetStream
<1>5. CASE DeleteStream(w)
  <2>1. At(w, "del") /\ wk'[w] # wk[w]
    <3>1. wk'[w].pc = "unlock" /\ wk[w].pc = "del"
      BY <1>5, GotoFields DEF DeleteStream, At
    <3> QED BY <1>5, <3>1 DEF DeleteStream
  <2> QED BY <1>1, <2>1
<1> QED BY <1>1, <1>3, <1>4, <1>5

----------------------------------------------------------------------------
(* What makes a loop acknowledge its entry.                                 *)

\* A loop is about to acknowledge what it was about to acknowledge, or
\* processMessage just decided to; a pod that stops does not come back.
LEMMA LoopAcks ==
  ASSUME TypeOK, NEW w \in Loops, Loop(w), NEW v \in Loops, wk'[v].pc = "ack"
  PROVE  \/ wk[v].pc = "ack" /\ wk'[v].batch = wk[v].batch
         \/ v = w /\ ProcessMessage(v) /\ wk'[v].batch = wk[v].batch
<1>0. wk'[v] = wk[v] => wk[v].pc = "ack" /\ wk'[v].batch = wk[v].batch
  OBVIOUS
<1>1. CASE ProcessMessage(w)
  <2>1. CASE Others(w) /\ SameLoop(w)
    BY <1>0, <1>1, <2>1 DEF Others, SameLoop
  <2>2. CASE wk[w].pc \in Steps /\ \E left : NextInBatch(w, left)
    <3>1. Others(w) /\ wk'[w].pc \in {"idle", "find", wk[w].back}
      BY <2>2, NextFields
    <3>2. wk[w].back # "ack"
      <4>1. wk[w] \in Worker
        BY DEF TypeOK
      <4> QED BY <4>1 DEF Worker, Taking
    <3> QED BY <1>0, <3>1, <3>2 DEF Others
  <2> QED BY <1>1, <2>1, <2>2, MessageMoves
<1>2. CASE ~ProcessMessage(w)
  <2>1. /\ \A u \in Loops \ {w} : wk'[u] = wk[u]
        /\ wk'[w].pc \in Steps => wk'[w].pc = "find"
    BY <1>2, PhaseMoves
  <2> QED BY <1>0, <2>1 DEF Steps
<1> QED BY <1>1, <1>2

LEMMA StepAcks ==
  ASSUME TypeOK, [Next]_vars, NEW v \in Loops, wk'[v].pc = "ack"
  PROVE  \/ wk[v].pc = "ack" /\ wk'[v].batch = wk[v].batch
         \/ ProcessMessage(v) /\ wk'[v].batch = wk[v].batch
<1> USE DEF session, redis
<1>1. CASE \E w \in Loops : Loop(w)
  BY <1>1, LoopAcks
<1>2. CASE UNCHANGED wk
  BY <1>2
<1>3. CASE \E i \in Clients : Session(i) \/ Disconnect(i) \/ RemoveDeadRow(i)
  <2>1. \E i \in Clients : Stir(i)
    BY <1>3 DEF Session, PoolRegister, ReadEnd, RemoveOwnRow, Disconnect, RemoveDeadRow
  <2> QED BY <2>1, StirFields
<1>4. CASE \E i \in Clients, p \in Pods : AddConnectedClient(i, p) \/ Evicted(i, p)
  <2>1. \E i \in Clients : Stir(i)
    BY <1>4 DEF AddConnectedClient, Evicted
  <2> QED BY <2>1, StirFields
<1>5. CASE \E p \in Pods : Die(p)
  <2>1. wk'[v] = Resting \/ wk'[v] = wk[v]
    BY <1>5 DEF Die
  <2> QED BY <2>1 DEF Resting
<1>6. CASE \E p \in Pods : LeaseExpires(p)
  BY <1>6 DEF LeaseExpires, TypeOK, Worker
<1>7. CASE \/ \E p \in Pods : \/ Stop(p) \/ Restart(p) \/ HeartbeatExpires(p)
                              \/ Heartbeat(p) \/ TrimCutoff(p) \/ TrimStream(p)
           \/ \E p \in Pods, e \in Entry : GrowIdle(p, e)
           \/ \E m \in Msgs : PublishLookup(m) \/ PublishAdd(m)
           \/ Tick \/ UNCHANGED vars
  BY <1>2, <1>7 DEF Stop, Restart, HeartbeatExpires, Heartbeat, TrimCutoff, TrimStream, GrowIdle,
     PublishLookup, PublishAdd, Tick, vars
<1> QED BY <1>1, <1>3, <1>4, <1>5, <1>6, <1>7 DEF Next

LEMMA StoppingStays ==
  ASSUME TypeOK, [Next]_vars, NEW w \in Loops, Cancelled(w), wk'[w].pc = "ack"
  PROVE  Cancelled(w)'
<1> USE DEF session, redis
<1>0. Pod(w) \in Pods
  BY LoopParts
<1>1. CASE UNCHANGED up
  BY <1>1 DEF Cancelled, Pod
<1>2. CASE \E p \in Pods : Stop(p) \/ Restart(p)
  BY <1>0, <1>2 DEF Stop, Restart, Cancelled, Pod, TypeOK
<1>3. CASE \E p \in Pods : Die(p)
  BY <1>0, <1>3 DEF Die, Cancelled, Pod, Resting, TypeOK
<1>4. CASE \E v \in Loops : Loop(v)
  BY <1>1, <1>4, LoopRest
<1>5. CASE \E i \in Clients : Session(i) \/ Disconnect(i) \/ RemoveDeadRow(i)
  BY <1>1, <1>5 DEF Session, PoolRegister, ReadEnd, RemoveOwnRow, Disconnect, RemoveDeadRow
<1>6. CASE \E i \in Clients, p \in Pods : AddConnectedClient(i, p) \/ Evicted(i, p)
  BY <1>1, <1>6 DEF AddConnectedClient, Evicted
<1>7. CASE \/ \E p \in Pods : \/ HeartbeatExpires(p) \/ Heartbeat(p) \/ LeaseExpires(p)
                              \/ TrimCutoff(p) \/ TrimStream(p)
           \/ \E p \in Pods, e \in Entry : GrowIdle(p, e)
           \/ \E m \in Msgs : PublishLookup(m) \/ PublishAdd(m)
           \/ Tick \/ UNCHANGED vars
  BY <1>1, <1>7 DEF HeartbeatExpires, Heartbeat, LeaseExpires, TrimCutoff, TrimStream, GrowIdle,
     PublishLookup, PublishAdd, Tick, vars
<1> QED BY <1>2, <1>3, <1>4, <1>5, <1>6, <1>7 DEF Next

LEMMA FailsCounts == ASSUME TypeOK, Fails PROVE used'["error"] > used["error"]
<1>1. "error" \in DOMAIN Budget /\ used \in [DOMAIN Budget -> Nat]
  BY RouterAssumption DEF TypeOK
<1>2. used' = [used EXCEPT !["error"] = @ + 1]
  BY DEF Fails, Spend
<1>3. used["error"] \in Nat /\ used'["error"] = used["error"] + 1
  BY <1>1, <1>2
<1> QED BY <1>3

\* While no call fails, a young entry of a settled client, whose session did not
\* change meanwhile and whose drained pod did not come back, is acknowledged only
\* once it was delivered or appended anew.
LEMMA LastWord ==
  ASSUME TypeOK, Rows, Unmoved, ~Fails, NEW w \in Loops, ProcessMessage(w),
         wk'[w].pc = "ack", Settled(Client(w)), Young(InHand(w)),
         ~wk[w].moved, wk[w].pc # "source"
  PROVE  got'[InHand(w).m] # 0 \/ Add(w)
<1> USE DEF session, redis
<1> DEFINE i == Client(w)
<1>0. /\ wk[w].pc \in Steps /\ UnmovedOf(w) /\ i \in Clients /\ InHand(w).m \in Msgs
      /\ Pod(w) \in Pods
  BY MessageMoves, LoopParts DEF Unmoved
<1>1. /\ row[i] # NoPod /\ sess[i] = "on" /\ i \in pool[row[i]]
  BY <1>0 DEF Rows, Settled
<1>2. \A where : Goto(w, where) => where = "ack"
  BY GotoFields
<1>3. CASE Find(w)
  BY <1>2, <1>3 DEF Find, Young
<1>4. CASE Deliver(w)
  <2>1. CASE got' = [got EXCEPT ![InHand(w).m] = IF @ = 2 THEN 2 ELSE @ + 1]
    <3>1. got[InHand(w).m] \in 0..2 /\ got \in [Msgs -> 0..2]
      BY <1>0 DEF TypeOK
    <3> QED BY <1>0, <2>1, <3>1
  <2>2. CASE /\ i \notin pool[Pod(w)] \/ Broken(i, Pod(w))
             /\ Goto(w, IF wk[w].pc = "deliver" THEN "relook" ELSE "ack")
    <3>1. wk[w].pc = "race"
      BY <1>2, <1>4, <2>2 DEF Deliver
    <3> QED BY <1>0, <1>1, <2>2, <3>1 DEF UnmovedOf, Broken
  <2> QED BY <1>4, <2>1, <2>2 DEF Deliver
<1>5. CASE Relook(w)
  BY <1>0, <1>1, <1>2, <1>5 DEF Relook, UnmovedOf, Broken
<1>6. CASE Lookup(w)
  BY <1>2, <1>6 DEF Lookup
<1>7. CASE LookupMiss(w)
  BY <1>0, <1>1, <1>7 DEF LookupMiss
<1>8. ASSUME NEW d, wk' = [wk EXCEPT ![w].pc = "xadd", ![w].dst = d] PROVE FALSE
  BY <1>8 DEF TypeOK, Worker
<1>9. CASE SourceAlive(w)
  BY <1>9 DEF SourceAlive
<1>10. CASE Republish(w)
  BY <1>0, <1>1, <1>8, <1>10 DEF Republish
<1>11. CASE Ack(w)
  <2>1. NextInBatch(w, {})
    BY <1>11 DEF Ack
  <2>2. wk'[w].pc \in {"idle", "find", wk[w].back}
    BY <1>0, <2>1, NextFields
  <2>3. wk[w].back # "ack"
    <3>1. wk[w] \in Worker
      BY DEF TypeOK
    <3> QED BY <3>1 DEF Worker, Taking
  <2> QED BY <2>2, <2>3
<1> QED BY <1>3, <1>4, <1>5, <1>6, <1>7, <1>9, <1>10, <1>11 DEF ProcessMessage

\* XADD: the entry that comes into a stream was nowhere.
LEMMA AddNew ==
  ASSUME TypeOK, NEW s \in Pods, NEW m \in Msgs, AddTo(s, m)
  PROVE  \E n \in Entry : n.m = m /\ n \notin Around /\ n \in Elems(stream'[s].unread)
<1> DEFINE k == CHOOSE i \in Fresh(m) : \A j \in Fresh(m) : i <= j
           n == [m |-> m, k |-> k, t |-> now]
<1>1. Fresh(m) \in SUBSET Nat /\ Fresh(m) \in SUBSET (1..MaxCopies) /\ Fresh(m) # {}
  BY RouterAssumption, SMTT(30) DEF Fresh, AddTo
<1>2. k \in Fresh(m) /\ k \in 1..MaxCopies
  BY <1>1, Least
<1>3. n \in Entry /\ n.m = m /\ n.k = k
  <2> HIDE DEF k
  <2> QED BY <1>2 DEF Entry, TypeOK
<1>4. n \notin Around
  <2> HIDE DEF k, n
  <2> QED BY <1>2, <1>3 DEF Fresh
<1>5. stream' = [stream EXCEPT ![s].key = TRUE, ![s].unread = Append(@, n)]
  BY DEF AddTo
<1> HIDE DEF n
<1>6. stream[s].unread \in Seq(Entry) /\ stream'[s].unread = Append(stream[s].unread, n)
  BY <1>5 DEF TypeOK, Stream
<1>7. n \in Elems(stream'[s].unread)
  BY <1>6, Longer
<1> QED BY <1>3, <1>4, <1>7

\* An entry that is appended anew carries the message on.
LEMMA AddCarries ==
  ASSUME TypeOK, Unmoved, ~Fails, NEW w \in Loops, Add(w), ~Cancelled(w),
         NEW m \in Msgs, InHand(w).m = m
  PROVE  Awaited(m)'
<1>1. wk[w].pc = "xadd" /\ wk[w].pc \in Steps /\ AddTo(wk[w].dst, m)
  BY DEF Add, Steps
<1>2. PICK s \in Pods : s = wk[w].dst
  BY <1>1 DEF Unmoved, UnmovedOf
<1>3. AddTo(s, m)
  BY <1>1, <1>2
<1>4. PICK n \in Entry : n.m = m /\ n \notin Around /\ n \in Elems(stream'[s].unread)
  BY <1>3, AddNew
<1>5. Others(w) /\ SameLoop(w)
  BY <1>1, GotoFields DEF Add, SameLoop, Steps
<1>6. ~Decided(n)'
  <2> SUFFICES ASSUME NEW v \in Loops, wk'[v].pc = "ack", InHand(v)' = n PROVE FALSE
    BY DEF Decided
  <2>1. wk'[v].batch = wk[v].batch /\ wk[v].pc \in Steps
    BY <1>1, <1>5 DEF Others, SameLoop, Steps
  <2>2. wk[v].batch # <<>> /\ wk[v].batch \in Seq(Entry)
    BY <2>1, LoopParts DEF Sound, Worker
  <2>3. n = Head(wk[v].batch)
    BY <2>1 DEF InHand
  <2>4. n \in Elems(wk[v].batch)
    BY <2>2, <2>3, Rest
  <2> QED BY <1>4, <2>4 DEF Around
<1> QED BY <1>4, <1>6 DEF Awaited, Stored

----------------------------------------------------------------------------
(* The property.                                                            *)

Kept == Rows /\ InTime /\ Ghosts /\ Trims /\ Unmoved

LEMMA InitKept == Init => Kept
<1> SUFFICES ASSUME Init PROVE Kept
  OBVIOUS
<1>1. /\ \A w \in Loops : wk[w].pc = "idle"
      /\ \A s \in Pods : /\ stream[s].unread = <<>> /\ stream[s].pel = {}
                         /\ stream[s].ghost = {} /\ Unread(s) = {}
  BY Nothing DEF Init, Resting, Empty, Unread
<1>2. Rows
  BY DEF Init, Rows
<1>3. InTime /\ Ghosts
  BY <1>1 DEF InTime, Ordered, Ghosts
<1>4. Trims
  BY <1>1 DEF Init, Trims
<1>5. Unmoved
  BY <1>1 DEF Unmoved, Steps
<1> QED BY <1>2, <1>3, <1>4, <1>5 DEF Kept

LEMMA StepKept ==
  ASSUME OldTrims, TypeOK, TypeOK', Kept, [Next]_vars PROVE Kept'
<1>1. Rows'
  BY StepRows DEF Kept
<1>2. InTime' /\ Ghosts' /\ Trims'
  BY TimeStays DEF Kept
<1>3. Unmoved'
  BY StepUnmoved DEF Kept
<1> QED BY <1>1, <1>2, <1>3 DEF Kept

LEMMA LossNamed ==
  ASSUME OldTrims, TypeOK, Kept, [Next]_vars, NEW m \in Msgs,
         Settled(To[m]), got'[m] = 0, Awaited(m), ~Awaited(m)',
         ~(used'["error"] > used["error"]),
         NEW s \in Pods, NEW e \in Stored(s), e.m = m, ~(Age(e) > MaxPending)
  PROVE  \E w \in Loops :
           /\ wk'[w] # wk[w]
           /\ \/ wk[w].batch # <<>> /\ InHand(w).m = m /\ (wk[w].moved \/ wk[w].pc = "source")
              \/ At(w, "force") /\ \E d \in wk[w].ids : d.m = m
              \/ At(w, "del") /\ \E d \in Stored(wk[w].src) : d.m = m
<1>1. In(stream[s], e) /\ ~Decided(e) /\ Young(e) /\ ~Fails
  BY FailsCounts DEF Stored, In, Young
<1>2. e \in Entry
  <2>1. stream[s] \in Good
    BY Parts
  <2> QED BY <1>1, <2>1, EntriesOfSeq DEF In, Good, Stream
<1>3. CASE ~In(stream'[s], e)
  <2>1. Change(s)
    BY StepChanges DEF Changes
  <2>2. Drops(s)
    BY <1>1, <1>2, <1>3, <2>1, ChangeKeeps DEF Kept
  <2>3. ~\E w \in Loops : wk[w].pc = "ack" /\ ~Cancelled(w) /\ InHand(w) = e
    BY <1>1 DEF Decided
  <2>4. \/ \E w \in Loops : wk'[w] # wk[w] /\ At(w, "force") /\ e \in wk[w].ids
        \/ \E w \in Loops : wk'[w] # wk[w] /\ At(w, "del") /\ wk[w].src = s
    BY <1>1, <1>2, <1>3, <2>2, <2>3, DropsKeep
  <2> QED BY <2>4
<1>4. CASE In(stream'[s], e)
  <2>1. Decided(e)'
    BY <1>4 DEF Awaited, Stored, In
  <2>2. PICK w \in Loops : wk'[w].pc = "ack" /\ ~Cancelled(w)' /\ InHand(w)' = e
    BY <2>1 DEF Decided
  <2>3. ~Cancelled(w)
    BY <2>2, StoppingStays
  <2>4. wk'[w].batch = wk[w].batch /\ (wk[w].pc = "ack" \/ ProcessMessage(w))
    BY <2>2, StepAcks
  <2>5. InHand(w) = e
    BY <2>2, <2>4 DEF InHand
  <2>6. ProcessMessage(w) /\ wk'[w] # wk[w]
    BY <1>1, <2>2, <2>3, <2>4, <2>5 DEF Decided
  <2>7. wk[w].batch # <<>>
    BY <2>6, MessageMoves, LoopParts
  <2>8. wk[w].moved \/ wk[w].pc = "source"
    <3> SUFFICES ASSUME ~wk[w].moved, wk[w].pc # "source" PROVE FALSE
      OBVIOUS
    <3>1. Client(w) = To[m]
      BY <2>5 DEF Client
    <3>2. ~Add(w)
      BY <1>1, <2>3, <2>5, AddCarries DEF Kept
    <3> QED BY <1>1, <2>2, <2>5, <2>6, <3>1, <3>2, LastWord DEF Kept
  <2> QED BY <2>5, <2>6, <2>7, <2>8
<1> QED BY <1>3, <1>4

\* However pods die, stop and come back, leases run out, drains hurry and Redis
\* fails, an entry of a settled client that is not too old goes only in the ways
\* LossesNamed names, as long as streams are trimmed no earlier than that.
THEOREM LossesSafe ==
  ASSUME OldTrims
  PROVE  Spec => LossesNamed
<1>1. TypeOK /\ TypeOK' /\ Kept /\ [Next]_vars => Kept'
  BY StepKept
<1>2. TypeOK /\ Kept /\ [Next]_vars =>
        [\A m \in Msgs : Settled(To[m]) /\ got'[m] = 0 /\ Awaited(m) /\ ~Awaited(m)' =>
           \/ used'["error"] > used["error"]
           \/ \E w \in Loops :
                /\ wk'[w] # wk[w]
                /\ \/ wk[w].batch # <<>> /\ InHand(w).m = m /\ (wk[w].moved \/ wk[w].pc = "source")
                   \/ At(w, "force") /\ \E e \in wk[w].ids : e.m = m
                   \/ At(w, "del") /\ \E e \in Stored(wk[w].src) : e.m = m
           \/ \A s \in Pods : \A e \in Stored(s) : e.m = m => Age(e) > MaxPending]_vars
  BY LossNamed
<1>3. Init => Kept
  BY InitKept
<1> QED BY <1>1, <1>2, <1>3, RouterTypeCorrect, PTL DEF Spec, LossesNamed

=============================================================================
