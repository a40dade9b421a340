---------------------------- MODULE RouterProofs ----------------------------
(* What holds of Router for any number of pods, clients, messages, errors,    *)
(* crashes and registrations: types, and who drains a stream.                 *)
EXTENDS Router, FiniteSetTheorems, SequenceTheorems, TLAPS

----------------------------------------------------------------------------
(* Least and greatest numbers.                                              *)

\* A set of naturals has a least element: the numbers below all of one that had
\* none would be mapped into themselves by the successor, past 0.
LEMMA Least ==
  ASSUME NEW T \in SUBSET Nat, T # {}
  PROVE  \E x \in T : \A y \in T : x <= y
<1> SUFFICES ASSUME \A x \in T : \E y \in T : y < x
             PROVE  FALSE
  OBVIOUS
<1>1. PICK t \in T : TRUE
  OBVIOUS
<1> DEFINE L == {k \in 0..t : \A y \in T : k < y}
           f == [k \in L |-> k + 1]
<1>2. IsFiniteSet(L)
  <2>1. IsFiniteSet(0..t)
    BY <1>1, FS_Interval
  <2> QED BY <2>1, FS_Subset
<1>3. 0 \in L
  BY <1>1
<1>4. \A k \in L : k + 1 \in L
  <2> SUFFICES ASSUME NEW k \in L, NEW y \in T
               PROVE  k + 1 < y
    BY <1>1
  <2>1. k + 1 <= y
    OBVIOUS
  <2>2. k + 1 # y
    <3> SUFFICES ASSUME k + 1 = y PROVE FALSE
      OBVIOUS
    <3>1. PICK z \in T : z < y
      OBVIOUS
    <3> QED BY <3>1
  <2> QED BY <2>1, <2>2
<1>5. f \in Injection(L, L)
  BY <1>4 DEF Injection, IsInjective
<1>6. f \in Surjection(L, L)
  <2> HIDE DEF L, f
  <2> QED BY <1>2, <1>5, FS_Injection
<1>7. PICK k \in L : f[k] = 0
  BY <1>3, <1>6 DEF Surjection
<1> QED BY <1>7

LEMMA Greatest ==
  ASSUME NEW n \in Nat, NEW T \in SUBSET (0..n), T # {}
  PROVE  \E x \in T : \A y \in T : x >= y
<1> DEFINE D == {n - y : y \in T}
<1>1. PICK d \in D : \A e \in D : d <= e
  <2>1. D \in SUBSET Nat
    <3>1. \A y \in T : n - y \in Nat
      OBVIOUS
    <3> QED BY <3>1
  <2>2. D # {}
    OBVIOUS
  <2> HIDE DEF D
  <2> QED BY <2>1, <2>2, Least
<1>2. PICK x \in T : d = n - x
  OBVIOUS
<1>3. \A y \in T : n - x <= n - y
  BY <1>1, <1>2
<1> QED BY <1>3

----------------------------------------------------------------------------
(* Streams.                                                                 *)

Good == {st \in Stream : st.idle \cup st.ghost \subseteq st.pel /\ (st.group => st.key)}

LEMMA EntriesOfSeq ==
  ASSUME NEW q \in Seq(Entry)
  PROVE  /\ Elems(q) \in SUBSET Entry
         /\ q # <<>> => Head(q) \in Entry /\ Tail(q) \in Seq(Entry)
<1>1. \A n \in DOMAIN q : q[n] \in Entry
  BY LenProperties, ElementOfSeq
<1>2. q # <<>> => Head(q) \in Entry /\ Tail(q) \in Seq(Entry)
  BY HeadTailProperties
<1> QED BY <1>1, <1>2 DEF Elems

LEMMA GoodStreams == TypeOK <=> TypeOK /\ stream \in [Pods -> Good]
BY DEF TypeOK, Good

\* A step that sets one stream to a good one leaves all of them good.
LEMMA SetGood ==
  ASSUME TypeOK, NEW s, NEW st, s \in Pods => st \in Good,
         stream' = [stream EXCEPT ![s] = st]
  PROVE  stream' \in [Pods -> Good]
BY GoodStreams

LEMMA EmptyGood == Empty \in Good
BY EmptySeq, RouterAssumption DEF Empty, Good, Stream

LEMMA EnsureGood ==
  ASSUME NEW st \in Good PROVE EnsureGroup(st) \in Good
BY DEF EnsureGroup, Good, Stream

LEMMA LaterTime ==
  ASSUME NEW a \in -1..MaxTime, NEW b \in -1..MaxTime PROVE Later(a, b) \in -1..MaxTime
BY RouterAssumption DEF Later

LEMMA AckedGood ==
  ASSUME NEW st \in Good, NEW e \in Entry PROVE Acked(st, e) \in Good
<1>1. Later(st.acked, e.t) \in -1..MaxTime
  BY LaterTime, RouterAssumption DEF Good, Stream, Entry
<1> QED BY <1>1 DEF Acked, Good, Stream

LEMMA AckedAllGood ==
  ASSUME NEW st \in Good, NEW ids \in SUBSET Entry PROVE AckedAll(st, ids) \in Good
<1> DEFINE hit  == ids \cap st.pel
           kept == {e.t : e \in hit \ st.ghost}
           top  == CHOOSE t \in kept : \A u \in kept : t >= u
<1>1. kept \in SUBSET (0..MaxTime)
  BY DEF Entry
<1>2. kept # {} => top \in 0..MaxTime
  <2> HIDE DEF kept
  <2> QED BY <1>1, Greatest, RouterAssumption
<1>3. kept # {} => Later(st.acked, top) \in -1..MaxTime
  <2>1. st.acked \in -1..MaxTime /\ MaxTime \in Nat
    BY RouterAssumption DEF Good, Stream
  <2> HIDE DEF kept, top
  <2>2. kept # {} => top \in -1..MaxTime
    BY <1>2, <2>1
  <2> QED BY <2>1, <2>2, LaterTime
<1>4. (IF kept = {} THEN st.acked ELSE Later(st.acked, top)) \in -1..MaxTime
  <2> HIDE DEF kept, top
  <2> QED BY <1>3 DEF Good, Stream
<1>5. AckedAll(st, ids) =
        [st EXCEPT !.pel = @ \ hit, !.idle = @ \ hit, !.ghost = @ \ hit,
                   !.acked = IF kept = {} THEN @ ELSE Later(@, top)]
  BY DEF AckedAll
<1> QED
  <2> HIDE DEF kept, top
  <2> QED BY <1>4, <1>5, ZenonT(40) DEF Good, Stream

LEMMA TrimmedGood ==
  ASSUME NEW st \in Good, NEW cut PROVE Trimmed(st, cut) \in Good
<1> DEFINE older == {n \in DOMAIN st.unread : st.unread[n].t < cut}
           old == Cardinality(older)
<1>1. st.unread \in Seq(Entry) /\ DOMAIN st.unread = 1..Len(st.unread) /\ Len(st.unread) \in Nat
  BY LenProperties DEF Good, Stream
<1>2. old \in Nat
  <2>1. IsFiniteSet(1..Len(st.unread))
    BY <1>1, FS_Interval
  <2> QED BY <1>1, <2>1, FS_Subset, FS_CardinalityType
<1>3. SubSeq(st.unread, old + 1, Len(st.unread)) \in Seq(Entry)
  <2> HIDE DEF old
  <2>1. \A n \in old + 1 .. Len(st.unread) : st.unread[n] \in Entry
    BY <1>1, <1>2, ElementOfSeq
  <2> QED BY <1>1, <1>2, <2>1, SubSeqProperties
<1>4. Trimmed(st, cut) = [st EXCEPT !.unread = SubSeq(@, old + 1, Len(@)),
                                    !.ghost = @ \cup {e \in st.pel : e.t < cut},
                                    !.acked = IF @ < cut THEN -1 ELSE @]
  BY DEF Trimmed
<1>5. (IF st.acked < cut THEN -1 ELSE st.acked) \in -1..MaxTime
  <2>1. MaxTime \in Nat /\ st.acked \in -1..MaxTime
    BY RouterAssumption DEF Good, Stream
  <2> QED BY <2>1
<1> QED
  <2> HIDE DEF old
  <2> QED BY <1>3, <1>4, <1>5 DEF Good, Stream

LEMMA FirstTyped ==
  ASSUME TypeOK, NEW s \in Pods
  PROVE  /\ FirstUnread(s) \in Seq(Entry)
         /\ Delivered(stream[s], FirstUnread(s)) \in Good
<1>1. stream[s] \in Good /\ stream[s].unread \in Seq(Entry)
  BY GoodStreams DEF Good, Stream
<1>2. FirstUnread(s) \in Seq(Entry)
  BY <1>1, SubSeqProperties, ElementOfSeq, LenProperties, RouterAssumption DEF FirstUnread
<1>3. SubSeq(stream[s].unread, Len(FirstUnread(s)) + 1, Len(stream[s].unread)) \in Seq(Entry)
  BY <1>1, <1>2, SubSeqProperties, ElementOfSeq, LenProperties
<1>4. Elems(FirstUnread(s)) \in SUBSET Entry
  BY <1>2, EntriesOfSeq
<1> QED BY <1>1, <1>2, <1>3, <1>4 DEF Delivered, Good, Stream

LEMMA AddGood ==
  ASSUME TypeOK, NEW s, NEW m \in Msgs, AddTo(s, m) PROVE stream' \in [Pods -> Good]
<1> DEFINE k == CHOOSE i \in Fresh(m) : \A j \in Fresh(m) : i <= j
           e == [m |-> m, k |-> k, t |-> now]
<1>1. Fresh(m) \in SUBSET Nat /\ Fresh(m) \in SUBSET (1..MaxCopies) /\ Fresh(m) # {}
  BY RouterAssumption, SMTT(30) DEF Fresh, AddTo
<1>2. k \in 1..MaxCopies
  BY <1>1, Least
<1>3. e \in Entry
  <2> HIDE DEF k
  <2> QED BY <1>2 DEF Entry, TypeOK
<1>4. stream' = [stream EXCEPT ![s].key = TRUE, ![s].unread = Append(@, e)]
  BY DEF AddTo
<1>5. s \in Pods => [stream[s] EXCEPT !.key = TRUE, !.unread = Append(@, e)] \in Good
  <2> HIDE DEF e
  <2>1. s \in Pods => stream[s] \in Good /\ stream[s].unread \in Seq(Entry)
    BY GoodStreams DEF Good, Stream
  <2>2. s \in Pods => Append(stream[s].unread, e) \in Seq(Entry)
    BY <1>3, <2>1, AppendProperties
  <2> QED BY <2>1, <2>2 DEF Good, Stream
<1> QED
  <2> HIDE DEF e
  <2> QED BY <1>4, <1>5, GoodStreams
----------------------------------------------------------------------------
(* Loops.                                                                   *)

\* A loop is in a step of processMessage exactly while it has entries in hand,
\* and at work exactly while it has a stream.
Sound == {k \in Worker : /\ k.pc \in Steps <=> k.batch # <<>>
                         /\ k.pc = "idle" <=> k.src = NoPod}

LEMMA SoundLoops == TypeOK => wk \in [Loops -> Sound]
BY DEF TypeOK, Sound

LEMMA LoopParts ==
  ASSUME TypeOK, NEW w \in Loops
  PROVE  /\ wk[w] \in Sound /\ (wk[w].pc # "idle" => wk[w].src \in Pods)
         /\ w = <<Pod(w), Kind(w)>> /\ Pod(w) \in Pods /\ Kind(w) \in Kinds
         /\ wk[w].pc \in Steps => /\ wk[w].batch # <<>> /\ InHand(w) \in Entry
                                  /\ InHand(w).m \in Msgs /\ Client(w) \in Clients
                                  /\ Tail(wk[w].batch) \in Seq(Entry)
<1>1. /\ wk[w] \in Sound /\ wk[w].batch \in Seq(Entry)
      /\ (wk[w].pc # "idle" => wk[w].src \in Pods)
  BY SoundLoops DEF Sound, Worker
<1>2. wk[w].pc \in Steps => /\ wk[w].batch # <<>> /\ InHand(w) \in Entry
                            /\ Tail(wk[w].batch) \in Seq(Entry)
  BY <1>1, EntriesOfSeq DEF Sound, InHand
<1> QED BY <1>1, <1>2, RouterAssumption DEF Client, Entry, Pod, Kind

LEMMA RestingSound == Resting \in Sound
BY EmptySeq, RouterAssumption DEF Resting, Sound, Worker, Phases, Taking, Steps

\* What a step may do to a loop: one loop changes, to a sound state.
LEMMA SetSound ==
  ASSUME TypeOK, NEW w \in Loops, NEW k \in Sound, wk' = [wk EXCEPT ![w] = k]
  PROVE  wk' \in [Loops -> Sound]
BY SoundLoops

LEMMA GotoSound ==
  ASSUME TypeOK, NEW w \in Loops, NEW where \in Phases \cup Steps,
         where \in Steps <=> wk[w].pc \in Steps,
         where # "idle", wk[w].pc # "idle", Goto(w, where)
  PROVE  wk' \in [Loops -> Sound]
<1>1. [wk[w] EXCEPT !.pc = where] \in Sound
  BY LoopParts DEF Sound, Worker
<1> QED BY <1>1, SoundLoops DEF Goto

LEMMA NextSound ==
  ASSUME TypeOK, NEW w \in Loops, wk[w].pc \in Steps, NEW left \in SUBSET Msgs,
         NextInBatch(w, left)
  PROVE  wk' \in [Loops -> Sound]
<1> DEFINE k == [wk[w] EXCEPT !.batch = Tail(@), !.dst = NoPod, !.moved = FALSE,
                              !.kept = @ \cup left]
<1>1. /\ k \in Worker /\ k.batch = Tail(wk[w].batch) /\ k.back = wk[w].back
      /\ wk[w].back \in Taking \cup {"idle"} /\ k.src # NoPod
  <2>1. wk[w] \in Worker /\ Tail(wk[w].batch) \in Seq(Entry)
    BY LoopParts DEF Sound
  <2>2. wk[w].src # NoPod
    BY LoopParts, RouterAssumption DEF Steps
  <2> QED BY <2>1, <2>2 DEF Worker
<1>2. wk' = [wk EXCEPT ![w] = IF k.batch # <<>> THEN [k EXCEPT !.pc = "find"]
                              ELSE IF k.back = "idle" THEN Resting
                              ELSE [k EXCEPT !.pc = k.back]]
  BY DEF NextInBatch
<1> HIDE DEF k
<1>3. k.batch # <<>> => [k EXCEPT !.pc = "find"] \in Sound
  BY <1>1 DEF Sound, Worker, Phases, Taking, Steps
<1>4. k.batch = <<>> /\ k.back # "idle" => [k EXCEPT !.pc = k.back] \in Sound
  BY <1>1 DEF Sound, Worker, Phases, Taking, Steps
<1> QED BY <1>2, <1>3, <1>4, RestingSound, SetSound

LEMMA StartSound ==
  ASSUME TypeOK, NEW w \in Loops, NEW s \in Pods, NEW batch \in Seq(Entry),
         batch # <<>>, NEW back \in Taking \cup {"idle"}, StartBatch(w, s, batch, back)
  PROVE  wk' \in [Loops -> Sound]
<1>1. [wk[w] EXCEPT !.src = s, !.batch = batch, !.back = back, !.pc = "find"] \in Sound
  <2>1. "find" \in Steps
    BY DEF Steps
  <2>2. wk[w] \in Worker /\ s # NoPod
    BY LoopParts, RouterAssumption DEF Sound
  <2> QED BY <2>1, <2>2 DEF Sound, Worker
<1> QED BY <1>1, SoundLoops DEF StartBatch

LEMMA StirSound ==
  ASSUME TypeOK, NEW i, Stir(i) PROVE wk' \in [Loops -> Sound]
<1>1. \A w \in Loops : wk[w].moved \in BOOLEAN
  BY SoundLoops DEF Sound, Worker
<1>2. \A w \in Loops :
        [wk[w] EXCEPT !.moved = @ \/ (wk[w].batch # <<>> /\ Client(w) = i)] \in Sound
  BY <1>1, SoundLoops, ZenonT(40) DEF Sound, Worker
<1> QED BY <1>2 DEF Stir

LEMMA SpendTyped ==
  ASSUME TypeOK, NEW what \in DOMAIN Budget, Spend(what)
  PROVE  used' \in [DOMAIN Budget -> Nat]
BY DEF TypeOK, Spend

LEMMA WorksOrFails ==
  ASSUME TypeOK, Works \/ Fails PROVE used' \in [DOMAIN Budget -> Nat]
<1>1. "error" \in DOMAIN Budget
  BY RouterAssumption
<1> QED BY <1>1, SpendTyped DEF Works, Fails, TypeOK

\* The variables apart from the streams and the loops.
RestTyped ==
  /\ up \in [Pods -> {"up", "stopping", "dead"}] /\ hb \in [Pods -> BOOLEAN]
  /\ row \in [Clients -> Pods \cup {NoPod}] /\ sess \in [Clients -> SessState]
  /\ pool \in [Pods -> SUBSET Clients]
  /\ lock \in [Pods -> Pods \cup {NoPod}]
  /\ pub \in [Msgs -> {"new", "offline", "sent"} \cup Pods]
  /\ trim \in [Pods -> -1..MaxTime] /\ now \in 0..MaxTime
  /\ got \in [Msgs -> 0..2] /\ used \in [DOMAIN Budget -> Nat]

LEMMA Parts == TypeOK => RestTyped /\ stream \in [Pods -> Good] /\ wk \in [Loops -> Sound]
BY GoodStreams, SoundLoops DEF TypeOK, RestTyped

LEMMA Whole ==
  ASSUME RestTyped, stream \in [Pods -> Good], wk \in [Loops -> Sound] PROVE TypeOK
<1>1. /\ stream \in [Pods -> Stream]
      /\ \A s \in Pods : /\ stream[s].idle \cup stream[s].ghost \subseteq stream[s].pel
                         /\ stream[s].group => stream[s].key
  BY DEF Good
<1>2. /\ wk \in [Loops -> Worker]
      /\ \A w \in Loops : /\ wk[w].pc \in Steps <=> wk[w].batch # <<>>
                          /\ wk[w].pc = "idle" <=> wk[w].src = NoPod
  BY DEF Sound
<1> QED BY <1>1, <1>2 DEF TypeOK, RestTyped

LEMMA WholeNext ==
  ASSUME RestTyped', stream' \in [Pods -> Good], wk' \in [Loops -> Sound] PROVE TypeOK'
<1>1. /\ stream' \in [Pods -> Stream]
      /\ \A s \in Pods : /\ stream'[s].idle \cup stream'[s].ghost \subseteq stream'[s].pel
                         /\ stream'[s].group => stream'[s].key
  BY DEF Good
<1>2. /\ wk' \in [Loops -> Worker]
      /\ \A w \in Loops : /\ wk'[w].pc \in Steps <=> wk'[w].batch # <<>>
                          /\ wk'[w].pc = "idle" <=> wk'[w].src = NoPod
  BY DEF Sound
<1> QED BY <1>1, <1>2 DEF TypeOK, RestTyped

----------------------------------------------------------------------------
(* Types, one lemma per part of Next.                                       *)

LEMMA InitTyped == Init => TypeOK
<1> SUFFICES ASSUME Init PROVE TypeOK
  OBVIOUS
<1>1. RestTyped
  BY RouterAssumption DEF Init, RestTyped, SessState
<1>2. stream \in [Pods -> Good] /\ wk \in [Loops -> Sound]
  BY EmptyGood, RestingSound DEF Init
<1> QED BY <1>1, <1>2, Whole

LEMMA SessionsTyped ==
  ASSUME TypeOK, NEW i \in Clients,
         \/ Session(i) \/ Disconnect(i) \/ RemoveDeadRow(i)
         \/ \E p \in Pods : AddConnectedClient(i, p) \/ Evicted(i, p)
  PROVE  TypeOK'
<1>1. UNCHANGED stream /\ wk' \in [Loops -> Sound]
  BY StirSound DEF redis, Session, PoolRegister, ReadEnd, RemoveOwnRow, Disconnect,
     RemoveDeadRow, AddConnectedClient, Evicted
<1>2. "move" \in DOMAIN Budget
  BY RouterAssumption
<1>3. used' \in [DOMAIN Budget -> Nat]
  BY <1>2, SpendTyped DEF TypeOK, Session, PoolRegister, ReadEnd, RemoveOwnRow, Disconnect,
     RemoveDeadRow, AddConnectedClient, Evicted
<1> DEFINE Rows == /\ row' \in [Clients -> Pods \cup {NoPod}] /\ sess' \in [Clients -> SessState]
                   /\ pool' \in [Pods -> SUBSET Clients]
<1>4. Rows
  <2>1. CASE PoolRegister(i)
    BY <2>1 DEF PoolRegister, TypeOK, SessState
  <2>2. CASE ReadEnd(i)
    BY <2>2 DEF ReadEnd, TypeOK, SessState
  <2>3. CASE RemoveOwnRow(i)
    BY <2>3 DEF RemoveOwnRow, TypeOK, SessState
  <2>4. CASE Disconnect(i)
    BY <2>4 DEF Disconnect, TypeOK, SessState
  <2>5. CASE RemoveDeadRow(i)
    BY <2>5 DEF RemoveDeadRow, TypeOK, SessState
  <2>6. ASSUME NEW p \in Pods, AddConnectedClient(i, p) PROVE Rows
    BY <2>6 DEF AddConnectedClient, TypeOK, SessState
  <2>7. ASSUME NEW p \in Pods, Evicted(i, p) PROVE Rows
    BY <2>7 DEF Evicted, TypeOK, SessState
  <2> QED BY <2>1, <2>2, <2>3, <2>4, <2>5, <2>6, <2>7 DEF Session
<1>5. RestTyped'
  BY <1>3, <1>4 DEF redis, RestTyped, TypeOK, Session, PoolRegister, ReadEnd, RemoveOwnRow,
     Disconnect, RemoveDeadRow, AddConnectedClient, Evicted
<1> QED BY <1>1, <1>5, Parts, WholeNext

LEMMA GrowsTyped ==
  ASSUME TypeOK, NEW s \in Pods, NEW e \in Entry, GrowIdle(s, e) PROVE TypeOK'
<1>1. [stream[s] EXCEPT !.idle = @ \cup {e}] \in Good
  BY GoodStreams DEF Good, Stream, GrowIdle
<1>2. stream' \in [Pods -> Good]
  BY <1>1, GoodStreams DEF GrowIdle
<1> QED BY <1>2, Parts, WholeNext DEF GrowIdle, session, RestTyped

LEMMA LeaseTyped ==
  ASSUME TypeOK, NEW s \in Pods, LeaseExpires(s) PROVE TypeOK'
<1>1. \A w \in Loops : wk[w].leased \in BOOLEAN
  BY SoundLoops DEF Sound, Worker
<1>2. \A w \in Loops :
        [wk[w] EXCEPT !.leased = @ /\ ~(Pod(w) = lock[s] /\ wk[w].src = s)] \in Sound
  <2>1. \A k \in Sound, b \in BOOLEAN : [k EXCEPT !.leased = b] \in Sound
    BY DEF Sound, Worker
  <2>2. \A w \in Loops : (wk[w].leased /\ ~(Pod(w) = lock[s] /\ wk[w].src = s)) \in BOOLEAN
    OBVIOUS
  <2> QED BY <2>1, <2>2, SoundLoops
<1>3. wk' \in [Loops -> Sound]
  BY <1>2 DEF LeaseExpires
<1> QED BY <1>3, Parts, WholeNext DEF LeaseExpires, session, RestTyped

LEMMA TrimsTyped ==
  ASSUME TypeOK, NEW p \in Pods, TrimCutoff(p) \/ TrimStream(p) PROVE TypeOK'
<1>1. CASE TrimCutoff(p)
  <2> DEFINE cut == Later(0, now - Retention)
             old == OldestPending(stream[p])
  <2>1. cut \in 0..MaxTime
    BY RouterAssumption, SMTT(30) DEF Later, TypeOK
  <2>2. stream[p].pel # {} => old \in 0..MaxTime
    <3> DEFINE times == {e.t : e \in stream[p].pel}
    <3>1. times \in SUBSET (0..MaxTime) /\ times \in SUBSET Nat
      BY RouterAssumption, GoodStreams, SMTT(30) DEF Good, Stream, Entry
    <3>2. stream[p].pel # {} => \E t \in times : \A u \in times : t <= u
      <4>1. stream[p].pel # {} => times # {}
        OBVIOUS
      <4> HIDE DEF times
      <4> QED BY <3>1, <4>1, Least
    <3>3. stream[p].pel # {} => \E t \in times : \A e \in stream[p].pel : t <= e.t
      BY <3>2
    <3> QED BY <3>1, <3>3 DEF OldestPending
  <2>3. stream[p].pel # {} => Later(cut, old) \in 0..MaxTime
    <3> HIDE DEF cut, old
    <3> QED BY <2>1, <2>2 DEF Later
  <2>4. trim' \in [Pods -> -1..MaxTime]
    <3>1. (IF stream[p].pel = {} THEN cut ELSE Later(cut, old)) \in -1..MaxTime
      <4>1. \A t \in 0..MaxTime : t \in -1..MaxTime
        BY RouterAssumption
      <4> HIDE DEF cut, old
      <4> QED BY <2>1, <2>3, <4>1
    <3>2. trim' = [trim EXCEPT ![p] = IF stream[p].pel = {} THEN cut ELSE Later(cut, old)]
      BY <1>1 DEF TrimCutoff
    <3> HIDE DEF cut, old
    <3> QED BY <3>1, <3>2 DEF TypeOK
  <2> QED BY <1>1, <2>4, Parts, WholeNext DEF TrimCutoff, session, redis, RestTyped
<1>2. CASE TrimStream(p)
  <2>1. PICK cut : stream' = [stream EXCEPT ![p] = Trimmed(@, cut)]
    BY <1>2 DEF TrimStream
  <2>2. stream' \in [Pods -> Good]
    BY <2>1, GoodStreams, TrimmedGood
  <2>3. trim' \in [Pods -> -1..MaxTime]
    BY <1>2, RouterAssumption, SMTT(30) DEF TrimStream, TypeOK
  <2> QED BY <1>2, <2>2, <2>3, Parts, WholeNext DEF TrimStream, session, RestTyped
<1> QED BY <1>1, <1>2

LEMMA PodsTyped ==
  ASSUME TypeOK, NEW p \in Pods,
         Stop(p) \/ Die(p) \/ Restart(p) \/ HeartbeatExpires(p) \/ Heartbeat(p)
  PROVE  TypeOK'
<1>1. CASE Die(p)
  <2>1. wk' \in [Loops -> Sound]
    BY <1>1, SoundLoops, RestingSound DEF Die
  <2>2. "crash" \in DOMAIN Budget /\ -1 \in -1..MaxTime
    BY RouterAssumption
  <2>3. used' \in [DOMAIN Budget -> Nat] /\ trim' \in [Pods -> -1..MaxTime]
    BY <1>1, <2>2, SpendTyped DEF Die, TypeOK
  <2>4. sess' \in [Clients -> SessState] /\ pool' \in [Pods -> SUBSET Clients]
    BY <1>1 DEF Die, TypeOK, SessState
  <2> QED BY <1>1, <2>1, <2>3, <2>4, Parts, WholeNext DEF Die, redis, RestTyped
<1>2. CASE Stop(p)
  BY <1>2, Parts, WholeNext DEF Stop, session, RestTyped
<1>3. CASE Restart(p)
  BY <1>3, Parts, WholeNext DEF Restart, session, redis, RestTyped
<1>4. CASE HeartbeatExpires(p)
  BY <1>4, Parts, WholeNext DEF HeartbeatExpires, session, RestTyped
<1>5. CASE Heartbeat(p)
  BY <1>5, Parts, WholeNext DEF Heartbeat, session, RestTyped
<1> QED BY <1>1, <1>2, <1>3, <1>4, <1>5

LEMMA TickTyped == ASSUME TypeOK, Tick PROVE TypeOK'
BY Parts, WholeNext, RouterAssumption DEF Tick, session, redis, RestTyped

LEMMA PublishTyped ==
  ASSUME TypeOK, NEW m \in Msgs, PublishLookup(m) \/ PublishAdd(m) PROVE TypeOK'
<1>1. CASE PublishLookup(m)
  BY <1>1, Parts, WholeNext, RouterAssumption DEF PublishLookup, session, redis, RestTyped
<1>2. CASE PublishAdd(m)
  <2>1. stream' \in [Pods -> Good]
    BY <1>2, AddGood DEF PublishAdd
  <2> QED BY <1>2, <2>1, Parts, WholeNext DEF PublishAdd, session, RestTyped
<1> QED BY <1>1, <1>2

\* processMessage.
LEMMA MessageTyped ==
  ASSUME TypeOK, NEW w \in Loops, ProcessMessage(w) PROVE TypeOK'
<1> USE DEF session, redis
<1>0. wk[w].pc \in Steps
  BY DEF ProcessMessage, Find, Deliver, Relook, Lookup, LookupMiss, SourceAlive, Republish,
     Add, Ack, Steps
<1>a. \A where \in Steps : Goto(w, where) => wk' \in [Loops -> Sound]
  <2>1. "idle" \notin Steps /\ Steps \subseteq Phases \cup Steps
    BY DEF Steps
  <2> QED BY <1>0, <2>1, GotoSound
<1>b. \A left \in SUBSET Msgs : NextInBatch(w, left) => wk' \in [Loops -> Sound]
  BY <1>0, NextSound
<1>1. CASE Find(w) \/ Relook(w) \/ Lookup(w)
  <2>1. wk' \in [Loops -> Sound]
    BY <1>1, <1>a DEF Find, Relook, Lookup, Steps
  <2>2. RestTyped'
    BY <1>1, Parts, WorksOrFails DEF Find, Relook, Lookup, RestTyped
  <2> QED BY <1>1, <2>1, <2>2, Parts, WholeNext DEF Find, Relook, Lookup
<1>2. CASE Deliver(w)
  <2>1. wk' \in [Loops -> Sound]
    BY <1>2, <1>a DEF Deliver, Steps
  <2>2. got' \in [Msgs -> 0..2]
    <3>1. \A n \in 0..2 : (IF n = 2 THEN 2 ELSE n + 1) \in 0..2
      OBVIOUS
    <3>2. got \in [Msgs -> 0..2]
      BY DEF TypeOK
    <3>3. \/ got' = [got EXCEPT ![InHand(w).m] = IF @ = 2 THEN 2 ELSE @ + 1]
          \/ UNCHANGED got
      BY <1>2 DEF Deliver
    <3> QED BY <3>1, <3>2, <3>3
  <2>3. RestTyped'
    BY <1>2, <2>2, Parts DEF Deliver, RestTyped
  <2> QED BY <1>2, <2>1, <2>3, Parts, WholeNext DEF Deliver
<1>3. CASE LookupMiss(w)
  <2>1. wk' \in [Loops -> Sound]
    BY <1>3, <1>0, <1>a, <1>b, LoopParts DEF LookupMiss, Steps
  <2>2. RestTyped'
    BY <1>3, Parts, WorksOrFails DEF LookupMiss, RestTyped
  <2> QED BY <1>3, <2>1, <2>2, Parts, WholeNext DEF LookupMiss
<1>4. CASE SourceAlive(w) \/ Republish(w)
  <2>1. \A d \in Pods : [wk[w] EXCEPT !.pc = "xadd", !.dst = d] \in Sound
    BY <1>0, LoopParts, ZenonT(40) DEF Sound, Worker, Steps
  <2>2. \A d \in Pods : wk' = [wk EXCEPT ![w].pc = "xadd", ![w].dst = d] => wk' \in [Loops -> Sound]
    BY <2>1, SoundLoops
  <2>3. Pod(w) \in Pods /\ row[Client(w)] \in Pods \cup {NoPod}
    BY <1>0, LoopParts DEF TypeOK
  <2>4. wk' \in [Loops -> Sound]
    BY <1>4, <1>a, <2>2, <2>3 DEF SourceAlive, Republish, Steps
  <2>5. RestTyped'
    BY <1>4, Parts, WorksOrFails DEF SourceAlive, Republish, RestTyped
  <2> QED BY <1>4, <2>4, <2>5, Parts, WholeNext DEF SourceAlive, Republish
<1>5. CASE Add(w)
  <2>1. wk' \in [Loops -> Sound]
    BY <1>5, <1>a DEF Add, Steps
  <2>2. stream' \in [Pods -> Good]
    BY <1>5, <1>0, LoopParts, AddGood, Parts DEF Add
  <2>3. RestTyped'
    BY <1>5, Parts, WorksOrFails DEF Add, RestTyped
  <2> QED BY <2>1, <2>2, <2>3, WholeNext
<1>6. CASE Ack(w)
  <2>1. wk' \in [Loops -> Sound]
    BY <1>6, <1>b DEF Ack
  <2>2. stream' \in [Pods -> Good]
    <3>1. wk[w].src \in Pods => Acked(stream[wk[w].src], InHand(w)) \in Good
      BY <1>0, LoopParts, AckedGood, Parts
    <3> QED BY <1>6, <3>1, Parts DEF Ack
  <2>3. RestTyped'
    BY <1>6, Parts, WorksOrFails DEF Ack, RestTyped
  <2> QED BY <2>1, <2>2, <2>3, WholeNext
<1> QED BY <1>1, <1>2, <1>3, <1>4, <1>5, <1>6 DEF ProcessMessage

\* The consumer and the claimer take a batch, the janitor chooses a stream.
LEMMA TakesTyped ==
  ASSUME TypeOK, NEW w \in Loops, NEW s \in Pods, Own(w) \/ FindDeadPod(w, s) PROVE TypeOK'
<1> USE DEF session, redis
<1>0. Pod(w) \in Pods
  BY LoopParts
<1>1. CASE CreateGroup(w)
  <2>1. stream' \in [Pods -> Good]
    BY <1>1, <1>0, EnsureGood, Parts DEF CreateGroup
  <2> QED BY <1>1, <2>1, Parts, WholeNext DEF CreateGroup, RestTyped
<1>2. CASE ReadGroup(w)
  <2>1. stream' \in [Pods -> Good]
    BY <1>2, <1>0, FirstTyped, Parts DEF ReadGroup
  <2>2. wk' \in [Loops -> Sound]
    BY <1>2, <1>0, FirstTyped, StartSound DEF ReadGroup
  <2> QED BY <1>2, <2>1, <2>2, Parts, WholeNext DEF ReadGroup, RestTyped
<1>3. CASE AutoClaim(w)
  <2>1. PICK e \in Claimable(Pod(w)) :
          /\ stream' = [stream EXCEPT ![Pod(w)].idle = @ \ {e}]
          /\ StartBatch(w, Pod(w), <<e>>, "idle")
    BY <1>3 DEF AutoClaim
  <2>2. e \in Entry /\ [stream[Pod(w)] EXCEPT !.idle = @ \ {e}] \in Good
    BY <1>0, Parts DEF Good, Stream, Claimable
  <2>3. stream' \in [Pods -> Good]
    BY <2>1, <2>2, Parts
  <2>4. <<e>> \in Seq(Entry) /\ <<e>> # <<>>
    BY <2>2
  <2>5. wk' \in [Loops -> Sound]
    BY <1>0, <2>1, <2>4, StartSound
  <2> QED BY <1>3, <2>3, <2>5, Parts, WholeNext DEF AutoClaim, RestTyped
<1>4. CASE FindDeadPod(w, s)
  <2>1. [wk[w] EXCEPT !.pc = "lock", !.src = s] \in Sound
    <3>1. s # NoPod /\ wk[w].pc = "idle" /\ wk[w] \in Sound
      BY <1>4, LoopParts, RouterAssumption DEF FindDeadPod, At
    <3>2. wk[w] \in Worker /\ wk[w].batch = <<>>
      BY <3>1 DEF Sound, Steps
    <3> QED BY <3>1, <3>2 DEF Sound, Worker, Phases, Taking, Steps
  <2>2. wk' \in [Loops -> Sound]
    BY <1>4, <2>1, Parts DEF FindDeadPod
  <2> QED BY <1>4, <2>2, Parts, WholeNext DEF FindDeadPod, RestTyped
<1> QED BY <1>1, <1>2, <1>3, <1>4 DEF Own

\* drainDeadPod.
LEMMA DrainTyped ==
  ASSUME TypeOK, NEW w \in Loops, DrainDeadPod(w) PROVE TypeOK'
<1> USE DEF session, redis
<1> DEFINE s == wk[w].src
<1>0. /\ wk[w].pc \in Phases \ {"idle"} /\ wk[w].pc \notin Steps
      /\ wk[w] \in Worker /\ wk[w].batch = <<>> /\ s \in Pods /\ s # NoPod
  <2>1. wk[w].pc \in Phases \ {"idle"}
    BY DEF DrainDeadPod, AcquireLock, DrainGroup, DrainTrim, DrainClaim, DrainRead, ListPending,
       ForceAck, CheckEmpty, DeleteStream, ReleaseLock, DrainCancelled, At, Phases, Taking
  <2>2. Phases \cap Steps = {}
    BY DEF Phases, Taking, Steps
  <2> QED BY <2>1, <2>2, LoopParts, RouterAssumption DEF Sound
<1>a. \A where \in Phases \ {"idle"} : Goto(w, where) => wk' \in [Loops -> Sound]
  <2>1. \A where \in Phases : where \notin Steps
    BY DEF Phases, Taking, Steps
  <2> QED BY <1>0, <2>1, GotoSound
<1>b. wk' = [wk EXCEPT ![w] = Resting] => wk' \in [Loops -> Sound]
  BY RestingSound, SetSound
<1>c. \A st \in Good : SetStream(w, st) => stream' \in [Pods -> Good]
  BY SetGood DEF SetStream
<1>d. s \in Pods => stream[s] \in Good
  BY Parts
<1>1. CASE AcquireLock(w)
  <2>1. [wk[w] EXCEPT !.pc = "group", !.leased = TRUE] \in Sound
    BY <1>0 DEF Sound, Worker, Phases, Taking, Steps
  <2>2. wk' \in [Loops -> Sound]
    BY <1>1, <1>b, <2>1, Parts DEF AcquireLock
  <2>3. lock' \in [Pods -> Pods \cup {NoPod}]
    <3>1. Pod(w) \in Pods /\ lock \in [Pods -> Pods \cup {NoPod}]
      BY LoopParts, Parts DEF RestTyped
    <3> QED BY <1>1, <3>1 DEF AcquireLock
  <2>4. RestTyped'
    BY <1>1, <2>3, Parts, WorksOrFails DEF AcquireLock, RestTyped
  <2> QED BY <1>1, <2>2, <2>4, Parts, WholeNext DEF AcquireLock
<1>2. CASE DrainGroup(w)
  <2>1. wk' \in [Loops -> Sound]
    BY <1>2, <1>a DEF DrainGroup, Phases
  <2>2. stream' \in [Pods -> Good]
    BY <1>2, <1>d, EnsureGood, SetGood, Parts DEF DrainGroup, SetStream
  <2>3. RestTyped'
    BY <1>2, Parts, WorksOrFails DEF DrainGroup, RestTyped
  <2> QED BY <2>1, <2>2, <2>3, WholeNext
<1>3. CASE DrainTrim(w)
  <2>1. wk' \in [Loops -> Sound]
    BY <1>3, <1>a DEF DrainTrim, Phases, Taking
  <2>2. stream' \in [Pods -> Good]
    BY <1>3, <1>d, TrimmedGood, SetGood, Parts DEF DrainTrim, SetStream
  <2>3. RestTyped'
    BY <1>3, Parts, WorksOrFails DEF DrainTrim, RestTyped
  <2> QED BY <2>1, <2>2, <2>3, WholeNext
<1>4. CASE DrainClaim(w)
  <2>1. CASE Goto(w, "read") /\ UNCHANGED stream
    <3>1. wk' \in [Loops -> Sound]
      BY <1>a, <2>1 DEF Phases, Taking
    <3>2. RestTyped'
      BY <1>4, Parts, WorksOrFails DEF DrainClaim, RestTyped
    <3> QED BY <2>1, <3>1, <3>2, Parts, WholeNext
  <2>2. ASSUME NEW e \in Claimable(s), stream' = [stream EXCEPT ![s].idle = @ \ {e}],
               StartBatch(w, s, <<e>>, "claim")
        PROVE  TypeOK'
    <3>1. s \in Pods => e \in Entry /\ [stream[s] EXCEPT !.idle = @ \ {e}] \in Good
      BY <1>d DEF Good, Stream, Claimable
    <3>2. stream' \in [Pods -> Good]
      BY <2>2, <3>1, Parts
    <3>3. s \in Pods
      BY <1>0, LoopParts
    <3>4. <<e>> \in Seq(Entry) /\ <<e>> # <<>>
      BY <3>1, <3>3
    <3>5. wk' \in [Loops -> Sound]
      BY <2>2, <3>3, <3>4, StartSound DEF Taking
    <3>6. RestTyped'
      BY <1>4, Parts, WorksOrFails DEF DrainClaim, RestTyped
    <3> QED BY <3>2, <3>5, <3>6, WholeNext
  <2>3. \/ Goto(w, "read") /\ UNCHANGED stream
        \/ \E e \in Claimable(s) : /\ stream' = [stream EXCEPT ![s].idle = @ \ {e}]
                                   /\ StartBatch(w, s, <<e>>, "claim")
    BY <1>4 DEF DrainClaim
  <2> QED BY <2>1, <2>2, <2>3
<1>5. CASE DrainRead(w)
  <2>1. CASE Goto(w, "pending") /\ UNCHANGED stream
    <3>1. wk' \in [Loops -> Sound]
      BY <1>a, <2>1 DEF Phases
    <3>2. RestTyped'
      BY <1>5, Parts, WorksOrFails DEF DrainRead, RestTyped
    <3> QED BY <2>1, <3>1, <3>2, Parts, WholeNext
  <2>2. CASE /\ wk[w].reads < MaxReads /\ FirstUnread(s) # <<>>
             /\ stream' = [stream EXCEPT ![s] = Delivered(@, FirstUnread(s))]
             /\ wk' = [wk EXCEPT ![w].batch = FirstUnread(s), ![w].pc = "find",
                                 ![w].back = "read", ![w].reads = @ + 1]
    <3>1. s \in Pods
      BY <1>0, LoopParts
    <3>2. stream' \in [Pods -> Good]
      BY <2>2, <3>1, FirstTyped, Parts
    <3>3. wk[w].reads + 1 \in 0..MaxReads
      BY <1>0, <2>2, RouterAssumption DEF Worker
    <3>4. [wk[w] EXCEPT !.batch = FirstUnread(s), !.pc = "find", !.back = "read",
                        !.reads = @ + 1] \in Sound
      <4>1. FirstUnread(s) \in Seq(Entry)
        BY <3>1, FirstTyped
      <4>2. s # NoPod
        BY <3>1, RouterAssumption
      <4> QED BY <1>0, <2>2, <3>3, <4>1, <4>2 DEF Sound, Worker, Steps, Taking
    <3>5. wk' \in [Loops -> Sound]
      BY <2>2, <3>4, Parts
    <3>6. RestTyped'
      BY <1>5, Parts, WorksOrFails DEF DrainRead, RestTyped
    <3> QED BY <3>2, <3>5, <3>6, WholeNext
  <2> QED BY <1>5, <2>1, <2>2 DEF DrainRead
<1>6. CASE ListPending(w)
  <2>1. s \in Pods
    BY <1>0, LoopParts
  <2>2. [wk[w] EXCEPT !.pc = "force", !.ids = stream[s].pel] \in Sound
    <3>1. stream[s].pel \in SUBSET Entry /\ s # NoPod
      BY <1>d, <2>1, RouterAssumption DEF Good, Stream
    <3> QED BY <1>0, <3>1 DEF Sound, Worker, Phases, Steps
  <2>3. wk' \in [Loops -> Sound]
    BY <1>6, <1>a, <2>2, Parts DEF ListPending, Phases
  <2>4. RestTyped'
    BY <1>6, Parts, WorksOrFails DEF ListPending, RestTyped
  <2> QED BY <1>6, <2>3, <2>4, Parts, WholeNext DEF ListPending
<1>7. CASE ForceAck(w)
  <2>1. s \in Pods
    BY <1>0, LoopParts
  <2>2. [wk[w] EXCEPT !.pc = "len", !.ids = {}] \in Sound
    <3>1. s # NoPod
      BY <2>1, RouterAssumption
    <3> QED BY <1>0, <3>1 DEF Sound, Worker, Phases, Steps
  <2>3. wk' \in [Loops -> Sound]
    BY <1>7, <2>2, Parts DEF ForceAck
  <2>4. stream' \in [Pods -> Good]
    <3>1. AckedAll(stream[s], wk[w].ids) \in Good
      BY <1>0, <1>d, <2>1, AckedAllGood DEF Worker
    <3> QED BY <1>7, <1>c, <3>1, Parts DEF ForceAck
  <2>5. RestTyped'
    BY <1>7, Parts, WorksOrFails DEF ForceAck, RestTyped
  <2> QED BY <2>3, <2>4, <2>5, WholeNext
<1>8. CASE CheckEmpty(w)
  <2>1. wk' \in [Loops -> Sound]
    BY <1>8, <1>a DEF CheckEmpty, Phases
  <2>2. RestTyped'
    BY <1>8, Parts, WorksOrFails DEF CheckEmpty, RestTyped
  <2> QED BY <1>8, <2>1, <2>2, Parts, WholeNext DEF CheckEmpty
<1>9. CASE DeleteStream(w)
  <2>1. wk' \in [Loops -> Sound]
    BY <1>9, <1>a DEF DeleteStream, Phases
  <2>2. stream' \in [Pods -> Good]
    BY <1>9, <1>c, EmptyGood, Parts DEF DeleteStream
  <2>3. RestTyped'
    BY <1>9, Parts, WorksOrFails DEF DeleteStream, RestTyped
  <2> QED BY <2>1, <2>2, <2>3, WholeNext
<1>10. CASE ReleaseLock(w)
  <2>1. wk' \in [Loops -> Sound]
    BY <1>10, <1>b DEF ReleaseLock
  <2>2. lock' \in [Pods -> Pods \cup {NoPod}]
    BY <1>10, Parts DEF ReleaseLock, FreeOwn, RestTyped
  <2>3. RestTyped'
    BY <1>10, <2>2, Parts, WorksOrFails DEF ReleaseLock, RestTyped
  <2> QED BY <1>10, <2>1, <2>3, Parts, WholeNext DEF ReleaseLock
<1>11. CASE DrainCancelled(w)
  <2>1. wk' \in [Loops -> Sound]
    BY <1>11, <1>b DEF DrainCancelled
  <2> QED BY <1>11, <2>1, Parts, WholeNext DEF DrainCancelled, RestTyped
<1> QED
  BY <1>1, <1>2, <1>3, <1>4, <1>5, <1>6, <1>7, <1>8, <1>9, <1>10, <1>11 DEF DrainDeadPod

LEMMA StutterTyped == ASSUME TypeOK, UNCHANGED vars PROVE TypeOK'
BY Parts, WholeNext DEF vars, session, redis, RestTyped

LEMMA StepTyped == TypeOK /\ [Next]_vars => TypeOK'
<1> SUFFICES ASSUME TypeOK, [Next]_vars PROVE TypeOK'
  OBVIOUS
<1>1. CASE UNCHANGED vars
  BY <1>1, StutterTyped
<1>2. CASE \E i \in Clients : Session(i) \/ Disconnect(i) \/ RemoveDeadRow(i)
  BY <1>2, SessionsTyped
<1>3. CASE \E i \in Clients, p \in Pods : AddConnectedClient(i, p) \/ Evicted(i, p)
  BY <1>3, SessionsTyped
<1>4. CASE \E p \in Pods : TrimCutoff(p) \/ TrimStream(p)
  BY <1>4, TrimsTyped
<1>5. CASE \E p \in Pods : LeaseExpires(p)
  BY <1>5, LeaseTyped
<1>6. CASE \E p \in Pods : Stop(p) \/ Die(p) \/ Restart(p) \/ HeartbeatExpires(p) \/ Heartbeat(p)
  BY <1>6, PodsTyped
<1>7. CASE Tick
  BY <1>7, TickTyped
<1>8. CASE \E p \in Pods, e \in Entry : GrowIdle(p, e)
  BY <1>8, GrowsTyped
<1>9. CASE \E m \in Msgs : PublishLookup(m) \/ PublishAdd(m)
  BY <1>9, PublishTyped
<1>10. CASE \E w \in Loops : Loop(w)
  <2>1. PICK w \in Loops : Loop(w)
    BY <1>10
  <2>2. Pod(w) \in Pods
    BY LoopParts
  <2> QED BY <2>1, <2>2, MessageTyped, DrainTyped, TakesTyped DEF Loop
<1> QED BY <1>1, <1>2, <1>3, <1>4, <1>5, <1>6, <1>7, <1>8, <1>9, <1>10 DEF Next

\* Every variable keeps a value of its kind; the idle and the trimmed entries of
\* a group are pending ones, and a loop works on entries exactly when it has some.
THEOREM RouterTypeCorrect == Spec => []TypeOK
BY InitTyped, StepTyped, PTL DEF Spec
----------------------------------------------------------------------------
(* Leases.                                                                  *)

\* A loop that has a lease is a janitor in the middle of a drain, and the lock
\* of the stream it drains names its pod.
Leases == \A w \in Loops : wk[w].leased =>
            /\ Kind(w) = "janitor" /\ wk[w].pc \notin {"idle", "lock"}
            /\ lock[wk[w].src] = Pod(w)

\* A step gives no loop a lease, and takes none that has one off its drain.
KeptLeases == \A w \in Loops : wk'[w].leased =>
                /\ wk[w].leased /\ wk'[w].src = wk[w].src
                /\ wk'[w].pc \in {"idle", "lock"} => wk[w].pc \in {"idle", "lock"}

LEMMA LeasesApart == ASSUME TypeOK, Leases PROVE OneDrainer
<1> SUFFICES ASSUME NEW v \in Loops, NEW w \in Loops, wk[v].leased, wk[w].leased,
                    wk[v].src = wk[w].src
             PROVE  v = w
  BY DEF OneDrainer
<1>1. Pod(v) = Pod(w) /\ Kind(v) = Kind(w)
  BY DEF Leases
<1>2. v = <<Pod(v), Kind(v)>> /\ w = <<Pod(w), Kind(w)>>
  BY LoopParts
<1> QED BY <1>1, <1>2

LEMMA LeasesStay ==
  ASSUME Leases, UNCHANGED lock, KeptLeases PROVE Leases'
BY DEF Leases, KeptLeases, Pod, Kind

LEMMA GotoKeeps ==
  ASSUME TypeOK, NEW w \in Loops, NEW where, where \notin {"idle", "lock"}, Goto(w, where)
  PROVE  KeptLeases
BY DEF TypeOK, Worker, Goto, KeptLeases

LEMMA RestKeeps ==
  ASSUME TypeOK, NEW w \in Loops, wk' = [wk EXCEPT ![w] = Resting] PROVE KeptLeases
BY DEF TypeOK, Resting, KeptLeases

LEMMA NextKeeps ==
  ASSUME TypeOK, NEW w \in Loops, wk[w].pc \in Steps, NEW left, NextInBatch(w, left)
  PROVE  KeptLeases
<1> DEFINE k == [wk[w] EXCEPT !.batch = Tail(@), !.dst = NoPod, !.moved = FALSE,
                              !.kept = @ \cup left]
<1>1. /\ k.leased = wk[w].leased /\ k.src = wk[w].src /\ wk \in [Loops -> Worker]
      /\ k.back = wk[w].back /\ wk[w].back \in Taking \cup {"idle"}
      /\ DOMAIN k = DOMAIN wk[w] /\ "pc" \in DOMAIN k
  BY DEF TypeOK, Worker
<1>2. wk' = [wk EXCEPT ![w] = IF k.batch # <<>> THEN [k EXCEPT !.pc = "find"]
                              ELSE IF k.back = "idle" THEN Resting
                              ELSE [k EXCEPT !.pc = k.back]]
  BY DEF NextInBatch
<1>3. \A where : /\ [k EXCEPT !.pc = where].leased = k.leased
                 /\ [k EXCEPT !.pc = where].src = k.src
                 /\ [k EXCEPT !.pc = where].pc = where
  BY DEF TypeOK, Worker
<1> HIDE DEF k
<1> QED BY <1>1, <1>2, <1>3 DEF KeptLeases, Resting, Taking

LEMMA StartKeeps ==
  ASSUME TypeOK, NEW w \in Loops, NEW s, NEW batch, NEW back,
         wk[w].leased => s = wk[w].src, StartBatch(w, s, batch, back)
  PROVE  KeptLeases
BY DEF TypeOK, Worker, StartBatch, KeptLeases

LEMMA StirKeeps == ASSUME TypeOK, NEW i, Stir(i) PROVE KeptLeases
<1>1. \A w \in Loops : \E b : wk'[w] = [wk[w] EXCEPT !.moved = b]
  BY DEF Stir
<1>2. \A k \in Worker : \A b : LET j == [k EXCEPT !.moved = b]
                           IN j.leased = k.leased /\ j.src = k.src /\ j.pc = k.pc
  BY DEF Worker
<1>3. \A w \in Loops : /\ wk'[w].leased = wk[w].leased /\ wk'[w].src = wk[w].src
                       /\ wk'[w].pc = wk[w].pc
  <2> TAKE w \in Loops
  <2>1. PICK b : wk'[w] = [wk[w] EXCEPT !.moved = b]
    BY <1>1
  <2>2. wk[w] \in Worker
    BY DEF TypeOK
  <2> QED BY <1>2, <2>1, <2>2
<1> QED BY <1>3 DEF KeptLeases

LEMMA SameKeeps == UNCHANGED wk => KeptLeases
BY DEF KeptLeases

LEMMA MessageKeeps ==
  ASSUME TypeOK, NEW w \in Loops, ProcessMessage(w) PROVE KeptLeases /\ UNCHANGED lock
<1> USE DEF redis
<1>0. wk[w].pc \in Steps
  BY DEF ProcessMessage, Find, Deliver, Relook, Lookup, LookupMiss, SourceAlive, Republish,
     Add, Ack, Steps
<1>a. \A where \in Steps : Goto(w, where) => KeptLeases
  BY GotoKeeps DEF Steps
<1>b. \A left : NextInBatch(w, left) => KeptLeases
  BY <1>0, NextKeeps
<1>1. CASE Find(w) \/ Relook(w) \/ Lookup(w)
  BY <1>1, <1>a DEF Find, Relook, Lookup, Steps
<1>2. CASE Deliver(w)
  BY <1>2, <1>a DEF Deliver, Steps
<1>3. CASE LookupMiss(w)
  BY <1>3, <1>a, <1>b DEF LookupMiss, Steps
<1>4. CASE SourceAlive(w) \/ Republish(w)
  <2>1. \A d : wk' = [wk EXCEPT ![w].pc = "xadd", ![w].dst = d] => KeptLeases
    BY DEF TypeOK, Worker, KeptLeases
  <2> QED BY <1>4, <1>a, <2>1 DEF SourceAlive, Republish, Steps
<1>5. CASE Add(w)
  BY <1>5, <1>a DEF Add, Steps
<1>6. CASE Ack(w)
  BY <1>6, <1>b DEF Ack
<1> QED BY <1>1, <1>2, <1>3, <1>4, <1>5, <1>6 DEF ProcessMessage

LEMMA TakesKeep ==
  ASSUME TypeOK, Leases, NEW w \in Loops, NEW s \in Pods, Own(w) \/ FindDeadPod(w, s)
  PROVE  KeptLeases /\ UNCHANGED lock
<1> USE DEF redis
<1>0. wk[w].pc = "idle" /\ ~wk[w].leased
  BY DEF Leases, Own, CreateGroup, ReadGroup, AutoClaim, Ready, FindDeadPod, At
<1>1. CASE CreateGroup(w)
  BY <1>1, SameKeeps DEF CreateGroup
<1>2. CASE ReadGroup(w)
  BY <1>0, <1>2, StartKeeps DEF ReadGroup
<1>3. CASE AutoClaim(w)
  BY <1>0, <1>3, StartKeeps DEF AutoClaim
<1>4. CASE FindDeadPod(w, s)
  BY <1>0, <1>4 DEF FindDeadPod, TypeOK, Worker, KeptLeases
<1> QED BY <1>1, <1>2, <1>3, <1>4 DEF Own

\* Every step of a drain but those that take and release the lock.
LEMMA DrainKeeps ==
  ASSUME TypeOK, NEW w \in Loops, DrainDeadPod(w), ~AcquireLock(w), ~ReleaseLock(w)
  PROVE  KeptLeases /\ UNCHANGED lock
<1> USE DEF redis
<1>a. \A where \in Phases \ {"idle", "lock"} : Goto(w, where) => KeptLeases
  BY GotoKeeps
<1>1. CASE DrainGroup(w) \/ DrainTrim(w)
  BY <1>1, <1>a DEF DrainGroup, DrainTrim, Phases, Taking
<1>2. CASE DrainClaim(w)
  BY <1>2, <1>a, StartKeeps DEF DrainClaim, Phases, Taking
<1>3. CASE DrainRead(w)
  <2>1. \A batch : wk' = [wk EXCEPT ![w].batch = batch, ![w].pc = "find",
                                    ![w].back = "read", ![w].reads = @ + 1] => KeptLeases
    BY DEF TypeOK, Worker, KeptLeases
  <2> QED BY <1>3, <1>a, <2>1 DEF DrainRead, Phases
<1>4. CASE ListPending(w)
  <2>1. \A ids : wk' = [wk EXCEPT ![w].pc = "force", ![w].ids = ids] => KeptLeases
    BY DEF TypeOK, Worker, KeptLeases
  <2> QED BY <1>4, <1>a, <2>1 DEF ListPending, Phases
<1>5. CASE ForceAck(w)
  BY <1>5 DEF ForceAck, TypeOK, Worker, KeptLeases
<1>6. CASE CheckEmpty(w) \/ DeleteStream(w)
  BY <1>6, <1>a DEF CheckEmpty, DeleteStream, Phases
<1>7. CASE DrainCancelled(w)
  BY <1>7, RestKeeps DEF DrainCancelled
<1> QED BY <1>1, <1>2, <1>3, <1>4, <1>5, <1>6, <1>7 DEF DrainDeadPod

LEMMA AcquireLeases ==
  ASSUME TypeOK, Leases, NEW w \in Loops, AcquireLock(w) PROVE Leases'
<1>1. CASE wk' = [wk EXCEPT ![w] = Resting] /\ UNCHANGED lock
  BY <1>1, RestKeeps, LeasesStay
<1>2. CASE /\ lock[wk[w].src] = NoPod
           /\ lock' = [lock EXCEPT ![wk[w].src] = Pod(w)]
           /\ wk' = [wk EXCEPT ![w].pc = "group", ![w].leased = TRUE]
  <2> SUFFICES ASSUME NEW v \in Loops, wk'[v].leased
               PROVE  /\ Kind(v) = "janitor" /\ wk'[v].pc \notin {"idle", "lock"}
                      /\ lock'[wk'[v].src] = Pod(v)
    BY DEF Leases, Kind, Pod
  <2>1. Kind(w) = "janitor" /\ wk[w].src \in Pods /\ lock \in [Pods -> Pods \cup {NoPod}]
    BY LoopParts DEF AcquireLock, At, TypeOK
  <2>2. CASE v = w
    <3>1. wk'[w].pc = "group" /\ wk'[w].src = wk[w].src
      BY <1>2 DEF TypeOK, Worker
    <3> QED BY <1>2, <2>1, <2>2, <3>1
  <2>3. CASE v # w
    <3>1. wk'[v] = wk[v]
      BY <1>2, <2>3 DEF TypeOK
    <3>2. lock[wk[v].src] = Pod(v) /\ Pod(v) # NoPod
      BY <3>1, LoopParts, RouterAssumption DEF Leases
    <3>3. wk[v].src # wk[w].src
      BY <1>2, <3>2
    <3> QED BY <1>2, <3>1, <3>2, <3>3 DEF Leases
  <2> QED BY <2>2, <2>3
<1> QED BY <1>1, <1>2 DEF AcquireLock

\* The lock is deleted only while it names this pod, and then no other drain of
\* the stream has a lease.
LEMMA ReleaseLeases ==
  ASSUME TypeOK, Leases, NEW w \in Loops, ReleaseLock(w) PROVE Leases'
<1>1. KeptLeases /\ wk' = [wk EXCEPT ![w] = Resting]
  BY RestKeeps DEF ReleaseLock
<1> SUFFICES ASSUME NEW v \in Loops, wk'[v].leased
             PROVE  /\ Kind(v) = "janitor" /\ wk'[v].pc \notin {"idle", "lock"}
                    /\ lock'[wk'[v].src] = Pod(v)
  BY DEF Leases, Kind, Pod
<1>2. v # w /\ wk'[v] = wk[v]
  <2>1. ~Resting.leased
    BY DEF Resting
  <2> QED BY <1>1, <2>1 DEF TypeOK
<1>3. lock' = lock \/ (lock[wk[w].src] = Pod(w) /\ lock' = [lock EXCEPT ![wk[w].src] = NoPod])
  BY DEF ReleaseLock, FreeOwn
<1>4. wk[v].src = wk[w].src => lock[wk[w].src] # Pod(w)
  <2> SUFFICES ASSUME wk[v].src = wk[w].src, lock[wk[w].src] = Pod(w)
               PROVE  FALSE
    OBVIOUS
  <2>1. Pod(v) = Pod(w) /\ Kind(v) = Kind(w)
    BY <1>2 DEF Leases, ReleaseLock, At
  <2> QED BY <1>2, <2>1, LoopParts
<1>5. lock[wk[v].src] = Pod(v) /\ wk[v].src \in Pods /\ lock \in [Pods -> Pods \cup {NoPod}]
  BY <1>2, LoopParts DEF Leases, TypeOK
<1>6. lock'[wk[v].src] = Pod(v)
  BY <1>3, <1>4, <1>5
<1> QED BY <1>2, <1>6 DEF Leases

LEMMA InitLeases == Init => Leases
BY DEF Init, Resting, Leases

LEMMA ExpiredLeases == ASSUME TypeOK, Leases, NEW s \in Pods, LeaseExpires(s) PROVE Leases'
<1> SUFFICES ASSUME NEW v \in Loops, wk'[v].leased
             PROVE  /\ Kind(v) = "janitor" /\ wk'[v].pc \notin {"idle", "lock"}
                    /\ lock'[wk'[v].src] = Pod(v)
  BY DEF Leases, Kind, Pod
<1>1. /\ wk'[v].leased = (wk[v].leased /\ ~(Pod(v) = lock[s] /\ wk[v].src = s))
      /\ wk'[v].src = wk[v].src /\ wk'[v].pc = wk[v].pc
  BY DEF LeaseExpires, TypeOK, Worker
<1>2. lock[wk[v].src] = Pod(v) /\ wk[v].src # s
  BY <1>1 DEF Leases
<1>3. lock'[wk[v].src] = lock[wk[v].src]
  BY <1>1, <1>2, LoopParts DEF Leases, LeaseExpires, TypeOK
<1> QED BY <1>1, <1>2, <1>3 DEF Leases

LEMMA StepLeases == TypeOK /\ Leases /\ [Next]_vars => Leases'
<1> SUFFICES ASSUME TypeOK, Leases, [Next]_vars PROVE Leases'
  OBVIOUS
<1> USE DEF redis
<1>1. CASE UNCHANGED vars
  BY <1>1, SameKeeps, LeasesStay DEF vars
<1>2. CASE \E i \in Clients : \/ Session(i) \/ Disconnect(i) \/ RemoveDeadRow(i)
                              \/ \E p \in Pods : AddConnectedClient(i, p) \/ Evicted(i, p)
  <2>1. UNCHANGED lock /\ \E i \in Clients : Stir(i)
    BY <1>2 DEF Session, PoolRegister, ReadEnd, RemoveOwnRow, Disconnect, RemoveDeadRow,
       AddConnectedClient, Evicted
  <2> QED BY <2>1, StirKeeps, LeasesStay
<1>3. CASE \E p \in Pods : Die(p)
  <2>1. KeptLeases /\ UNCHANGED lock
    BY <1>3 DEF Die, Resting, KeptLeases
  <2> QED BY <2>1, LeasesStay
<1>4. CASE \/ Tick
           \/ \E p \in Pods : \/ Stop(p) \/ Restart(p) \/ HeartbeatExpires(p) \/ Heartbeat(p)
                              \/ TrimCutoff(p) \/ TrimStream(p)
           \/ \E p \in Pods, e \in Entry : GrowIdle(p, e)
           \/ \E m \in Msgs : PublishLookup(m) \/ PublishAdd(m)
  <2>1. UNCHANGED <<lock, wk>>
    BY <1>4 DEF Tick, Stop, Restart, HeartbeatExpires, Heartbeat, TrimCutoff, TrimStream,
       GrowIdle, PublishLookup, PublishAdd
  <2> QED BY <2>1, SameKeeps, LeasesStay
<1>5. CASE \E p \in Pods : LeaseExpires(p)
  BY <1>5, ExpiredLeases
<1>6. CASE \E w \in Loops : Loop(w)
  <2>1. PICK w \in Loops : Loop(w)
    BY <1>6
  <2>2. CASE AcquireLock(w)
    BY <2>2, AcquireLeases
  <2>3. CASE ReleaseLock(w)
    BY <2>3, ReleaseLeases
  <2>4. CASE DrainDeadPod(w) /\ ~AcquireLock(w) /\ ~ReleaseLock(w)
    BY <2>4, DrainKeeps, LeasesStay
  <2>5. CASE ProcessMessage(w)
    BY <2>5, MessageKeeps, LeasesStay
  <2>6. CASE \E s \in Pods : FindDeadPod(w, s)
    BY <2>6, TakesKeep, LeasesStay
  <2>7. CASE Own(w)
    BY <2>7, LoopParts, TakesKeep, LeasesStay
  <2> QED BY <2>1, <2>2, <2>3, <2>4, <2>5, <2>6, <2>7 DEF Loop
<1> QED BY <1>1, <1>2, <1>3, <1>4, <1>5, <1>6 DEF Next

\* At most one drain of a stream has a lease that did not run out, however many
\* pods drain, crash, come back, or outlive their lease.
THEOREM DrainsApart == Spec => []OneDrainer
<1>1. TypeOK /\ Leases => OneDrainer
  BY LeasesApart
<1> QED BY <1>1, RouterTypeCorrect, InitLeases, StepLeases, PTL DEF Spec

=============================================================================
