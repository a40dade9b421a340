--------------------------- MODULE DeliveryProofs ---------------------------
(* That a message reaches its client once: every entry of a stream is in one  *)
(* place, and of every message one entry at most is still to be processed.    *)
EXTENDS RouterProofs

Unread(s) == Elems(stream[s].unread)
Hand(w)   == Elems(wk[w].batch)
NoRepeat(q) == \A i, j \in DOMAIN q : q[i] = q[j] => i = j

\* An entry is in one stream, unread or pending, and in the hand of one loop,
\* which took it from that stream; what is in a hand is not taken for idle.
Apart ==
  /\ \A s, q \in Pods : \A e \in Unread(s) \cup stream[s].pel :
       e \in Unread(q) \cup stream[q].pel => s = q
  /\ \A s \in Pods : /\ NoRepeat(stream[s].unread)
                     /\ Unread(s) \cap stream[s].pel = {}
  /\ \A s \in Pods, w \in Loops : \A e \in Hand(w) :
       /\ e \notin Unread(s) \cup stream[s].idle
       /\ e \in stream[s].pel => wk[w].src = s
  /\ \A v, w \in Loops : Hand(v) \cap Hand(w) # {} => v = w
  /\ \A w \in Loops : NoRepeat(wk[w].batch)

\* The entries of a message that are still to be processed: those that wait in a
\* stream and those in a hand, but for one about to be acknowledged.
Spent(w, e) == wk[w].pc = "ack" /\ InHand(w) = e
Waits(s, e) == \/ e \in Unread(s)
               \/ (e \in stream[s].pel /\ \A w \in Loops : e \notin Hand(w))
Live(e) == \/ \E s \in Pods : Waits(s, e)
           \/ \E w \in Loops : e \in Hand(w) /\ ~Spent(w, e)

\* A message is yet to be published, or has a live entry, or was delivered, or
\* none of these.
Coming(m) == pub[m] \notin {"sent", "offline"}
OneLife ==
  /\ \A d, e \in Entry : Live(d) /\ Live(e) /\ d.m = e.m => d = e
  /\ \A e \in Entry : Live(e) => ~Coming(e.m) /\ got[e.m] = 0
  /\ \A m \in Msgs : got[m] \in {0, 1} /\ (Coming(m) => got[m] = 0)

----------------------------------------------------------------------------
(* Sequences without repetition.                                            *)

LEMMA PartOf ==
  ASSUME NEW S, NEW q \in Seq(S), NEW a \in Nat, a >= 1, NEW b \in Nat, b <= Len(q)
  PROVE  /\ Elems(SubSeq(q, a, b)) \subseteq Elems(q)
         /\ NoRepeat(q) => NoRepeat(SubSeq(q, a, b))
<1>0. Len(q) \in Nat /\ DOMAIN q = 1..Len(q)
  BY LenProperties
<1>1. /\ DOMAIN SubSeq(q, a, b) = 1 .. IF a <= b THEN b - a + 1 ELSE 0
      /\ \A i \in DOMAIN SubSeq(q, a, b) : SubSeq(q, a, b)[i] = q[a + i - 1]
  BY <1>0
<1>2. \A i \in DOMAIN SubSeq(q, a, b) : a + i - 1 \in DOMAIN q
  BY <1>0, <1>1
<1>3. Elems(SubSeq(q, a, b)) \subseteq Elems(q)
  BY <1>1, <1>2 DEF Elems
<1>4. ASSUME NoRepeat(q), NEW i \in DOMAIN SubSeq(q, a, b), NEW j \in DOMAIN SubSeq(q, a, b),
             SubSeq(q, a, b)[i] = SubSeq(q, a, b)[j]
      PROVE  i = j
  <2>1. a + i - 1 = a + j - 1
    BY <1>1, <1>2, <1>4 DEF NoRepeat
  <2>2. i \in Nat /\ j \in Nat
    BY <1>1
  <2> QED BY <2>1, <2>2
<1> QED BY <1>3, <1>4 DEF NoRepeat

LEMMA Halves ==
  ASSUME NEW S, NEW q \in Seq(S), NoRepeat(q), NEW n \in Nat, n <= Len(q)
  PROVE  Elems(SubSeq(q, 1, n)) \cap Elems(SubSeq(q, n + 1, Len(q))) = {}
<1>0. Len(q) \in Nat /\ DOMAIN q = 1..Len(q)
  BY LenProperties
<1> SUFFICES ASSUME NEW i \in DOMAIN SubSeq(q, 1, n), NEW j \in DOMAIN SubSeq(q, n + 1, Len(q)),
                    SubSeq(q, 1, n)[i] = SubSeq(q, n + 1, Len(q))[j]
             PROVE  FALSE
  BY DEF Elems
<1>1. i \in 1..n /\ SubSeq(q, 1, n)[i] = q[i]
  BY <1>0
<1>2. j \in 1..(Len(q) - n) /\ SubSeq(q, n + 1, Len(q))[j] = q[n + j]
  BY <1>0
<1>3. i = n + j
  BY <1>0, <1>1, <1>2 DEF NoRepeat
<1> QED BY <1>1, <1>2, <1>3

LEMMA Rest ==
  ASSUME NEW S, NEW q \in Seq(S), q # <<>>
  PROVE  /\ Elems(Tail(q)) \subseteq Elems(q) /\ Head(q) \in Elems(q)
         /\ Elems(q) \subseteq Elems(Tail(q)) \cup {Head(q)}
         /\ NoRepeat(q) => NoRepeat(Tail(q)) /\ Head(q) \notin Elems(Tail(q))
<1>0. Len(q) \in Nat /\ Len(q) >= 1 /\ DOMAIN q = 1..Len(q) /\ Head(q) = q[1]
  BY LenProperties, EmptySeq
<1>1. /\ DOMAIN Tail(q) = 1..(Len(q) - 1)
      /\ \A i \in 1..(Len(q) - 1) : Tail(q)[i] = q[i + 1] /\ i + 1 \in DOMAIN q
  BY <1>0
<1>2. Elems(Tail(q)) \subseteq Elems(q) /\ Head(q) \in Elems(q)
  BY <1>0, <1>1 DEF Elems
<1>3. ASSUME NEW n \in DOMAIN q PROVE q[n] \in Elems(Tail(q)) \cup {Head(q)}
  <2>1. CASE n = 1
    BY <1>0, <2>1
  <2>2. CASE n # 1
    <3>1. n - 1 \in 1..(Len(q) - 1) /\ (n - 1) + 1 = n
      BY <1>0, <2>2
    <3>2. Tail(q)[n - 1] = q[n]
      BY <1>1, <3>1
    <3> QED BY <1>1, <3>1, <3>2 DEF Elems
  <2> QED BY <2>1, <2>2
<1>4. ASSUME NoRepeat(q), NEW i \in DOMAIN Tail(q), NEW j \in DOMAIN Tail(q), Tail(q)[i] = Tail(q)[j]
      PROVE  i = j
  <2>1. i + 1 = j + 1
    BY <1>1, <1>4 DEF NoRepeat
  <2> QED BY <1>1, <2>1
<1>5. ASSUME NoRepeat(q), NEW i \in DOMAIN Tail(q), Tail(q)[i] = Head(q)
      PROVE  FALSE
  <2>1. i + 1 = 1
    BY <1>0, <1>1, <1>5 DEF NoRepeat
  <2> QED BY <1>1, <2>1
<1>6. NoRepeat(q) => NoRepeat(Tail(q))
  BY <1>4 DEF NoRepeat
<1>7. NoRepeat(q) => Head(q) \notin Elems(Tail(q))
  BY <1>5 DEF Elems
<1>8. Elems(q) \subseteq Elems(Tail(q)) \cup {Head(q)}
  BY <1>3 DEF Elems
<1> QED BY <1>2, <1>6, <1>7, <1>8

LEMMA Longer ==
  ASSUME NEW S, NEW q \in Seq(S), NEW e
  PROVE  /\ Elems(Append(q, e)) = Elems(q) \cup {e}
         /\ NoRepeat(q) /\ e \notin Elems(q) => NoRepeat(Append(q, e))
<1>0. Len(q) \in Nat /\ DOMAIN q = 1..Len(q)
  BY LenProperties
<1>1. /\ DOMAIN Append(q, e) = 1..(Len(q) + 1) /\ Append(q, e)[Len(q) + 1] = e
      /\ \A i \in 1..Len(q) : Append(q, e)[i] = q[i]
  BY <1>0
<1>2. Elems(Append(q, e)) \subseteq Elems(q) \cup {e}
  BY <1>0, <1>1 DEF Elems
<1>3. Elems(q) \cup {e} \subseteq Elems(Append(q, e))
  BY <1>0, <1>1 DEF Elems
<1>4. NoRepeat(q) /\ e \notin Elems(q) => NoRepeat(Append(q, e))
  BY <1>0, <1>1 DEF NoRepeat, Elems
<1> QED BY <1>2, <1>3, <1>4

LEMMA Single == \A e : Elems(<<e>>) = {e} /\ NoRepeat(<<e>>)
BY DEF Elems, NoRepeat

LEMMA Nothing == Elems(<<>>) = {} /\ NoRepeat(<<>>)
BY DEF Elems, NoRepeat

----------------------------------------------------------------------------
(* Steps that bring no entry anywhere.                                      *)

StreamsShrink == \A s \in Pods :
  /\ Unread(s)' \subseteq Unread(s) /\ stream'[s].pel \subseteq stream[s].pel
  /\ NoRepeat(stream[s].unread) => NoRepeat(stream'[s].unread)
  /\ \A e \in stream'[s].idle : e \in stream[s].idle \/ \A w \in Loops : e \notin Hand(w)

HandsShrink == \A w \in Loops :
  /\ Hand(w)' \subseteq Hand(w)
  /\ Hand(w)' # {} => wk'[w].src = wk[w].src
  /\ NoRepeat(wk[w].batch) => NoRepeat(wk'[w].batch)

HandsStay == \A w \in Loops :
  /\ wk'[w].batch = wk[w].batch
  /\ Hand(w) # {} => wk'[w].src = wk[w].src
  /\ wk[w].pc = "ack" => wk'[w].pc = "ack"

LEMMA StayShrink == ASSUME HandsStay PROVE HandsShrink
BY DEF HandsStay, HandsShrink, Hand

LEMMA ApartShrinks ==
  ASSUME Apart, StreamsShrink, HandsShrink PROVE Apart'
<1>1. \A s, q \in Pods : \A e \in Unread(s)' \cup stream'[s].pel :
        e \in Unread(q)' \cup stream'[q].pel => s = q
  BY DEF Apart, StreamsShrink
<1>2. \A s \in Pods : /\ NoRepeat(stream'[s].unread)
                      /\ Unread(s)' \cap stream'[s].pel = {}
  BY DEF Apart, StreamsShrink
<1>3. \A s \in Pods, w \in Loops : \A e \in Hand(w)' :
        /\ e \notin Unread(s)' \cup stream'[s].idle
        /\ e \in stream'[s].pel => wk'[w].src = s
  BY DEF Apart, StreamsShrink, HandsShrink
<1>4. \A v, w \in Loops : Hand(v)' \cap Hand(w)' # {} => v = w
  BY DEF Apart, HandsShrink
<1>5. \A w \in Loops : NoRepeat(wk'[w].batch)
  BY DEF Apart, HandsShrink
<1> QED BY <1>1, <1>2, <1>3, <1>4, <1>5 DEF Apart, NoRepeat

\* No entry comes to life.
Fewer == \A e : Live(e)' => Live(e)

LEMMA StayFewer == ASSUME StreamsShrink, HandsStay PROVE Fewer
BY DEF StreamsShrink, HandsStay, Fewer, Live, Waits, Spent, InHand, Hand

\* The loop is done with the first entry of its batch.
LEMMA NextBatch ==
  ASSUME TypeOK, NEW w \in Loops, wk[w].pc \in Steps, NEW left, NextInBatch(w, left)
  PROVE  /\ \A v \in Loops : v # w => wk'[v] = wk[v]
         /\ wk'[w].batch = Tail(wk[w].batch)
         /\ wk'[w].batch # <<>> => wk'[w].src = wk[w].src /\ wk'[w].pc = "find"
<1> DEFINE k == [wk[w] EXCEPT !.batch = Tail(@), !.dst = NoPod, !.moved = FALSE,
                              !.kept = @ \cup left]
<1>1. wk \in [Loops -> Worker] /\ k.batch = Tail(wk[w].batch) /\ k.src = wk[w].src
  BY DEF TypeOK, Worker
<1>2. wk' = [wk EXCEPT ![w] = IF k.batch # <<>> THEN [k EXCEPT !.pc = "find"]
                              ELSE IF k.back = "idle" THEN Resting
                              ELSE [k EXCEPT !.pc = k.back]]
  BY DEF NextInBatch
<1>3. \A where : /\ [k EXCEPT !.pc = where].batch = k.batch
                 /\ [k EXCEPT !.pc = where].src = k.src
  BY DEF TypeOK, Worker
<1>4. [k EXCEPT !.pc = "find"].pc = "find"
  BY DEF TypeOK, Worker
<1> HIDE DEF k
<1> QED BY <1>1, <1>2, <1>3, <1>4 DEF Resting

LEMMA NextHands ==
  ASSUME TypeOK, Apart, NEW w \in Loops, wk[w].pc \in Steps, NEW left, NextInBatch(w, left)
  PROVE  /\ HandsShrink
         /\ \A v \in Loops : v # w => Hand(v)' = Hand(v)
         /\ Hand(w) = Hand(w)' \cup {InHand(w)} /\ InHand(w) \notin Hand(w)'
<1>1. wk[w].batch \in Seq(Entry) /\ wk[w].batch # <<>>
  BY LoopParts, Parts DEF Sound, Worker
<1>2. NoRepeat(wk[w].batch)
  BY DEF Apart
<1>3. /\ Hand(w)' \subseteq Hand(w) /\ Hand(w) = Hand(w)' \cup {InHand(w)}
      /\ InHand(w) \notin Hand(w)' /\ NoRepeat(wk'[w].batch)
  BY <1>1, <1>2, Rest, NextBatch DEF Hand, InHand
<1>4. \A v \in Loops : v # w => wk'[v] = wk[v] /\ Hand(v)' = Hand(v)
  BY NextBatch DEF Hand
<1>5. Hand(w)' # {} => wk'[w].src = wk[w].src
  BY NextBatch, Nothing DEF Hand
<1> QED BY <1>3, <1>4, <1>5 DEF HandsShrink

\* ... and that entry lives on only if it was to be processed and is pending.
LEMMA NextFewer ==
  ASSUME TypeOK, Apart, NEW w \in Loops, wk[w].pc \in Steps, NEW left, NextInBatch(w, left),
         StreamsShrink,
         wk[w].pc # "ack" \/ \A s \in Pods : InHand(w) \notin stream'[s].pel
  PROVE  Fewer
<1> SUFFICES ASSUME NEW e, Live(e)' PROVE Live(e)
  BY DEF Fewer
<1>0. /\ \A v \in Loops : v # w => Hand(v)' = Hand(v) /\ wk'[v] = wk[v]
      /\ Hand(w) = Hand(w)' \cup {InHand(w)} /\ InHand(w) \notin Hand(w)'
  BY NextHands, NextBatch
<1>1. CASE \E v \in Loops : e \in Hand(v)' /\ ~Spent(v, e)'
  <2>1. PICK v \in Loops : e \in Hand(v)' /\ ~Spent(v, e)'
    BY <1>1
  <2>2. e \in Hand(v)
    BY <1>0, <2>1
  <2>3. ~Spent(v, e)
    BY <1>0, <2>1 DEF Spent, InHand
  <2> QED BY <2>2, <2>3 DEF Live
<1>2. CASE \E s \in Pods : e \in Unread(s)'
  BY <1>2 DEF StreamsShrink, Live, Waits
<1>3. CASE \E s \in Pods : e \in stream'[s].pel /\ \A v \in Loops : e \notin Hand(v)'
  <2>1. PICK s \in Pods : e \in stream'[s].pel /\ \A v \in Loops : e \notin Hand(v)'
    BY <1>3
  <2>2. CASE e = InHand(w)
    BY <1>0, <2>1, <2>2 DEF Live, Spent
  <2>3. CASE e # InHand(w)
    BY <1>0, <2>1, <2>3 DEF StreamsShrink, Live, Waits
  <2> QED BY <2>2, <2>3
<1> QED BY <1>1, <1>2, <1>3 DEF Live, Waits

LEMMA FewerLife ==
  ASSUME TypeOK, OneLife, Fewer, got' = got, \A m \in Msgs : Coming(m)' => Coming(m)
  PROVE  OneLife'
<1>1. \A e \in Entry : e.m \in Msgs
  BY DEF Entry
<1> QED BY <1>1 DEF OneLife, Fewer

----------------------------------------------------------------------------
(* Steps that bring an entry somewhere.                                     *)

\* XADD: one entry more is unread, and it is a new one.
Comes(s, n) ==
  /\ n \in Entry /\ n \notin Around
  /\ Unread(s)' = Unread(s) \cup {n} /\ NoRepeat(stream'[s].unread)
  /\ \A q \in Pods \ {s} : stream'[q] = stream[q]
  /\ stream'[s].pel = stream[s].pel /\ stream'[s].idle = stream[s].idle

LEMMA AddComes ==
  ASSUME TypeOK, Apart, NEW s \in Pods, NEW m \in Msgs, AddTo(s, m)
  PROVE  \E n \in Entry : n.m = m /\ Comes(s, n)
<1> DEFINE k == CHOOSE i \in Fresh(m) : \A j \in Fresh(m) : i <= j
           n == [m |-> m, k |-> k, t |-> now]
<1>1. Fresh(m) \in SUBSET Nat /\ Fresh(m) \in SUBSET (1..MaxCopies) /\ Fresh(m) # {}
  BY RouterAssumption DEF Fresh, AddTo
<1>2. k \in Fresh(m) /\ k \in 1..MaxCopies
  BY <1>1, Least
<1>3. n \in Entry /\ n.m = m /\ n.k = k
  <2> HIDE DEF k
  <2> QED BY <1>2 DEF Entry, TypeOK
<1>4. n \notin Around
  <2> HIDE DEF k, n
  <2> QED BY <1>2, <1>3 DEF Fresh
<1>5. stream' = [stream EXCEPT ![s].key = TRUE, ![s].unread = Append(@, n)]
  BY DEF AddTo
<1> HIDE DEF n
<1>6. stream[s].unread \in Seq(Entry) /\ stream \in [Pods -> Stream]
  BY Parts DEF Good, Stream
<1>7. /\ stream'[s].unread = Append(stream[s].unread, n)
      /\ stream'[s].pel = stream[s].pel /\ stream'[s].idle = stream[s].idle
      /\ \A q \in Pods \ {s} : stream'[q] = stream[q]
  BY <1>5, <1>6 DEF Stream
<1>8. n \notin Unread(s) /\ NoRepeat(stream[s].unread)
  BY <1>4 DEF Around, Unread, Apart
<1>9. Unread(s)' = Unread(s) \cup {n} /\ NoRepeat(stream'[s].unread)
  BY <1>6, <1>7, <1>8, Longer DEF Unread
<1> QED BY <1>3, <1>4, <1>7, <1>9 DEF Comes

LEMMA ComesApart ==
  ASSUME Apart, NEW s \in Pods, NEW n, Comes(s, n), HandsStay PROVE Apart'
<1>0. /\ \A q \in Pods : n \notin Unread(q) \cup stream[q].pel
      /\ \A w \in Loops : n \notin Hand(w)
  BY DEF Comes, Around, Unread, Hand
<1>1. \A q \in Pods : /\ stream'[q].pel = stream[q].pel /\ stream'[q].idle = stream[q].idle
                      /\ NoRepeat(stream'[q].unread)
                      /\ q # s => Unread(q)' = Unread(q)
                      /\ q = s => Unread(q)' = Unread(q) \cup {n}
  BY DEF Comes, Unread, Apart
<1>2. \A w \in Loops : Hand(w)' = Hand(w) /\ (Hand(w) # {} => wk'[w].src = wk[w].src)
  BY DEF HandsStay, Hand
<1>3. \A r, q \in Pods : \A e \in Unread(r)' \cup stream'[r].pel :
        e \in Unread(q)' \cup stream'[q].pel => r = q
  <2> SUFFICES ASSUME NEW r \in Pods, NEW q \in Pods, NEW e \in Unread(r)' \cup stream'[r].pel,
                      e \in Unread(q)' \cup stream'[q].pel
               PROVE  r = q
    OBVIOUS
  <2>1. CASE e = n
    BY <1>0, <1>1, <2>1
  <2>2. CASE e # n
    BY <1>1, <2>2 DEF Apart
  <2> QED BY <2>1, <2>2
<1>4. \A q \in Pods : Unread(q)' \cap stream'[q].pel = {}
  BY <1>0, <1>1 DEF Apart
<1>5. \A q \in Pods, w \in Loops : \A e \in Hand(w)' :
        /\ e \notin Unread(q)' \cup stream'[q].idle
        /\ e \in stream'[q].pel => wk'[w].src = q
  BY <1>0, <1>1, <1>2 DEF Apart
<1>6. \A w \in Loops : NoRepeat(wk'[w].batch)
  BY DEF Apart, HandsStay
<1> QED BY <1>1, <1>2, <1>3, <1>4, <1>5, <1>6 DEF Apart, NoRepeat

LEMMA ComesFewer ==
  ASSUME NEW s \in Pods, NEW n, Comes(s, n), HandsStay
  PROVE  \A e : Live(e)' => Live(e) \/ e = n
BY DEF Comes, HandsStay, Live, Waits, Spent, InHand, Hand, Unread

\* XREADGROUP: the first unread entries become pending, and a loop has them.
Reads(w, s) ==
  /\ stream' = [stream EXCEPT ![s] = Delivered(@, FirstUnread(s))]
  /\ wk'[w].batch = FirstUnread(s) /\ wk'[w].src = s /\ wk'[w].pc = "find"
  /\ \A v \in Loops \ {w} : wk'[v] = wk[v]

\* XAUTOCLAIM: a loop has an entry that was idle.
Claims(w, s, e) ==
  /\ stream' = [stream EXCEPT ![s].idle = @ \ {e}]
  /\ wk'[w].batch = <<e>> /\ wk'[w].src = s /\ wk'[w].pc = "find"
  /\ \A v \in Loops \ {w} : wk'[v] = wk[v]

LEMMA ReadParts ==
  ASSUME TypeOK, Apart, NEW s \in Pods, NEW w \in Loops, Reads(w, s)
  PROVE  /\ Hand(w)' \subseteq Unread(s) /\ NoRepeat(wk'[w].batch)
         /\ Unread(s)' \subseteq Unread(s) /\ Unread(s)' \cap Hand(w)' = {}
         /\ NoRepeat(stream'[s].unread)
         /\ stream'[s].pel = stream[s].pel \cup Hand(w)' /\ stream'[s].idle = stream[s].idle
         /\ \A q \in Pods \ {s} : stream'[q] = stream[q]
<1> DEFINE q == stream[s].unread
           n == IF Len(q) < ReadCount THEN Len(q) ELSE ReadCount
<1>1. q \in Seq(Entry) /\ NoRepeat(q) /\ stream \in [Pods -> Stream]
  BY Parts DEF Good, Stream, Apart
<1>2. Len(q) \in Nat /\ n \in Nat /\ n <= Len(q) /\ FirstUnread(s) = SubSeq(q, 1, n)
  BY <1>1, LenProperties, RouterAssumption DEF FirstUnread
<1>3. Len(FirstUnread(s)) = n
  BY <1>1, <1>2, SubSeqProperties
<1>4. /\ stream'[s].unread = SubSeq(q, n + 1, Len(q))
      /\ stream'[s].pel = stream[s].pel \cup Elems(FirstUnread(s))
      /\ stream'[s].idle = stream[s].idle
      /\ \A r \in Pods \ {s} : stream'[r] = stream[r]
  BY <1>1, <1>3, SMTT(30) DEF Reads, Delivered, Stream
<1> HIDE DEF n, q
<1>5. Hand(w)' = Elems(SubSeq(q, 1, n)) /\ wk'[w].batch = SubSeq(q, 1, n)
  BY <1>2 DEF Reads, Hand
<1>6. Elems(SubSeq(q, 1, n)) \subseteq Elems(q) /\ NoRepeat(SubSeq(q, 1, n))
  BY <1>1, <1>2, PartOf
<1>7. /\ Elems(SubSeq(q, n + 1, Len(q))) \subseteq Elems(q)
      /\ NoRepeat(SubSeq(q, n + 1, Len(q)))
  <2>1. n + 1 \in Nat /\ n + 1 >= 1 /\ Len(q) <= Len(q)
    BY <1>2
  <2> QED BY <1>1, <1>2, <2>1, PartOf
<1>8. Elems(SubSeq(q, 1, n)) \cap Elems(SubSeq(q, n + 1, Len(q))) = {}
  BY <1>1, <1>2, Halves
<1>9. Unread(s) = Elems(q) /\ Unread(s)' = Elems(SubSeq(q, n + 1, Len(q)))
  BY <1>4 DEF Unread, q
<1> QED BY <1>2, <1>4, <1>5, <1>6, <1>7, <1>8, <1>9

LEMMA ReadApart ==
  ASSUME TypeOK, Apart, NEW s \in Pods, NEW w \in Loops, Reads(w, s), wk[w].batch = <<>>
  PROVE  Apart' /\ Fewer
<1>0. /\ \A v \in Loops \ {w} : Hand(v)' = Hand(v) /\ wk'[v] = wk[v]
      /\ Hand(w) = {} /\ wk'[w].src = s
  BY Nothing DEF Reads, Hand
<1>1. \A q \in Pods : /\ Unread(q)' \subseteq Unread(q) /\ NoRepeat(stream'[q].unread)
                      /\ stream'[q].idle = stream[q].idle
                      /\ q # s => Unread(q)' = Unread(q) /\ stream'[q].pel = stream[q].pel
                      /\ q = s => stream'[q].pel = stream[q].pel \cup Hand(w)'
  <2>1. \A q \in Pods \ {s} : stream'[q] = stream[q]
    BY ReadParts
  <2>2. \A q \in Pods \ {s} : Unread(q)' = Unread(q) /\ NoRepeat(stream'[q].unread)
    BY <2>1 DEF Unread, Apart
  <2> QED BY <2>1, <2>2, ReadParts
<1>2. \A r, q \in Pods : \A e \in Unread(r)' \cup stream'[r].pel :
        e \in Unread(q)' \cup stream'[q].pel => r = q
  <2>1. \A q \in Pods : Unread(q)' \cup stream'[q].pel \subseteq Unread(q) \cup stream[q].pel
    BY <1>1, ReadParts
  <2> QED BY <2>1 DEF Apart
<1>3. \A q \in Pods : Unread(q)' \cap stream'[q].pel = {}
  BY <1>1, ReadParts DEF Apart
<1>4. \A q \in Pods, v \in Loops : \A e \in Hand(v)' :
        /\ e \notin Unread(q)' \cup stream'[q].idle
        /\ e \in stream'[q].pel => wk'[v].src = q
  <2> SUFFICES ASSUME NEW q \in Pods, NEW v \in Loops, NEW e \in Hand(v)'
               PROVE  /\ e \notin Unread(q)' \cup stream'[q].idle
                      /\ e \in stream'[q].pel => wk'[v].src = q
    OBVIOUS
  <2>1. CASE v = w
    <3>1. e \in Unread(s) /\ e \notin Unread(s)'
      BY <2>1, ReadParts
    <3>2. stream[q].idle \subseteq stream[q].pel /\ stream[s].idle \subseteq stream[s].pel
      BY DEF TypeOK
    <3>3. q # s => e \notin Unread(q) \cup stream[q].pel
      BY <3>1 DEF Apart
    <3>4. e \notin stream[s].pel
      BY <3>1 DEF Apart
    <3> QED BY <1>0, <1>1, <2>1, <3>1, <3>2, <3>3, <3>4
  <2>2. CASE v # w
    <3>1. e \in Hand(v) /\ wk'[v] = wk[v]
      BY <1>0, <2>2
    <3>2. e \notin Hand(w)'
      BY <3>1, ReadParts DEF Apart
    <3> QED BY <1>1, <3>1, <3>2 DEF Apart
  <2> QED BY <2>1, <2>2
<1>5. \A v, u \in Loops : Hand(v)' \cap Hand(u)' # {} => v = u
  <2>1. \A v \in Loops \ {w} : Hand(v)' \cap Hand(w)' = {}
    BY <1>0, ReadParts DEF Apart
  <2> QED BY <1>0, <2>1 DEF Apart
<1>6. \A v \in Loops : NoRepeat(wk'[v].batch)
  BY <1>0, ReadParts DEF Apart
<1>7. Apart'
  BY <1>1, <1>2, <1>3, <1>4, <1>5, <1>6 DEF Apart, NoRepeat
<1>8. ASSUME NEW e, Live(e)' PROVE Live(e)
  <2>1. CASE \E q \in Pods : e \in Unread(q)'
    BY <1>1, <2>1 DEF Live, Waits
  <2>2. CASE \E q \in Pods : e \in stream'[q].pel /\ \A v \in Loops : e \notin Hand(v)'
    BY <1>0, <1>1, <2>2 DEF Live, Waits
  <2>3. CASE \E v \in Loops : e \in Hand(v)' /\ ~Spent(v, e)'
    BY <1>0, <2>3, ReadParts DEF Live, Waits, Spent, InHand
  <2> QED BY <1>8, <2>1, <2>2, <2>3 DEF Live, Waits
<1> QED BY <1>7, <1>8 DEF Fewer

LEMMA ClaimApart ==
  ASSUME TypeOK, Apart, NEW s \in Pods, NEW w \in Loops, NEW e \in stream[s].idle,
         Claims(w, s, e), wk[w].batch = <<>>
  PROVE  Apart' /\ Fewer
<1>0. /\ \A v \in Loops \ {w} : Hand(v)' = Hand(v) /\ wk'[v] = wk[v]
      /\ Hand(w) = {} /\ wk'[w].src = s /\ Hand(w)' = {e} /\ NoRepeat(wk'[w].batch)
  BY Nothing, Single DEF Claims, Hand
<1>1. \A q \in Pods : /\ Unread(q)' = Unread(q) /\ stream'[q].unread = stream[q].unread
                      /\ stream'[q].pel = stream[q].pel
                      /\ q # s => stream'[q].idle = stream[q].idle
                      /\ q = s => stream'[q].idle = stream[q].idle \ {e}
  BY DEF Claims, Unread, TypeOK, Stream
<1>2. e \in stream[s].pel /\ \A q \in Pods : stream[q].idle \subseteq stream[q].pel
  BY DEF TypeOK
<1>3. \A v \in Loops : e \notin Hand(v)
  BY DEF Apart
<1>4. \A q \in Pods, v \in Loops : \A d \in Hand(v)' :
        /\ d \notin Unread(q)' \cup stream'[q].idle
        /\ d \in stream'[q].pel => wk'[v].src = q
  <2> SUFFICES ASSUME NEW q \in Pods, NEW v \in Loops, NEW d \in Hand(v)'
               PROVE  /\ d \notin Unread(q)' \cup stream'[q].idle
                      /\ d \in stream'[q].pel => wk'[v].src = q
    OBVIOUS
  <2>1. CASE v = w
    <3>1. d = e
      BY <1>0, <2>1
    <3>2. q # s => e \notin Unread(q) \cup stream[q].pel
      BY <1>2 DEF Apart
    <3>3. e \notin Unread(s)
      BY <1>2 DEF Apart
    <3> QED BY <1>0, <1>1, <1>2, <2>1, <3>1, <3>2, <3>3
  <2>2. CASE v # w
    BY <1>0, <1>1, <2>2 DEF Apart
  <2> QED BY <2>1, <2>2
<1>5. \A v, u \in Loops : Hand(v)' \cap Hand(u)' # {} => v = u
  BY <1>0, <1>3 DEF Apart
<1>6. \A v \in Loops : NoRepeat(wk'[v].batch)
  BY <1>0 DEF Apart
<1>7. Apart'
  BY <1>1, <1>4, <1>5, <1>6 DEF Apart, NoRepeat
<1>8. ASSUME NEW d, Live(d)' PROVE Live(d)
  <2>1. Live(e)
    BY <1>2, <1>3 DEF Live, Waits
  <2>2. CASE d # e
    BY <1>0, <1>1, <1>8, <2>2 DEF Live, Waits, Spent, InHand
  <2> QED BY <2>1, <2>2
<1> QED BY <1>7, <1>8 DEF Fewer

----------------------------------------------------------------------------
(* What each part of Next does to streams and hands.                        *)

Shrinks(st, new) ==
  /\ Elems(new.unread) \subseteq Elems(st.unread) /\ new.pel \subseteq st.pel
  /\ new.idle \subseteq st.idle
  /\ NoRepeat(st.unread) => NoRepeat(new.unread)

LEMMA SetShrinks ==
  ASSUME TypeOK, NEW s, NEW st, s \in Pods => Shrinks(stream[s], st),
         stream' = [stream EXCEPT ![s] = st]
  PROVE  StreamsShrink
<1>1. \A q \in Pods : stream'[q] = stream[q] \/ (q = s /\ stream'[q] = st)
  BY DEF TypeOK
<1>2. \A q \in Pods : Shrinks(stream[q], stream'[q])
  BY <1>1 DEF Shrinks
<1> QED BY <1>2 DEF Shrinks, StreamsShrink, Unread

LEMMA SameShrinks == UNCHANGED stream => StreamsShrink
BY DEF StreamsShrink, Unread

LEMMA EnsureShrinks == ASSUME NEW st \in Good PROVE Shrinks(st, EnsureGroup(st))
BY DEF Good, Stream, EnsureGroup, Shrinks

LEMMA AckedShrinks ==
  ASSUME NEW st \in Good, NEW e
  PROVE  Shrinks(st, Acked(st, e)) /\ e \notin Acked(st, e).pel
BY DEF Good, Stream, Acked, Shrinks

LEMMA AckedAllShrinks == ASSUME NEW st \in Good, NEW ids PROVE Shrinks(st, AckedAll(st, ids))
<1> DEFINE hit  == ids \cap st.pel
           kept == {e.t : e \in hit \ st.ghost}
           top  == CHOOSE t \in kept : \A u \in kept : t >= u
           new  == [st EXCEPT !.pel = @ \ hit, !.idle = @ \ hit, !.ghost = @ \ hit,
                              !.acked = IF kept = {} THEN @ ELSE Later(@, top)]
<1>1. AckedAll(st, ids) = new
  BY DEF AckedAll
<1>2. new.unread = st.unread /\ new.pel = st.pel \ hit /\ new.idle = st.idle \ hit
  <2> HIDE DEF hit, kept, top
  <2> QED BY DEF Good, Stream
<1> HIDE DEF hit, kept, top, new
<1> QED BY <1>1, <1>2 DEF Shrinks

LEMMA TrimmedShrinks == ASSUME NEW st \in Good, NEW cut PROVE Shrinks(st, Trimmed(st, cut))
<1> DEFINE older == {n \in DOMAIN st.unread : st.unread[n].t < cut}
           old == Cardinality(older)
           new == [st EXCEPT !.unread = SubSeq(@, old + 1, Len(@)),
                             !.ghost = @ \cup {e \in st.pel : e.t < cut},
                             !.acked = IF @ < cut THEN -1 ELSE @]
<1>1. Trimmed(st, cut) = new
  BY DEF Trimmed
<1>2. /\ new.unread = SubSeq(st.unread, old + 1, Len(st.unread))
      /\ new.pel = st.pel /\ new.idle = st.idle
  <2> HIDE DEF old
  <2> QED BY DEF Good, Stream
<1>3. st.unread \in Seq(Entry) /\ DOMAIN st.unread = 1..Len(st.unread) /\ Len(st.unread) \in Nat
  BY LenProperties DEF Good, Stream
<1>4. old \in Nat
  <2>1. IsFiniteSet(1..Len(st.unread))
    BY <1>3, FS_Interval
  <2> QED BY <1>3, <2>1, FS_Subset, FS_CardinalityType
<1>5. /\ Elems(SubSeq(st.unread, old + 1, Len(st.unread))) \subseteq Elems(st.unread)
      /\ NoRepeat(st.unread) => NoRepeat(SubSeq(st.unread, old + 1, Len(st.unread)))
  <2> HIDE DEF old
  <2>1. old + 1 \in Nat /\ old + 1 >= 1 /\ Len(st.unread) <= Len(st.unread)
    BY <1>3, <1>4
  <2> QED BY <1>3, <2>1, PartOf
<1> HIDE DEF old, new
<1> QED BY <1>1, <1>2, <1>5 DEF Shrinks

LEMMA EmptyShrinks == ASSUME NEW st PROVE Shrinks(st, Empty)
BY Nothing DEF Empty, Shrinks

\* A loop goes on with the entries it has, if any.
LEMMA SetStays ==
  ASSUME TypeOK, NEW w \in Loops, NEW k, wk' = [wk EXCEPT ![w] = k],
         k.batch = wk[w].batch, wk[w].batch # <<>> => k.src = wk[w].src,
         wk[w].pc = "ack" => k.pc = "ack"
  PROVE  HandsStay
<1>1. \A v \in Loops : wk'[v] = wk[v] \/ (v = w /\ wk'[v] = k)
  BY DEF TypeOK
<1>2. \A v \in Loops : Hand(v) # {} => wk[v].batch # <<>>
  BY Nothing DEF Hand
<1> QED BY <1>1, <1>2 DEF HandsStay

LEMMA GotoStays ==
  ASSUME TypeOK, NEW w \in Loops, NEW where, wk[w].pc = "ack" => where = "ack", Goto(w, where)
  PROVE  HandsStay
<1> DEFINE k == [wk[w] EXCEPT !.pc = where]
<1>1. k.batch = wk[w].batch /\ k.src = wk[w].src /\ k.pc = where
  BY DEF TypeOK, Worker
<1>2. wk' = [wk EXCEPT ![w] = k]
  BY DEF Goto
<1> HIDE DEF k
<1> QED BY <1>1, <1>2, SetStays

LEMMA SameStays == UNCHANGED wk => HandsStay
BY DEF HandsStay

LEMMA StirStays == ASSUME TypeOK, NEW i, Stir(i) PROVE HandsStay
<1>1. \A w \in Loops : /\ wk'[w].batch = wk[w].batch /\ wk'[w].src = wk[w].src
                       /\ wk'[w].pc = wk[w].pc
  BY DEF TypeOK, Worker, Stir
<1> QED BY <1>1 DEF HandsStay

\* A loop outside processMessage has nothing in hand.
LEMMA EmptyHanded ==
  ASSUME TypeOK, NEW w \in Loops, wk[w].pc \in Phases
  PROVE  wk[w].batch = <<>> /\ wk[w].pc # "ack"
<1>1. wk[w].pc \notin Steps
  BY DEF Phases, Taking, Steps
<1> QED BY <1>1, LoopParts DEF Sound, Steps

\* Sessions, pods, time and lookups of the publisher.
LEMMA OthersStay ==
  ASSUME TypeOK, Slow = FALSE,
         \/ \E i \in Clients : Session(i) \/ Disconnect(i) \/ RemoveDeadRow(i)
         \/ \E i \in Clients, p \in Pods : AddConnectedClient(i, p) \/ Evicted(i, p)
         \/ \E p \in Pods : TrimCutoff(p) \/ TrimStream(p) \/ LeaseExpires(p)
         \/ \E p \in Pods : Stop(p) \/ Restart(p) \/ HeartbeatExpires(p) \/ Heartbeat(p)
         \/ \E p \in Pods, e \in Entry : GrowIdle(p, e)
         \/ \E m \in Msgs : PublishLookup(m)
         \/ Tick \/ UNCHANGED vars
  PROVE  /\ StreamsShrink /\ HandsStay /\ UNCHANGED got
         /\ \A m \in Msgs : Coming(m)' => Coming(m)
<1> USE DEF session, redis
<1>1. CASE \E i \in Clients : Session(i) \/ Disconnect(i) \/ RemoveDeadRow(i)
  <2>1. PICK i \in Clients : Stir(i) /\ UNCHANGED <<stream, pub, got>>
    BY <1>1 DEF Session, PoolRegister, ReadEnd, RemoveOwnRow, Disconnect, RemoveDeadRow
  <2> QED BY <2>1, StirStays, SameShrinks DEF Coming
<1>2. CASE \E i \in Clients, p \in Pods : AddConnectedClient(i, p) \/ Evicted(i, p)
  <2>1. PICK i \in Clients : Stir(i) /\ UNCHANGED <<stream, pub, got>>
    BY <1>2 DEF AddConnectedClient, Evicted
  <2> QED BY <2>1, StirStays, SameShrinks DEF Coming
<1>3. CASE \E p \in Pods : TrimStream(p)
  <2>1. PICK p \in Pods : \E cut : stream' = [stream EXCEPT ![p] = Trimmed(@, cut)]
    BY <1>3 DEF TrimStream
  <2>2. StreamsShrink
    BY <2>1, Parts, TrimmedShrinks, SetShrinks
  <2> QED BY <1>3, <2>2, SameStays DEF TrimStream, Coming
<1>4. CASE \E p \in Pods : LeaseExpires(p)
  <2>1. PICK p \in Pods : LeaseExpires(p)
    BY <1>4
  <2>2. \A w \in Loops : /\ wk'[w].batch = wk[w].batch /\ wk'[w].src = wk[w].src
                         /\ wk'[w].pc = wk[w].pc
    BY <2>1 DEF LeaseExpires, TypeOK, Worker
  <2> QED BY <2>1, <2>2, SameShrinks DEF LeaseExpires, HandsStay, Coming
<1>5. CASE \E p \in Pods, e \in Entry : GrowIdle(p, e)
  <2>1. PICK p \in Pods, e \in Entry : GrowIdle(p, e)
    BY <1>5
  <2>2. \A s \in Pods : /\ stream'[s].pel = stream[s].pel /\ stream'[s].unread = stream[s].unread
                        /\ \A d \in stream'[s].idle : d \in stream[s].idle \/ d = e
    BY <2>1 DEF GrowIdle, TypeOK, Stream
  <2>3. \A w \in Loops : e \notin Hand(w)
    BY <2>1 DEF GrowIdle, Hand
  <2>4. StreamsShrink
    BY <2>2, <2>3 DEF StreamsShrink, Unread
  <2> QED BY <2>1, <2>4, SameStays DEF GrowIdle, Coming
<1>6. CASE \/ \E p \in Pods : TrimCutoff(p) \/ Stop(p) \/ Restart(p) \/ HeartbeatExpires(p)
                             \/ Heartbeat(p)
           \/ Tick \/ UNCHANGED vars
  <2>1. UNCHANGED <<stream, wk, pub, got>>
    BY <1>6 DEF TrimCutoff, Stop, Restart, HeartbeatExpires, Heartbeat, Tick, vars
  <2> QED BY <2>1, SameShrinks, SameStays DEF Coming
<1>7. CASE \E m \in Msgs : PublishLookup(m)
  <2>1. UNCHANGED <<stream, wk, got>>
    BY <1>7 DEF PublishLookup
  <2>2. \A m \in Msgs : Coming(m)' => Coming(m)
    BY <1>7 DEF PublishLookup, Coming, TypeOK
  <2> QED BY <2>1, <2>2, SameShrinks, SameStays
<1> QED BY <1>1, <1>2, <1>3, <1>4, <1>5, <1>6, <1>7

\* A batch that is taken.
LEMMA StartReads ==
  ASSUME TypeOK, NEW w \in Loops, NEW s, NEW batch, NEW back, StartBatch(w, s, batch, back)
  PROVE  /\ wk'[w].batch = batch /\ wk'[w].src = s /\ wk'[w].pc = "find"
         /\ \A v \in Loops \ {w} : wk'[v] = wk[v]
BY DEF TypeOK, Worker, StartBatch

LEMMA TakesApart ==
  ASSUME TypeOK, Apart, NEW w \in Loops, NEW s \in Pods, Own(w) \/ FindDeadPod(w, s)
  PROVE  Apart' /\ Fewer /\ UNCHANGED <<pub, got>>
<1> USE DEF session, redis
<1>0. Pod(w) \in Pods /\ wk[w].batch = <<>> /\ wk[w].pc # "ack"
  <2>1. Pod(w) \in Pods
    BY LoopParts
  <2>2. Own(w) => (wk[w].batch = <<>> /\ wk[w].pc # "ack") \/ CreateGroup(w)
    BY EmptyHanded DEF Own, ReadGroup, AutoClaim, Ready, Phases
  <2>3. CreateGroup(w) => wk[w].pc = "idle"
    BY DEF CreateGroup, Ready
  <2>4. FindDeadPod(w, s) => wk[w].pc = "idle"
    BY DEF FindDeadPod, At
  <2> QED BY <2>1, <2>2, <2>3, <2>4, EmptyHanded DEF Phases
<1>1. CASE CreateGroup(w)
  <2>1. StreamsShrink
    BY <1>0, <1>1, Parts, EnsureShrinks, SetShrinks DEF CreateGroup
  <2> QED BY <1>1, <2>1, SameStays, StayShrink, ApartShrinks, StayFewer DEF CreateGroup
<1>2. CASE ReadGroup(w)
  <2>1. Reads(w, Pod(w))
    BY <1>2, StartReads DEF ReadGroup, Reads
  <2> QED BY <1>0, <1>2, <2>1, ReadApart DEF ReadGroup
<1>3. CASE AutoClaim(w)
  <2>1. PICK e \in Claimable(Pod(w)) :
          /\ stream' = [stream EXCEPT ![Pod(w)].idle = @ \ {e}]
          /\ StartBatch(w, Pod(w), <<e>>, "idle")
    BY <1>3 DEF AutoClaim
  <2>2. e \in stream[Pod(w)].idle
    BY DEF Claimable
  <2>3. Claims(w, Pod(w), e)
    BY <2>1, StartReads DEF Claims
  <2> QED BY <1>0, <1>3, <2>2, <2>3, ClaimApart DEF AutoClaim
<1>4. CASE FindDeadPod(w, s)
  <2> DEFINE k == [wk[w] EXCEPT !.pc = "lock", !.src = s]
  <2>1. k.batch = wk[w].batch
    BY DEF TypeOK, Worker
  <2>3. wk' = [wk EXCEPT ![w] = k]
    BY <1>4 DEF FindDeadPod
  <2> HIDE DEF k
  <2>2. HandsStay
    BY <1>0, <2>1, <2>3, SetStays
  <2> QED BY <1>4, <2>2, SameShrinks, StayShrink, ApartShrinks, StayFewer DEF FindDeadPod
<1> QED BY <1>1, <1>2, <1>3, <1>4 DEF Own

LEMMA DrainApart ==
  ASSUME TypeOK, Apart, NEW w \in Loops, DrainDeadPod(w)
  PROVE  Apart' /\ Fewer /\ UNCHANGED <<pub, got>>
<1> USE DEF session, redis
<1> DEFINE s == wk[w].src
<1>0. wk[w].batch = <<>> /\ wk[w].pc # "ack" /\ s \in Pods /\ stream[s] \in Good
  <2>1. wk[w].pc \in Phases \ {"idle"}
    BY DEF DrainDeadPod, AcquireLock, DrainGroup, DrainTrim, DrainClaim, DrainRead, ListPending,
       ForceAck, CheckEmpty, DeleteStream, ReleaseLock, DrainCancelled, At, Phases, Taking
  <2> QED BY <2>1, EmptyHanded, LoopParts, Parts
<1>a. \A where : Goto(w, where) => HandsStay
  BY <1>0, GotoStays
<1>b. wk' = [wk EXCEPT ![w] = Resting] => HandsStay
  BY <1>0, SetStays DEF Resting
<1>c. \A st : stream' = [stream EXCEPT ![s] = st] /\ Shrinks(stream[s], st) => StreamsShrink
  BY SetShrinks
<1>d. StreamsShrink /\ HandsStay => Apart' /\ Fewer
  BY StayShrink, ApartShrinks, StayFewer
<1>1. CASE AcquireLock(w)
  <2> DEFINE k == [wk[w] EXCEPT !.pc = "group", !.leased = TRUE]
  <2>1. k.batch = wk[w].batch
    BY DEF TypeOK, Worker
  <2>2. wk' = [wk EXCEPT ![w] = k] \/ wk' = [wk EXCEPT ![w] = Resting]
    BY <1>1 DEF AcquireLock
  <2> HIDE DEF k
  <2>3. HandsStay
    BY <1>0, <1>b, <2>1, <2>2, SetStays
  <2> QED BY <1>1, <1>d, <2>3, SameShrinks DEF AcquireLock
<1>2. CASE DrainGroup(w)
  <2>1. StreamsShrink
    BY <1>0, <1>2, <1>c, EnsureShrinks, SameShrinks DEF DrainGroup, SetStream
  <2> QED BY <1>2, <1>a, <1>d, <2>1 DEF DrainGroup
<1>3. CASE DrainTrim(w)
  <2>1. StreamsShrink
    BY <1>0, <1>3, <1>c, TrimmedShrinks, SameShrinks DEF DrainTrim, SetStream
  <2> QED BY <1>3, <1>a, <1>d, <2>1 DEF DrainTrim
<1>4. CASE DrainClaim(w)
  <2>1. CASE Goto(w, "read") /\ UNCHANGED stream
    BY <1>4, <1>a, <1>d, <2>1, SameShrinks DEF DrainClaim
  <2>2. ASSUME NEW e \in Claimable(s), stream' = [stream EXCEPT ![s].idle = @ \ {e}],
               StartBatch(w, s, <<e>>, "claim")
        PROVE  Apart' /\ Fewer
    <3>1. e \in stream[s].idle
      BY DEF Claimable
    <3>2. Claims(w, s, e)
      BY <2>2, StartReads DEF Claims
    <3> QED BY <1>0, <3>1, <3>2, ClaimApart
  <2> QED BY <1>4, <2>1, <2>2 DEF DrainClaim
<1>5. CASE DrainRead(w)
  <2>1. CASE Goto(w, "pending") /\ UNCHANGED stream
    BY <1>5, <1>a, <1>d, <2>1, SameShrinks DEF DrainRead
  <2>2. CASE /\ stream' = [stream EXCEPT ![s] = Delivered(@, FirstUnread(s))]
             /\ wk' = [wk EXCEPT ![w].batch = FirstUnread(s), ![w].pc = "find",
                                 ![w].back = "read", ![w].reads = @ + 1]
    <3>1. Reads(w, s)
      BY <2>2 DEF TypeOK, Worker, Reads
    <3> QED BY <1>0, <1>5, <3>1, ReadApart DEF DrainRead
  <2> QED BY <1>5, <2>1, <2>2 DEF DrainRead
<1>6. CASE ListPending(w)
  <2> DEFINE k == [wk[w] EXCEPT !.pc = "force", !.ids = stream[s].pel]
  <2>1. k.batch = wk[w].batch
    BY DEF TypeOK, Worker
  <2>2. wk' = [wk EXCEPT ![w] = k] \/ Goto(w, "len")
    BY <1>6 DEF ListPending
  <2> HIDE DEF k
  <2>3. HandsStay
    BY <1>0, <1>a, <2>1, <2>2, SetStays
  <2> QED BY <1>6, <1>d, <2>3, SameShrinks DEF ListPending
<1>7. CASE ForceAck(w)
  <2> DEFINE k == [wk[w] EXCEPT !.pc = "len", !.ids = {}]
  <2>1. k.batch = wk[w].batch
    BY DEF TypeOK, Worker
  <2>2. wk' = [wk EXCEPT ![w] = k]
    BY <1>7 DEF ForceAck
  <2> HIDE DEF k
  <2>3. HandsStay
    BY <1>0, <2>1, <2>2, SetStays
  <2>4. StreamsShrink
    BY <1>0, <1>7, <1>c, AckedAllShrinks, SameShrinks DEF ForceAck, SetStream
  <2> QED BY <1>7, <1>d, <2>3, <2>4 DEF ForceAck
<1>8. CASE CheckEmpty(w)
  <2>1. \E where : Goto(w, where)
    BY <1>8 DEF CheckEmpty
  <2> QED BY <1>8, <1>a, <1>d, <2>1, SameShrinks DEF CheckEmpty
<1>9. CASE DeleteStream(w)
  <2>1. StreamsShrink
    BY <1>9, <1>c, EmptyShrinks, SameShrinks DEF DeleteStream, SetStream
  <2> QED BY <1>9, <1>a, <1>d, <2>1 DEF DeleteStream
<1>10. CASE ReleaseLock(w)
  BY <1>10, <1>b, <1>d, SameShrinks DEF ReleaseLock
<1>11. CASE DrainCancelled(w)
  BY <1>11, <1>b, <1>d, SameShrinks DEF DrainCancelled
<1> QED
  BY <1>1, <1>2, <1>3, <1>4, <1>5, <1>6, <1>7, <1>8, <1>9, <1>10, <1>11 DEF DrainDeadPod

\* processMessage.
LEMMA LooksApart ==
  ASSUME TypeOK, Apart, NEW w \in Loops,
         Find(w) \/ Relook(w) \/ Lookup(w) \/ LookupMiss(w) \/ SourceAlive(w) \/ Republish(w)
  PROVE  Apart' /\ Fewer /\ UNCHANGED <<pub, got>>
<1> USE DEF session, redis
<1>0. wk[w].pc # "ack" /\ wk[w].pc \in Steps /\ UNCHANGED <<stream, pub, got>>
  BY DEF Find, Relook, Lookup, LookupMiss, SourceAlive, Republish, Steps
<1>1. CASE \E where : Goto(w, where)
  BY <1>0, <1>1, GotoStays, SameShrinks, StayShrink, ApartShrinks, StayFewer
<1>2. CASE \E left : NextInBatch(w, left)
  BY <1>0, <1>2, NextHands, NextFewer, SameShrinks, ApartShrinks
<1>3. CASE \E d : wk' = [wk EXCEPT ![w].pc = "xadd", ![w].dst = d]
  <2>1. PICK d : wk' = [wk EXCEPT ![w].pc = "xadd", ![w].dst = d]
    BY <1>3
  <2> DEFINE k == [wk[w] EXCEPT !.pc = "xadd", !.dst = d]
  <2>2. k.batch = wk[w].batch /\ k.src = wk[w].src
    BY DEF TypeOK, Worker
  <2>3. wk' = [wk EXCEPT ![w] = k]
    BY <2>1
  <2> HIDE DEF k
  <2>4. HandsStay
    BY <1>0, <2>2, <2>3, SetStays
  <2> QED BY <1>0, <2>4, SameShrinks, StayShrink, ApartShrinks, StayFewer
<1>4. \/ \E where : Goto(w, where)
      \/ \E left : NextInBatch(w, left)
      \/ \E d : wk' = [wk EXCEPT ![w].pc = "xadd", ![w].dst = d]
  <2>1. CASE Find(w) \/ Relook(w) \/ Lookup(w)
    BY <2>1 DEF Find, Relook, Lookup
  <2>2. CASE LookupMiss(w)
    BY <2>2 DEF LookupMiss
  <2>3. CASE SourceAlive(w) \/ Republish(w)
    BY <2>3 DEF SourceAlive, Republish
  <2> QED BY <2>1, <2>2, <2>3
<1> QED BY <1>0, <1>1, <1>2, <1>3, <1>4

LEMMA DeliverApart ==
  ASSUME TypeOK, Apart, NEW w \in Loops, Deliver(w)
  PROVE  Apart' /\ Fewer /\ HandsStay /\ wk[w].pc \in Steps
<1>1. wk[w].pc # "ack" /\ wk[w].pc \in Steps /\ UNCHANGED stream
  BY DEF Deliver, redis, Steps
<1>2. \E where : Goto(w, where)
  BY DEF Deliver
<1> QED BY <1>1, <1>2, GotoStays, SameShrinks, StayShrink, ApartShrinks, StayFewer

LEMMA AddApart ==
  ASSUME TypeOK, Apart, NEW w \in Loops, Add(w)
  PROVE  /\ Apart' /\ HandsStay /\ UNCHANGED <<pub, got>> /\ Goto(w, "ack")
         /\ wk[w].pc = "xadd" /\ wk[w].pc \in Steps
         /\ \/ StreamsShrink
            \/ \E s \in Pods, n \in Entry : n.m = InHand(w).m /\ Comes(s, n)
<1>1. /\ wk[w].pc = "xadd" /\ wk[w].pc \in Steps /\ Goto(w, "ack") /\ UNCHANGED <<pub, got>>
      /\ \/ AddTo(wk[w].dst, InHand(w).m)
         \/ UNCHANGED stream
  BY DEF Add, Steps
<1>2. HandsStay
  BY <1>1, GotoStays
<1>3. CASE UNCHANGED stream
  BY <1>1, <1>2, <1>3, SameShrinks, StayShrink, ApartShrinks
<1>4. CASE AddTo(wk[w].dst, InHand(w).m)
  <2>1. CASE wk[w].dst \in Pods
    <3>1. PICK s \in Pods, m \in Msgs : s = wk[w].dst /\ m = InHand(w).m
      BY <1>1, <2>1, LoopParts
    <3>2. PICK n \in Entry : n.m = m /\ Comes(s, n)
      <4>1. \E n \in Entry : n.m = m /\ Comes(s, n)
        BY <1>4, <3>1, AddComes
      <4> QED BY <4>1
    <3> QED BY <1>1, <1>2, <3>1, <3>2, ComesApart
  <2>2. CASE wk[w].dst \notin Pods
    <3>1. UNCHANGED stream
      BY <1>4, <2>2 DEF AddTo, TypeOK
    <3> QED BY <1>1, <1>2, <3>1, SameShrinks, StayShrink, ApartShrinks
  <2> QED BY <2>1, <2>2
<1> QED BY <1>1, <1>3, <1>4

\* An entry that is acknowledged leaves the pending list of its stream, and it
\* is in no other.
LEMMA AckApart ==
  ASSUME TypeOK, Apart, NEW w \in Loops, Ack(w)
  PROVE  /\ Apart' /\ UNCHANGED <<pub, got>>
         /\ ~Cancelled(w) /\ Works => Fewer
<1>0. /\ wk[w].pc = "ack" /\ wk[w].pc \in Steps /\ NextInBatch(w, {}) /\ UNCHANGED <<pub, got>>
      /\ \/ stream' = [stream EXCEPT ![wk[w].src] = Acked(@, InHand(w))]
         \/ ~(Works /\ ~Cancelled(w)) /\ UNCHANGED stream
  <2>1. Fails => ~Works
    <3>1. "error" \in DOMAIN Budget
      BY RouterAssumption
    <3> QED BY <3>1 DEF Fails, Works, Spend, TypeOK
  <2> QED BY <2>1 DEF Ack, Steps
<1>1. wk[w].src \in Pods /\ stream[wk[w].src] \in Good /\ InHand(w) \in Hand(w)
  <2>1. wk[w].src \in Pods
    BY <1>0, LoopParts
  <2> QED BY <1>0, <2>1, Parts, NextHands
<1>2. StreamsShrink
  BY <1>0, <1>1, AckedShrinks, SetShrinks, SameShrinks
<1>3. Apart'
  BY <1>0, <1>2, NextHands, ApartShrinks
<1>4. ASSUME ~Cancelled(w), Works PROVE Fewer
  <2>1. stream' = [stream EXCEPT ![wk[w].src] = Acked(@, InHand(w))]
    BY <1>0, <1>4
  <2>2. \A s \in Pods : InHand(w) \notin stream'[s].pel
    <3>1. InHand(w) \notin stream'[wk[w].src].pel
      BY <1>1, <2>1, AckedShrinks DEF TypeOK
    <3>2. \A s \in Pods : s # wk[w].src => stream'[s] = stream[s]
      BY <2>1 DEF TypeOK
    <3>3. \A s \in Pods : InHand(w) \in stream[s].pel => wk[w].src = s
      BY <1>1 DEF Apart
    <3> QED BY <3>1, <3>2, <3>3
  <2> QED BY <1>0, <1>2, <2>2, NextFewer
<1> QED BY <1>0, <1>3, <1>4

----------------------------------------------------------------------------
(* The invariants.                                                          *)

LEMMA InitApart == Init => Apart /\ OneLife
<1> SUFFICES ASSUME Init PROVE Apart /\ OneLife
  OBVIOUS
<1>1. \A s \in Pods : /\ stream[s].unread = <<>> /\ stream[s].pel = {} /\ stream[s].idle = {}
                      /\ Unread(s) = {}
  BY Nothing DEF Init, Empty, Unread
<1>2. \A w \in Loops : wk[w].batch = <<>> /\ Hand(w) = {}
  BY Nothing DEF Init, Resting, Hand
<1>3. Apart
  BY <1>1, <1>2, Nothing DEF Apart
<1>4. \A e : ~Live(e)
  BY <1>1, <1>2 DEF Live, Waits
<1>5. \A m \in Msgs : got[m] = 0
  BY DEF Init
<1>6. OneLife
  BY <1>4, <1>5 DEF OneLife
<1> QED BY <1>3, <1>6

LEMMA DieApart == ASSUME TypeOK, Apart, NEW p \in Pods, Die(p) PROVE Apart'
<1>1. \A w \in Loops : wk'[w] = wk[w] \/ wk'[w] = Resting
  BY DEF Die
<1>2. Resting.batch = <<>>
  BY DEF Resting
<1>3. HandsShrink
  BY <1>1, <1>2, Nothing DEF HandsShrink, Hand
<1> QED BY <1>3, SameShrinks, ApartShrinks DEF Die, redis

LEMMA PublishApart ==
  ASSUME TypeOK, Apart, NEW m \in Msgs, PublishAdd(m)
  PROVE  /\ Apart' /\ HandsStay
         /\ \E s \in Pods, n \in Entry : n.m = m /\ Comes(s, n)
<1>1. pub[m] \in Pods /\ AddTo(pub[m], m) /\ HandsStay
  BY SameStays DEF PublishAdd
<1>2. PICK n \in Entry : n.m = m /\ Comes(pub[m], n)
  BY <1>1, AddComes
<1> QED BY <1>1, <1>2, ComesApart

LEMMA StepApart ==
  ASSUME TypeOK, Apart, Slow = FALSE, [Next]_vars PROVE Apart'
<1>1. CASE \E p \in Pods : Die(p)
  BY <1>1, DieApart
<1>2. CASE \E m \in Msgs : PublishAdd(m)
  BY <1>2, PublishApart
<1>3. CASE \E w \in Loops : Loop(w)
  <2>1. PICK w \in Loops : Loop(w)
    BY <1>3
  <2>2. CASE ProcessMessage(w)
    BY <2>2, LooksApart, DeliverApart, AddApart, AckApart DEF ProcessMessage
  <2>3. Pod(w) \in Pods
    BY LoopParts
  <2> QED BY <2>1, <2>2, <2>3, DrainApart, TakesApart DEF Loop
<1>4. CASE StreamsShrink /\ HandsStay
  BY <1>4, StayShrink, ApartShrinks
<1> QED BY <1>1, <1>2, <1>3, <1>4, OthersStay DEF Next

\* As long as no loop is so slow that an entry in its hand counts as idle, every
\* entry of every stream is in one place: no two loops ever have the same entry,
\* whatever else fails, stops or dies, and with any number of drains.
THEOREM EntriesApart ==
  ASSUME Slow = FALSE
  PROVE  Spec => []Apart
<1>1. TypeOK /\ Apart /\ [Next]_vars => Apart'
  BY StepApart
<1> QED BY <1>1, InitApart, RouterTypeCorrect, PTL DEF Spec

----------------------------------------------------------------------------
(* Messages.                                                                *)

\* Nothing fails: no Redis call, and no pod is told to stop or dies.
Untroubled == Budget["error"] = 0 /\ Mortal = {}
AllUp == \A p \in Pods : up[p] = "up"

LEMMA NeverFails == ASSUME TypeOK, Budget["error"] = 0 PROVE ~Fails
<1>1. used["error"] \in Nat
  BY RouterAssumption DEF TypeOK
<1> QED BY <1>1 DEF Fails, Spend

LEMMA StepAllUp == ASSUME TypeOK, AllUp, Mortal = {}, [Next]_vars PROVE AllUp'
<1>1. \A p \in Pods : ~Stop(p) /\ ~Die(p)
  BY DEF Stop, Die
<1>2. \A p \in Pods : ~Restart(p)
  BY DEF Restart, AllUp
<1>3. CASE \E w \in Loops : Loop(w)
  <2>1. PICK w \in Loops : Loop(w)
    BY <1>3
  <2>2. CASE ProcessMessage(w)
    BY <2>2 DEF ProcessMessage, Find, Deliver, Relook, Lookup, LookupMiss, SourceAlive,
       Republish, Add, Ack, AllUp
  <2>3. CASE DrainDeadPod(w)
    BY <2>3 DEF DrainDeadPod, AcquireLock, DrainGroup, DrainTrim, DrainClaim, DrainRead,
       ListPending, ForceAck, CheckEmpty, DeleteStream, ReleaseLock, DrainCancelled, AllUp
  <2>4. CASE Own(w) \/ \E s \in Pods : FindDeadPod(w, s)
    BY <2>4 DEF Own, CreateGroup, ReadGroup, AutoClaim, FindDeadPod, AllUp
  <2> QED BY <2>1, <2>2, <2>3, <2>4 DEF Loop
<1>4. CASE ~\E w \in Loops : Loop(w)
  <2>1. UNCHANGED up
    BY <1>1, <1>2, <1>4 DEF Next, Session, PoolRegister, ReadEnd, RemoveOwnRow, Disconnect,
       RemoveDeadRow, AddConnectedClient, Evicted, HeartbeatExpires, Heartbeat, LeaseExpires,
       TrimCutoff, TrimStream, GrowIdle, PublishLookup, PublishAdd, Tick, vars
  <2> QED BY <2>1 DEF AllUp
<1> QED BY <1>3, <1>4

\* What a loop has in hand on its way to an acknowledgement dies there, and with
\* it all that was alive of its message.
LEMMA HandDies ==
  ASSUME TypeOK, Apart, Apart', OneLife, NEW w \in Loops,
         wk[w].pc \in Steps, wk[w].pc # "ack",
         Goto(w, "ack"), HandsStay, NEW e \in Entry, e.m = InHand(w).m, Live(e)', Live(e)
  PROVE  FALSE
<1>1. /\ InHand(w) \in Entry /\ InHand(w) \in Hand(w) /\ InHand(w).m \in Msgs
      /\ \A s \in Pods : InHand(w) \notin Unread(s)
  <2>1. wk[w].batch \in Seq(Entry) /\ wk[w].batch # <<>>
    BY LoopParts, Parts DEF Sound, Worker
  <2>2. InHand(w) \in Hand(w)
    BY <2>1, Rest DEF InHand, Hand
  <2> QED BY <2>2, LoopParts DEF Apart
<1>2. Live(InHand(w))
  BY <1>1 DEF Live, Spent
<1>3. e = InHand(w)
  BY <1>1, <1>2 DEF OneLife
<1>4. \A v \in Loops : Hand(v)' = Hand(v) /\ InHand(v)' = InHand(v)
  BY DEF HandsStay, Hand, InHand
<1>5. Spent(w, e)'
  BY <1>3, <1>4 DEF Spent, Goto, TypeOK, Worker
<1>6. \A v \in Loops : e \in Hand(v)' => v = w
  BY <1>1, <1>3, <1>4 DEF Apart
<1>7. \A s \in Pods : ~Waits(s, e)'
  BY <1>1, <1>3, <1>4 DEF Apart, Waits
<1> QED BY <1>5, <1>6, <1>7 DEF Live

LEMMA DeliverLife ==
  ASSUME TypeOK, Apart, OneLife, NEW w \in Loops, Deliver(w) PROVE OneLife'
<1>0. Apart' /\ Fewer /\ HandsStay /\ wk[w].pc \in Steps /\ wk[w].pc # "ack" /\ UNCHANGED pub
  BY DeliverApart DEF Deliver
<1>1. CASE UNCHANGED got
  BY <1>0, <1>1, FewerLife DEF Coming
<1>2. CASE /\ got' = [got EXCEPT ![InHand(w).m] = IF @ = 2 THEN 2 ELSE @ + 1]
           /\ Goto(w, "ack")
  <2> DEFINE m == InHand(w).m
  <2>1. m \in Msgs /\ InHand(w) \in Entry /\ got \in [Msgs -> 0..2]
    BY <1>0, LoopParts DEF TypeOK
  <2>2. Live(InHand(w))
    <3>1. wk[w].batch \in Seq(Entry) /\ wk[w].batch # <<>>
      BY <1>0, LoopParts, Parts DEF Sound, Worker
    <3>2. InHand(w) \in Hand(w)
      BY <3>1, Rest DEF InHand, Hand
    <3> QED BY <1>0, <3>2 DEF Live, Spent
  <2>3. got[m] = 0 /\ ~Coming(m)
    BY <2>1, <2>2 DEF OneLife
  <2>4. \A e \in Entry : Live(e)' => e.m # m
    BY <1>0, <1>2, HandDies DEF Fewer
  <2>5. \A x \in Msgs : /\ x # m => got'[x] = got[x]
                        /\ x = m => got'[x] = 1
                        /\ Coming(x)' <=> Coming(x)
    <3>1. \A x \in Msgs : Coming(x)' <=> Coming(x)
      BY <1>0 DEF Coming
    <3>2. got'[m] = 1
      BY <1>2, <2>1, <2>3
    <3> QED BY <1>2, <2>1, <3>1, <3>2
  <2>6. \A e \in Entry : e.m \in Msgs
    BY DEF Entry
  <2> HIDE DEF m
  <2> QED BY <1>0, <2>3, <2>4, <2>5, <2>6 DEF OneLife, Fewer
<1> QED BY <1>1, <1>2 DEF Deliver

LEMMA AddLife ==
  ASSUME TypeOK, Apart, OneLife, NEW w \in Loops, Add(w) PROVE OneLife'
<1>0. /\ Apart' /\ HandsStay /\ UNCHANGED <<pub, got>> /\ Goto(w, "ack")
      /\ wk[w].pc \in Steps /\ wk[w].pc = "xadd"
  BY AddApart
<1>1. CASE StreamsShrink
  BY <1>0, <1>1, StayFewer, FewerLife DEF Coming
<1>2. ASSUME NEW s \in Pods, NEW n \in Entry, n.m = InHand(w).m, Comes(s, n)
      PROVE  OneLife'
  <2>1. \A e : Live(e)' => Live(e) \/ e = n
    BY <1>0, <1>2, ComesFewer
  <2>2. \A e \in Entry : Live(e)' /\ e.m = n.m => e = n
    BY <1>0, <1>2, <2>1, HandDies
  <2>3. Live(InHand(w)) /\ InHand(w) \in Entry
    <3>1. wk[w].batch \in Seq(Entry) /\ wk[w].batch # <<>>
      BY <1>0, LoopParts, Parts DEF Sound, Worker
    <3>2. InHand(w) \in Hand(w)
      BY <3>1, Rest DEF InHand, Hand
    <3> QED BY <1>0, <3>2, LoopParts DEF Live, Spent
  <2>4. ~Coming(n.m) /\ got[n.m] = 0
    BY <1>2, <2>3 DEF OneLife
  <2>5. \A m : Coming(m)' <=> Coming(m)
    BY <1>0 DEF Coming
  <2> QED BY <1>0, <2>1, <2>2, <2>4, <2>5 DEF OneLife
<1> QED BY <1>1, <1>2, AddApart

LEMMA PublishLife ==
  ASSUME TypeOK, Apart, OneLife, NEW m \in Msgs, PublishAdd(m) PROVE OneLife'
<1>1. HandsStay /\ UNCHANGED got /\ pub' = [pub EXCEPT ![m] = "sent"] /\ pub[m] \in Pods
  BY PublishApart DEF PublishAdd
<1>2. PICK s \in Pods, n \in Entry : n.m = m /\ Comes(s, n)
  BY PublishApart
<1>3. \A e : Live(e)' => Live(e) \/ e = n
  BY <1>1, <1>2, ComesFewer
<1>4. Coming(m)
  BY <1>1, RouterAssumption DEF Coming
<1>5. ~Coming(m)' /\ \A x \in Msgs : Coming(x)' => Coming(x)
  BY <1>1 DEF Coming, TypeOK
<1>6. got[m] = 0 /\ \A e \in Entry : Live(e) => e.m # m
  BY <1>4 DEF OneLife
<1>7. \A e \in Entry : Live(e)' => e = n \/ (Live(e) /\ e.m # m)
  BY <1>3, <1>6
<1>8. \A d, e \in Entry : Live(d)' /\ Live(e)' /\ d.m = e.m => d = e
  BY <1>2, <1>7 DEF OneLife
<1>9. \A e \in Entry : Live(e)' => ~Coming(e.m)' /\ got'[e.m] = 0
  <2> SUFFICES ASSUME NEW e \in Entry, Live(e)' PROVE ~Coming(e.m)' /\ got'[e.m] = 0
    OBVIOUS
  <2>1. e.m \in Msgs
    BY DEF Entry
  <2> QED BY <1>1, <1>2, <1>5, <1>6, <1>7, <2>1 DEF OneLife
<1>10. \A x \in Msgs : got'[x] \in {0, 1} /\ (Coming(x)' => got'[x] = 0)
  BY <1>1, <1>5 DEF OneLife
<1> QED BY <1>8, <1>9, <1>10 DEF OneLife

LEMMA StepLife ==
  ASSUME TypeOK, Apart, OneLife, AllUp, Untroubled, Slow = FALSE, [Next]_vars
  PROVE  OneLife'
<1>1. \A p \in Pods : ~Die(p)
  BY DEF Die, Untroubled
<1>2. CASE \E m \in Msgs : PublishAdd(m)
  BY <1>2, PublishLife
<1>3. CASE \E w \in Loops : Loop(w)
  <2>1. PICK w \in Loops : Loop(w)
    BY <1>3
  <2>2. Pod(w) \in Pods /\ ~Cancelled(w) /\ ~Fails
    BY LoopParts, NeverFails DEF AllUp, Cancelled, Untroubled
  <2>3. CASE Fewer /\ UNCHANGED <<pub, got>>
    BY <2>3, FewerLife DEF Coming
  <2>4. CASE Ack(w)
    <3>1. Works
      BY <2>2, <2>4 DEF Ack
    <3> QED BY <2>2, <2>3, <2>4, <3>1, AckApart
  <2>5. CASE ProcessMessage(w)
    BY <2>3, <2>4, <2>5, LooksApart, DeliverLife, AddLife DEF ProcessMessage
  <2>6. CASE DrainDeadPod(w) \/ Own(w) \/ \E s \in Pods : FindDeadPod(w, s)
    BY <2>2, <2>3, <2>6, DrainApart, TakesApart
  <2> QED BY <2>1, <2>5, <2>6 DEF Loop
<1>4. CASE /\ StreamsShrink /\ HandsStay /\ UNCHANGED got
           /\ \A m \in Msgs : Coming(m)' => Coming(m)
  BY <1>4, StayFewer, FewerLife
<1> QED BY <1>1, <1>2, <1>3, <1>4, OthersStay DEF Next

\* While no call fails, no pod stops and no loop is slow, a message reaches its
\* client once at most: through any number of pods, registrations, re-routed
\* copies, claims and drains, also of pods whose heartbeat is missing.
THEOREM DeliverySafe ==
  ASSUME Untroubled, Slow = FALSE
  PROVE  Spec => []DeliveredOnce
<1>1. Init => AllUp
  BY DEF Init, AllUp
<1>2. TypeOK /\ Apart /\ OneLife /\ AllUp /\ [Next]_vars => OneLife' /\ AllUp'
  BY StepLife, StepAllUp DEF Untroubled
<1>3. OneLife => DeliveredOnce
  BY DEF OneLife, DeliveredOnce
<1>4. Spec => []Apart
  BY EntriesApart
<1> QED BY <1>1, <1>2, <1>3, <1>4, InitApart, RouterTypeCorrect, PTL DEF Spec

=============================================================================
