---------------------------- MODULE InboundProofs ----------------------------
(* What holds of Inbound for any number of calls, messages, ways, deltas,     *)
(* failures and moves: the numbers of chunks, the tracker that gives them, what*)
(* is stored, and that entries of a turn are in the order of TurnOrder.       *)
EXTENDS Inbound, FiniteSetTheorems, TLAPS

\* No deltas are numbered beyond what the caller has sent; a question whether a
\* client is connected goes no further than its answer; deltas are not saved.
Bounded == \A m \in Msgs : tracker[m] <= said[m].n + said[m].extra
ChecksEnd == \A c \in Calls :
               /\ call[c].pc \in {"route", "xadd"} => call[c].kind # "check"
               /\ call[c].pc = "save" => call[c].kind = "send"
TInv == TypeOK /\ Bounded /\ ChecksEnd

\* What a step of a handler does, whichever it is.
OneMoves(c) ==
  /\ call' \in [Calls -> {Idle} \cup Busy]
  /\ \A d \in Calls \ {c} : call'[d] = call[d]
  /\ \/ call'[c] = Idle
     \/ \E w \in {"lookup", "route", "xadd", "store"} :
          /\ call'[c] = [call[c] EXCEPT !.pc = w]
          /\ w \in {"route", "xadd"} => call[c].kind # "check"
          /\ w = "lookup" => call[c].pc = "save"
SameTurn(c) ==
  /\ said' \in [Msgs -> Caller]
  /\ \A m \in Msgs :
       /\ said'[m].phase = said[m].phase /\ said'[m].attempt = said[m].attempt
       /\ said'[m].n = said[m].n /\ said'[m].extra = said[m].extra
       /\ \/ said'[m].redo = said[m].redo
          \/ said'[m].redo = "may" /\ call[c].heard /\ call[c].m = m
Effect(c) ==
  /\ call[c] \in Busy
  /\ OneMoves(c) /\ SameTurn(c)
  /\ UNCHANGED <<way, online, tracker, moves>>
  /\ \/ UNCHANGED out
     \/ Put(c) /\ call[c].pc = "xadd" /\ call'[c].pc \in {"idle", "store"}
  /\ stored' \in [Msgs -> Nat] /\ faults' \in 0..MaxFaults

LEMMA BusyCall ==
  ASSUME TypeOK, NEW c \in Calls, call[c].pc # "idle" PROVE call[c] \in Busy
BY DEF TypeOK, Idle

LEMMA GotoEffect ==
  ASSUME TypeOK, NEW c \in Calls, call[c].pc # "idle",
         NEW w \in {"lookup", "route", "xadd", "store"}, Goto(c, w),
         w \in {"route", "xadd"} => call[c].kind # "check",
         w = "lookup" => call[c].pc = "save"
  PROVE  OneMoves(c) /\ SameTurn(c) /\ call'[c].pc = w
<1>1. call[c] \in Busy
  BY BusyCall
<1>2. [call[c] EXCEPT !.pc = w] \in Busy
  BY <1>1 DEF Busy
<1>3. OneMoves(c)
  BY <1>1, <1>2 DEF OneMoves, Goto, TypeOK
<1>4. SameTurn(c) /\ call'[c].pc = w
  BY <1>1 DEF SameTurn, Goto, TypeOK, Busy
<1> QED BY <1>3, <1>4

LEMMA AnswersEffect ==
  ASSUME TypeOK, NEW c \in Calls, call[c].pc # "idle",
         NEW result \in Results, Answers(c, result)
  PROVE  OneMoves(c) /\ SameTurn(c) /\ call'[c].pc = "idle"
<1>1. call[c] \in Busy
  BY BusyCall
<1>2. call[c].m \in Msgs /\ call[c].heard \in BOOLEAN /\ call[c].kind \in Kinds
  BY <1>1 DEF Busy
<1>3. OneMoves(c) /\ call'[c].pc = "idle"
  BY DEF OneMoves, Answers, TypeOK, Idle
<1> DEFINE h == Hear(said[call[c].m], call[c].m, call[c].kind, result)
<1>4. /\ h \in Caller
      /\ h.phase = said[call[c].m].phase /\ h.attempt = said[call[c].m].attempt
      /\ h.n = said[call[c].m].n /\ h.extra = said[call[c].m].extra
      /\ h.redo \in {said[call[c].m].redo, "may"}
  <2>1. said[call[c].m] \in Caller
    BY <1>2 DEF TypeOK
  <2> QED BY <2>1 DEF Hear, Caller, Results
<1>5. SameTurn(c)
  <2>1. CASE call[c].heard
    <3>1. said' = [said EXCEPT ![call[c].m] = h]
      BY <2>1 DEF Answers
    <3> QED BY <3>1, <2>1, <1>2, <1>4 DEF SameTurn, TypeOK
  <2>2. CASE ~call[c].heard
    BY <2>2 DEF SameTurn, TypeOK, Answers
  <2> QED BY <2>1, <2>2
<1> QED BY <1>3, <1>5

LEMMA PublishedEffect ==
  ASSUME TypeOK, NEW c \in Calls, call[c].pc # "idle", AfterPublish(c)
  PROVE  OneMoves(c) /\ SameTurn(c) /\ call'[c].pc \in {"idle", "store"}
BY GotoEffect, AnswersEffect DEF AfterPublish, Results

\* Every step of a handler is such a step.
LEMMA HandleEffect ==
  ASSUME TInv, NEW c \in Calls, Handle(c) PROVE Effect(c)
<1> USE DEF TInv
<1>b. call[c].pc # "idle" => call[c] \in Busy
  BY BusyCall
<1>s. ASSUME call[c].pc # "idle"
      PROVE  /\ \A d \in {0, 1} : [stored EXCEPT ![call[c].m] = @ + d] \in [Msgs -> Nat]
             /\ [stored EXCEPT ![call[c].m] = @ + 1] \in [Msgs -> Nat]
             /\ stored \in [Msgs -> Nat]
  BY <1>s, <1>b DEF TypeOK, Busy
<1>f. (Works \/ Fails) => faults' \in 0..MaxFaults
  BY InboundAssumption DEF Works, Fails, TypeOK
<1>1. CASE SaveIncoming(c)
  <2>1. call[c].pc = "save"
    BY <1>1 DEF SaveIncoming
  <2>2. OneMoves(c) /\ SameTurn(c)
    BY <1>1, <2>1, GotoEffect, AnswersEffect DEF SaveIncoming, Results
  <2> QED BY <1>1, <1>b, <1>s, <1>f, <2>1, <2>2 DEF SaveIncoming, Effect
<1>2. CASE LookupClient(c)
  <2>1. call[c].pc = "lookup"
    BY <1>2 DEF LookupClient
  <2>2. OneMoves(c) /\ SameTurn(c)
    BY <1>2, <2>1, GotoEffect, AnswersEffect, PublishedEffect DEF LookupClient, Results
  <2> QED BY <1>2, <1>b, <1>s, <1>f, <2>1, <2>2 DEF LookupClient, Effect
<1>3. CASE RouteToClient(c)
  <2>1. call[c].pc = "route" /\ call[c].kind # "check"
    BY <1>3 DEF RouteToClient, ChecksEnd
  <2>2. OneMoves(c) /\ SameTurn(c)
    BY <1>3, <2>1, GotoEffect, AnswersEffect, PublishedEffect DEF RouteToClient, Results
  <2> QED BY <1>3, <1>b, <1>s, <1>f, <2>1, <2>2 DEF RouteToClient, Effect
<1>4. CASE AppendEntry(c)
  <2>1. call[c].pc = "xadd"
    BY <1>4 DEF AppendEntry
  <2>2. OneMoves(c) /\ SameTurn(c) /\ call'[c].pc \in {"idle", "store"}
    BY <1>4, <2>1, AnswersEffect, PublishedEffect DEF AppendEntry, Results
  <2> QED BY <1>4, <1>b, <1>s, <1>f, <2>1, <2>2 DEF AppendEntry, Effect
<1>5. CASE StoreCompleted(c)
  <2>1. call[c].pc = "store"
    BY <1>5 DEF StoreCompleted
  <2>2. OneMoves(c) /\ SameTurn(c)
    BY <1>5, <2>1, AnswersEffect DEF StoreCompleted, Results
  <2> QED BY <1>5, <1>b, <1>s, <1>f, <2>1, <2>2 DEF StoreCompleted, Effect
<1> QED BY <1>1, <1>2, <1>3, <1>4, <1>5 DEF Handle

\* What the arrival of a message does to the call that takes it.
Taken(c, m, kind) ==
  /\ call' = [call EXCEPT ![c] = call'[c]] /\ call'[c] \in Busy
  /\ call'[c].m = m /\ call'[c].kind = Type(m, kind) /\ call'[c].heard
  /\ call'[c].seq = (IF Type(m, kind) = "delta" THEN tracker'[m] ELSE 0)
  /\ call'[c].attempt = said'[m].attempt
  /\ call'[c].pc \in {"save", "lookup"} /\ (call'[c].pc = "save" => kind = "send")
  /\ said' = [said EXCEPT ![m] = Send(said[m], kind)] /\ said'[m] \in Caller
  /\ tracker' = [tracker EXCEPT ![m] = Count(m, Type(m, kind))]
  /\ tracker'[m] \in -1..Top
  /\ tracker'[m] <= said'[m].n + said'[m].extra
  /\ Type(m, kind) = "delta" => tracker'[m] >= 1

LEMMA ReceiveEffect ==
  ASSUME TInv, NEW c \in Calls, NEW m \in Msgs, NEW kind \in Kinds, Receive(c, m, kind)
  PROVE  Taken(c, m, kind)
<1> DEFINE s == said[m]
           t == said'[m]
<1>1. s \in Caller /\ tracker[m] \in -1..Top /\ tracker[m] <= s.n + s.extra
  BY DEF TInv, TypeOK, Bounded
<1>2. MaySend(m, kind) /\ t = Send(s, kind) /\ tracker'[m] = Count(m, Type(m, kind))
  BY DEF Receive, TInv, TypeOK
<1>n. MaxTurns \in Nat /\ MaxDeltas \in Nat /\ MaxExtras \in Nat
  BY InboundAssumption
<1>3. t \in Caller
  <2>1. CASE kind \in {"setup", "send"}
    <3>1. s.attempt < MaxTurns
      BY <1>2, <2>1 DEF MaySend
    <3>2. s.attempt + 1 \in 0..MaxTurns
      BY <1>1, <1>n, <3>1 DEF Caller
    <3>3. CASE kind = "setup"
      <4> DEFINE new == [s EXCEPT !.redo = "no", !.told = "none"]
      <4>1. new \in Caller /\ new.attempt = s.attempt
        BY <1>1 DEF Caller, Results
      <4>2. t = [new EXCEPT !.phase = "open", !.attempt = @ + 1, !.n = 0]
        BY <1>2, <3>3 DEF Send
      <4>3. 0 \in 0..MaxDeltas
        BY <1>n
      <4> HIDE DEF new
      <4> QED BY <4>1, <4>2, <4>3, <3>2, ZenonT(40) DEF Caller
    <3>4. CASE kind = "send"
      BY <1>1, <1>2, <3>2, <3>4 DEF Send, Caller, Results
    <3> QED BY <2>1, <3>3, <3>4
  <2>2. CASE kind = "delta"
    <3>1. s.n < MaxDeltas
      BY <1>2, <2>2 DEF MaySend
    <3> QED BY <1>1, <1>2, <1>n, <2>2, <3>1 DEF Send, Caller
  <2>3. CASE kind \in {"rationale", "control"}
    <3>1. s.extra < MaxExtras
      BY <1>2, <2>3 DEF MaySend
    <3> QED BY <1>1, <1>2, <1>n, <2>3, <3>1 DEF Send, Caller
  <2>4. CASE kind \in {"check", "completed"}
    BY <1>1, <1>2, <2>4 DEF Send, Caller, Results
  <2> QED BY <2>1, <2>2, <2>3, <2>4 DEF Kinds
<1>4. /\ t.n \in 0..MaxDeltas /\ t.extra \in 0..MaxExtras /\ t.attempt \in 0..MaxTurns
      /\ s.n \in 0..MaxDeltas /\ s.extra \in 0..MaxExtras
  BY <1>1, <1>3 DEF Caller
<1>5. kind = "delta" => t.n = s.n + 1 /\ t.extra = s.extra
  BY <1>1, <1>2 DEF Send, Caller
<1>6. kind \in {"rationale", "control"} => t.n = s.n /\ t.extra = s.extra + 1
  BY <1>1, <1>2 DEF Send, Caller
<1>7. kind \in {"check", "send", "completed"} => t.n = s.n /\ t.extra = s.extra
  BY <1>1, <1>2 DEF Send, Caller
<1>8. /\ tracker'[m] <= t.n + t.extra /\ tracker'[m] >= -1
      /\ Type(m, kind) = "delta" => tracker'[m] >= 1
  BY <1>1, <1>2, <1>4, <1>5, <1>6, <1>7 DEF Count, Following, Type, NoEntry, Kinds
<1>9. tracker'[m] \in -1..Top
  BY <1>1, <1>2, <1>4, <1>8, <1>n DEF Top, Count, Following, NoEntry
<1>10. Type(m, kind) \in Kinds
  BY DEF Type, Kinds
<1>11. call'[c] = [pc |-> IF kind = "send" /\ Kept(m) THEN "save" ELSE "lookup",
          m |-> m, kind |-> Type(m, kind),
          seq |-> IF Type(m, kind) = "delta" THEN tracker'[m] ELSE 0,
          attempt |-> t.attempt, heard |-> TRUE]
       /\ call' = [call EXCEPT ![c] = call'[c]]
  BY DEF Receive, TInv, TypeOK
<1>12. (IF Type(m, kind) = "delta" THEN tracker'[m] ELSE 0) \in 0..Top
  BY <1>8, <1>9, <1>n DEF Top
<1>13. call'[c] \in Busy
  BY <1>4, <1>10, <1>11, <1>12 DEF Busy
<1> QED BY <1>2, <1>3, <1>8, <1>9, <1>11, <1>13 DEF Taken, Receive

----------------------------------------------------------------------------
(* Types.                                                                  *)

LEMMA TInvInit == Init => TInv
BY InboundAssumption
   DEF Init, TInv, TypeOK, Bounded, ChecksEnd, Idle, Fresh, Caller, Results, NoEntry, Top

LEMMA PutTyped ==
  ASSUME TInv, NEW c \in Calls, call[c].pc = "xadd", Put(c)
  PROVE  out' \in [Msgs -> Seq(Item)]
<1>1. call[c] \in Busy /\ call[c].kind # "check"
  BY BusyCall DEF TInv, ChecksEnd
<1>2. Payload(c) \in Item
  BY <1>1 DEF Payload, Item, Busy, Kinds
<1>3. call[c].m \in Msgs
  BY <1>1 DEF Busy
<1>4. Append(out[call[c].m], Payload(c)) \in Seq(Item)
  BY <1>2, <1>3 DEF TInv, TypeOK
<1> QED BY <1>3, <1>4 DEF Put, TInv, TypeOK

LEMMA TInvHandle ==
  ASSUME TInv, NEW c \in Calls, Handle(c) PROVE TInv'
<1>1. Effect(c)
  BY HandleEffect
<1>2. out' \in [Msgs -> Seq(Item)]
  BY <1>1, PutTyped DEF Effect, TInv, TypeOK
<1>3. TypeOK'
  BY <1>1, <1>2 DEF Effect, OneMoves, SameTurn, TInv, TypeOK
<1>4. Bounded'
  BY <1>1 DEF Effect, SameTurn, TInv, Bounded
<1>5. ChecksEnd'
  <2> SUFFICES ASSUME NEW d \in Calls
               PROVE  /\ call'[d].pc \in {"route", "xadd"} => call'[d].kind # "check"
                      /\ call'[d].pc = "save" => call'[d].kind = "send"
    BY DEF ChecksEnd
  <2>1. CASE d # c
    BY <1>1, <2>1 DEF Effect, OneMoves, TInv, ChecksEnd
  <2>2. CASE d = c
    BY <1>1, <2>2 DEF Effect, OneMoves, Idle, Busy
  <2> QED BY <2>1, <2>2
<1> QED BY <1>3, <1>4, <1>5 DEF TInv

LEMMA TInvReceive ==
  ASSUME TInv, NEW c \in Calls, NEW m \in Msgs, NEW kind \in Kinds, Receive(c, m, kind)
  PROVE  TInv'
<1>1. Taken(c, m, kind)
  BY ReceiveEffect
<1>2. TypeOK'
  <2>1. tracker' \in [Msgs -> -1..Top]
    BY <1>1 DEF Taken, TInv, TypeOK
  <2>2. call' \in [Calls -> {Idle} \cup Busy]
    BY <1>1 DEF Taken, TInv, TypeOK
  <2>3. said' \in [Msgs -> Caller]
    BY <1>1 DEF Taken, TInv, TypeOK
  <2> QED BY <2>1, <2>2, <2>3 DEF Receive, TInv, TypeOK
<1>3. Bounded'
  BY <1>1 DEF Taken, TInv, TypeOK, Bounded
<1>4. ChecksEnd'
  BY <1>1 DEF Taken, TInv, TypeOK, ChecksEnd, Type
<1> QED BY <1>2, <1>3, <1>4 DEF TInv

LEMMA TInvBreak ==
  ASSUME TInv, NEW m \in Msgs, Break(m) PROVE TInv'
<1>1. \A c \in Calls : call[c].pc # "idle" => [call[c] EXCEPT !.heard = FALSE] \in Busy
  BY BusyCall DEF TInv, Busy
<1>2. call' \in [Calls -> {Idle} \cup Busy]
  BY <1>1 DEF Break, Active, TInv, TypeOK
<1>3. said' \in [Msgs -> Caller] /\ tracker' \in [Msgs -> -1..Top]
  <2>1. [said[m] EXCEPT !.redo = "must"] \in Caller
    BY DEF TInv, TypeOK, Caller
  <2>2. NoEntry \in -1..Top
    BY InboundAssumption DEF NoEntry, Top
  <2> QED BY <2>1, <2>2 DEF Break, TInv, TypeOK
<1>4. \A n \in Msgs : said'[n].n = said[n].n /\ said'[n].extra = said[n].extra
                     /\ said[n].n \in Nat /\ said[n].extra \in Nat
  BY DEF Break, TInv, TypeOK, Caller
<1>5. Bounded'
  BY <1>4 DEF Break, TInv, TypeOK, Bounded, NoEntry
<1>6. \A c \in Calls : call'[c].pc = call[c].pc /\ call'[c].kind = call[c].kind
  BY BusyCall DEF Break, Active, TInv, Busy
<1>7. ChecksEnd'
  BY <1>6 DEF TInv, ChecksEnd
<1>8. faults' \in 0..MaxFaults
  BY InboundAssumption DEF Break, Fails, TInv, TypeOK
<1> QED BY <1>2, <1>3, <1>5, <1>7, <1>8 DEF Break, TInv, TypeOK

LEMMA TInvMove == ASSUME TInv, Move PROVE TInv'
BY InboundAssumption DEF Move, TInv, TypeOK, Bounded, ChecksEnd

LEMMA TInvStep == TInv /\ [Next]_vars => TInv'
<1> SUFFICES ASSUME TInv, [Next]_vars PROVE TInv'
  OBVIOUS
<1>1. CASE UNCHANGED vars
  BY <1>1 DEF vars, TInv, TypeOK, Bounded, ChecksEnd
<1> QED BY <1>1, TInvHandle, TInvReceive, TInvBreak, TInvMove DEF Next

LEMMA TInvHolds == Spec => []TInv
BY TInvInit, TInvStep, PTL DEF Spec

\* Every variable of Inbound keeps its type; numbers stay within the deltas and
\* control signs that the caller sent.
THEOREM InboundTypeCorrect == Spec => []TypeOK
<1>1. TInv => TypeOK
  BY DEF TInv
<1> QED BY <1>1, TInvHolds, PTL

----------------------------------------------------------------------------
(* NoGaps.                                                                 *)

\* No call and no entry is of an attempt that is still to come.
Past == /\ \A c \in Calls : call[c].pc # "idle" => call[c].attempt <= said[call[c].m].attempt
        /\ \A m \in Msgs : \A k \in DOMAIN out[m] : out[m][k].attempt <= said[m].attempt
GInv == Past /\ NoGaps

LEMMA GInvHandle ==
  ASSUME TInv, GInv, NEW c \in Calls, Handle(c) PROVE GInv'
<1>1. Effect(c)
  BY HandleEffect
<1>2. call[c] \in Busy /\ call[c].pc # "idle"
  BY <1>1 DEF Effect, Busy
<1>3. \A d \in Calls : call'[d].pc # "idle" =>
        /\ call[d].pc # "idle" /\ call'[d].m = call[d].m /\ call'[d].kind = call[d].kind
        /\ call'[d].seq = call[d].seq /\ call'[d].attempt = call[d].attempt
        /\ call[d].m \in Msgs
  BY <1>1, <1>2, BusyCall DEF Effect, OneMoves, Idle, Busy, TInv
<1>4. NoGaps'
  BY <1>1, <1>3 DEF Effect, SameTurn, GInv, NoGaps
<1>5. \A m \in Msgs : \A k \in DOMAIN out'[m] : out'[m][k].attempt <= said'[m].attempt
  <2>1. CASE UNCHANGED out
    BY <2>1, <1>1 DEF Effect, SameTurn, GInv, Past
  <2>2. CASE Put(c)
    <3>1. call[c].m \in Msgs /\ call[c].attempt <= said[call[c].m].attempt
      BY <1>2 DEF Busy, GInv, Past
    <3>2. Payload(c).attempt = call[c].attempt
      BY DEF Payload
    <3> SUFFICES ASSUME NEW m \in Msgs, NEW k \in DOMAIN out'[m]
                 PROVE  out'[m][k].attempt <= said'[m].attempt
      OBVIOUS
    <3>3. out[m] \in Seq(Item)
      BY DEF TInv, TypeOK
    <3>4. CASE m = call[c].m
      <4>1. out'[m] = Append(out[m], Payload(c))
        BY <2>2, <3>4 DEF Put, TInv, TypeOK
      <4>2. (k \in DOMAIN out[m] /\ out'[m][k] = out[m][k]) \/ out'[m][k] = Payload(c)
        BY <3>3, <4>1
      <4> QED BY <1>1, <3>1, <3>2, <3>4, <4>2 DEF Effect, SameTurn, GInv, Past
    <3>5. CASE m # call[c].m
      BY <2>2, <3>5, <1>1 DEF Put, TInv, TypeOK, Effect, SameTurn, GInv, Past
    <3> QED BY <3>4, <3>5
  <2> QED BY <1>1, <2>1, <2>2 DEF Effect
<1>6. Past'
  BY <1>1, <1>3, <1>5 DEF Effect, SameTurn, GInv, Past
<1> QED BY <1>4, <1>6 DEF GInv

LEMMA SentMore ==
  ASSUME TInv, NEW c \in Calls, NEW m \in Msgs, NEW kind \in Kinds, Taken(c, m, kind)
  PROVE  /\ said[m].attempt <= said'[m].attempt
         /\ said'[m].attempt = said[m].attempt =>
              said[m].n + said[m].extra <= said'[m].n + said'[m].extra
<1>1. said[m] \in Caller /\ said'[m] = Send(said[m], kind)
  BY DEF Taken, TInv, TypeOK
<1>2. said[m].n \in Nat /\ said[m].extra \in Nat /\ said[m].attempt \in Nat
  BY <1>1 DEF Caller
<1> QED BY <1>1, <1>2 DEF Send, Caller

LEMMA GInvReceive ==
  ASSUME TInv, GInv, NEW c \in Calls, NEW m \in Msgs, NEW kind \in Kinds, Receive(c, m, kind)
  PROVE  GInv'
<1>1. Taken(c, m, kind) /\ UNCHANGED out
  BY ReceiveEffect DEF Receive
<1>2. /\ said[m].attempt <= said'[m].attempt
      /\ said'[m].attempt = said[m].attempt =>
           said[m].n + said[m].extra <= said'[m].n + said'[m].extra
  BY <1>1, SentMore
<1>3. \A d \in Calls \ {c} : call'[d] = call[d]
  BY <1>1 DEF Taken, TInv, TypeOK
<1>4. \A n \in Msgs \ {m} : said'[n] = said[n]
  BY <1>1 DEF Taken, TInv, TypeOK
<1>5. \A n \in Msgs : /\ said[n].attempt \in Nat /\ said'[n].attempt \in Nat
                     /\ said[n].n + said[n].extra \in Nat /\ said'[n].n + said'[n].extra \in Nat
  <2>1. \A s \in Caller : s.attempt \in Nat /\ s.n + s.extra \in Nat
    BY DEF Caller
  <2>2. \A n \in Msgs : said[n] \in Caller /\ said'[n] \in Caller
    BY <1>1, <1>4 DEF Taken, TInv, TypeOK
  <2> QED BY <2>1, <2>2
<1>6. \A d \in Calls : call[d].pc # "idle" => call[d].m \in Msgs /\ call[d].attempt \in Nat /\ call[d].seq \in Nat
  BY BusyCall DEF TInv, Busy
<1>7. Past'
  <2>1. \A d \in Calls : call'[d].pc # "idle" => call'[d].attempt <= said'[call'[d].m].attempt
    <3> SUFFICES ASSUME NEW d \in Calls, call'[d].pc # "idle"
                 PROVE  call'[d].attempt <= said'[call'[d].m].attempt
      OBVIOUS
    <3>1. CASE d = c
      BY <1>1, <1>5, <3>1 DEF Taken
    <3>2. CASE d # c
      BY <1>2, <1>3, <1>4, <1>5, <1>6, <3>2 DEF GInv, Past
    <3> QED BY <3>1, <3>2
  <2>2. ASSUME NEW n \in Msgs, NEW k \in DOMAIN out[n] PROVE out[n][k].attempt \in Nat
    <3>1. out[n] \in Seq(Item)
      BY DEF TInv, TypeOK
    <3>2. out[n][k] \in Item
      BY <3>1
    <3> QED BY <3>2 DEF Item
  <2>3. \A n \in Msgs : \A k \in DOMAIN out'[n] : out'[n][k].attempt <= said'[n].attempt
    BY <1>1, <1>2, <1>4, <1>5, <2>2 DEF GInv, Past
  <2> QED BY <2>1, <2>3 DEF Past
<1>8. NoGaps'
  <2> SUFFICES ASSUME NEW d \in Calls, call'[d].pc # "idle", call'[d].kind = "delta",
                      call'[d].attempt = said'[call'[d].m].attempt
               PROVE  call'[d].seq <= said'[call'[d].m].n + said'[call'[d].m].extra
    BY DEF NoGaps
  <2>1. CASE d = c
    BY <1>1, <2>1 DEF Taken
  <2>2. CASE d # c
    <3>1. call'[d] = call[d] /\ call[d].attempt <= said[call[d].m].attempt
      BY <1>3, <2>2 DEF GInv, Past
    <3>2. call[d].attempt = said[call[d].m].attempt
      BY <1>2, <1>4, <1>5, <1>6, <3>1
    <3>3. call[d].seq <= said[call[d].m].n + said[call[d].m].extra
      BY <3>1, <3>2 DEF GInv, NoGaps
    <3> QED BY <1>2, <1>4, <1>5, <1>6, <3>1, <3>2, <3>3
  <2> QED BY <2>1, <2>2
<1> QED BY <1>7, <1>8 DEF GInv

\* What a broken stream or a cancelled call leaves alone.
LEMMA BreakKeeps ==
  ASSUME TInv, NEW m \in Msgs, Break(m)
  PROVE  /\ \A d \in Calls :
              /\ call'[d].pc = call[d].pc
              /\ call[d].pc # "idle" =>
                   /\ call'[d].m = call[d].m /\ call'[d].kind = call[d].kind
                   /\ call'[d].seq = call[d].seq /\ call'[d].attempt = call[d].attempt
                   /\ call'[d].heard => call[d].heard /\ call[d].m # m
         /\ \A n \in Msgs :
              /\ said'[n].phase = said[n].phase /\ said'[n].attempt = said[n].attempt
              /\ said'[n].n = said[n].n /\ said'[n].extra = said[n].extra
              /\ n # m => said'[n].redo = said[n].redo /\ tracker'[n] = tracker[n]
         /\ said[m].phase = "open" /\ said'[m].redo = "must" /\ UNCHANGED out
<1>1. \A d \in Calls : call[d].pc # "idle" => call[d] \in Busy
  BY BusyCall DEF TInv
<1>2. \A n \in Msgs : said[n] \in Caller
  BY DEF TInv, TypeOK
<1>3. call' = [d \in Calls |-> IF call[d].pc # "idle" /\ call[d].m = m
                               THEN [call[d] EXCEPT !.heard = FALSE] ELSE call[d]]
  BY DEF Break, Active
<1>4. said' = [said EXCEPT ![m].redo = "must"]
  BY DEF Break
<1> QED BY <1>1, <1>2, <1>3, <1>4 DEF Break, TInv, TypeOK, Busy, Caller

LEMMA GInvBreak ==
  ASSUME TInv, GInv, NEW m \in Msgs, Break(m) PROVE GInv'
<1>1. \A d \in Calls : call[d].pc # "idle" => call[d].m \in Msgs
  BY BusyCall DEF TInv, Busy
<1> QED BY <1>1, BreakKeeps DEF GInv, Past, NoGaps

LEMMA GInvStep == TInv /\ GInv /\ [Next]_vars => GInv'
<1> SUFFICES ASSUME TInv, GInv, [Next]_vars PROVE GInv'
  OBVIOUS
<1>1. CASE UNCHANGED vars
  BY <1>1 DEF vars, GInv, Past, NoGaps
<1>2. CASE Move
  BY <1>2 DEF Move, GInv, Past, NoGaps
<1> QED BY <1>1, <1>2, GInvHandle, GInvReceive, GInvBreak DEF Next

LEMMA GInvHolds == Spec => []GInv
<1>1. Init => GInv
  BY DEF Init, GInv, Past, NoGaps, Idle
<1> QED BY <1>1, GInvStep, TInvHolds, PTL DEF Spec

\* The chunks of an attempt are numbered from one without a number to spare.
THEOREM NumbersSafe == Spec => []NoGaps
<1>1. GInv => NoGaps
  BY DEF GInv
<1> QED BY <1>1, GInvHolds, PTL

----------------------------------------------------------------------------
(* TrackerFreed.                                                           *)

Freed == \A m \in Msgs : /\ said[m].phase # "open" => tracker[m] = NoEntry
                         /\ Mode(m) = "http" => said[m].phase # "open"

LEMMA FreedReceive ==
  ASSUME TInv, Freed, NEW c \in Calls, NEW m \in Msgs, NEW kind \in Kinds, Receive(c, m, kind)
  PROVE  Freed'
<1>1. Taken(c, m, kind)
  BY ReceiveEffect
<1>2. said[m] \in Caller /\ said'[m] = Send(said[m], kind) /\ tracker'[m] = Count(m, Type(m, kind))
  BY <1>1 DEF Taken, TInv, TypeOK
<1>3. MaySend(m, kind)
  BY DEF Receive
<1>4. said'[m].phase # "open" => tracker'[m] = NoEntry
  <2>1. CASE kind \in {"setup", "completed"}
    BY <1>2, <2>1 DEF Send, Caller, Count, Type
  <2>2. CASE kind \in {"delta", "rationale", "control"}
    <3>1. said[m].phase = "open"
      BY <1>3, <2>2 DEF MaySend
    <3> QED BY <1>2, <2>2, <3>1 DEF Send, Caller
  <2>3. CASE kind = "check"
    <3>1. said[m].phase = "new"
      BY <1>3, <2>3 DEF MaySend
    <3> QED BY <1>2, <2>3, <3>1 DEF Count, Type, Freed
  <2>4. CASE kind = "send"
    <3>1. said[m].phase # "open"
      BY <1>3, <2>4 DEF MaySend, Freed
    <3> QED BY <1>2, <2>4, <3>1 DEF Count, Type, Freed
  <2> QED BY <2>1, <2>2, <2>3, <2>4 DEF Kinds
<1>5. Mode(m) = "http" => said'[m].phase # "open"
  <2>1. CASE kind = "send"
    BY <1>2, <2>1 DEF Send, Caller
  <2>2. CASE kind # "send"
    BY <1>3, <2>2 DEF MaySend
  <2> QED BY <2>1, <2>2
<1> QED BY <1>1, <1>4, <1>5 DEF Taken, Freed, TInv, TypeOK, Receive, Mode

LEMMA FreedStep == TInv /\ Freed /\ [Next]_vars => Freed'
<1> SUFFICES ASSUME TInv, Freed, [Next]_vars PROVE Freed'
  OBVIOUS
<1>1. CASE UNCHANGED vars \/ Move
  BY <1>1 DEF vars, Move, Freed, Mode
<1>2. ASSUME NEW c \in Calls, Handle(c) PROVE Freed'
  <2>1. Effect(c)
    BY <1>2, HandleEffect
  <2> QED BY <2>1 DEF Effect, SameTurn, Freed, Mode
<1>3. ASSUME NEW m \in Msgs, Break(m) PROVE Freed'
  BY <1>3, BreakKeeps DEF Freed, Break, Mode
<1> QED BY <1>1, <1>2, <1>3, FreedReceive DEF Next

\* A message that was completed leaves no entry in the seq tracker.
THEOREM TrackerSafe == Spec => []TrackerFreed
<1>1. Init => Freed
  BY DEF Init, Freed, Fresh
<1>2. TypeOK /\ Freed => TrackerFreed
  BY DEF Freed, TrackerFreed
<1> QED BY <1>1, <1>2, FreedStep, TInvHolds, InboundTypeCorrect, PTL DEF Spec

----------------------------------------------------------------------------
(* SeqsDistinct.                                                           *)

OnWay(d, m) == /\ call[d].pc \in {"lookup", "route", "xadd"} /\ call[d].m = m
               /\ call[d].kind = "delta"
Alike(d, e) == /\ d.kind = "delta" /\ e.kind = "delta"
               /\ d.attempt = e.attempt /\ d.seq = e.seq

\* Of an attempt that goes on, no delta has a number above the tracker's.
Below(m, d) == d.kind = "delta" /\ d.attempt = said[m].attempt => d.seq <= tracker[m]
Numbered ==
  \A m \in Msgs :
    said[m].phase = "open" /\ said[m].redo # "must" =>
      /\ tracker[m] >= 0
      /\ \A d \in Calls : OnWay(d, m) => Below(m, call[d])
      /\ \A k \in DOMAIN out[m] : Below(m, out[m][k])

\* Nobody waits for the calls of an attempt that is to be made again.
Unheard ==
  \A m \in Msgs :
    said[m].redo = "must" =>
      /\ said[m].phase = "open"
      /\ \A d \in Calls : call[d].pc # "idle" /\ call[d].m = m => ~call[d].heard

Apart ==
  \A m \in Msgs :
    /\ \A j, k \in DOMAIN out[m] : Alike(out[m][j], out[m][k]) => j = k
    /\ \A b, d \in Calls : OnWay(b, m) /\ OnWay(d, m) /\ Alike(call[b], call[d]) => b = d
    /\ \A b \in Calls, k \in DOMAIN out[m] : OnWay(b, m) => ~Alike(call[b], out[m][k])
SInv == Numbered /\ Unheard /\ Apart

LEMMA ApartDistinct == Apart => SeqsDistinct
BY DEF Apart, SeqsDistinct, OnWay, Alike, Active

\* A call keeps what it is about, and an entry that is put was its call before.
LEMMA HandleKeeps ==
  ASSUME TInv, NEW c \in Calls, Handle(c)
  PROVE  /\ Effect(c)
         /\ \A d \in Calls : call'[d].pc # "idle" =>
              /\ call[d].pc # "idle" /\ call'[d].m = call[d].m /\ call'[d].kind = call[d].kind
              /\ call'[d].seq = call[d].seq /\ call'[d].attempt = call[d].attempt
              /\ call'[d].heard = call[d].heard
         /\ \A d \in Calls, m \in Msgs : OnWay(d, m)' => OnWay(d, m)
<1>1. Effect(c)
  BY HandleEffect
<1>2. call[c] \in Busy /\ call[c].pc # "idle"
  BY <1>1 DEF Effect, Busy
<1>3. \A d \in Calls : call'[d].pc # "idle" =>
        /\ call[d].pc # "idle" /\ call'[d].m = call[d].m /\ call'[d].kind = call[d].kind
        /\ call'[d].seq = call[d].seq /\ call'[d].attempt = call[d].attempt
        /\ call'[d].heard = call[d].heard
  BY <1>1, <1>2 DEF Effect, OneMoves, Idle, Busy
<1>4. call[c].pc = "store" => call'[c].pc \notin {"lookup", "route", "xadd"}
  BY <1>1 DEF Handle, Effect, OneMoves, Idle, Busy, SaveIncoming, LookupClient, RouteToClient,
     AppendEntry, StoreCompleted, Answers
<1>5. call[c].pc = "save" => call[c].kind # "delta"
  BY DEF TInv, ChecksEnd
<1>6. \A d \in Calls, m \in Msgs : OnWay(d, m)' => OnWay(d, m)
  BY <1>1, <1>2, <1>3, <1>4, <1>5 DEF Effect, OneMoves, OnWay, Busy
<1> QED BY <1>1, <1>3, <1>6

\* The entries of a message after a step: those before, or one more.
LEMMA HandlePuts ==
  ASSUME TInv, NEW c \in Calls, Handle(c), NEW m \in Msgs, NEW k \in DOMAIN out'[m]
  PROVE  \/ k \in DOMAIN out[m] /\ out'[m][k] = out[m][k]
         \/ /\ k \notin DOMAIN out[m] /\ DOMAIN out'[m] = DOMAIN out[m] \cup {k}
            /\ call[c].m = m /\ call[c].pc = "xadd" /\ ~OnWay(c, m)'
            /\ out'[m][k].kind = "delta" => call[c].kind = "delta"
            /\ out'[m][k].seq = call[c].seq /\ out'[m][k].attempt = call[c].attempt
<1>1. Effect(c)
  BY HandleEffect
<1>2. call[c] \in Busy
  BY <1>1 DEF Effect
<1>3. out[m] \in Seq(Item)
  BY DEF TInv, TypeOK
<1>4. CASE out'[m] = out[m]
  BY <1>4
<1>5. CASE out'[m] # out[m]
  <2>1. Put(c) /\ call[c].pc = "xadd" /\ call'[c].pc \in {"idle", "store"}
    BY <1>1, <1>5 DEF Effect
  <2>2. call[c].m = m /\ out'[m] = Append(out[m], Payload(c))
    BY <1>2, <1>5, <2>1 DEF Put, TInv, TypeOK, Busy
  <2>3. /\ Payload(c).seq = call[c].seq /\ Payload(c).attempt = call[c].attempt
        /\ Payload(c).kind = "delta" => call[c].kind = "delta"
    BY <1>2 DEF Payload, Busy, Kinds
  <2>4. ~OnWay(c, m)'
    BY <2>1 DEF OnWay
  <2>5. CASE k = Len(out[m]) + 1
    BY <1>3, <2>1, <2>2, <2>3, <2>4, <2>5
  <2>6. CASE k # Len(out[m]) + 1
    BY <1>3, <2>2, <2>6
  <2> QED BY <2>5, <2>6
<1> QED BY <1>4, <1>5

LEMMA SInvHandle ==
  ASSUME TInv, SInv, NEW c \in Calls, Handle(c) PROVE SInv'
<1>1. /\ Effect(c)
      /\ \A d \in Calls : call'[d].pc # "idle" =>
           /\ call[d].pc # "idle" /\ call'[d].m = call[d].m /\ call'[d].kind = call[d].kind
           /\ call'[d].seq = call[d].seq /\ call'[d].attempt = call[d].attempt
           /\ call'[d].heard = call[d].heard
      /\ \A d \in Calls, m \in Msgs : OnWay(d, m)' => OnWay(d, m)
  BY HandleKeeps
<1>2. call[c].pc # "idle"
  BY <1>1 DEF Effect, Busy
<1>3. \A m \in Msgs :
        /\ said'[m].phase = said[m].phase /\ said'[m].attempt = said[m].attempt
        /\ tracker'[m] = tracker[m]
        /\ (said[m].redo = "must") <=> (said'[m].redo = "must")
  BY <1>1, <1>2 DEF Effect, SameTurn, SInv, Unheard
<1>4. Unheard'
  BY <1>1, <1>3 DEF SInv, Unheard
<1>5. \A d \in Calls, m \in Msgs : OnWay(d, m)' =>
        /\ OnWay(d, m) /\ call'[d].kind = call[d].kind
        /\ call'[d].seq = call[d].seq /\ call'[d].attempt = call[d].attempt
  BY <1>1 DEF OnWay
<1>6. Numbered'
  <2> SUFFICES ASSUME NEW m \in Msgs, said[m].phase = "open", said[m].redo # "must"
               PROVE  /\ tracker[m] >= 0
                      /\ \A d \in Calls : OnWay(d, m)' => Below(m, call[d])'
                      /\ \A k \in DOMAIN out'[m] : Below(m, out[m][k])'
    BY <1>3 DEF Numbered
  <2>1. /\ tracker[m] >= 0
        /\ \A d \in Calls : OnWay(d, m) => Below(m, call[d])
        /\ \A k \in DOMAIN out[m] : Below(m, out[m][k])
    BY DEF SInv, Numbered
  <2>2. \A d \in Calls : OnWay(d, m)' => Below(m, call[d])'
    BY <1>3, <1>5, <2>1 DEF Below
  <2>3. ASSUME NEW k \in DOMAIN out'[m] PROVE Below(m, out[m][k])'
    <3>1. CASE k \in DOMAIN out[m] /\ out'[m][k] = out[m][k]
      BY <1>3, <2>1, <3>1 DEF Below
    <3>2. CASE /\ call[c].m = m /\ call[c].pc = "xadd"
               /\ out'[m][k].kind = "delta" => call[c].kind = "delta"
               /\ out'[m][k].seq = call[c].seq /\ out'[m][k].attempt = call[c].attempt
      BY <1>3, <2>1, <3>2 DEF Below, OnWay
    <3> QED BY <3>1, <3>2, HandlePuts
  <2> QED BY <2>1, <2>2, <2>3
<1>7. Apart'
  <2> SUFFICES ASSUME NEW m \in Msgs
      PROVE  /\ \A j, k \in DOMAIN out'[m] : Alike(out'[m][j], out'[m][k]) => j = k
             /\ \A b, d \in Calls : OnWay(b, m)' /\ OnWay(d, m)' /\ Alike(call'[b], call'[d]) => b = d
             /\ \A b \in Calls, k \in DOMAIN out'[m] : OnWay(b, m)' => ~Alike(call'[b], out'[m][k])
    BY DEF Apart, Alike
  <2>1. /\ \A j, k \in DOMAIN out[m] : Alike(out[m][j], out[m][k]) => j = k
        /\ \A b, d \in Calls : OnWay(b, m) /\ OnWay(d, m) /\ Alike(call[b], call[d]) => b = d
        /\ \A b \in Calls, k \in DOMAIN out[m] : OnWay(b, m) => ~Alike(call[b], out[m][k])
    BY DEF SInv, Apart
  <2> DEFINE Old(k) == k \in DOMAIN out[m] /\ out'[m][k] = out[m][k]
             New(k) == /\ k \notin DOMAIN out[m] /\ DOMAIN out'[m] = DOMAIN out[m] \cup {k}
                       /\ call[c].m = m /\ call[c].pc = "xadd" /\ ~OnWay(c, m)'
                       /\ out'[m][k].kind = "delta" => call[c].kind = "delta"
                       /\ out'[m][k].seq = call[c].seq /\ out'[m][k].attempt = call[c].attempt
  <2>2. \A k \in DOMAIN out'[m] : Old(k) \/ New(k)
    BY HandlePuts
  <2>3. ASSUME NEW j \in DOMAIN out'[m], NEW k \in DOMAIN out'[m], Alike(out'[m][j], out'[m][k])
        PROVE  j = k
    <3>1. CASE Old(j) /\ Old(k)
      BY <2>1, <2>3, <3>1
    <3>2. CASE New(j) /\ New(k)
      BY <3>2
    <3>3. CASE Old(j) /\ New(k)
      <4>1. OnWay(c, m) /\ Alike(call[c], out[m][j])
        BY <2>3, <3>3 DEF Alike, OnWay
      <4> QED BY <2>1, <3>3, <4>1
    <3>4. CASE New(j) /\ Old(k)
      <4>1. OnWay(c, m) /\ Alike(call[c], out[m][k])
        BY <2>3, <3>4 DEF Alike, OnWay
      <4> QED BY <2>1, <3>4, <4>1
    <3> QED BY <2>2, <3>1, <3>2, <3>3, <3>4
  <2>4. \A b, d \in Calls : OnWay(b, m)' /\ OnWay(d, m)' /\ Alike(call'[b], call'[d]) => b = d
    BY <1>5, <2>1 DEF Alike
  <2>5. ASSUME NEW b \in Calls, NEW k \in DOMAIN out'[m], OnWay(b, m)', Alike(call'[b], out'[m][k])
        PROVE  FALSE
    <3>1. CASE Old(k)
      BY <1>5, <2>1, <2>5, <3>1 DEF Alike
    <3>2. CASE New(k)
      <4>1. OnWay(c, m) /\ OnWay(b, m) /\ b # c /\ Alike(call[b], call[c])
        BY <1>5, <2>5, <3>2 DEF Alike, OnWay
      <4> QED BY <2>1, <4>1
    <3> QED BY <2>2, <3>1, <3>2
  <2> QED BY <2>3, <2>4, <2>5
<1> QED BY <1>4, <1>6, <1>7 DEF SInv

LEMMA SInvReceive ==
  ASSUME TInv, GInv, SInv, NEW c \in Calls, NEW m \in Msgs, NEW kind \in Kinds,
         Receive(c, m, kind)
  PROVE  SInv'
<1>1. Taken(c, m, kind) /\ UNCHANGED out /\ MaySend(m, kind) /\ call[c] = Idle
  BY ReceiveEffect DEF Receive
<1>2. /\ said[m] \in Caller /\ said'[m] = Send(said[m], kind)
      /\ tracker[m] \in -1..Top /\ tracker'[m] = Count(m, Type(m, kind))
  BY <1>1 DEF Taken, TInv, TypeOK
<1>3. \A d \in Calls \ {c} : call'[d] = call[d]
  BY <1>1 DEF Taken, TInv, TypeOK
<1>4. \A n \in Msgs \ {m} : said'[n] = said[n] /\ tracker'[n] = tracker[n]
  BY <1>1 DEF Taken, TInv, TypeOK
<1>5. \A d \in Calls, n \in Msgs :
        OnWay(d, n)' => (d # c /\ OnWay(d, n)) \/ (d = c /\ n = m /\ Type(m, kind) = "delta")
  BY <1>1, <1>3 DEF OnWay, Taken
<1>6. said'[m].redo # "must"
  <2>1. CASE kind \in {"setup", "completed", "send"}
    BY <1>2, <2>1 DEF Send, Caller
  <2>2. CASE kind = "check"
    <3>1. said[m].phase = "new"
      BY <1>1, <2>2 DEF MaySend
    <3> QED BY <1>2, <2>2, <3>1 DEF Send, SInv, Unheard
  <2>3. CASE kind \in {"delta", "rationale", "control"}
    <3>1. said[m].redo # "must"
      BY <1>1, <2>3 DEF MaySend
    <3> QED BY <1>2, <2>3, <3>1 DEF Send, Caller
  <2> QED BY <2>1, <2>2, <2>3 DEF Kinds
<1>7. Unheard'
  <2> SUFFICES ASSUME NEW n \in Msgs, said'[n].redo = "must"
               PROVE  /\ said'[n].phase = "open"
                      /\ \A d \in Calls : call'[d].pc # "idle" /\ call'[d].m = n => ~call'[d].heard
    BY DEF Unheard
  <2>1. n # m
    BY <1>6
  <2>2. call'[c].m # n
    BY <1>1, <2>1 DEF Taken
  <2> QED BY <1>3, <1>4, <2>1, <2>2 DEF SInv, Unheard
<1>8. \A d \in Calls, n \in Msgs : OnWay(d, n) => call[d].attempt \in Nat /\ call[d].attempt <= said[n].attempt
  BY BusyCall DEF OnWay, GInv, Past, TInv, Busy
<1>9. ASSUME NEW n \in Msgs, NEW k \in DOMAIN out[n]
      PROVE  out[n][k].attempt \in Nat /\ out[n][k].seq \in Nat /\ out[n][k].attempt <= said[n].attempt
  <2>1. out[n] \in Seq(Item)
    BY DEF TInv, TypeOK
  <2>2. out[n][k] \in Item
    BY <2>1
  <2> QED BY <2>2 DEF Item, GInv, Past
<1>10. \A d \in Calls, n \in Msgs : OnWay(d, n) => call[d].seq \in Nat
  BY BusyCall DEF OnWay, TInv, Busy
\* What goes on, goes on with the numbers it has.
<1>11. CASE kind \in {"delta", "rationale", "control"}
  <2>1. /\ said[m].phase = "open" /\ said[m].redo # "must"
        /\ said'[m].phase = "open" /\ said'[m].attempt = said[m].attempt
    <3>1. said[m].phase = "open" /\ said[m].redo # "must"
      BY <1>1, <1>11 DEF MaySend
    <3> QED BY <1>2, <1>11, <3>1 DEF Send, Caller
  <2>2. /\ tracker[m] >= 0
        /\ \A d \in Calls : OnWay(d, m) => Below(m, call[d])
        /\ \A k \in DOMAIN out[m] : Below(m, out[m][k])
    BY <2>1 DEF SInv, Numbered
  <2>3. tracker'[m] = IF Type(m, kind) = "delta" THEN tracker[m] + 1 ELSE tracker[m]
    BY <1>2, <1>11, <2>2 DEF Count, Following, NoEntry, Type
  <2>4. Type(m, kind) = "delta" =>
          call'[c].seq = tracker[m] + 1 /\ call'[c].attempt = said[m].attempt
    BY <1>1, <2>1, <2>3 DEF Taken
  <2>5. Numbered'
    <3> SUFFICES ASSUME NEW n \in Msgs, said'[n].phase = "open", said'[n].redo # "must"
                 PROVE  /\ tracker'[n] >= 0
                        /\ \A d \in Calls : OnWay(d, n)' => Below(n, call[d])'
                        /\ \A k \in DOMAIN out'[n] : Below(n, out[n][k])'
      BY DEF Numbered
    <3>1. CASE n = m
      <4>1. tracker'[m] >= tracker[m] /\ tracker'[m] \in Int
        BY <1>2, <2>3
      <4>2. ASSUME NEW d \in Calls, OnWay(d, m)' PROVE Below(m, call[d])'
        <5>1. CASE d = c
          BY <1>1, <1>5, <2>3, <2>4, <4>2, <5>1 DEF Below, Taken
        <5>2. CASE d # c
          <6>1. OnWay(d, m) /\ call'[d] = call[d] /\ Below(m, call[d])
            BY <1>3, <1>5, <2>2, <4>2, <5>2
          <6> QED BY <1>2, <1>10, <2>1, <4>1, <6>1 DEF Below
        <5> QED BY <5>1, <5>2
      <4>3. ASSUME NEW k \in DOMAIN out[m] PROVE Below(m, out[m][k])'
        <5>1. Below(m, out[m][k])
          BY <2>2
        <5> QED BY <1>1, <1>2, <1>9, <2>1, <4>1, <5>1 DEF Below
      <4> QED BY <1>1, <1>2, <2>2, <3>1, <4>1, <4>2, <4>3
    <3>2. CASE n # m
      BY <1>1, <1>3, <1>4, <1>5, <3>2 DEF SInv, Numbered, Below
    <3> QED BY <3>1, <3>2
  <2>6. Apart'
    <3> SUFFICES ASSUME NEW n \in Msgs
        PROVE  /\ \A j, k \in DOMAIN out'[n] : Alike(out'[n][j], out'[n][k]) => j = k
               /\ \A b, d \in Calls : OnWay(b, n)' /\ OnWay(d, n)' /\ Alike(call'[b], call'[d]) => b = d
               /\ \A b \in Calls, k \in DOMAIN out'[n] : OnWay(b, n)' => ~Alike(call'[b], out'[n][k])
      BY DEF Apart, Alike
    <3>1. \A d \in Calls : OnWay(d, m) /\ Type(m, kind) = "delta" => ~Alike(call[d], call'[c]) /\ ~Alike(call'[c], call[d])
      BY <1>2, <1>10, <2>2, <2>4 DEF Alike, Below
    <3>2. \A k \in DOMAIN out[m] : Type(m, kind) = "delta" => ~Alike(call'[c], out[m][k])
      BY <1>2, <1>9, <2>2, <2>4 DEF Alike, Below
    <3>3. \A b, d \in Calls : OnWay(b, n)' /\ OnWay(d, n)' /\ Alike(call'[b], call'[d]) => b = d
      BY <1>3, <1>5, <3>1 DEF SInv, Apart
    <3>4. \A b \in Calls, k \in DOMAIN out'[n] : OnWay(b, n)' => ~Alike(call'[b], out'[n][k])
      BY <1>1, <1>3, <1>5, <3>2 DEF SInv, Apart
    <3> QED BY <1>1, <3>3, <3>4 DEF SInv, Apart
  <2> QED BY <1>7, <2>5, <2>6 DEF SInv
\* What begins or ends has no numbered delta.
<1>12. CASE kind \in {"setup", "completed", "check", "send"}
  <2>1. Type(m, kind) # "delta"
    BY <1>12 DEF Type
  <2>2. \A d \in Calls, n \in Msgs : OnWay(d, n)' => d # c /\ OnWay(d, n) /\ call'[d] = call[d]
    BY <1>3, <1>5, <2>1
  <2>3. Apart'
    BY <1>1, <2>2 DEF SInv, Apart, Alike
  <2>4. said'[m].phase = "open" =>
          tracker'[m] = 0 /\ said'[m].attempt = said[m].attempt + 1
    <3>1. CASE kind = "setup"
      <4> DEFINE new == [said[m] EXCEPT !.redo = "no", !.told = "none"]
      <4>1. /\ new.attempt = said[m].attempt
            /\ new \in [phase : {"new", "open", "ended"}, attempt : 0..MaxTurns,
                        n : 0..MaxDeltas, extra : 0..MaxExtras,
                        redo : {"no", "may", "must"}, told : Results]
        BY <1>2 DEF Caller, Results
      <4>2. said'[m] = [new EXCEPT !.phase = "open", !.attempt = @ + 1, !.n = 0]
        BY <1>2, <3>1 DEF Send
      <4>3. tracker'[m] = 0
        BY <1>2, <3>1 DEF Count, Type
      <4> HIDE DEF new
      <4>4. said'[m].attempt = new.attempt + 1
        BY <4>1, <4>2
      <4> QED BY <3>1, <4>1, <4>3, <4>4
    <3>2. CASE kind \in {"completed", "send"}
      BY <1>2, <3>2 DEF Send, Caller
    <3>3. CASE kind = "check"
      BY <1>1, <1>2, <3>3 DEF MaySend, Send
    <3> QED BY <1>12, <3>1, <3>2, <3>3
  <2>5. Numbered'
    <3> SUFFICES ASSUME NEW n \in Msgs, said'[n].phase = "open", said'[n].redo # "must"
                 PROVE  /\ tracker'[n] >= 0
                        /\ \A d \in Calls : OnWay(d, n)' => Below(n, call[d])'
                        /\ \A k \in DOMAIN out'[n] : Below(n, out[n][k])'
      BY DEF Numbered
    <3>1. CASE n = m
      <4>1. tracker'[m] = 0 /\ said'[m].attempt = said[m].attempt + 1 /\ said[m].attempt \in Nat
        BY <1>2, <2>4, <3>1 DEF Caller
      <4> QED BY <1>1, <1>8, <1>9, <2>2, <3>1, <4>1 DEF Below
    <3>2. CASE n # m
      BY <1>1, <1>4, <2>2, <3>2 DEF SInv, Numbered, Below
    <3> QED BY <3>1, <3>2
  <2> QED BY <1>7, <2>3, <2>5 DEF SInv
<1> QED BY <1>11, <1>12 DEF Kinds

LEMMA SInvBreak ==
  ASSUME TInv, SInv, NEW m \in Msgs, Break(m) PROVE SInv'
<1>1. /\ \A d \in Calls :
           /\ call'[d].pc = call[d].pc
           /\ call[d].pc # "idle" =>
                /\ call'[d].m = call[d].m /\ call'[d].kind = call[d].kind
                /\ call'[d].seq = call[d].seq /\ call'[d].attempt = call[d].attempt
                /\ call'[d].heard => call[d].heard /\ call[d].m # m
      /\ \A n \in Msgs :
           /\ said'[n].phase = said[n].phase /\ said'[n].attempt = said[n].attempt
           /\ n # m => said'[n].redo = said[n].redo /\ tracker'[n] = tracker[n]
      /\ said[m].phase = "open" /\ said'[m].redo = "must" /\ UNCHANGED out
  BY BreakKeeps
<1>2. \A d \in Calls, n \in Msgs : OnWay(d, n)' =>
        /\ OnWay(d, n) /\ call'[d].kind = call[d].kind
        /\ call'[d].seq = call[d].seq /\ call'[d].attempt = call[d].attempt
  BY <1>1 DEF OnWay
<1>3. Unheard'
  BY <1>1 DEF SInv, Unheard
<1>4. Apart'
  BY <1>1, <1>2 DEF SInv, Apart, Alike
<1>5. Numbered'
  BY <1>1, <1>2 DEF SInv, Numbered, Below
<1> QED BY <1>3, <1>4, <1>5 DEF SInv

LEMMA SInvStep == TInv /\ GInv /\ SInv /\ [Next]_vars => SInv'
<1> SUFFICES ASSUME TInv, GInv, SInv, [Next]_vars PROVE SInv'
  OBVIOUS
<1>1. CASE UNCHANGED vars \/ Move
  BY <1>1 DEF vars, Move, SInv, Numbered, Unheard, Apart, OnWay, Below, Alike
<1> QED BY <1>1, SInvHandle, SInvReceive, SInvBreak DEF Next

LEMMA SInvInit == Init => SInv
<1> SUFFICES ASSUME Init PROVE SInv
  OBVIOUS
<1>1. /\ \A m \in Msgs : said[m].phase = "new" /\ said[m].redo = "no" /\ DOMAIN out[m] = {}
      /\ \A c \in Calls : call[c].pc = "idle"
  BY DEF Init, Idle, Fresh
<1>2. Numbered
  BY <1>1 DEF Numbered
<1>3. Unheard
  BY <1>1 DEF Unheard
<1>4. Apart
  BY <1>1 DEF Apart, OnWay
<1> QED BY <1>2, <1>3, <1>4 DEF SInv

\* No two deltas of an attempt carry the same number, however many calls overlap,
\* fail, are cancelled or lose their caller (unarySeqMu, seqTracker).
THEOREM SeqsSafe == Spec => []SeqsDistinct
<1>1. SInv => SeqsDistinct
  BY ApartDistinct DEF SInv
<1> QED BY <1>1, SInvInit, SInvStep, TInvHolds, GInvHolds, PTL DEF Spec

----------------------------------------------------------------------------
(* Inbound implements TurnOrder.                                            *)

\* A call whose caller waits for its answer.
Live(c, m) == call[c].pc # "idle" /\ call[c].m = m /\ call[c].heard

\* What a caller that waits for each answer has one call for at most, which is
\* of its present attempt; an attempt has nothing appended before its start, and
\* nothing but the completion comes once the message is completed.
Ordered(m) ==
  /\ \A c \in Calls : Live(c, m) =>
       /\ call[c].attempt = said[m].attempt
       /\ call[c].kind \in {"check", "setup", "delta", "rationale", "control", "completed"}
       /\ call[c].kind \in {"setup", "delta", "rationale", "control"} => said[m].phase = "open"
       /\ call[c].kind = "completed" => said[m].phase = "ended"
       /\ call[c].kind = "delta" => call[c].seq = tracker[m]
       /\ call[c].kind = "setup" =>
            \A k \in DOMAIN out[m] : out[m][k].attempt < said[m].attempt
  /\ \A b, c \in Calls : Live(b, m) /\ Live(c, m) => b = c
  /\ \A k \in DOMAIN out[m] : out[m][k].kind = "end" => said[m].phase = "ended"
OInv == \A m \in Msgs : InOrder(m) => Ordered(m)

\* Only a call that somebody waits for appends its entry, and a start, a chunk
\* or an aside is the last thing that its call does.
LEMMA PutsHeard ==
  ASSUME TInv, NEW c \in Calls, Handle(c), out' # out
  PROVE  /\ call[c].heard /\ Put(c) /\ call[c].pc = "xadd"
         /\ call[c].kind # "completed" => call'[c].pc = "idle"
<1>1. AppendEntry(c)
  BY DEF Handle, SaveIncoming, LookupClient, RouteToClient, StoreCompleted
<1>2. \A result : Answers(c, result) => call'[c].pc = "idle"
  BY DEF Answers, Idle, TInv, TypeOK
<1> QED BY <1>1, <1>2 DEF AppendEntry, AfterPublish

\* An entry that a step appends, and the entries that were there.
LEMMA PutAppends ==
  ASSUME TInv, NEW c \in Calls, call[c].pc = "xadd", Put(c)
  PROVE  /\ call[c] \in Busy /\ call[c].m \in Msgs /\ call[c].kind # "check"
         /\ Payload(c) \in Item /\ out[call[c].m] \in Seq(Item)
         /\ out' = [out EXCEPT ![call[c].m] = Append(out[call[c].m], Payload(c))]
         /\ Payload(c).seq = call[c].seq /\ Payload(c).attempt = call[c].attempt
         /\ Payload(c).kind = "start" <=> call[c].kind = "setup"
         /\ Payload(c).kind = "end" <=> call[c].kind = "completed"
         /\ Payload(c).kind = "delta" <=> call[c].kind = "delta"
         /\ Payload(c).kind = "message" => call[c].kind = "send"
<1>1. call[c] \in Busy /\ call[c].kind # "check"
  BY BusyCall DEF TInv, ChecksEnd
<1>2. Payload(c) \in Item
  BY <1>1 DEF Payload, Item, Busy, Kinds
<1>3. call[c].m \in Msgs
  BY <1>1 DEF Busy
<1>4. /\ Payload(c).seq = call[c].seq /\ Payload(c).attempt = call[c].attempt
      /\ Payload(c).kind = "start" <=> call[c].kind = "setup"
      /\ Payload(c).kind = "end" <=> call[c].kind = "completed"
      /\ Payload(c).kind = "delta" <=> call[c].kind = "delta"
      /\ Payload(c).kind = "message" => call[c].kind = "send"
  BY <1>1 DEF Payload, Busy, Kinds
<1> QED BY <1>1, <1>2, <1>3, <1>4 DEF Put, TInv, TypeOK

LEMMA OInvHandle ==
  ASSUME TInv, OInv, NEW c \in Calls, Handle(c) PROVE OInv'
<1> SUFFICES ASSUME NEW m \in Msgs, InOrder(m) PROVE Ordered(m)'
  <2>1. UNCHANGED way
    BY HandleEffect DEF Effect
  <2> QED BY <2>1 DEF OInv, InOrder, Mode
<1>1. Ordered(m)
  BY DEF OInv
<1>2. /\ said'[m].phase = said[m].phase /\ said'[m].attempt = said[m].attempt
      /\ tracker'[m] = tracker[m]
  BY HandleEffect DEF Effect, SameTurn
<1>3. \A d \in Calls : Live(d, m)' =>
        /\ Live(d, m) /\ call'[d].kind = call[d].kind
        /\ call'[d].seq = call[d].seq /\ call'[d].attempt = call[d].attempt
  BY HandleKeeps DEF Live
<1>4. CASE out'[m] = out[m]
  BY <1>1, <1>2, <1>3, <1>4 DEF Ordered
<1>5. CASE out'[m] # out[m]
  <2>1. /\ call[c].heard /\ Put(c) /\ call[c].pc = "xadd"
        /\ call[c].kind # "completed" => call'[c].pc = "idle"
    BY <1>5, PutsHeard
  <2>2. call[c].m = m /\ out[m] \in Seq(Item) /\ out'[m] = Append(out[m], Payload(c))
    BY <1>5, <2>1, PutAppends DEF TInv, TypeOK
  <2>3. Live(c, m)
    BY <2>1, <2>2 DEF Live
  <2>4. \A d \in Calls : Live(d, m)' => d = c /\ call[d].kind = "completed"
    BY <1>1, <1>3, <2>1, <2>3 DEF Ordered, Live
  <2>5. \A k \in DOMAIN out'[m] : out'[m][k].kind = "end" => said[m].phase = "ended"
    <3>1. Payload(c).kind = "end" => said[m].phase = "ended"
      BY <1>1, <2>1, <2>3, PutAppends DEF Ordered
    <3>2. \A k \in DOMAIN out'[m] : (k \in DOMAIN out[m] /\ out'[m][k] = out[m][k])
                                    \/ out'[m][k] = Payload(c)
      BY <2>2
    <3> QED BY <1>1, <3>1, <3>2 DEF Ordered
  <2> QED BY <1>1, <1>2, <1>3, <2>4, <2>5 DEF Ordered
<1> QED BY <1>4, <1>5

LEMMA OInvReceive ==
  ASSUME TInv, GInv, SInv, OInv, NEW c \in Calls, NEW m \in Msgs, NEW kind \in Kinds,
         Receive(c, m, kind)
  PROVE  OInv'
<1>1. Taken(c, m, kind) /\ UNCHANGED <<way, out>> /\ MaySend(m, kind) /\ call[c] = Idle
  BY ReceiveEffect DEF Receive
<1>2. \A d \in Calls \ {c} : call'[d] = call[d]
  BY <1>1 DEF Taken, TInv, TypeOK
<1> SUFFICES ASSUME NEW n \in Msgs, InOrder(n) PROVE Ordered(n)'
  BY <1>1 DEF OInv, InOrder, Mode
<1>3. Ordered(n)
  BY DEF OInv
<1>4. CASE n # m
  <2>1. said'[n] = said[n] /\ tracker'[n] = tracker[n]
    BY <1>1, <1>4 DEF Taken, TInv, TypeOK
  <2>2. \A d \in Calls : Live(d, n)' => d # c /\ Live(d, n)
    BY <1>1, <1>2, <1>4 DEF Live, Taken
  <2> QED BY <1>1, <1>2, <1>3, <2>1, <2>2 DEF Ordered
<1>5. CASE n = m
  <2>1. \A d \in Calls : ~Live(d, m)
    BY <1>1, <1>5 DEF MaySend, Free, Waiting, Active, Live, InOrder
  <2>2. \A d \in Calls : Live(d, m)' => d = c
    BY <1>2, <2>1 DEF Live
  <2>3. said[m] \in Caller /\ said'[m] = Send(said[m], kind)
    BY <1>1 DEF Taken, TInv, TypeOK
  <2>4. kind # "send" /\ Type(m, kind) \in Kinds \ {"send"}
    BY <1>1, <1>5 DEF MaySend, InOrder, Type, Kinds
  <2>5. kind \in {"delta", "rationale", "control"} => said'[m].phase = "open"
    <3> SUFFICES ASSUME kind \in {"delta", "rationale", "control"}
                 PROVE  said'[m].phase = "open"
      OBVIOUS
    <3>1. said[m].phase = "open"
      BY <1>1 DEF MaySend
    <3> QED BY <2>3, <3>1 DEF Send, Caller
  <2>6. kind = "setup" =>
          said'[m].phase = "open" /\ said'[m].attempt = said[m].attempt + 1
    <3> SUFFICES ASSUME kind = "setup"
                 PROVE  said'[m].phase = "open" /\ said'[m].attempt = said[m].attempt + 1
      OBVIOUS
    <3> DEFINE new == [said[m] EXCEPT !.redo = "no", !.told = "none"]
    <3>1. new \in Caller /\ new.attempt = said[m].attempt
      BY <2>3 DEF Caller, Results
    <3>2. said'[m] = [new EXCEPT !.phase = "open", !.attempt = @ + 1, !.n = 0]
      BY <2>3 DEF Send
    <3> HIDE DEF new
    <3> QED BY <3>1, <3>2 DEF Caller
  <2>7. kind = "setup" => \A k \in DOMAIN out[m] : out[m][k].attempt < said'[m].attempt
    <3> SUFFICES ASSUME kind = "setup", NEW k \in DOMAIN out[m]
                 PROVE  out[m][k].attempt < said'[m].attempt
      OBVIOUS
    <3>1. out[m] \in Seq(Item)
      BY DEF TInv, TypeOK
    <3>2. out[m][k] \in Item
      BY <3>1
    <3>3. out[m][k].attempt \in Nat /\ out[m][k].attempt <= said[m].attempt
      BY <3>2 DEF Item, GInv, Past
    <3> QED BY <2>3, <2>6, <3>3 DEF Caller
  <2>8. said[m].phase = "ended" => said'[m].phase = "ended"
    <3> SUFFICES ASSUME said[m].phase = "ended" PROVE said'[m].phase = "ended"
      OBVIOUS
    <3>1. kind = "completed"
      BY <1>1, <2>4 DEF MaySend, Kinds
    <3> QED BY <2>3, <3>1 DEF Send, Caller
  <2>9. \A k \in DOMAIN out[m] : out[m][k].kind = "end" => said'[m].phase = "ended"
    BY <1>3, <1>5, <2>8 DEF Ordered
  <2>10. /\ call'[c].attempt = said'[m].attempt
         /\ call'[c].kind \in {"check", "setup", "delta", "rationale", "control", "completed"}
         /\ call'[c].kind \in {"setup", "delta", "rationale", "control"} =>
              said'[m].phase = "open"
         /\ call'[c].kind = "completed" => said'[m].phase = "ended"
         /\ call'[c].kind = "delta" => call'[c].seq = tracker'[m]
         /\ call'[c].kind = "setup" =>
              \A k \in DOMAIN out[m] : out[m][k].attempt < said'[m].attempt
    <3>1. kind = "completed" => said'[m].phase = "ended"
      BY <2>3 DEF Send, Caller
    <3> QED BY <1>1, <2>4, <2>5, <2>6, <2>7, <3>1 DEF Taken, Type, Kinds
  <2> QED BY <1>1, <1>5, <2>2, <2>9, <2>10 DEF Ordered
<1> QED BY <1>4, <1>5

LEMMA OInvBreak ==
  ASSUME TInv, OInv, NEW m \in Msgs, Break(m) PROVE OInv'
<1>1. UNCHANGED <<way, out>>
  BY DEF Break
<1> SUFFICES ASSUME NEW n \in Msgs, InOrder(n) PROVE Ordered(n)'
  BY <1>1 DEF OInv, InOrder, Mode
<1>2. Ordered(n)
  BY DEF OInv
<1>3. \A d \in Calls : Live(d, n)' =>
        /\ Live(d, n) /\ call'[d].kind = call[d].kind /\ n # m
        /\ call'[d].seq = call[d].seq /\ call'[d].attempt = call[d].attempt
  BY BreakKeeps DEF Live
<1>4. /\ said'[n].phase = said[n].phase /\ said'[n].attempt = said[n].attempt
      /\ n # m => tracker'[n] = tracker[n]
  BY BreakKeeps
<1> QED BY <1>1, <1>2, <1>3, <1>4 DEF Ordered

LEMMA OInvStep == TInv /\ GInv /\ SInv /\ OInv /\ [Next]_vars => OInv'
<1> SUFFICES ASSUME TInv, GInv, SInv, OInv, [Next]_vars PROVE OInv'
  OBVIOUS
<1>1. CASE UNCHANGED vars \/ Move
  BY <1>1 DEF vars, Move, OInv, Ordered, Live, InOrder, Mode
<1> QED BY <1>1, OInvHandle, OInvReceive, OInvBreak DEF Next

\* What the log of TurnOrder is in a state of Inbound.
Log == [m \in Msgs |-> IF InOrder(m) THEN out[m] ELSE <<>>]

\* An entry that a call appends is one that TurnOrder allows next.
LEMMA PutAllowed ==
  ASSUME TInv, GInv, SInv, OInv, NEW c \in Calls, call[c].pc = "xadd", call[c].heard,
         Put(c), InOrder(call[c].m), UNCHANGED way
  PROVE  Turns!Next
<1> DEFINE m == call[c].m
           e == Payload(c)
<1>1. /\ call[c] \in Busy /\ m \in Msgs /\ call[c].kind # "check"
      /\ e \in Item /\ out[m] \in Seq(Item) /\ out' = [out EXCEPT ![m] = Append(out[m], e)]
      /\ e.seq = call[c].seq /\ e.attempt = call[c].attempt
  BY PutAppends
<1>2. Live(c, m) /\ Ordered(m)
  BY <1>1 DEF Live, OInv
<1>3. Turns!Sent(m) = {out[m][k] : k \in DOMAIN out[m]}
  BY <1>1 DEF Turns!Sent
<1>4. Turns!Latest(m, e)
  BY <1>1, <1>2, <1>3 DEF Turns!Latest, Ordered, GInv, Past
<1>5. said[m].phase = "open" => ~Turns!Ended(m)
  BY <1>2, <1>3 DEF Turns!Ended, Ordered
<1>6. Turns!Start(m, e) \/ Turns!Delta(m, e) \/ Turns!Aside(m, e) \/ Turns!End(m, e)
  <2>1. CASE call[c].kind = "setup"
    BY <1>1, <1>2, <1>3, <1>5, <2>1 DEF Turns!Start, Payload, Ordered
  <2>2. CASE call[c].kind = "delta"
    <3>1. e.kind = "delta" /\ said[m].phase = "open" /\ call[c].seq = tracker[m]
      BY <1>2, <2>2 DEF Payload, Ordered
    <3>2. said[m].redo # "must"
      BY <1>1, <1>2 DEF SInv, Unheard, Live
    <3>3. OnWay(c, m)
      BY <2>2 DEF OnWay
    <3>4. ASSUME NEW k \in DOMAIN out[m], out[m][k].attempt = e.attempt, out[m][k].kind = "delta"
          PROVE  out[m][k].seq < e.seq
      <4>1. out[m][k] \in Item
        BY <1>1
      <4>2. out[m][k].attempt = said[m].attempt
        BY <1>1, <1>2, <3>4 DEF Ordered
      <4>3. out[m][k].seq <= tracker[m]
        BY <1>1, <3>1, <3>2, <3>4, <4>2 DEF SInv, Numbered, Below
      <4>4. out[m][k].seq # call[c].seq
        BY <1>1, <2>2, <3>3, <3>4 DEF SInv, Apart, Alike
      <4>5. out[m][k].seq \in Int /\ tracker[m] \in Int
        BY <1>1, <4>1 DEF Item, TInv, TypeOK
      <4> QED BY <1>1, <3>1, <4>3, <4>4, <4>5
    <3> QED BY <1>3, <1>5, <3>1, <3>4 DEF Turns!Delta
  <2>3. CASE call[c].kind \in {"rationale", "control"}
    BY <1>2, <1>5, <2>3 DEF Turns!Aside, Payload, Ordered
  <2>4. CASE call[c].kind = "completed"
    BY <2>4 DEF Turns!End, Payload
  <2> QED BY <1>1, <1>2, <2>1, <2>2, <2>3, <2>4 DEF Ordered
<1>7. Log' = [Log EXCEPT ![m] = Append(Log[m], e)] /\ Log[m] = out[m]
  <2>1. \A n \in Msgs : InOrder(n)' <=> InOrder(n)
    BY DEF InOrder, Mode
  <2>2. Log' = [n \in Msgs |-> IF InOrder(n) THEN out'[n] ELSE <<>>]
    BY <2>1 DEF Log
  <2>3. \A n \in Msgs : out'[n] = IF n = m THEN Append(out[m], e) ELSE out[n]
    BY <1>1 DEF TInv, TypeOK
  <2>4. Log[m] = out[m]
    BY <1>1 DEF Log
  <2>5. InOrder(m) /\ m \in Msgs
    BY <1>1
  <2> HIDE DEF m, e
  <2> QED BY <2>2, <2>3, <2>4, <2>5 DEF Log
<1>8. Log' # Log
  <2>1. Len(Append(out[m], e)) # Len(out[m])
    BY <1>1
  <2> QED BY <1>1, <1>7, <2>1 DEF Log
<1> QED BY <1>1, <1>4, <1>6, <1>7, <1>8 DEF Turns!Next, Log

LEMMA RefinesStep ==
  TInv /\ GInv /\ SInv /\ OInv /\ [Next]_vars => [Turns!Next]_Log
<1> SUFFICES ASSUME TInv, GInv, SInv, OInv, [Next]_vars, Log' # Log PROVE Turns!Next
  BY DEF Log
<1>1. UNCHANGED way
  BY HandleEffect DEF Next, vars, Move, Receive, Break, Effect
<1>2. out' # out
  BY <1>1 DEF Log, InOrder, Mode
<1>3. PICK c \in Calls : Handle(c)
  BY <1>2 DEF Next, vars, Move, Receive, Break
<1>4. call[c].heard /\ Put(c) /\ call[c].pc = "xadd"
  BY <1>2, <1>3, PutsHeard
<1>5. InOrder(call[c].m)
  <2>1. CASE ~InOrder(call[c].m)
    BY <1>1, <1>4, <2>1, PutAppends DEF Log, InOrder, Mode, TInv, TypeOK
  <2> QED BY <2>1
<1> QED BY <1>1, <1>4, <1>5, PutAllowed

LEMMA OInvInit == Init => OInv
BY DEF Init, OInv, Ordered, Live, Idle

\* Whatever fails, breaks or overlaps, the entries of a turn whose messages come
\* one after the other reach the client's pod in the order of TurnOrder: starts
\* before their chunks, chunks in growing order, none after the end.
THEOREM TurnsRefined == Spec => TurnsInOrder
<1>1. Init => Turns!Init
  BY DEF Init, Turns!Init
<1>2. Spec => [](TInv /\ GInv /\ SInv /\ OInv)
  BY OInvInit, SInvInit, OInvStep, SInvStep, TInvHolds, GInvHolds, PTL DEF Spec
<1>3. TInv /\ GInv /\ SInv /\ OInv /\ [Next]_vars => [Turns!Next]_Log
  BY RefinesStep
<1> QED BY <1>1, <1>2, <1>3, PTL DEF Spec, TurnsInOrder, Turns!Spec, Log

----------------------------------------------------------------------------
(* StoredOnce and AcceptedIsStored.                                        *)

Doing(c, m) == call[c].pc # "idle" /\ call[c].m = m
Completing(c, m) == Doing(c, m) /\ call[c].kind = "completed"

\* A completed message is being handled once at most, and it is waited for; when
\* it has been stored, its caller has no reason to send it again.
Kinded == \A c \in Calls :
            /\ call[c].pc = "store" => call[c].kind = "completed"
            /\ call[c].pc # "idle" =>
                 (call[c].kind = "send" <=> Mode(call[c].m) = "http")
Once(m) ==
  /\ \A c \in Calls : Completing(c, m) =>
       /\ call[c].heard /\ said[m].phase = "ended" /\ said[m].redo = "no"
       /\ stored[m] = 0
  /\ \A b, c \in Calls : Completing(b, m) /\ Completing(c, m) => b = c
  /\ \A c \in Calls : Live(c, m) /\ said[m].phase = "ended" => call[c].kind = "completed"
  /\ stored[m] > 0 => stored[m] = 1 /\ said[m].phase = "ended" /\ said[m].redo = "no"
Stores == Kinded /\ \A m \in Msgs : Mode(m) # "http" => Once(m)

\* What a handler's step has to do with storing and with asking again.
LEMMA HandleStores ==
  ASSUME TInv, Kinded, NEW c \in Calls, Handle(c)
  PROVE  /\ call'[c].pc = "store" => call[c].kind = "completed"
         /\ \A m \in Msgs : m # call[c].m => stored'[m] = stored[m] /\ said'[m] = said[m]
         /\ \A m \in Msgs : Mode(m) # "http" /\ stored'[m] # stored[m] =>
              /\ call[c].kind = "completed" /\ stored'[m] = stored[m] + 1
              /\ call'[c].pc = "idle" /\ said'[m].redo = said[m].redo
         /\ \A m \in Msgs : said'[m].redo # said[m].redo =>
              call[c].heard /\ call'[c].pc = "idle" /\ call[c].m = m
<1>1. Effect(c) /\ call[c] \in Busy
  BY HandleEffect DEF Effect
<1>2. call[c].m \in Msgs /\ call[c].pc # "idle" /\ Idle.pc = "idle"
  BY <1>1 DEF Busy, Idle
<1>3. ASSUME NEW r \in Results, Answers(c, r)
      PROVE  /\ call'[c] = Idle
             /\ \A m \in Msgs : m # call[c].m => said'[m] = said[m]
             /\ said'[call[c].m] =
                  IF call[c].heard THEN Hear(said[call[c].m], call[c].m, call[c].kind, r)
                  ELSE said[call[c].m]
  BY <1>2, <1>3 DEF Answers, TInv, TypeOK
<1>4. \A where : Goto(c, where) => call'[c].pc = where /\ said' = said
  BY <1>1 DEF Goto, TInv, TypeOK, Busy
<1>5. \A s \in Caller, m \in Msgs, kind \in Kinds : Hear(s, m, kind, "success").redo = s.redo
  BY DEF Hear, Caller
<1>6. \A m \in Msgs : said[m] \in Caller /\ stored[m] \in Nat
  BY DEF TInv, TypeOK
<1>7. CASE SaveIncoming(c)
  <2>1. Mode(call[c].m) = "http"
    BY <1>2, <1>7 DEF SaveIncoming, Kinded, TInv, ChecksEnd
  <2>2. \A m \in Msgs : m # call[c].m => stored'[m] = stored[m]
    BY <1>7, <1>2 DEF SaveIncoming, TInv, TypeOK
  <2> QED BY <1>2, <1>3, <1>4, <1>7, <2>1, <2>2 DEF SaveIncoming, Results
<1>8. CASE LookupClient(c) \/ RouteToClient(c) \/ AppendEntry(c)
  <2>1. UNCHANGED stored
    BY <1>8 DEF LookupClient, RouteToClient, AppendEntry
  <2>2. \/ \E r \in Results : Answers(c, r)
        \/ \E where \in {"route", "xadd"} : Goto(c, where)
        \/ call[c].kind = "completed" /\ Goto(c, "store")
    BY <1>8 DEF LookupClient, RouteToClient, AppendEntry, AfterPublish, Results
  <2>3. CASE \E r \in Results : Answers(c, r)
    BY <1>2, <1>3, <2>1, <2>3
  <2>4. CASE \E where \in {"route", "xadd", "store"} : Goto(c, where)
    BY <1>2, <1>4, <2>1, <2>2, <2>3, <2>4
  <2> QED BY <2>2, <2>3, <2>4
<1>9. CASE StoreCompleted(c)
  <2>1. Answers(c, "success") /\ call[c].kind = "completed"
    BY <1>9 DEF StoreCompleted, Kinded
  <2>2. \A m \in Msgs : said'[m].redo = said[m].redo
    BY <1>2, <1>3, <1>5, <1>6, <2>1 DEF Results, Kinds
  <2>3. \A m \in Msgs : /\ m # call[c].m => stored'[m] = stored[m]
                        /\ stored'[m] \in {stored[m], stored[m] + 1}
    BY <1>2, <1>6, <1>9 DEF StoreCompleted, TInv, TypeOK
  <2> QED BY <1>2, <1>3, <2>1, <2>2, <2>3 DEF Results
<1> QED BY <1>7, <1>8, <1>9 DEF Handle

LEMMA StoresHandle ==
  ASSUME TInv, Stores, NEW c \in Calls, Handle(c) PROVE Stores'
<1>1. Effect(c) /\ call[c].pc # "idle" /\ UNCHANGED way
  BY HandleEffect DEF Effect, Busy
<1>2. \A d \in Calls : call'[d].pc # "idle" =>
        /\ call[d].pc # "idle" /\ call'[d].m = call[d].m /\ call'[d].kind = call[d].kind
        /\ call'[d].heard = call[d].heard
  BY HandleKeeps
<1>3. /\ call'[c].pc = "store" => call[c].kind = "completed"
      /\ \A m \in Msgs : m # call[c].m => stored'[m] = stored[m] /\ said'[m] = said[m]
      /\ \A m \in Msgs : Mode(m) # "http" /\ stored'[m] # stored[m] =>
           /\ call[c].kind = "completed" /\ stored'[m] = stored[m] + 1
           /\ call'[c].pc = "idle" /\ said'[m].redo = said[m].redo
      /\ \A m \in Msgs : said'[m].redo # said[m].redo =>
           call[c].heard /\ call'[c].pc = "idle" /\ call[c].m = m
  BY HandleStores DEF Stores
<1>4. \A d \in Calls : d # c => call'[d] = call[d]
  BY <1>1 DEF Effect, OneMoves
<1>5. Kinded'
  BY <1>1, <1>2, <1>3, <1>4 DEF Stores, Kinded, Mode
<1> SUFFICES ASSUME NEW m \in Msgs, Mode(m) # "http" PROVE Once(m)'
  BY <1>1, <1>5 DEF Stores, Mode
<1>6. Once(m) /\ stored[m] \in Nat
  BY DEF Stores, TInv, TypeOK
<1>7. said'[m].phase = said[m].phase
  BY <1>1 DEF Effect, SameTurn
<1>8. \A d \in Calls : /\ Completing(d, m)' => Completing(d, m)
                       /\ Live(d, m)' => Live(d, m) /\ call'[d].kind = call[d].kind
  BY <1>2 DEF Completing, Doing, Live
<1>9. CASE stored'[m] = stored[m] /\ said'[m].redo = said[m].redo
  BY <1>2, <1>6, <1>7, <1>8, <1>9 DEF Once, Completing, Doing
<1>10. CASE stored'[m] # stored[m]
  <2>1. Completing(c, m) /\ stored'[m] = stored[m] + 1 /\ call'[c].pc = "idle"
        /\ said'[m].redo = said[m].redo
    BY <1>1, <1>3, <1>10 DEF Completing, Doing
  <2>2. \A d \in Calls : ~Completing(d, m)'
    BY <1>6, <1>8, <2>1 DEF Once, Completing, Doing
  <2> QED BY <1>6, <1>7, <1>8, <2>1, <2>2 DEF Once
<1>11. CASE stored'[m] = stored[m] /\ said'[m].redo # said[m].redo
  <2>1. Live(c, m) /\ call'[c].pc = "idle"
    BY <1>1, <1>3, <1>11 DEF Live
  <2>2. said[m].phase = "ended" => Completing(c, m)
    BY <1>6, <2>1 DEF Once, Live, Completing, Doing
  <2>3. \A d \in Calls : ~Completing(d, m)'
    BY <1>6, <1>8, <2>1, <2>2 DEF Once, Completing, Doing
  <2>4. stored[m] = 0
    BY <1>6, <2>2 DEF Once
  <2> QED BY <1>6, <1>7, <1>8, <1>11, <2>3, <2>4 DEF Once
<1> QED BY <1>9, <1>10, <1>11

LEMMA StoresReceive ==
  ASSUME TInv, Stores, NEW c \in Calls, NEW m \in Msgs, NEW kind \in Kinds,
         Receive(c, m, kind)
  PROVE  Stores'
<1>1. /\ Taken(c, m, kind) /\ UNCHANGED <<way, stored>> /\ MaySend(m, kind)
      /\ call[c] = Idle
  BY ReceiveEffect DEF Receive
<1>2. \A d \in Calls : d # c => call'[d] = call[d]
  BY <1>1 DEF Taken, TInv, TypeOK
<1>3. Kinded'
  <2>1. kind = "send" <=> Mode(m) = "http"
    BY <1>1 DEF MaySend
  <2>2. Type(m, kind) = "send" <=> kind = "send"
    BY DEF Type
  <2> QED BY <1>1, <1>2, <2>1, <2>2 DEF Stores, Kinded, Taken, Mode
<1> SUFFICES ASSUME NEW n \in Msgs, Mode(n) # "http" PROVE Once(n)'
  BY <1>1, <1>3 DEF Stores, Mode
<1>4. Once(n) /\ stored[n] \in Nat
  BY DEF Stores, TInv, TypeOK
<1>5. CASE n # m
  <2>1. said'[n] = said[n] /\ call'[c].m # n
    BY <1>1, <1>5 DEF Taken, TInv, TypeOK
  <2>2. \A d \in Calls : /\ Completing(d, n)' => Completing(d, n) /\ d # c
                         /\ Live(d, n)' => Live(d, n) /\ d # c
    BY <1>2, <2>1 DEF Completing, Doing, Live
  <2> QED BY <1>1, <1>2, <1>4, <2>1, <2>2 DEF Once
<1>6. CASE n = m
  <2>1. said[m] \in Caller /\ said'[m] = Send(said[m], kind) /\ kind # "send"
    BY <1>1, <1>6 DEF Taken, TInv, TypeOK, MaySend
  <2>2. CASE kind = "completed"
    <3>1. \A d \in Calls : ~Live(d, m)
      BY <1>1, <2>2 DEF MaySend, Free, Waiting, Active, Live
    <3>2. \A d \in Calls : ~Completing(d, m)
      BY <1>4, <1>6, <3>1 DEF Once, Completing, Doing, Live
    <3>3. stored[m] = 0
      BY <1>1, <1>4, <1>6, <2>2 DEF MaySend, Once
    <3>4. said'[m].phase = "ended" /\ said'[m].redo = "no"
      BY <2>1, <2>2 DEF Send, Caller
    <3>5. \A d \in Calls : (Completing(d, m) \/ Live(d, m))' => d = c
      BY <1>2, <3>1, <3>2 DEF Completing, Doing, Live
    <3>6. call'[c].kind = "completed" /\ call'[c].heard
      BY <1>1, <2>2 DEF Taken, Type
    <3> QED BY <1>1, <1>6, <3>3, <3>4, <3>5, <3>6 DEF Once
  <2>3. CASE kind # "completed"
    <3>1. said[m].phase # "ended" /\ said'[m].phase # "ended"
      <4>1. CASE kind = "check"
        BY <1>1, <2>1, <4>1 DEF MaySend, Send
      <4>2. CASE kind = "setup"
        BY <1>1, <2>1, <4>2 DEF MaySend, Send, Caller
      <4>3. CASE kind \in {"delta", "rationale", "control"}
        <5>1. said[m].phase = "open"
          BY <1>1, <4>3 DEF MaySend
        <5> QED BY <2>1, <4>3, <5>1 DEF Send, Caller
      <4> QED BY <2>1, <2>3, <4>1, <4>2, <4>3 DEF Kinds
    <3>2. stored[m] = 0 /\ \A d \in Calls : ~Completing(d, m)
      BY <1>4, <1>6, <3>1 DEF Once
    <3>3. \A d \in Calls : ~Completing(d, m)'
      BY <1>1, <1>2, <2>3, <3>2 DEF Completing, Doing, Taken, Type
    <3> QED BY <1>1, <1>6, <3>1, <3>2, <3>3 DEF Once
  <2> QED BY <2>2, <2>3
<1> QED BY <1>5, <1>6

LEMMA StoresBreak ==
  ASSUME TInv, Stores, NEW m \in Msgs, Break(m) PROVE Stores'
<1>1. UNCHANGED <<way, stored>>
  BY DEF Break
<1>2. Kinded'
  BY <1>1, BreakKeeps DEF Stores, Kinded, Mode
<1> SUFFICES ASSUME NEW n \in Msgs, Mode(n) # "http" PROVE Once(n)'
  BY <1>1, <1>2 DEF Stores, Mode
<1>3. Once(n) /\ stored[n] \in Nat
  BY DEF Stores, TInv, TypeOK
<1>4. \A d \in Calls : /\ Completing(d, n)' => Completing(d, n)
                       /\ Live(d, n)' => Live(d, n) /\ call'[d].kind = call[d].kind /\ n # m
  BY BreakKeeps DEF Completing, Doing, Live
<1>5. CASE n = m
  BY <1>1, <1>3, <1>4, <1>5, BreakKeeps DEF Once
<1>6. CASE n # m
  <2>1. \A d \in Calls : Doing(d, n) => call'[d] = call[d]
    BY <1>6 DEF Break, Active, Doing, TInv, TypeOK
  <2>2. said'[n].phase = said[n].phase /\ said'[n].redo = said[n].redo
    BY <1>6, BreakKeeps
  <2> QED BY <1>1, <1>3, <1>4, <2>1, <2>2 DEF Once, Completing
<1> QED BY <1>5, <1>6

LEMMA StoresStep == TInv /\ Stores /\ [Next]_vars => Stores'
<1> SUFFICES ASSUME TInv, Stores, [Next]_vars PROVE Stores'
  OBVIOUS
<1>1. CASE UNCHANGED vars \/ Move
  BY <1>1 DEF vars, Move, Stores, Kinded, Once, Completing, Doing, Live, Mode
<1> QED BY <1>1, StoresHandle, StoresReceive, StoresBreak DEF Next

LEMMA StoresHolds == Spec => []Stores
<1>1. Init => Stores
  BY DEF Init, Stores, Kinded, Once, Completing, Doing, Live, Idle
<1> QED BY <1>1, StoresStep, TInvHolds, PTL DEF Spec

\* A streamed message is in the history once at most, however its caller repeats
\* what was answered with an error (saveStreamedMessageToHistory comes last).
THEOREM StoredSafe == Spec => []StoredOnce
<1>1. TInv /\ Stores => StoredOnce
  <2> SUFFICES ASSUME TInv, Stores, NEW m \in Msgs, Mode(m) # "http" PROVE stored[m] <= 1
    BY DEF StoredOnce
  <2>1. stored[m] \in Nat /\ (stored[m] > 0 => stored[m] = 1)
    BY DEF TInv, TypeOK, Stores, Once
  <2> QED BY <2>1
<1> QED BY <1>1, StoresHolds, TInvHolds, PTL

\* A post that is past its save is stored; a turn whose caller was told of
\* success is stored when nothing fails.
Backed(m) ==
  /\ Mode(m) = "http" =>
       /\ \A c \in Calls : Doing(c, m) /\ call[c].pc # "save" => stored[m] > 0
       /\ said[m].told = "success" => stored[m] > 0
  /\ Mode(m) # "http" /\ faults = 0 /\ said[m].phase = "ended" /\ said[m].told = "success" =>
       stored[m] > 0
BInv == \A m \in Msgs : Kept(m) => Backed(m)

LEMMA BackedHandle ==
  ASSUME TInv, Stores, BInv, NEW c \in Calls, Handle(c) PROVE BInv'
<1>1. Effect(c) /\ call[c] \in Busy /\ UNCHANGED way
  BY HandleEffect DEF Effect
<1>2. /\ call[c].m \in Msgs /\ call[c].pc # "idle" /\ Idle.pc = "idle"
      /\ call[c].heard \in BOOLEAN
  BY <1>1 DEF Busy, Idle
<1> SUFFICES ASSUME NEW m \in Msgs, Kept(m) PROVE Backed(m)'
  BY <1>1 DEF BInv, Kept
<1>3. Backed(m) /\ stored[m] \in Nat /\ stored'[m] \in Nat /\ faults \in Nat /\ said[m] \in Caller
  BY <1>1 DEF BInv, TInv, TypeOK, Effect
<1>4. /\ stored'[m] >= stored[m]
      /\ call[c].pc \notin {"save", "store"} => stored'[m] = stored[m]
  <2>1. call[c].pc \notin {"save", "store"} => stored' = stored
    BY DEF Handle, SaveIncoming, LookupClient, RouteToClient, AppendEntry, StoreCompleted
  <2>2. \/ stored' = stored
        \/ \E d \in {0, 1} : stored' = [stored EXCEPT ![call[c].m] = @ + d]
    BY DEF Handle, SaveIncoming, LookupClient, RouteToClient, AppendEntry, StoreCompleted
  <2>3. CASE \E d \in {0, 1} : stored' = [stored EXCEPT ![call[c].m] = @ + d]
    <3>1. PICK d \in {0, 1} : stored' = [stored EXCEPT ![call[c].m] = @ + d]
      BY <2>3
    <3>2. stored'[m] = IF m = call[c].m THEN stored[m] + d ELSE stored[m]
      BY <3>1 DEF TInv, TypeOK
    <3> QED BY <1>3, <2>1, <3>2
  <2> QED BY <1>3, <2>1, <2>2, <2>3
<1>5. \A d \in Calls : Doing(d, m)' => Doing(d, m) /\ (d # c => call'[d] = call[d])
  BY <1>1, HandleKeeps DEF Doing, Effect, OneMoves
<1>6. said'[m].phase = said[m].phase /\ (faults' = 0 => faults = 0)
  BY <1>1, <1>3 DEF Effect, SameTurn, Handle, SaveIncoming, LookupClient, RouteToClient,
     AppendEntry, StoreCompleted, Works, Fails
<1>7. ASSUME NEW r \in Results, Answers(c, r)
      PROVE  /\ call'[c].pc = "idle"
             /\ m # call[c].m => said'[m] = said[m]
             /\ m = call[c].m /\ ~call[c].heard => said'[m] = said[m]
             /\ m = call[c].m /\ call[c].heard => said'[m] = Hear(said[m], m, call[c].kind, r)
  BY <1>2, <1>7 DEF Answers, TInv, TypeOK
<1>8. \A where : Goto(c, where) => call'[c].pc = where /\ said' = said
  BY <1>1 DEF Goto, TInv, TypeOK, Busy
\* Only an answer of success, or the end of a client stream, tells of success.
<1>9. \A kind \in Kinds, r \in Results :
        Hear(said[m], m, kind, r).told = "success" =>
          said[m].told = "success" \/ r = "success" \/ (Mode(m) = "upload" /\ kind = "completed")
  BY <1>3 DEF Hear, Caller
<1>10. call[c].m = m /\ call[c].heard /\ said[m].phase = "ended" /\ Mode(m) # "http"
         => call[c].kind = "completed"
  BY <1>2 DEF Stores, Once, Live
<1>11. call[c].kind \in Kinds
  BY <1>1 DEF Busy
<1>12. CASE said'[m] = said[m]
  <2>1. Mode(m) = "http" =>
          \A d \in Calls : Doing(d, m)' /\ call'[d].pc # "save" => stored'[m] > 0
    <3> SUFFICES ASSUME Mode(m) = "http", NEW d \in Calls, Doing(d, m)', call'[d].pc # "save"
                 PROVE  stored'[m] > 0
      OBVIOUS
    <3>1. CASE call[d].pc # "save"
      BY <1>3, <1>4, <1>5, <3>1 DEF Backed
    <3>2. CASE call[d].pc = "save"
      <4>1. d = c /\ Doing(c, m)
        BY <1>5, <3>2
      <4>2. SaveIncoming(c)
        BY <3>2, <4>1 DEF Handle, LookupClient, RouteToClient, AppendEntry, StoreCompleted
      <4>3. ~\E r \in Results : Answers(c, r)
        BY <1>7, <4>1 DEF Doing
      <4>4. stored' = [stored EXCEPT ![call[c].m] = @ + 1]
        BY <4>2, <4>3 DEF SaveIncoming, Results
      <4> QED BY <1>3, <4>1, <4>4 DEF Doing, TInv, TypeOK
    <3> QED BY <3>1, <3>2
  <2> QED BY <1>1, <1>3, <1>4, <1>6, <1>12, <2>1 DEF Backed, Mode
<1>13. CASE said'[m] # said[m]
  <2>1. PICK r \in Results : Answers(c, r)
    BY <1>8, <1>13 DEF Handle, SaveIncoming, LookupClient, RouteToClient, AppendEntry,
       StoreCompleted, AfterPublish, Results
  <2>2. call[c].m = m /\ call[c].heard /\ call'[c].pc = "idle" /\ Doing(c, m)
        /\ said'[m] = Hear(said[m], m, call[c].kind, r)
    BY <1>2, <1>7, <1>13, <2>1 DEF Doing
  <2>3. \A d \in Calls : Doing(d, m)' => Doing(d, m) /\ call'[d] = call[d]
    BY <1>5, <2>2 DEF Doing
  <2>4. ASSUME Mode(m) = "http", said'[m].told = "success" PROVE stored'[m] > 0
    <3>1. CASE call[c].pc = "save"
      <4>1. SaveIncoming(c)
        BY <3>1 DEF Handle, LookupClient, RouteToClient, AppendEntry, StoreCompleted
      <4>2. Answers(c, "error")
        BY <1>8, <1>13, <4>1 DEF SaveIncoming
      <4>3. said'[m] = Hear(said[m], m, call[c].kind, "error")
        BY <1>7, <2>2, <4>2 DEF Results
      <4>4. said[m].told = "success"
        BY <1>9, <1>11, <2>4, <4>3 DEF Results
      <4> QED BY <1>3, <1>4, <2>4, <4>4 DEF Backed
    <3>2. CASE call[c].pc # "save"
      BY <1>3, <1>4, <2>2, <2>4, <3>2 DEF Backed
    <3> QED BY <3>1, <3>2
  <2>5. ASSUME Mode(m) # "http", faults' = 0, said[m].phase = "ended",
               said'[m].told = "success"
        PROVE  stored'[m] > 0
    <3>1. call[c].kind = "completed" /\ Kept(call[c].m)
      BY <1>10, <2>2, <2>5
    <3>2. ~Fails
      BY <1>3, <2>5 DEF Fails
    <3>3. ~AfterPublish(c)
      BY <1>8, <1>13, <3>1 DEF AfterPublish
    <3>4. StoreCompleted(c)
      BY <1>8, <1>13, <2>2, <3>1, <3>2, <3>3 DEF Handle, SaveIncoming, LookupClient,
         RouteToClient, AppendEntry, TInv, ChecksEnd
    <3>5. stored' = [stored EXCEPT ![call[c].m] = @ + 1]
      BY <3>2, <3>4 DEF StoreCompleted
    <3> QED BY <1>3, <2>2, <3>5 DEF TInv, TypeOK
  <2>6. Mode(m) = "http" =>
          \A d \in Calls : Doing(d, m)' /\ call'[d].pc # "save" => stored'[m] > 0
    BY <1>3, <1>4, <2>3 DEF Backed
  <2> QED BY <1>1, <1>6, <2>4, <2>5, <2>6 DEF Backed, Mode
<1> QED BY <1>12, <1>13

LEMMA BackedReceive ==
  ASSUME TInv, Stores, BInv, NEW c \in Calls, NEW m \in Msgs, NEW kind \in Kinds,
         Receive(c, m, kind)
  PROVE  BInv'
<1>1. /\ Taken(c, m, kind) /\ UNCHANGED <<way, stored, faults>> /\ MaySend(m, kind)
      /\ call[c] = Idle
      /\ call'[c].pc = IF kind = "send" /\ Kept(m) THEN "save" ELSE "lookup"
  BY ReceiveEffect DEF Receive, TInv, TypeOK
<1>2. \A d \in Calls : d # c => call'[d] = call[d]
  BY <1>1 DEF Taken, TInv, TypeOK
<1> SUFFICES ASSUME NEW n \in Msgs, Kept(n) PROVE Backed(n)'
  BY <1>1 DEF BInv, Kept
<1>3. Backed(n)
  BY DEF BInv
<1>4. CASE n # m
  <2>1. said'[n] = said[n] /\ call'[c].m # n
    BY <1>1, <1>4 DEF Taken, TInv, TypeOK
  <2> QED BY <1>1, <1>2, <1>3, <2>1 DEF Backed, Doing, Mode
<1>5. CASE n = m
  <2>1. said[m] \in Caller /\ said'[m] = Send(said[m], kind)
    BY <1>1 DEF Taken, TInv, TypeOK
  <2>2. said'[m].told \in {"none", said[m].told}
    BY <2>1 DEF Send, Caller
  <2>3. CASE Mode(m) = "http"
    <3>1. kind = "send" /\ call'[c].pc = "save"
      BY <1>1, <1>5, <2>3 DEF MaySend
    <3> QED BY <1>1, <1>2, <1>3, <1>5, <2>2, <2>3, <3>1 DEF Backed, Doing, Mode
  <2>4. CASE Mode(m) # "http"
    <3>1. CASE kind = "completed"
      BY <1>1, <2>1, <2>4, <1>5, <3>1 DEF Send, Caller, Backed, Mode
    <3>2. CASE kind # "completed"
      <4>1. kind # "send"
        BY <1>1, <2>4 DEF MaySend
      <4>2. said'[m].phase # "ended"
        <5>1. CASE kind = "check"
          BY <1>1, <2>1, <5>1 DEF MaySend, Send
        <5>2. CASE kind = "setup"
          BY <1>1, <2>1, <5>2 DEF MaySend, Send, Caller
        <5>3. CASE kind \in {"delta", "rationale", "control"}
          <6>1. said[m].phase = "open"
            BY <1>1, <5>3 DEF MaySend
          <6> QED BY <2>1, <5>3, <6>1 DEF Send, Caller
        <5> QED BY <3>2, <4>1, <5>1, <5>2, <5>3 DEF Kinds
      <4> QED BY <1>1, <1>5, <2>4, <4>2 DEF Backed, Mode
    <3> QED BY <3>1, <3>2
  <2> QED BY <2>3, <2>4
<1> QED BY <1>4, <1>5

LEMMA BackedBreak ==
  ASSUME TInv, BInv, NEW m \in Msgs, Break(m) PROVE BInv'
<1>1. UNCHANGED <<way, stored>>
  BY DEF Break
<1> SUFFICES ASSUME NEW n \in Msgs, Kept(n) PROVE Backed(n)'
  BY <1>1 DEF BInv, Kept
<1>2. Backed(n) /\ faults \in Nat
  BY DEF BInv, TInv, TypeOK
<1>3. \A d \in Calls : Doing(d, n)' => Doing(d, n) /\ call'[d].pc = call[d].pc
  BY BreakKeeps DEF Doing
<1>4. faults' # 0 /\ said'[n].told = said[n].told
  BY <1>2, SMTT(30) DEF Break, Fails, TInv, TypeOK, Caller
<1> QED BY <1>1, <1>2, <1>3, <1>4 DEF Backed, Mode

LEMMA BackedStep == TInv /\ Stores /\ BInv /\ [Next]_vars => BInv'
<1> SUFFICES ASSUME TInv, Stores, BInv, [Next]_vars PROVE BInv'
  OBVIOUS
<1>1. CASE UNCHANGED vars \/ Move
  BY <1>1 DEF vars, Move, BInv, Backed, Doing, Kept, Mode
<1> QED BY <1>1, BackedHandle, BackedReceive, BackedBreak DEF Next

\* Whoever was told that a message is accepted finds it in the history: a post
\* even when calls fail (SendHandler saves first), a turn when none does.
THEOREM AcceptedSafe == Spec => []AcceptedIsStored
<1>1. Init => BInv
  BY DEF Init, BInv, Backed, Doing, Idle, Fresh
<1>2. TInv /\ BInv => AcceptedIsStored
  BY DEF BInv, Backed, AcceptedIsStored
<1> QED BY <1>1, <1>2, BackedStep, StoresHolds, TInvHolds, PTL DEF Spec

----------------------------------------------------------------------------
(* NothingSkipped.                                                         *)

Easy == online /\ moves = 0 /\ faults = 0

\* The calls that have an entry to append, and how many entries were asked for.
Coming(m) == {c \in Calls : /\ call[c].pc \in {"save", "lookup", "route", "xadd"}
                            /\ call[c].m = m /\ call[c].kind # "check"}
Due(m) == said[m].attempt + said[m].n + said[m].extra
          + (IF said[m].phase = "ended" /\ Mode(m) # "http" THEN 1 ELSE 0)

\* While all is well callers hear of success, and so do nothing a second time.
Smooth ==
  /\ \A c \in Calls : call[c].pc # "idle" => call[c].heard
  /\ \A m \in Msgs : /\ said[m].redo = "no"
                     /\ said[m].phase = "new" => said[m].n = 0
                     /\ Len(out[m]) + Cardinality(Coming(m)) = Due(m)
EInv == Easy => Smooth

LEMMA ComingSize ==
  ASSUME IsFiniteSet(Calls), NEW m \in Msgs
  PROVE  IsFiniteSet(Coming(m)) /\ Cardinality(Coming(m)) \in Nat
<1>1. Coming(m) \subseteq Calls
  BY DEF Coming
<1> QED BY <1>1, FS_Subset, FS_CardinalityType

LEMMA EasyConnected ==
  ASSUME TInv, Kinded, Easy, NEW c \in Calls, call[c].pc # "idle", call[c].kind # "check"
  PROVE  Connected(c)
<1>1. call[c] \in Busy
  BY BusyCall DEF TInv
<1>2. call[c].m \in Msgs /\ way[call[c].m] \in Ways
  BY <1>1 DEF Busy, TInv, TypeOK
<1>3. call[c].kind = "send" => Urn(call[c].m) = "plain"
  BY <1>2, InboundAssumption DEF Kinded, Mode, Urn
<1> QED BY <1>3 DEF Connected, Contact, normalizeContactURN, Easy

\* While all is well, an answer is success, but to a question.
LEMMA EasyAnswers ==
  ASSUME TInv, Smooth, NEW c \in Calls, call[c].pc # "idle", NEW r \in Results, Answers(c, r),
         r = "success" \/ call[c].kind = "check"
  PROVE  (\A m \in Msgs : said'[m].redo = "no") /\ call'[c].pc = "idle"
<1>1. call[c] \in Busy
  BY BusyCall DEF TInv
<1>2. call[c].m \in Msgs /\ call[c].kind \in Kinds
  BY <1>1 DEF Busy
<1>3. \A m \in Msgs : said[m] \in Caller
  BY DEF TInv, TypeOK
<1>4. \A s \in Caller : s.redo = "no" => Hear(s, call[c].m, call[c].kind, r).redo = "no"
  BY DEF Hear, Caller
<1>5. \A m \in Msgs : said'[m].redo = "no"
  BY <1>2, <1>3, <1>4 DEF Answers, Smooth, TInv, TypeOK
<1>6. call'[c].pc = "idle"
  BY DEF Answers, Idle, TInv, TypeOK
<1> QED BY <1>5, <1>6

\* A step of a handler leaves its call among those to come, or appends.
LEMMA EasyHandles ==
  ASSUME TInv, Kinded, Easy, Smooth, NEW c \in Calls, Handle(c), UNCHANGED faults
  PROVE  /\ \A m \in Msgs : said'[m].redo = "no"
         /\ LET Waits == call[c].pc \in {"save", "lookup", "route", "xadd"} /\ call[c].kind # "check"
                Still == call'[c].pc \in {"save", "lookup", "route", "xadd"} /\ call[c].kind # "check"
            IN \/ UNCHANGED out /\ (Waits <=> Still)
               \/ Put(c) /\ call[c].pc = "xadd" /\ Waits /\ ~Still
<1>1. call[c] \in Busy /\ call[c].pc # "idle" /\ call[c].heard
  BY HandleEffect DEF Effect, Busy, Smooth
<1>2. \A where : Goto(c, where) => call'[c].pc = where /\ said' = said
  BY <1>1 DEF Goto, TInv, TypeOK, Busy
<1>3. ~Fails
  BY DEF Fails, TInv, TypeOK
<1>4. \A m \in Msgs : said[m].redo = "no"
  BY DEF Smooth
<1>5. CASE SaveIncoming(c)
  <2>1. call[c].pc = "save" /\ Goto(c, "lookup") /\ UNCHANGED out
    BY <1>3, <1>5 DEF SaveIncoming
  <2> QED BY <1>2, <1>4, <2>1
<1>6. CASE LookupClient(c)
  <2>1. UNCHANGED out /\ call[c].pc = "lookup"
    BY <1>6 DEF LookupClient
  <2>2. CASE call[c].kind = "check"
    <3>1. Answers(c, "success") \/ Answers(c, "offline")
      BY <1>3, <1>6, <2>2 DEF LookupClient
    <3> QED BY <1>1, <2>1, <2>2, <3>1, EasyAnswers DEF Results
  <2>3. CASE call[c].kind # "check"
    <3>1. Goto(c, "route")
      BY <1>1, <1>3, <1>6, <2>3, EasyConnected DEF LookupClient
    <3> QED BY <1>2, <1>4, <2>1, <3>1
  <2> QED BY <2>2, <2>3
<1>7. CASE RouteToClient(c)
  <2>1. UNCHANGED out /\ call[c].pc = "route" /\ call[c].kind # "check"
    BY <1>7 DEF RouteToClient, TInv, ChecksEnd
  <2>2. Goto(c, "xadd")
    BY <1>1, <1>3, <1>7, <2>1, EasyConnected DEF RouteToClient
  <2> QED BY <1>2, <1>4, <2>1, <2>2
<1>8. CASE AppendEntry(c)
  <2>1. Put(c) /\ AfterPublish(c) /\ call[c].pc = "xadd" /\ call[c].kind # "check"
    BY <1>1, <1>3, <1>8 DEF AppendEntry, TInv, ChecksEnd
  <2>2. Goto(c, "store") \/ Answers(c, "success")
    BY <2>1 DEF AfterPublish
  <2>3. (\A m \in Msgs : said'[m].redo = "no") /\ call'[c].pc \in {"store", "idle"}
    BY <1>1, <1>2, <1>4, <2>2, EasyAnswers DEF Results
  <2> QED BY <2>1, <2>3
<1>9. CASE StoreCompleted(c)
  <2>1. UNCHANGED out /\ call[c].pc = "store" /\ Answers(c, "success")
    BY <1>9 DEF StoreCompleted
  <2>2. (\A m \in Msgs : said'[m].redo = "no") /\ call'[c].pc = "idle"
    BY <1>1, <2>1, EasyAnswers DEF Results
  <2> QED BY <2>1, <2>2
<1> QED BY <1>5, <1>6, <1>7, <1>8, <1>9 DEF Handle

LEMMA SmoothHandle ==
  ASSUME IsFiniteSet(Calls), TInv, Kinded, Easy, Smooth, NEW c \in Calls, Handle(c),
         UNCHANGED faults
  PROVE  Smooth'
<1>1. /\ Effect(c) /\ UNCHANGED way /\ call[c] \in Busy
      /\ \A d \in Calls : call'[d].pc # "idle" =>
           /\ call[d].pc # "idle" /\ call'[d].m = call[d].m /\ call'[d].kind = call[d].kind
           /\ call'[d].heard = call[d].heard
      /\ \A d \in Calls \ {c} : call'[d] = call[d]
  BY HandleKeeps DEF Effect, OneMoves
<1>2. \A m \in Msgs : Due(m)' = Due(m) /\ said'[m].phase = said[m].phase /\ said'[m].n = said[m].n
  BY <1>1 DEF Effect, SameTurn, Due, Mode
<1>3. \A d \in Calls : call'[d].pc # "idle" => call'[d].heard
  BY <1>1 DEF Smooth
<1> DEFINE Waits == call[c].pc \in {"save", "lookup", "route", "xadd"} /\ call[c].kind # "check"
           Still == call'[c].pc \in {"save", "lookup", "route", "xadd"} /\ call[c].kind # "check"
<1>4. /\ \A m \in Msgs : said'[m].redo = "no"
      /\ \/ UNCHANGED out /\ (Waits <=> Still)
         \/ Put(c) /\ call[c].pc = "xadd" /\ Waits /\ ~Still
  BY EasyHandles
<1>5. ASSUME NEW m \in Msgs
      PROVE  Coming(m)' = IF call[c].m = m /\ ~Still THEN Coming(m) \ {c}
                          ELSE IF call[c].m = m THEN Coming(m) \cup {c} ELSE Coming(m)
  BY <1>1 DEF Coming
<1>6. ASSUME NEW m \in Msgs PROVE Len(out'[m]) + Cardinality(Coming(m)') = Due(m)
  <2>1. Len(out[m]) + Cardinality(Coming(m)) = Due(m)
    BY DEF Smooth
  <2>2. CASE UNCHANGED out /\ (Waits <=> Still)
    <3>1. Coming(m)' = Coming(m)
      BY <1>5, <2>2 DEF Coming
    <3> QED BY <2>1, <2>2, <3>1
  <2>3. CASE Put(c) /\ call[c].pc = "xadd" /\ Waits /\ ~Still
    <3>1. CASE call[c].m = m
      <4>1. c \in Coming(m) /\ Coming(m)' = Coming(m) \ {c}
        BY <1>5, <2>3, <3>1 DEF Coming
      <4>2. Cardinality(Coming(m) \ {c}) = Cardinality(Coming(m)) - 1
        BY <4>1, ComingSize, FS_RemoveElement
      <4>3. out[m] \in Seq(Item) /\ out'[m] = Append(out[m], Payload(c)) /\ Payload(c) \in Item
        BY <2>3, <3>1, PutAppends DEF TInv, TypeOK
      <4>4. Len(out'[m]) = Len(out[m]) + 1 /\ Len(out[m]) \in Nat
        BY <4>3
      <4>5. Cardinality(Coming(m)) \in Nat
        BY ComingSize
      <4>6. Cardinality(Coming(m)') = Cardinality(Coming(m)) - 1
        BY <4>1, <4>2
      <4> QED BY <2>1, <4>4, <4>5, <4>6
    <3>2. CASE call[c].m # m
      <4>1. Coming(m)' = Coming(m)
        BY <1>5, <3>2
      <4>2. out'[m] = out[m]
        BY <2>3, <3>2, PutAppends DEF TInv, TypeOK
      <4> QED BY <2>1, <4>1, <4>2
    <3> QED BY <3>1, <3>2
  <2> QED BY <1>4, <2>2, <2>3
<1>7. \A m \in Msgs : said[m].phase = "new" => said[m].n = 0
  BY DEF Smooth
<1> QED BY <1>2, <1>3, <1>4, <1>6, <1>7 DEF Smooth

LEMMA SmoothReceive ==
  ASSUME IsFiniteSet(Calls), TInv, Easy, Smooth,
         NEW c \in Calls, NEW m \in Msgs, NEW kind \in Kinds, Receive(c, m, kind)
  PROVE  Smooth'
<1>1. /\ Taken(c, m, kind) /\ MaySend(m, kind) /\ UNCHANGED <<way, out>> /\ call[c] = Idle
  BY ReceiveEffect DEF Receive
<1>2. /\ call'[c].m = m /\ call'[c].heard /\ call'[c].pc \in {"save", "lookup"}
      /\ (call'[c].kind = "check" <=> kind = "check")
      /\ \A d \in Calls \ {c} : call'[d] = call[d]
      /\ said'[m] = Send(said[m], kind) /\ \A n \in Msgs \ {m} : said'[n] = said[n]
  BY <1>1 DEF Taken, Type, TInv, TypeOK
<1>3. \A d \in Calls : call'[d].pc # "idle" => call'[d].heard
  BY <1>2 DEF Smooth
<1>4. said[m] \in Caller /\ said[m].redo = "no" /\ (said[m].phase = "new" => said[m].n = 0)
  BY DEF TInv, TypeOK, Smooth
<1>5. /\ said'[m].redo = "no" /\ (said'[m].phase = "new" => said'[m].n = 0)
      /\ Due(m)' = IF kind = "check" THEN Due(m) ELSE Due(m) + 1
      /\ Due(m) \in Nat
  <2>0. /\ said[m].attempt \in Nat /\ said[m].n \in Nat /\ said[m].extra \in Nat
        /\ said[m].phase \in {"new", "open", "ended"} /\ Mode(m)' = Mode(m)
        /\ (kind = "send" <=> Mode(m) = "http")
    BY <1>1, <1>4 DEF Caller, Mode, MaySend
  <2>d. Due(m) \in Nat
    BY <2>0 DEF Due
  <2>1. CASE kind = "setup"
    <3>1. said[m].phase = "new" /\ said[m].n = 0
      BY <1>1, <1>4, <2>1 DEF MaySend
    <3>2. /\ said'[m].redo = "no" /\ said'[m].phase = "open" /\ said'[m].n = 0
          /\ said'[m].attempt = said[m].attempt + 1 /\ said'[m].extra = said[m].extra
      BY <1>2, <1>4, <2>1 DEF Send, Caller
    <3> QED BY <2>0, <2>1, <2>d, <3>1, <3>2 DEF Due
  <2>2. CASE kind = "send"
    <3>2. /\ said'[m].redo = "no" /\ said'[m].phase = "ended" /\ said'[m].n = said[m].n
          /\ said'[m].attempt = said[m].attempt + 1 /\ said'[m].extra = said[m].extra
      BY <1>2, <1>4, <2>2 DEF Send, Caller
    <3> QED BY <2>0, <2>2, <2>d, <3>2 DEF Due
  <2>3. CASE kind = "completed"
    <3>1. said[m].phase = "open"
      BY <1>1, <1>4, <2>3 DEF MaySend
    <3>2. /\ said'[m].redo = "no" /\ said'[m].phase = "ended" /\ said'[m].n = said[m].n
          /\ said'[m].attempt = said[m].attempt /\ said'[m].extra = said[m].extra
      BY <1>2, <1>4, <2>3 DEF Send, Caller
    <3> QED BY <2>0, <2>3, <2>d, <3>1, <3>2 DEF Due
  <2>4. CASE kind = "delta"
    <3>1. said[m].phase = "open"
      BY <1>1, <2>4 DEF MaySend
    <3>2. /\ said'[m].redo = "no" /\ said'[m].phase = "open" /\ said'[m].n = said[m].n + 1
          /\ said'[m].attempt = said[m].attempt /\ said'[m].extra = said[m].extra
      BY <1>2, <1>4, <2>4, <3>1 DEF Send, Caller
    <3> QED BY <2>0, <2>4, <2>d, <3>1, <3>2 DEF Due
  <2>5. CASE kind \in {"rationale", "control"}
    <3>1. said[m].phase = "open"
      BY <1>1, <2>5 DEF MaySend
    <3>2. /\ said'[m].redo = "no" /\ said'[m].phase = "open" /\ said'[m].n = said[m].n
          /\ said'[m].attempt = said[m].attempt /\ said'[m].extra = said[m].extra + 1
      BY <1>2, <1>4, <2>5, <3>1 DEF Send, Caller
    <3> QED BY <2>0, <2>5, <2>d, <3>1, <3>2 DEF Due
  <2>6. CASE kind = "check"
    <3>1. said'[m] = said[m]
      BY <1>2, <2>6 DEF Send
    <3> QED BY <1>4, <2>0, <2>6, <2>d, <3>1 DEF Due
  <2> QED BY <2>1, <2>2, <2>3, <2>4, <2>5, <2>6 DEF Kinds
<1>6. Coming(m)' = (IF kind = "check" THEN Coming(m) ELSE Coming(m) \cup {c}) /\ c \notin Coming(m)
  BY <1>1, <1>2 DEF Coming, Idle
<1>7. Len(out'[m]) + Cardinality(Coming(m)') = Due(m)'
  <2>1. Len(out[m]) + Cardinality(Coming(m)) = Due(m)
    BY DEF Smooth
  <2>2. Len(out[m]) \in Nat /\ out'[m] = out[m]
    BY <1>1 DEF TInv, TypeOK
  <2>3. CASE kind = "check"
    <3>1. Coming(m)' = Coming(m) /\ Due(m)' = Due(m)
      BY <1>5, <1>6, <2>3
    <3> QED BY <2>1, <2>2, <3>1
  <2>4. CASE kind # "check"
    <3>1. Coming(m)' = Coming(m) \cup {c} /\ Due(m)' = Due(m) + 1
      BY <1>5, <1>6, <2>4
    <3>2. Cardinality(Coming(m) \cup {c}) = Cardinality(Coming(m)) + 1
      BY <1>6, ComingSize, FS_AddElement
    <3>3. Cardinality(Coming(m)') = Cardinality(Coming(m)) + 1 /\ Cardinality(Coming(m)) \in Nat
      BY <3>1, <3>2, ComingSize
    <3> QED BY <2>1, <2>2, <3>1, <3>3
  <2> QED BY <2>3, <2>4
<1>8. ASSUME NEW n \in Msgs, n # m
      PROVE  Len(out'[n]) + Cardinality(Coming(n)') = Due(n)'
  <2>1. Coming(n)' = Coming(n)
    BY <1>1, <1>2, <1>8 DEF Coming, Idle
  <2>2. Due(n)' = Due(n)
    BY <1>1, <1>2, <1>8 DEF Due, Mode
  <2>3. Len(out[n]) + Cardinality(Coming(n)) = Due(n)
    BY DEF Smooth
  <2> QED BY <1>1, <2>1, <2>2, <2>3
<1>9. \A n \in Msgs : said'[n].redo = "no" /\ (said'[n].phase = "new" => said'[n].n = 0)
  BY <1>2, <1>5 DEF Smooth
<1> QED BY <1>3, <1>7, <1>8, <1>9 DEF Smooth

LEMMA EInvStep ==
  ASSUME IsFiniteSet(Calls), TInv, Stores, EInv, [Next]_vars PROVE EInv'
<1>0. moves \in Nat /\ faults \in Nat /\ MaxFaults \in Nat
  BY InboundAssumption DEF TInv, TypeOK
<1>1. CASE UNCHANGED vars
  BY <1>1 DEF vars, EInv, Easy, Smooth, Coming, Due, Mode
<1>2. ASSUME NEW c \in Calls, Handle(c), Easy' PROVE Smooth'
  <2>1. UNCHANGED <<online, moves>>
    BY <1>2, HandleEffect DEF Effect
  <2>2. Works \/ Fails
    BY <1>2 DEF Handle, SaveIncoming, LookupClient, RouteToClient, AppendEntry, StoreCompleted
  <2>3. UNCHANGED faults
    BY <1>0, <1>2, <2>2 DEF Works, Fails, Easy
  <2>4. Easy
    BY <1>2, <2>1, <2>3 DEF Easy
  <2> QED BY <1>2, <2>3, <2>4, SmoothHandle DEF Stores, EInv
<1>3. ASSUME NEW c \in Calls, NEW m \in Msgs, NEW kind \in Kinds, Receive(c, m, kind), Easy'
      PROVE  Smooth'
  <2>1. Easy
    BY <1>3 DEF Receive, Easy
  <2> QED BY <1>3, <2>1, SmoothReceive DEF EInv
<1>4. ASSUME NEW m \in Msgs, Break(m) PROVE ~Easy'
  BY <1>0, <1>4 DEF Break, Fails, Easy
<1>5. CASE Move
  BY <1>0, <1>5 DEF Move, EInv, Easy
<1> QED BY <1>1, <1>2, <1>3, <1>4, <1>5 DEF Next, EInv

\* While the client stays connected and no call fails, all that a caller sent is
\* appended for it once its calls have returned, and no more, in every mode, for
\* any number of messages and any finite number of calls.
THEOREM SkipSafe ==
  ASSUME IsFiniteSet(Calls)
  PROVE  Spec => []NothingSkipped
<1>1. ASSUME Init PROVE EInv
  <2>1. /\ \A c \in Calls : call[c].pc = "idle"
        /\ \A m \in Msgs : said[m] = Fresh /\ out[m] = <<>>
    BY <1>1 DEF Init, Idle
  <2>2. \A m \in Msgs : Coming(m) = {} /\ Due(m) = 0 /\ Len(out[m]) = 0
    BY <2>1 DEF Coming, Due, Fresh
  <2>3. Cardinality({}) = 0
    BY FS_EmptySet
  <2>4. \A m \in Msgs : said[m].redo = "no" /\ said[m].n = 0
    BY <2>1 DEF Fresh
  <2>5. \A m \in Msgs : Len(out[m]) + Cardinality(Coming(m)) = Due(m)
    BY <2>2, <2>3
  <2> QED BY <2>1, <2>4, <2>5 DEF EInv, Smooth
<1>2. ASSUME EInv PROVE NothingSkipped
  <2> SUFFICES ASSUME NEW m \in Msgs, Easy, Active(m) = {}
               PROVE  Len(out[m]) = Due(m)
    BY DEF NothingSkipped, Easy, Due
  <2>1. Coming(m) = {}
    BY DEF Coming, Active
  <2>2. Len(out[m]) + Cardinality({}) = Due(m)
    BY <1>2, <2>1 DEF EInv, Smooth
  <2>3. Cardinality({}) = 0
    BY FS_EmptySet
  <2>4. Len(out[m]) + 0 = Due(m)
    BY <2>2, <2>3
  <2> QED BY <2>4
<1> QED BY <1>1, <1>2, EInvStep, TInvHolds, StoresHolds, PTL DEF Spec

=============================================================================
