--------------------------- MODULE SessionProofs ---------------------------
(***************************************************************************)
(* TLAPS proofs about Session, for every number of pods, clients and       *)
(* connections, every bound and every choice of the environment switches   *)
(* a theorem does not name.                                                *)
(***************************************************************************)
EXTENDS Session, SequenceTheorems, TLAPS

\* What a reader knows about the frame it is handling.
Busy ==
  \A c \in Conns :
    /\ pc[c] \in Handling => job[c] # NoJob
    /\ pc[c] \in {"alive", "hdel", "zrem", "add", "pool", "trigger"}
         => job[c].kind = "register"
    /\ pc[c] \in {"alive", "evict", "xadd"} => job[c].own # NoRow

\* While the id of a connection is being set, it is either unset or the same.
OneId ==
  \A c \in Conns :
    /\ pc[c] \in Handling /\ job[c].kind = "register"
         => cid[c] \in {NoClient, job[c].id}
    /\ pc[c] \in {"pool", "trigger"} => cid[c] = job[c].id

TInv == TypeOK /\ Busy
----------------------------------------------------------------------------
LEMMA InitTInv == Init => TInv
BY PodsAssumption
   DEF Init, TInv, TypeOK, past, Busy, NoJob, NoWork, NoRow, Row, Job, Work, ConnPC,
       Handling

LEMMA RowParts ==
  ASSUME NEW r \in Row
  PROVE  /\ r.pod \in Pods \cup {NoPod} /\ r.conn \in Conns \cup {NoConn}
         /\ r.token \in Tokens \cup {NoToken}
         /\ r # NoRow => r.pod \in Pods /\ r.conn \in Conns
         /\ r.pod = NoPod <=> r = NoRow
         /\ r.conn = NoConn <=> r = NoRow
BY PodsAssumption DEF Row, NoRow

LEMMA JobParts ==
  ASSUME TypeOK, NEW c \in Conns, job[c] # NoJob
  PROVE  /\ job[c].id \in Clients /\ job[c].token \in Tokens \cup {NoToken}
         /\ job[c].own \in Row /\ job[c].kind \in {"register", "close"}
BY DEF TypeOK, Job

LEMMA WorkParts ==
  ASSUME TypeOK, NEW p \in Pods, wk[p].pc # "idle"
  PROVE  /\ wk[p] \in Held
         /\ wk[p].src \in Pods /\ wk[p].to \in Clients
         /\ wk[p].target \in Conns /\ wk[p].conn \in Conns \cup {NoConn}
BY DEF TypeOK, Work, NoWork, Held

LEMMA GotoType ==
  ASSUME TypeOK, NEW c \in Conns, NEW where \in ConnPC, Goto(c, where)
  PROVE  pc' \in [Conns -> ConnPC]
BY DEF TypeOK, Goto

LEMMA ReturnType ==
  ASSUME TypeOK, NEW c \in Conns, Return(c)
  PROVE  /\ pc' \in [Conns -> ConnPC] /\ job' \in [Conns -> Job]
BY DEF TypeOK, Return, Goto, ConnPC, Job

LEMMA RedisType ==
  ASSUME TypeOK, RedisWorks \/ RedisFails
  PROVE  faults' \in 0..MaxFaults
BY PodsAssumption DEF TypeOK, RedisWorks, RedisFails

LEMMA StepType ==
  ASSUME TypeOK, NEW p \in Pods, wk[p].pc # "idle",
         NEW where \in {"find", "deliver", "race", "close", "relook",
                        "lookup", "source", "repub", "xadd", "ack"},
         Step(p, where)
  PROVE  wk' \in [Pods -> Work]
<1>1. [wk[p] EXCEPT !.pc = where] \in Held
  BY WorkParts DEF Held
<1>2. QED
  BY <1>1 DEF TypeOK, Step, Work

LEMMA PutType ==
  ASSUME TypeOK, NEW p \in Pods, NEW q \in Pods \cup {NoPod},
         wk[p].pc # "idle"
  PROVE  Put(q, p) \in [Pods -> Seq(Entry)]
<1>1. [to |-> wk[p].to, target |-> wk[p].target] \in Entry
  BY WorkParts DEF Entry
<1>2. ASSUME q \in Pods
      PROVE  Append(inbox[q], [to |-> wk[p].to, target |-> wk[p].target])
               \in Seq(Entry)
  BY <1>1, <1>2, AppendProperties DEF TypeOK
<1>3. QED
  BY <1>2 DEF TypeOK, Put

LEMMA KeepPendingType ==
  ASSUME TypeOK, NEW p \in Pods, wk[p].pc # "idle", KeepPending(p)
  PROVE  inbox' \in [Pods -> Seq(Entry)] /\ wk' \in [Pods -> Work]
BY PutType, WorkParts DEF TypeOK, KeepPending, Work

LEMMA ConnectStep ==
  ASSUME TInv, NEW c \in Conns, Connect(c)
  PROVE  TInv'
<1>1. TypeOK'
  BY DEF TInv, TypeOK, past, Connect, Goto, redis, ConnPC
<1>2. Busy'
  BY DEF TInv, TypeOK, past, Busy, Connect, Goto, Handling
<1>3. QED
  BY <1>1, <1>2 DEF TInv

LEMMA DisconnectStep ==
  ASSUME TInv, NEW c \in Conns, Disconnect(c)
  PROVE  TInv'
<1>1. TypeOK'
  BY DEF TInv, TypeOK, past, Disconnect, redis, conn
<1>2. Busy'
  BY DEF TInv, Busy, Disconnect, conn
<1>3. QED
  BY <1>1, <1>2 DEF TInv

LEMMA OtherFrameStep ==
  ASSUME TInv, NEW c \in Conns, OtherFrame(c)
  PROVE  TInv'
<1>1. TypeOK'
  BY DEF TInv, TypeOK, past, OtherFrame, Goto, redis, local, ConnPC
<1>2. Busy'
  BY DEF TInv, TypeOK, past, Busy, OtherFrame, Goto, Handling
<1>3. QED
  BY <1>1, <1>2 DEF TInv

LEMMA FrameStep ==
  ASSUME TInv, NEW c \in Conns, NEW kind \in {"register", "close"},
         NEW id \in Clients, NEW token \in Tokens \cup {NoToken},
         Frame(c, kind, id, token)
  PROVE  TInv'
<1>1. [kind |-> kind, id |-> id, token |-> token, own |-> NoRow,
       dst |-> NoPod] \in Job
  BY DEF Job, Row
<1>2. TypeOK'
  BY <1>1, PodsAssumption
     DEF TInv, TypeOK, past, Frame, Goto, redis, local, ConnPC, Handling
<1>3. Busy'
  BY PodsAssumption
     DEF TInv, TypeOK, past, Busy, Frame, Goto, NoJob, ConnPC, Handling
<1>4. QED
  BY <1>2, <1>3 DEF TInv

LEMMA CheckOwnerAliveStep ==
  ASSUME TInv, NEW c \in Conns, CheckOwnerAlive(c)
  PROVE  TInv'
<1>1. TypeOK'
  BY GotoType, ReturnType, RedisType
     DEF TInv, TypeOK, past, CheckOwnerAlive, redis, local, ConnPC, Handling
<1>2. Busy'
  BY PodsAssumption
     DEF TInv, TypeOK, past, Busy, CheckOwnerAlive, Goto, Return, RedisWorks, RedisFails, TokenRefused, redis, local, conn, ConnPC, Handling,
         Job, NoJob, Row, NoRow
<1>3. QED
  BY <1>1, <1>2 DEF TInv

LEMMA RemoveDeadRowStep ==
  ASSUME TInv, NEW c \in Conns, RemoveDeadRow(c)
  PROVE  TInv'
<1>1. TypeOK'
  BY PodsAssumption, RowParts
     DEF TInv, TypeOK, past, Busy, RemoveDeadRow, Goto, RedisWorks, redis, local, conn, ConnPC, Handling,
         Job, NoJob, Work, NoWork, Entry, Row, NoRow
<1>2. Busy'
  BY PodsAssumption
     DEF TInv, TypeOK, past, Busy, RemoveDeadRow, Goto, RedisWorks, redis, local, conn, ConnPC, Handling,
         Job, NoJob, Row, NoRow
<1>3. QED
  BY <1>1, <1>2 DEF TInv

LEMMA ForgetDeadSeenStep ==
  ASSUME TInv, NEW c \in Conns, ForgetDeadSeen(c)
  PROVE  TInv'
<1>1. TypeOK'
  BY PodsAssumption, RowParts
     DEF TInv, TypeOK, past, Busy, ForgetDeadSeen, Goto, Return, RedisWorks, redis, local, conn, ConnPC, Handling,
         Job, NoJob, Work, NoWork, Entry, Row, NoRow
<1>2. Busy'
  BY PodsAssumption
     DEF TInv, TypeOK, past, Busy, ForgetDeadSeen, Goto, Return, RedisWorks, redis, local, conn, ConnPC, Handling,
         Job, NoJob, Row, NoRow
<1>3. QED
  BY <1>1, <1>2 DEF TInv

LEMMA EvictLocalStep ==
  ASSUME TInv, NEW c \in Conns, EvictLocal(c)
  PROVE  TInv'
<1>1. TypeOK'
  <2>1. /\ job[c].id \in Clients
    BY JobParts DEF TInv, Busy, EvictLocal, Handling
  <2>2. pool[PodOf[c]][job[c].id] \in Conns \cup {NoConn}
    BY <2>1, PodsAssumption DEF TInv, TypeOK, past
  <2>3. /\ pool' \in [Pods -> [Clients -> Conns \cup {NoConn}]]
        /\ gauge' \in [Pods -> Int]
        /\ sock' \in [Conns -> {"none", "open", "shut"}]
    <3> DEFINE found == pool[PodOf[c]][job[c].id]
    <3>1. CASE found = NoConn
      BY <3>1 DEF TInv, TypeOK, past, EvictLocal, local
    <3>2. CASE found # NoConn
      <4>1. /\ pool' = [pool EXCEPT ![PodOf[c]][job[c].id] = NoConn]
            /\ sock' = [sock EXCEPT ![found] = "shut"]
            /\ gauge' = [gauge EXCEPT ![PodOf[c]] = @ - 1]
        BY <3>2 DEF EvictLocal
      <4>2. found \in Conns /\ PodOf[c] \in Pods
        BY <2>2, <3>2, PodsAssumption
      <4>3. QED
        BY <2>1, <4>1, <4>2 DEF TInv, TypeOK, past
    <3>3. QED
      BY <3>1, <3>2
  <2>4. pc' \in [Conns -> ConnPC]
    BY GotoType DEF TInv, EvictLocal, AfterEvict, ConnPC, Handling
  <2>5. QED
    BY <2>3, <2>4 DEF TInv, TypeOK, past, EvictLocal, redis
<1>2. Busy'
  BY PodsAssumption
     DEF TInv, TypeOK, past, Busy, EvictLocal, Goto, AfterEvict, redis, local, conn, ConnPC, Handling,
         Job, NoJob, Row, NoRow
<1>3. QED
  BY <1>1, <1>2 DEF TInv

LEMMA EvictLookupStep ==
  ASSUME TInv, NEW c \in Conns, EvictLookup(c)
  PROVE  TInv'
<1>1. TypeOK'
  <2>1. /\ job[c].id \in Clients /\ job[c] # NoJob /\ job[c] \in Job
    BY JobParts DEF TInv, TypeOK, past, Busy, EvictLookup, Handling
  <2>2. ASSUME NEW dst \in Pods
        PROVE  [job[c] EXCEPT !.dst = dst] \in Job
    BY <2>1 DEF Job
  <2>3. row[job[c].id].pod \in Pods \cup {NoPod}
    BY <2>1, RowParts DEF TInv, TypeOK, past
  <2>4. job' \in [Conns -> Job]
    BY <2>2, <2>3 DEF TInv, TypeOK, past, EvictLookup
  <2>5. pc' \in [Conns -> ConnPC]
    BY GotoType DEF TInv, EvictLookup, AfterEvict, ConnPC, Handling
  <2>6. QED
    BY <2>4, <2>5, RedisType DEF TInv, TypeOK, past, EvictLookup, redis, local
<1>2. Busy'
  <2>1. /\ job[c] # NoJob /\ job[c].own # NoRow
        /\ job[c].kind \in {"register", "close"} /\ job[c] \in Job
    BY JobParts DEF TInv, TypeOK, past, Busy, EvictLookup, Handling
  <2>2. /\ job'[c].kind = job[c].kind /\ job'[c].own = job[c].own
        /\ job'[c] # NoJob
    BY <2>1 DEF TInv, TypeOK, past, EvictLookup, Job, NoJob
  <2>3. /\ pc'[c] \in {"add", "remove", "xadd"}
        /\ pc'[c] = "add" => job[c].kind = "register"
    BY DEF TInv, TypeOK, past, EvictLookup, Goto, AfterEvict
  <2>4. \A d \in Conns \ {c} : pc'[d] = pc[d] /\ job'[d] = job[d]
    BY DEF TInv, TypeOK, past, EvictLookup, Goto
  <2>5. QED
    BY <2>1, <2>2, <2>3, <2>4 DEF TInv, Busy, Handling
<1>3. QED
  BY <1>1, <1>2 DEF TInv

LEMMA EvictPublishStep ==
  ASSUME TInv, NEW c \in Conns, EvictPublish(c)
  PROVE  TInv'
<1>1. TypeOK'
  <2>1. /\ job[c].id \in Clients /\ job[c].own \in Row /\ job[c].own # NoRow
    BY JobParts DEF TInv, Busy, EvictPublish, Handling
  <2>2. [to |-> job[c].id, target |-> job[c].own.conn] \in Entry
    BY <2>1, RowParts DEF Entry
  <2>3. inbox' \in [Pods -> Seq(Entry)]
    BY <2>2, AppendProperties DEF TInv, TypeOK, past, EvictPublish
  <2>4. QED
    BY <2>3, GotoType, RedisType
       DEF TInv, TypeOK, past, EvictPublish, AfterEvict, local, ConnPC, Handling
<1>2. Busy'
  BY PodsAssumption
     DEF TInv, TypeOK, past, Busy, EvictPublish, Goto, AfterEvict, RedisWorks, redis, local, conn, ConnPC, Handling,
         Job, NoJob, Row, NoRow
<1>3. QED
  BY <1>1, <1>2 DEF TInv

LEMMA SetupFailsStep ==
  ASSUME TInv, NEW c \in Conns, SetupFails(c)
  PROVE  TInv'
<1>1. job[c].id \in Clients
  BY JobParts DEF TInv, Busy, SetupFails, Handling
<1>2. TypeOK'
  BY <1>1, ReturnType DEF TInv, TypeOK, SetupFails, redis, local
<1>3. Busy'
  BY DEF TInv, TypeOK, Busy, SetupFails, Goto, Return, ConnPC, Handling
<1>4. QED
  BY <1>2, <1>3 DEF TInv

LEMMA AddConnectedClientStep ==
  ASSUME TInv, NEW c \in Conns, AddConnectedClient(c)
  PROVE  TInv'
<1>1. TypeOK'
  BY PodsAssumption, RowParts, ZenonT(40)
     DEF TInv, TypeOK, past, Busy, AddConnectedClient, Goto, RedisWorks, redis, local, conn, ConnPC, Handling,
         Job, NoJob, Work, NoWork, Entry, Row, NoRow
<1>2. Busy'
  BY PodsAssumption
     DEF TInv, TypeOK, past, Busy, AddConnectedClient, Goto, RedisWorks, redis, local, conn, ConnPC, Handling,
         Job, NoJob, Row, NoRow
<1>3. QED
  BY <1>1, <1>2 DEF TInv

LEMMA PoolRegisterStep ==
  ASSUME TInv, NEW c \in Conns, PoolRegister(c)
  PROVE  TInv'
<1>1. TypeOK'
  BY PodsAssumption, RowParts
     DEF TInv, TypeOK, past, Busy, PoolRegister, Goto, redis, local, conn, ConnPC, Handling,
         Job, NoJob, Work, NoWork, Entry, Row, NoRow
<1>2. Busy'
  BY PodsAssumption
     DEF TInv, TypeOK, past, Busy, PoolRegister, Goto, redis, local, conn, ConnPC, Handling,
         Job, NoJob, Row, NoRow
<1>3. QED
  BY <1>1, <1>2 DEF TInv

LEMMA FinishRegisterStep ==
  ASSUME TInv, NEW c \in Conns, FinishRegister(c)
  PROVE  TInv'
<1>1. TypeOK'
  BY ReturnType
     DEF TInv, TypeOK, past, FinishRegister, redis
<1>2. Busy'
  BY PodsAssumption
     DEF TInv, TypeOK, past, Busy, FinishRegister, Goto, Return, redis, local, conn, ConnPC, Handling,
         Job, NoJob, Row, NoRow
<1>3. QED
  BY <1>1, <1>2 DEF TInv

LEMMA CloseRemoveStep ==
  ASSUME TInv, NEW c \in Conns, CloseRemove(c)
  PROVE  TInv'
<1>1. TypeOK'
  BY PodsAssumption, RowParts
     DEF TInv, TypeOK, past, Busy, CloseRemove, Goto, Return, RedisWorks, RemoveConnectedClientIf, RowIf, SeenIf, redis, local, conn, ConnPC, Handling,
         Job, NoJob, Work, NoWork, Entry, Row, NoRow
<1>2. Busy'
  BY PodsAssumption
     DEF TInv, TypeOK, past, Busy, CloseRemove, Goto, Return, RedisWorks, RemoveConnectedClientIf, RowIf, SeenIf, redis, local, conn, ConnPC, Handling,
         Job, NoJob, Row, NoRow
<1>3. QED
  BY <1>1, <1>2 DEF TInv

LEMMA HandlerFailsStep ==
  ASSUME TInv, NEW c \in Conns, HandlerFails(c)
  PROVE  TInv'
<1>1. TypeOK'
  BY ReturnType, RedisType, JobParts
     DEF TInv, TypeOK, past, Busy, HandlerFails, redis, local, Handling
<1>2. Busy'
  BY PodsAssumption
     DEF TInv, TypeOK, past, Busy, HandlerFails, Goto, Return, RedisFails, redis, local, conn, ConnPC, Handling,
         Job, NoJob, Row, NoRow
<1>3. QED
  BY <1>1, <1>2 DEF TInv

LEMMA TouchStep ==
  ASSUME TInv, NEW c \in Conns, Touch(c)
  PROVE  TInv'
<1>1. TypeOK'
  BY GotoType, RedisType
     DEF TInv, TypeOK, past, Touch, local, ConnPC
<1>2. Busy'
  BY PodsAssumption
     DEF TInv, TypeOK, past, Busy, Touch, Goto, RedisWorks, RedisFails, redis, local, conn, ConnPC, Handling,
         Job, NoJob, Row, NoRow
<1>3. QED
  BY <1>1, <1>2 DEF TInv

LEMMA ReadEndStep ==
  ASSUME TInv, NEW c \in Conns, ReadEnd(c)
  PROVE  TInv'
<1>1. TypeOK'
  BY PodsAssumption, RowParts
     DEF TInv, TypeOK, past, Busy, ReadEnd, Goto, InPool, redis, local, conn, ConnPC, Handling,
         Job, NoJob, Work, NoWork, Entry, Row, NoRow
<1>2. Busy'
  BY PodsAssumption
     DEF TInv, TypeOK, past, Busy, ReadEnd, Goto, InPool, redis, local, conn, ConnPC, Handling,
         Job, NoJob, Row, NoRow
<1>3. QED
  BY <1>1, <1>2 DEF TInv

LEMMA RemoveOwnRowStep ==
  ASSUME TInv, NEW c \in Conns, RemoveOwnRow(c)
  PROVE  TInv'
<1>1. TypeOK'
  <2>1. row' \in [Clients -> Row] /\ seen' \in [Clients -> {"none", "fresh", "old"}]
    BY DEF TInv, TypeOK, past, RemoveOwnRow, RemoveConnectedClientIf, RowIf, SeenIf, Row
  <2>2. gauge' \in [Pods -> Int]
    BY PodsAssumption DEF TInv, TypeOK, past, RemoveOwnRow
  <2>3. QED
    BY <2>1, <2>2, GotoType, RedisType DEF TInv, TypeOK, past, RemoveOwnRow, ConnPC
<1>2. Busy'
  BY PodsAssumption
     DEF TInv, TypeOK, past, Busy, RemoveOwnRow, Goto, RedisWorks, RedisFails, RemoveConnectedClientIf, RowIf, SeenIf, redis, local, conn, ConnPC, Handling,
         Job, NoJob, Row, NoRow
<1>3. QED
  BY <1>1, <1>2 DEF TInv

LEMMA StopStep ==
  ASSUME TInv, NEW p \in Pods, Stop(p)
  PROVE  TInv'
<1>1. TypeOK'
  BY PodsAssumption, RowParts
     DEF TInv, TypeOK, past, Busy, Stop, redis, local, conn, ConnPC, Handling,
         Job, NoJob, Work, NoWork, Entry, Row, NoRow
<1>2. Busy'
  BY PodsAssumption
     DEF TInv, TypeOK, past, Busy, Stop, redis, local, conn, ConnPC, Handling,
         Job, NoJob, Row, NoRow
<1>3. QED
  BY <1>1, <1>2 DEF TInv

LEMMA DieStep ==
  ASSUME TInv, NEW p \in Pods, Die(p)
  PROVE  TInv'
<1>1. TypeOK'
  <2>1. inbox' \in [Pods -> Seq(Entry)]
    BY PutType, WorkParts DEF TInv, TypeOK, past, Die
  <2>2. /\ wk' \in [Pods -> Work] /\ job' \in [Conns -> Job]
        /\ up' \in [Pods -> {"up", "stopping", "dead"}]
    BY DEF TInv, TypeOK, past, Die, Work, Job
  <2>3. /\ pool' \in [Pods -> [Clients -> Conns \cup {NoConn}]]
        /\ gauge' \in [Pods -> Int] /\ faults' \in 0..MaxFaults
    BY PodsAssumption DEF TInv, TypeOK, past, Die
  <2>4. /\ sock' \in [Conns -> {"none", "open", "shut"}]
        /\ pc' \in [Conns -> ConnPC]
    BY DEF TInv, TypeOK, past, Die, ConnPC
  <2>5. QED
    BY <2>1, <2>2, <2>3, <2>4 DEF TInv, TypeOK, past, Die
<1>2. Busy'
  BY PodsAssumption
     DEF TInv, TypeOK, past, Busy, Die, Put, redis, local, conn, ConnPC, Handling,
         Job, NoJob, Row, NoRow
<1>3. QED
  BY <1>1, <1>2 DEF TInv

LEMMA RestartStep ==
  ASSUME TInv, NEW p \in Pods, Restart(p)
  PROVE  TInv'
<1>1. TypeOK'
  BY PodsAssumption, RowParts
     DEF TInv, TypeOK, past, Busy, Restart, redis, local, conn, ConnPC, Handling,
         Job, NoJob, Work, NoWork, Entry, Row, NoRow
<1>2. Busy'
  BY PodsAssumption
     DEF TInv, TypeOK, past, Busy, Restart, redis, local, conn, ConnPC, Handling,
         Job, NoJob, Row, NoRow
<1>3. QED
  BY <1>1, <1>2 DEF TInv

LEMMA HeartbeatExpiresStep ==
  ASSUME TInv, NEW p \in Pods, HeartbeatExpires(p)
  PROVE  TInv'
<1>1. TypeOK'
  BY PodsAssumption, RowParts
     DEF TInv, TypeOK, past, Busy, HeartbeatExpires, redis, local, conn, ConnPC, Handling,
         Job, NoJob, Work, NoWork, Entry, Row, NoRow
<1>2. Busy'
  BY PodsAssumption
     DEF TInv, TypeOK, past, Busy, HeartbeatExpires, redis, local, conn, ConnPC, Handling,
         Job, NoJob, Row, NoRow
<1>3. QED
  BY <1>1, <1>2 DEF TInv

LEMMA HeartbeatStep ==
  ASSUME TInv, NEW p \in Pods, Heartbeat(p)
  PROVE  TInv'
<1>1. TypeOK'
  BY PodsAssumption, RowParts
     DEF TInv, TypeOK, past, Busy, Heartbeat, redis, local, conn, ConnPC, Handling,
         Job, NoJob, Work, NoWork, Entry, Row, NoRow
<1>2. Busy'
  BY PodsAssumption
     DEF TInv, TypeOK, past, Busy, Heartbeat, redis, local, conn, ConnPC, Handling,
         Job, NoJob, Row, NoRow
<1>3. QED
  BY <1>1, <1>2 DEF TInv

LEMMA IsLocalStep ==
  ASSUME TInv, NEW p \in Pods, IsLocal(p)
  PROVE  TInv'
<1>1. TypeOK'
  BY StepType
     DEF TInv, TypeOK, past, IsLocal, redis, local, conn
<1>2. Busy'
  BY PodsAssumption
     DEF TInv, TypeOK, past, Busy, IsLocal, Step, redis, local, conn, ConnPC, Handling,
         Job, NoJob, Row, NoRow
<1>3. QED
  BY <1>1, <1>2 DEF TInv

LEMMA DeliverStep ==
  ASSUME TInv, NEW p \in Pods, Deliver(p)
  PROVE  TInv'
<1>1. TypeOK'
  <2>1. ASSUME NEW found \in Conns
        PROVE  [[wk[p] EXCEPT !.pc = "close"] EXCEPT !.conn = found] \in Work
    BY WorkParts DEF TInv, Deliver, Held, Work
  <2>2. pool[p][wk[p].to] \in Conns \cup {NoConn}
    BY WorkParts DEF TInv, TypeOK, past, Deliver
  <2>3. wk' \in [Pods -> Work]
    BY <2>1, <2>2, StepType DEF TInv, TypeOK, past, Deliver
  <2>4. QED
    BY <2>3 DEF TInv, TypeOK, past, Deliver, redis, local, conn
<1>2. Busy'
  BY PodsAssumption
     DEF TInv, TypeOK, past, Busy, Deliver, Step, redis, local, conn, ConnPC, Handling,
         Job, NoJob, Row, NoRow
<1>3. QED
  BY <1>1, <1>2 DEF TInv

LEMMA ForceCloseStep ==
  ASSUME TInv, NEW p \in Pods, ForceClose(p)
  PROVE  TInv'
<1>1. TypeOK'
  BY StepType, WorkParts
     DEF TInv, TypeOK, past, ForceClose, redis, conn
<1>2. Busy'
  BY PodsAssumption
     DEF TInv, TypeOK, past, Busy, ForceClose, Step, redis, local, conn, ConnPC, Handling,
         Job, NoJob, Row, NoRow
<1>3. QED
  BY <1>1, <1>2 DEF TInv

LEMMA RelookStep ==
  ASSUME TInv, NEW p \in Pods, Relook(p)
  PROVE  TInv'
<1>1. TypeOK'
  BY StepType, RedisType
     DEF TInv, TypeOK, past, Relook, redis, local, conn
<1>2. Busy'
  BY PodsAssumption
     DEF TInv, TypeOK, past, Busy, Relook, Step, RedisWorks, RedisFails, redis, local, conn, ConnPC, Handling,
         Job, NoJob, Row, NoRow
<1>3. QED
  BY <1>1, <1>2 DEF TInv

LEMMA LookupStep ==
  ASSUME TInv, NEW p \in Pods, Lookup(p)
  PROVE  TInv'
<1>1. TypeOK'
  BY StepType, RedisType
     DEF TInv, TypeOK, past, Lookup, redis, local, conn
<1>2. Busy'
  BY PodsAssumption
     DEF TInv, TypeOK, past, Busy, Lookup, Step, RedisWorks, redis, local, conn, ConnPC, Handling,
         Job, NoJob, Row, NoRow
<1>3. QED
  BY <1>1, <1>2 DEF TInv

LEMMA LookupMissStep ==
  ASSUME TInv, NEW p \in Pods, LookupMiss(p)
  PROVE  TInv'
<1>1. TypeOK'
  BY StepType, RedisType, KeepPendingType
     DEF TInv, TypeOK, past, LookupMiss, local, conn
<1>2. Busy'
  BY PodsAssumption
     DEF TInv, TypeOK, past, Busy, LookupMiss, Step, RedisWorks, RedisFails, KeepPending, Put, redis, local, conn, ConnPC, Handling,
         Job, NoJob, Row, NoRow
<1>3. QED
  BY <1>1, <1>2 DEF TInv

LEMMA SourceAliveStep ==
  ASSUME TInv, NEW p \in Pods, SourceAlive(p)
  PROVE  TInv'
<1>1. TypeOK'
  <2>1. [[wk[p] EXCEPT !.pc = "xadd"] EXCEPT !.dst = p] \in Work
    BY WorkParts DEF TInv, SourceAlive, Held, Work
  <2>2. wk' \in [Pods -> Work]
    BY <2>1, StepType DEF TInv, TypeOK, past, SourceAlive
  <2>3. QED
    BY <2>2, RedisType DEF TInv, TypeOK, past, SourceAlive, redis, local, conn
<1>2. Busy'
  BY PodsAssumption
     DEF TInv, TypeOK, past, Busy, SourceAlive, Step, RedisWorks, RedisFails, redis, local, conn, ConnPC, Handling,
         Job, NoJob, Row, NoRow
<1>3. QED
  BY <1>1, <1>2 DEF TInv

LEMMA RepublishStep ==
  ASSUME TInv, NEW p \in Pods, Republish(p)
  PROVE  TInv'
<1>1. TypeOK'
  <2>1. ASSUME NEW dst \in Pods
        PROVE  [[wk[p] EXCEPT !.pc = "xadd"] EXCEPT !.dst = dst] \in Work
    BY WorkParts DEF TInv, Republish, Held, Work
  <2>2. row[wk[p].to] \in Row
    BY WorkParts DEF TInv, TypeOK, past, Republish
  <2>3. row[wk[p].to].pod \in Pods \cup {NoPod}
    BY <2>2, RowParts
  <2>4. CASE Step(p, "ack")
    <3>1. wk' \in [Pods -> Work]
      BY <2>4, StepType DEF TInv, Republish
    <3>2. QED
      BY <3>1, RedisType DEF TInv, TypeOK, past, Republish, redis, local, conn
  <2>5. CASE ~Step(p, "ack")
    <3>1. wk' \in [Pods -> Work]
      BY <2>1, <2>3, <2>5, ZenonT(40) DEF TInv, TypeOK, past, Republish
    <3>2. QED
      BY <3>1, RedisType DEF TInv, TypeOK, past, Republish, redis, local, conn
  <2>6. QED
    BY <2>4, <2>5
<1>2. Busy'
  BY PodsAssumption
     DEF TInv, TypeOK, past, Busy, Republish, Step, RedisWorks, RedisFails, redis, local, conn, ConnPC, Handling,
         Job, NoJob, Row, NoRow
<1>3. QED
  BY <1>1, <1>2 DEF TInv

LEMMA RouterAddStep ==
  ASSUME TInv, NEW p \in Pods, RouterAdd(p)
  PROVE  TInv'
<1>1. TypeOK'
  <2>1. wk' \in [Pods -> Work]
    BY StepType DEF TInv, RouterAdd
  <2>2. inbox' \in [Pods -> Seq(Entry)]
    <3>1. wk[p].dst \in Pods \cup {NoPod}
      BY WorkParts DEF TInv, RouterAdd, Held
    <3>2. inbox' = Put(wk[p].dst, p) \/ inbox' = inbox
      BY DEF RouterAdd
    <3>3. TypeOK /\ wk[p].pc # "idle"
      BY DEF TInv, RouterAdd
    <3>4. Put(wk[p].dst, p) \in [Pods -> Seq(Entry)]
      BY <3>1, <3>3, PutType
    <3>5. inbox \in [Pods -> Seq(Entry)]
      BY <3>3 DEF TypeOK
    <3>6. QED
      BY <3>2, <3>4, <3>5
  <2>3. QED
    BY <2>1, <2>2, RedisType DEF TInv, TypeOK, past, RouterAdd, local, conn
<1>2. Busy'
  BY PodsAssumption
     DEF TInv, TypeOK, past, Busy, RouterAdd, Step, RedisWorks, RedisFails, Put, redis, local, conn, ConnPC, Handling,
         Job, NoJob, Row, NoRow
<1>3. QED
  BY <1>1, <1>2 DEF TInv

LEMMA AckStep ==
  ASSUME TInv, NEW p \in Pods, Ack(p)
  PROVE  TInv'
<1>1. TypeOK'
  BY RedisType, KeepPendingType
     DEF TInv, TypeOK, past, Ack, local, conn, Work
<1>2. Busy'
  BY PodsAssumption
     DEF TInv, TypeOK, past, Busy, Ack, Step, RedisWorks, RedisFails, KeepPending, Put, redis, local, conn, ConnPC, Handling,
         Job, NoJob, Row, NoRow
<1>3. QED
  BY <1>1, <1>2 DEF TInv

LEMMA GetConnectedClientStep ==
  ASSUME TInv, NEW c \in Conns, GetConnectedClient(c)
  PROVE  TInv'
<1> DEFINE own == row[job[c].id]
<1>1. /\ job[c] # NoJob /\ job[c] \in Job /\ job[c].id \in Clients
      /\ job[c].kind \in {"register", "close"} /\ own \in Row
  BY JobParts DEF TInv, TypeOK, past, Busy, GetConnectedClient, Handling
<1>2. /\ [job[c] EXCEPT !.own = own] \in Job
      /\ [job[c] EXCEPT !.own = own].own = own
      /\ [job[c] EXCEPT !.own = own].kind = job[c].kind
      /\ [job[c] EXCEPT !.own = own] # NoJob
  BY <1>1 DEF Job, NoJob
<1>3. CASE Return(c)
  <2>1. TypeOK'
    BY <1>3, ReturnType, RedisType
       DEF TInv, TypeOK, past, GetConnectedClient, redis, local
  <2>2. Busy'
    BY <1>3 DEF TInv, TypeOK, past, Busy, Return, Goto, Handling
  <2>3. QED
    BY <2>1, <2>2 DEF TInv
<1>4. CASE Goto(c, "add") /\ UNCHANGED job /\ job[c].kind = "register"
  <2>1. TypeOK'
    BY <1>4, GotoType, RedisType
       DEF TInv, TypeOK, past, GetConnectedClient, redis, local, ConnPC, Handling
  <2>2. Busy'
    BY <1>1, <1>4 DEF TInv, TypeOK, past, Busy, Goto, Handling
  <2>3. QED
    BY <2>1, <2>2 DEF TInv
<1>5. ASSUME NEW where \in {"alive", "evict"}, Goto(c, where), own # NoRow,
             job' = [job EXCEPT ![c].own = own],
             where = "alive" => job[c].kind = "register"
      PROVE  TInv'
  <2>1. TypeOK'
    BY <1>2, <1>5, GotoType, RedisType
       DEF TInv, TypeOK, past, GetConnectedClient, redis, local, ConnPC, Handling
  <2>2. Busy'
    BY <1>2, <1>5 DEF TInv, TypeOK, past, Busy, Goto, Handling
  <2>3. QED
    BY <2>1, <2>2 DEF TInv
<1>6. QED
  BY <1>3, <1>4, <1>5 DEF GetConnectedClient

LEMMA TakeStep ==
  ASSUME TInv, NEW p \in Pods, NEW s \in Pods, Take(p, s)
  PROVE  TInv'
<1>1. inbox[s] \in Seq(Entry) /\ inbox[s] # <<>>
  BY DEF TInv, TypeOK, past, Take
<1>2. Head(inbox[s]) \in Entry /\ Tail(inbox[s]) \in Seq(Entry)
  BY <1>1, HeadTailProperties
<1>3. [pc |-> "find", src |-> s, to |-> Head(inbox[s]).to,
       target |-> Head(inbox[s]).target, conn |-> NoConn, dst |-> NoPod]
        \in Work
  BY <1>2 DEF Work, Held, Entry
<1>4. TypeOK'
  BY <1>2, <1>3 DEF TInv, TypeOK, past, Take, local, conn
<1>5. Busy'
  BY DEF TInv, Busy, Take, conn
<1>6. QED
  BY <1>4, <1>5 DEF TInv

LEMMA TimeStep ==
  ASSUME TInv, NEW id \in Clients,
         Age(id) \/ \E p \in Pods : PresenceCleanup(p, id)
  PROVE  TInv'
<1>1. TypeOK'
  BY DEF TInv, TypeOK, past, Age, PresenceCleanup, local, conn, Row
<1>2. Busy'
  BY DEF TInv, Busy, Age, PresenceCleanup, conn
<1>3. QED
  BY <1>1, <1>2 DEF TInv

\* One step of the specification, one case per action.
LEMMA TInvStep == TInv /\ [Next]_vars => TInv'
<1> SUFFICES ASSUME TInv, [Next]_vars PROVE TInv'
  OBVIOUS
<1>1. CASE UNCHANGED vars
  BY <1>1 DEF TInv, TypeOK, past, Busy, vars, redis, local, conn
<1>2. ASSUME NEW c \in Conns,
             Connect(c) \/ Disconnect(c) \/ OtherFrame(c) \/ Reader(c)
      PROVE  TInv'
  BY <1>2, ConnectStep, DisconnectStep, OtherFrameStep,
     GetConnectedClientStep, CheckOwnerAliveStep, RemoveDeadRowStep,
     ForgetDeadSeenStep, EvictLocalStep, EvictLookupStep, EvictPublishStep,
     SetupFailsStep, AddConnectedClientStep, PoolRegisterStep, FinishRegisterStep,
     CloseRemoveStep, HandlerFailsStep, TouchStep, ReadEndStep,
     RemoveOwnRowStep
     DEF Reader, Handler
<1>3. ASSUME NEW p \in Pods,
             Stop(p) \/ Die(p) \/ Restart(p) \/ HeartbeatExpires(p)
               \/ Heartbeat(p) \/ Router(p)
      PROVE  TInv'
  BY <1>3, StopStep, DieStep, RestartStep, HeartbeatExpiresStep,
     HeartbeatStep, TakeStep, IsLocalStep, DeliverStep, ForceCloseStep,
     RelookStep, LookupStep, LookupMissStep, SourceAliveStep, RepublishStep,
     RouterAddStep, AckStep
     DEF Router, ProcessMessage
<1>4. QED
  BY <1>1, <1>2, <1>3, FrameStep, TimeStep DEF Next

\* Every variable keeps its kind, whatever the bounds and switches.
THEOREM TypeCorrect == Spec => []TypeOK
<1>1. TInv => TypeOK
  BY DEF TInv
<1>2. QED
  BY InitTInv, TInvStep, <1>1, PTL DEF Spec

----------------------------------------------------------------------------
(* PoolHasReader.  It is not inductive alone: that the connection put in   *)
(* the pool carries the id it is stored under needs OneId, and that no     *)
(* other id holds it needs that a connection never changes its id.         *)

PInv == OneId /\ PoolHasReader

LEMMA InitPInv == Init => PInv
BY PodsAssumption DEF Init, PInv, OneId, PoolHasReader, Handling

\* A step that touches neither pool nor connection state.
LEMMA ElsewherePInv ==
  ASSUME PInv, UNCHANGED <<pool, pc, cid, job>>
  PROVE  PInv'
BY DEF PInv, OneId, PoolHasReader

\* A step that at most takes connections out of the pools.
LEMMA PoolShrinks ==
  ASSUME PoolHasReader, UNCHANGED cid,
         \A q \in Pods, i \in Clients : pool'[q][i] \in {pool[q][i], NoConn},
         \A c \in Conns : pc[c] \notin {"off", "row", "gone"}
                           => pc'[c] \notin {"off", "row", "gone"}
                              \/ \A q \in Pods, i \in Clients : pool'[q][i] # c,
         \A q \in Pods, i \in Clients : pool[q][i] \in Conns \cup {NoConn}
  PROVE  PoolHasReader'
BY DEF PoolHasReader

\* A step of one reader that keeps its id and does not touch the pools.
LEMMA ReaderMoves ==
  ASSUME TypeOK, PoolHasReader, UNCHANGED <<pool, cid>>,
         NEW c \in Conns, NEW where \in ConnPC \ {"off", "row", "gone"},
         Goto(c, where)
  PROVE  PoolHasReader'
BY DEF TypeOK, PoolHasReader, Goto

LEMMA EnvPInv ==
  ASSUME TInv, PInv, NEW c \in Conns,
         Connect(c) \/ Disconnect(c) \/ OtherFrame(c)
  PROVE  PInv'
<1>1. CASE Disconnect(c)
  BY <1>1, ElsewherePInv DEF Disconnect, conn
<1>2. CASE Connect(c)
  <2>1. PoolHasReader'
    BY <1>2, ReaderMoves DEF TInv, PInv, Connect, ConnPC, Handling
  <2>2. OneId'
    BY <1>2 DEF TInv, TypeOK, PInv, OneId, Connect, Goto, Handling
  <2>3. QED
    BY <2>1, <2>2 DEF PInv
<1>3. CASE OtherFrame(c)
  <2>1. PoolHasReader'
    BY <1>3, ReaderMoves DEF TInv, PInv, OtherFrame, local, ConnPC, Handling
  <2>2. OneId'
    BY <1>3 DEF TInv, TypeOK, PInv, OneId, OtherFrame, Goto, Handling
  <2>3. QED
    BY <2>1, <2>2 DEF PInv
<1>4. QED
  BY <1>1, <1>2, <1>3

LEMMA FramePInv ==
  ASSUME Rebind = FALSE, TInv, PInv, NEW c \in Conns,
         NEW kind \in {"register", "close"}, NEW id \in Clients,
         NEW token \in Tokens \cup {NoToken}, Frame(c, kind, id, token)
  PROVE  PInv'
<1>1. PoolHasReader'
  BY ReaderMoves DEF TInv, PInv, Frame, local, ConnPC, Handling
<1>2. OneId'
  BY DEF TInv, TypeOK, PInv, OneId, Frame, Goto, Handling
<1>3. QED
  BY <1>1, <1>2 DEF PInv

\* Handler steps that leave the pools and the id alone.
LEMMA QuietHandlerPInv ==
  ASSUME TInv, PInv, NEW c \in Conns,
         \/ GetConnectedClient(c) \/ CheckOwnerAlive(c) \/ RemoveDeadRow(c)
         \/ ForgetDeadSeen(c) \/ EvictLookup(c) \/ EvictPublish(c)
         \/ FinishRegister(c) \/ CloseRemove(c) \/ Touch(c)
  PROVE  PInv'
<1>1. /\ UNCHANGED <<pool, cid>>
      /\ \E where \in ConnPC \ {"off", "row", "gone", "pool", "trigger"} :
           Goto(c, where)
  BY DEF TInv, TypeOK, GetConnectedClient, CheckOwnerAlive, RemoveDeadRow,
     ForgetDeadSeen, EvictLookup, EvictPublish, FinishRegister, CloseRemove,
     Touch, AfterEvict, Return, redis, local, ConnPC, Handling
<1>2. PoolHasReader'
  BY <1>1, ReaderMoves DEF TInv, PInv
<1>3. /\ \A d \in Conns \ {c} : job'[d] = job[d] /\ pc'[d] = pc[d]
      /\ pc'[c] \in Handling => /\ job'[c].id = job[c].id
                                /\ job'[c].kind = job[c].kind
                                /\ pc[c] \in Handling
  BY DEF TInv, TypeOK, Busy, GetConnectedClient, CheckOwnerAlive,
     RemoveDeadRow, ForgetDeadSeen, EvictLookup, EvictPublish, FinishRegister,
     CloseRemove, Touch, AfterEvict, Return, Goto, Handling, Job, NoJob
<1>4. OneId'
  BY <1>1, <1>3 DEF PInv, OneId, TInv, TypeOK, Goto
<1>5. QED
  BY <1>2, <1>4 DEF PInv

LEMMA EvictLocalPInv ==
  ASSUME TInv, PInv, NEW c \in Conns, EvictLocal(c)
  PROVE  PInv'
<1>1. \A q \in Pods, i \in Clients :
        /\ pool'[q][i] \in {pool[q][i], NoConn}
        /\ pool[q][i] \in Conns \cup {NoConn}
  <2>1. \/ UNCHANGED pool
        \/ pool' = [pool EXCEPT ![PodOf[c]][job[c].id] = NoConn]
    BY DEF EvictLocal, local
  <2>2. PodOf[c] \in Pods /\ pool \in [Pods -> [Clients -> Conns \cup {NoConn}]]
    BY PodsAssumption DEF TInv, TypeOK
  <2>3. CASE UNCHANGED pool
    BY <2>2, <2>3
  <2>4. CASE pool' = [pool EXCEPT ![PodOf[c]][job[c].id] = NoConn]
    BY <2>2, <2>4
  <2>5. QED
    BY <2>1, <2>3, <2>4
<1>2. /\ UNCHANGED <<cid, job>> /\ pc[c] = "evict"
      /\ pc'[c] \in {"add", "remove"}
      /\ \A d \in Conns \ {c} : pc'[d] = pc[d]
  BY DEF TInv, TypeOK, EvictLocal, AfterEvict, Goto
<1>3. PoolHasReader'
  BY <1>1, <1>2, PoolShrinks DEF PInv
<1>4. OneId'
  BY <1>2 DEF PInv, OneId, Handling
<1>5. QED
  BY <1>3, <1>4 DEF PInv

LEMMA ForceClosePInv ==
  ASSUME TInv, PInv, NEW p \in Pods, ForceClose(p)
  PROVE  PInv'
<1>1. \A q \in Pods, i \in Clients :
        /\ pool'[q][i] \in {pool[q][i], NoConn}
        /\ pool[q][i] \in Conns \cup {NoConn}
  BY DEF TInv, TypeOK, ForceClose
<1>2. UNCHANGED <<pc, cid, job>>
  BY DEF ForceClose, conn
<1>3. PoolHasReader'
  BY <1>1, <1>2, PoolShrinks DEF PInv
<1>4. QED
  BY <1>2, <1>3 DEF PInv, OneId

\* The id is set, by a registration that goes on or by one that fails.
LEMMA SetIdPInv ==
  ASSUME TInv, PInv, NEW c \in Conns, pc[c] = "add",
         cid' = [cid EXCEPT ![c] = job[c].id], UNCHANGED pool,
         \/ Goto(c, "pool") /\ UNCHANGED job
         \/ Return(c)
  PROVE  PInv'
<1>1. cid[c] \in {NoClient, job[c].id} /\ job[c].id \in Clients
  BY JobParts DEF TInv, Busy, PInv, OneId, Handling
<1>2. PoolHasReader'
  BY <1>1, PodsAssumption
     DEF TInv, TypeOK, PInv, PoolHasReader, Goto, Return, Handling
<1>3. OneId'
  BY <1>1 DEF TInv, TypeOK, PInv, OneId, Goto, Return, Handling
<1>4. QED
  BY <1>2, <1>3 DEF PInv

LEMMA HandlerFailsPInv ==
  ASSUME TInv, PInv, NEW c \in Conns, HandlerFails(c)
  PROVE  PInv'
<1>1. CASE pc[c] = "add"
  BY <1>1, SetIdPInv DEF HandlerFails, local
<1>2. CASE pc[c] # "add"
  <2>1. UNCHANGED <<pool, cid>> /\ Return(c)
    BY <1>2 DEF HandlerFails, local
  <2>2. PoolHasReader'
    BY <2>1, ReaderMoves DEF TInv, PInv, Return, ConnPC, Handling
  <2>3. OneId'
    BY <2>1 DEF TInv, TypeOK, PInv, OneId, Return, Goto, Handling
  <2>4. QED
    BY <2>2, <2>3 DEF PInv
<1>3. QED
  BY <1>1, <1>2

LEMMA PoolRegisterPInv ==
  ASSUME TInv, PInv, NEW c \in Conns, PoolRegister(c)
  PROVE  PInv'
<1>1. /\ cid[c] = job[c].id /\ job[c].id \in Clients
      /\ pc[c] = "pool" /\ PodOf[c] \in Pods
  BY JobParts, PodsAssumption
     DEF PoolRegister, TInv, Busy, PInv, OneId, Handling
<1>2. PoolHasReader'
  BY <1>1, PodsAssumption
     DEF TInv, TypeOK, PInv, PoolHasReader, PoolRegister, Goto
<1>3. OneId'
  BY <1>1 DEF TInv, TypeOK, PInv, OneId, PoolRegister, Goto, Handling
<1>4. QED
  BY <1>2, <1>3 DEF PInv

\* After Unregister no pool holds the connection: by PoolHasReader the one
\* place it could be in is the place InPool looks at.
LEMMA ReadEndPInv ==
  ASSUME TInv, PInv, NEW c \in Conns, ReadEnd(c)
  PROVE  PInv'
<1>1. \A q \in Pods, i \in Clients :
        /\ pool'[q][i] \in {pool[q][i], NoConn}
        /\ pool[q][i] \in Conns \cup {NoConn}
  BY DEF TInv, TypeOK, ReadEnd
<1>2. /\ UNCHANGED <<cid, job>> /\ pc'[c] \in {"row", "gone"}
      /\ \A d \in Conns \ {c} : pc'[d] = pc[d]
  BY DEF TInv, TypeOK, ReadEnd, Goto
<1>3. \A q \in Pods, i \in Clients : pool'[q][i] # c
  <2> SUFFICES ASSUME NEW q \in Pods, NEW i \in Clients, pool'[q][i] = c
               PROVE  FALSE
    OBVIOUS
  <2>1. pool[q][i] = c /\ c # NoConn
    BY <1>1, PodsAssumption
  <2>2. PodOf[c] = q /\ cid[c] = i
    BY <2>1 DEF PInv, PoolHasReader
  <2>3. InPool(c)
    BY <2>1, <2>2, PodsAssumption DEF InPool
  <2>4. pool' = [pool EXCEPT ![q][i] = NoConn]
    BY <2>2, <2>3 DEF ReadEnd
  <2>5. QED
    BY <2>1, <2>4 DEF TInv, TypeOK
<1>4. PoolHasReader'
  BY <1>1, <1>2, <1>3, PoolShrinks DEF PInv
<1>5. OneId'
  BY <1>2 DEF PInv, OneId, Handling
<1>6. QED
  BY <1>4, <1>5 DEF PInv

LEMMA RemoveOwnRowPInv ==
  ASSUME TInv, PInv, NEW c \in Conns, RemoveOwnRow(c)
  PROVE  PInv'
<1>1. PoolHasReader'
  BY DEF TInv, TypeOK, PInv, PoolHasReader, RemoveOwnRow, Goto
<1>2. OneId'
  BY DEF TInv, TypeOK, PInv, OneId, RemoveOwnRow, Goto, Handling
<1>3. QED
  BY <1>1, <1>2 DEF PInv

LEMMA DiePInv ==
  ASSUME TInv, PInv, NEW p \in Pods, Die(p)
  PROVE  PInv'
<1>1. PoolHasReader'
  <2> SUFFICES ASSUME NEW q \in Pods, NEW i \in Clients, pool'[q][i] # NoConn
               PROVE  LET c == pool'[q][i]
                      IN /\ PodOf[c] = q /\ cid'[c] = i
                         /\ pc'[c] \notin {"off", "row", "gone"}
    BY DEF PoolHasReader
  <2>1. q # p /\ pool'[q][i] = pool[q][i]
    BY DEF TInv, TypeOK, Die
  <2>2. pool[q][i] \in Conns
    BY <2>1 DEF TInv, TypeOK
  <2>3. QED
    BY <2>1, <2>2 DEF PInv, PoolHasReader, Die
<1>2. OneId'
  BY DEF TInv, TypeOK, PInv, OneId, Die, Handling
<1>3. QED
  BY <1>1, <1>2 DEF PInv

LEMMA RouterPInv ==
  ASSUME TInv, PInv, NEW p \in Pods,
         \/ Stop(p) \/ Die(p) \/ Restart(p) \/ HeartbeatExpires(p)
         \/ Heartbeat(p) \/ Router(p)
  PROVE  PInv'
<1>1. CASE Die(p) \/ ForceClose(p)
  BY <1>1, DiePInv, ForceClosePInv
<1>2. CASE ~(Die(p) \/ ForceClose(p))
  <2>1. UNCHANGED <<pool, pc, cid, job>>
    BY <1>2
       DEF Stop, Restart, HeartbeatExpires, Heartbeat, Router, ProcessMessage,
           Take, IsLocal, Deliver, Relook, Lookup, LookupMiss, SourceAlive,
           Republish, RouterAdd, Ack, local, conn
  <2>2. QED
    BY <2>1, ElsewherePInv
<1>3. QED
  BY <1>1, <1>2

LEMMA PInvStep ==
  Rebind = FALSE /\ TInv /\ PInv /\ [Next]_vars => PInv'
<1> SUFFICES ASSUME Rebind = FALSE, TInv, PInv, [Next]_vars PROVE PInv'
  OBVIOUS
<1>1. CASE UNCHANGED vars
  BY <1>1, ElsewherePInv DEF vars, local, conn
<1>2. ASSUME NEW c \in Conns, Reader(c)
      PROVE  PInv'
  <2>1. CASE AddConnectedClient(c) \/ SetupFails(c)
    BY <2>1, SetIdPInv DEF AddConnectedClient, SetupFails, local
  <2>2. CASE ~AddConnectedClient(c) /\ ~SetupFails(c)
    BY <1>2, <2>2, QuietHandlerPInv, EvictLocalPInv, HandlerFailsPInv,
       PoolRegisterPInv, ReadEndPInv, RemoveOwnRowPInv DEF Reader, Handler
  <2>3. QED
    BY <2>1, <2>2
<1>3. ASSUME NEW id \in Clients,
             Age(id) \/ \E p \in Pods : PresenceCleanup(p, id)
      PROVE  PInv'
  BY <1>3, ElsewherePInv DEF Age, PresenceCleanup, local, conn
<1>4. QED
  BY <1>1, <1>2, <1>3, EnvPInv, FramePInv, RouterPInv DEF Next

\* A connection in a pool always has a reader that will take it out, under
\* every interleaving, failure, crash and restart, as long as a connection
\* registers under one id.
THEOREM PoolSafe ==
  ASSUME Rebind = FALSE
  PROVE  Spec => []PoolHasReader
<1>1. PInv => PoolHasReader
  BY DEF PInv
<1>2. Init => TInv /\ PInv
  BY InitTInv, InitPInv
<1>3. TInv /\ PInv /\ [Next]_vars => TInv' /\ PInv'
  BY TInvStep, PInvStep, Rebind = FALSE
<1>4. QED
  BY <1>1, <1>2, <1>3, PTL DEF Spec

\* The end of a connection leaves the row of its successor alone, in every
\* behaviour: the row step of Read compares the conn_id in the script.
THEOREM SuccessorSafe == Spec => SuccessorKeepsRow
<1> DEFINE Keeps == \A c \in Conns, id \in Clients :
                     pc[c] = "row" /\ pc'[c] = "gone" /\ row[id].conn # c
                       => row'[id] = row[id]
<1>1. TInv /\ [Next]_vars => [Keeps]_vars
  <2> SUFFICES ASSUME TInv, Next, NEW c \in Conns, NEW id \in Clients,
                      pc[c] = "row", pc'[c] = "gone", row[id].conn # c
               PROVE  row'[id] = row[id]
    OBVIOUS
  <2>1. CASE RemoveOwnRow(c)
    BY <2>1 DEF TInv, TypeOK, RemoveOwnRow, RemoveConnectedClientIf, RowIf
  <2>2. CASE \E p \in Pods : Die(p)
    BY <2>2 DEF Die
  <2>3. CASE \E d \in Conns : \/ Connect(d) \/ Disconnect(d) \/ OtherFrame(d)
                              \/ Handler(d) \/ Touch(d) \/ ReadEnd(d)
    <3>1. PICK d \in Conns : \/ Connect(d) \/ Disconnect(d) \/ OtherFrame(d)
                             \/ Handler(d) \/ Touch(d) \/ ReadEnd(d)
      BY <2>3
    <3>2. pc[d] # "row" \/ pc' = pc
      BY <3>1 DEF Connect, Disconnect, OtherFrame, Handler, Touch, ReadEnd,
         GetConnectedClient, CheckOwnerAlive, RemoveDeadRow, ForgetDeadSeen,
         EvictLocal, EvictLookup, EvictPublish, SetupFails,
         AddConnectedClient, PoolRegister, FinishRegister, CloseRemove, HandlerFails, conn
    <3>3. \A e \in Conns \ {d} : pc'[e] = pc[e]
      BY <3>1 DEF TInv, TypeOK, Connect, Disconnect, OtherFrame, Handler,
         Touch, ReadEnd, GetConnectedClient, CheckOwnerAlive, RemoveDeadRow,
         ForgetDeadSeen, EvictLocal, EvictLookup, EvictPublish,
         SetupFails, AddConnectedClient, PoolRegister, FinishRegister, CloseRemove,
         HandlerFails, Return, Goto, conn
    <3>4. QED
      BY <3>2, <3>3
  <2>4. CASE \E d \in Conns \ {c} : RemoveOwnRow(d)
    BY <2>4 DEF TInv, TypeOK, RemoveOwnRow, Goto
  <2>5. CASE \E d \in Conns, kind \in {"register", "close"}, i \in Clients,
                token \in Tokens \cup {NoToken} : Frame(d, kind, i, token)
    BY <2>5 DEF TInv, TypeOK, Frame, Goto
  <2>6. CASE \/ \E p \in Pods : \/ Stop(p) \/ Restart(p) \/ Heartbeat(p)
                                \/ HeartbeatExpires(p) \/ Router(p)
             \/ \E i \in Clients : Age(i) \/ \E p \in Pods : PresenceCleanup(p, i)
    BY <2>6 DEF Stop, Restart, HeartbeatExpires, Heartbeat, Router,
       ProcessMessage, Take, IsLocal, Deliver, ForceClose, Relook, Lookup,
       LookupMiss, SourceAlive, Republish, RouterAdd, Ack, Age,
       PresenceCleanup, conn
  <2>7. QED
    BY <2>1, <2>2, <2>3, <2>4, <2>5, <2>6 DEF Next, Reader
<1>2. QED
  BY InitTInv, TInvStep, <1>1, PTL DEF Spec, SuccessorKeepsRow

----------------------------------------------------------------------------
(* TokenKept.                                                              *)

\* One handler of an id at a time; and while it is under way, the row of the id
\* is the one that it read, or gone.
Alone == \A c, d \in Conns :
           c # d /\ pc[c] \in Handling /\ pc[d] \in Handling => job[c].id # job[d].id
Fits(c) ==
  /\ pc[c] = "get" => job[c].own = NoRow
  /\ pc[c] = "alive" => row[job[c].id] \in {NoRow, job[c].own}
  /\ pc[c] \in {"evict", "xadd", "add"} /\ job[c].kind = "register" =>
       /\ row[job[c].id] \in {NoRow, job[c].own}
       /\ job[c].own.token \in {NoToken, job[c].token}
KInv == Alone /\ \A c \in Conns : Fits(c)

\* Steps that add no row and let no handler go on.
LEMMA ElsewhereKInv ==
  ASSUME KInv, \A id \in Clients : row'[id] \in {row[id], NoRow},
         \A c \in Conns : \/ pc'[c] = pc[c] /\ job'[c] = job[c]
                          \/ pc'[c] \notin Handling,
         TInv
  PROVE  KInv'
<1>1. Alone'
  BY DEF KInv, Alone
<1>2. \A c \in Conns : Fits(c)'
  <2> SUFFICES ASSUME NEW c \in Conns PROVE Fits(c)'
    OBVIOUS
  <2>1. CASE pc'[c] \notin Handling
    BY <2>1 DEF Fits, Handling
  <2>2. CASE pc'[c] \in Handling
    <3>1. pc'[c] = pc[c] /\ job'[c] = job[c] /\ job[c].id \in Clients
      BY <2>2, JobParts DEF TInv, Busy, Handling
    <3> QED BY <3>1 DEF KInv, Fits
  <2> QED BY <2>1, <2>2
<1> QED BY <1>1, <1>2 DEF KInv

\* A step of the handler of c, which adds at most the row of its own id.
LEMMA HandlerKInv ==
  ASSUME TInv, KInv, NEW c \in Conns, pc[c] \in Handling,
         job'[c].id = job[c].id, Fits(c)',
         \A d \in Conns \ {c} : pc'[d] = pc[d] /\ job'[d] = job[d],
         \A id \in Clients \ {job[c].id} : row'[id] \in {row[id], NoRow}
  PROVE  KInv'
<1>1. Alone'
  BY DEF KInv, Alone
<1>2. \A d \in Conns \ {c} : Fits(d)'
  <2> SUFFICES ASSUME NEW d \in Conns \ {c} PROVE Fits(d)'
    OBVIOUS
  <2>1. CASE pc[d] \notin Handling
    BY <2>1 DEF Fits, Handling
  <2>2. CASE pc[d] \in Handling
    <3>1. job[d].id \in Clients \ {job[c].id}
      BY <2>2, JobParts DEF KInv, Alone, TInv, Busy
    <3> QED BY <3>1 DEF KInv, Fits
  <2> QED BY <2>1, <2>2
<1> QED BY <1>1, <1>2 DEF KInv

LEMMA StepKInv ==
  ASSUME TInv, KInv, NEW c \in Conns, Handler(c) PROVE KInv'
<1>1. /\ pc[c] \in Handling /\ job[c] \in Job
      /\ \A d \in Conns \ {c} : pc'[d] = pc[d] /\ job'[d] = job[d]
  BY DEF Handler, GetConnectedClient, CheckOwnerAlive, RemoveDeadRow, ForgetDeadSeen,
     EvictLocal, EvictLookup, EvictPublish, SetupFails, AddConnectedClient, PoolRegister,
     FinishRegister, CloseRemove, HandlerFails, Return, Goto, Handling, TInv, TypeOK
<1>2. job[c].id \in Clients /\ job[c].kind \in {"register", "close"}
  BY <1>1, JobParts DEF TInv, Busy
<1>3. Fits(c)
  BY DEF KInv
<1>4. CASE GetConnectedClient(c)
  <2>1. UNCHANGED row /\ pc'[c] \in {"add", "alive", "evict", "touch"}
    BY <1>4 DEF GetConnectedClient, Return, Goto, redis, TInv, TypeOK
  <2>2. CASE pc'[c] = "touch"
    BY <1>1, <2>1, <2>2, ElsewhereKInv DEF Handling
  <2>3. CASE pc'[c] = "add"
    <3>1. row[job[c].id] = NoRow /\ UNCHANGED job /\ job[c].own = NoRow
      BY <1>3, <1>4, <2>3 DEF GetConnectedClient, Return, Goto, TInv, TypeOK, Fits
    <3>2. Fits(c)'
      BY <2>1, <2>3, <3>1 DEF Fits, NoRow
    <3> QED BY <1>1, <2>1, <3>1, <3>2, HandlerKInv
  <2>4. CASE pc'[c] \in {"alive", "evict"}
    <3>1. job' = [job EXCEPT ![c].own = row[job[c].id]]
      BY <1>4, <2>4 DEF GetConnectedClient, Return, Goto, TInv, TypeOK
    <3>2. job'[c] = [job[c] EXCEPT !.own = row[job[c].id]]
      BY <3>1 DEF TInv, TypeOK
    <3>3. job'[c].id = job[c].id /\ job'[c].own = row[job[c].id] /\ job'[c].kind = job[c].kind
      BY <1>1, <3>2 DEF Job, NoJob
    <3>4. pc'[c] = "evict" => job[c].kind = "close"
      BY <1>4 DEF GetConnectedClient, Return, Goto, TInv, TypeOK
    <3>5. Fits(c)'
      BY <2>1, <2>4, <3>3, <3>4 DEF Fits
    <3> QED BY <1>1, <2>1, <3>3, <3>5, HandlerKInv
  <2> QED BY <2>1, <2>2, <2>3, <2>4
<1>5. CASE CheckOwnerAlive(c)
  <2>1. UNCHANGED row /\ pc'[c] \in {"hdel", "evict", "touch"} /\ pc[c] = "alive"
    BY <1>5 DEF CheckOwnerAlive, Return, Goto, redis, TInv, TypeOK
  <2>2. CASE pc'[c] = "touch"
    BY <1>1, <2>1, <2>2, ElsewhereKInv DEF Handling
  <2>3. CASE pc'[c] # "touch"
    <3>1. UNCHANGED job /\ (pc'[c] = "evict" => ~TokenRefused(c))
      BY <1>5, <2>3 DEF CheckOwnerAlive, Return, Goto, TInv, TypeOK
    <3>2. Fits(c)'
      BY <1>3, <2>1, <3>1 DEF Fits, TokenRefused
    <3> QED BY <1>1, <2>1, <3>1, <3>2, HandlerKInv
  <2> QED BY <2>2, <2>3
<1>6. CASE RemoveDeadRow(c)
  <2>1. UNCHANGED job /\ pc'[c] = "zrem"
        /\ \A id \in Clients : row'[id] \in {row[id], NoRow}
    BY <1>6, <1>2 DEF RemoveDeadRow, Goto, TInv, TypeOK
  <2>2. Fits(c)'
    BY <2>1 DEF Fits
  <2> QED BY <1>1, <2>1, <2>2, HandlerKInv
<1>7. CASE EvictLocal(c) \/ EvictPublish(c)
  <2>1. /\ UNCHANGED <<row, job>> /\ pc'[c] = AfterEvict(c)
        /\ pc[c] \in {"evict", "xadd"}
    BY <1>7 DEF EvictLocal, EvictPublish, Goto, redis, TInv, TypeOK
  <2>2. Fits(c)'
    BY <1>3, <2>1 DEF Fits, AfterEvict
  <2> QED BY <1>1, <2>1, <2>2, HandlerKInv
<1>8. CASE EvictLookup(c)
  <2>1. /\ UNCHANGED row /\ pc'[c] \in {AfterEvict(c), "xadd"} /\ pc[c] = "evict"
        /\ \/ UNCHANGED job
           \/ \E q \in Pods \cup {NoPod} : job'[c] = [job[c] EXCEPT !.dst = q]
    <3>1. row[job[c].id].pod \in Pods \cup {NoPod}
      BY <1>2, RowParts DEF TInv, TypeOK
    <3> QED BY <1>8, <3>1 DEF EvictLookup, Goto, redis, TInv, TypeOK
  <2>2. /\ job'[c].id = job[c].id /\ job'[c].kind = job[c].kind
        /\ job'[c].own = job[c].own /\ job'[c].token = job[c].token
    BY <1>1, <2>1 DEF Job, NoJob
  <2>3. Fits(c)'
    BY <1>3, <2>1, <2>2 DEF Fits, AfterEvict
  <2> QED BY <1>1, <2>1, <2>2, <2>3, HandlerKInv
<1>9. CASE AddConnectedClient(c) \/ PoolRegister(c)
  <2>1. /\ UNCHANGED job /\ pc'[c] \in {"pool", "trigger"}
        /\ \A id \in Clients \ {job[c].id} : row'[id] = row[id]
    BY <1>9, <1>2 DEF AddConnectedClient, PoolRegister, Goto, redis, TInv, TypeOK
  <2>2. Fits(c)'
    BY <2>1 DEF Fits
  <2> QED BY <1>1, <2>1, <2>2, HandlerKInv
<1>10. CASE \/ ForgetDeadSeen(c) \/ SetupFails(c) \/ FinishRegister(c)
             \/ CloseRemove(c) \/ HandlerFails(c)
  <2>1. pc'[c] = "touch" /\ \A id \in Clients : row'[id] \in {row[id], NoRow}
    BY <1>10, <1>2 DEF ForgetDeadSeen, SetupFails, FinishRegister, CloseRemove, HandlerFails, Return, Goto,
       RemoveConnectedClientIf, RowIf, redis, TInv, TypeOK
  <2> QED BY <1>1, <2>1, ElsewhereKInv DEF Handling
<1> QED BY <1>4, <1>5, <1>6, <1>7, <1>8, <1>9, <1>10 DEF Handler

LEMMA FrameKInv ==
  ASSUME TInv, KInv, ~Overlap, NEW c \in Conns, NEW kind \in {"register", "close"},
         NEW id \in Clients, NEW token \in Tokens \cup {NoToken}, Frame(c, kind, id, token)
  PROVE  KInv'
<1>1. /\ UNCHANGED row /\ pc'[c] = "get" /\ job'[c].id = id /\ job'[c].own = NoRow
      /\ Serial(c, id)
      /\ \A d \in Conns \ {c} : pc'[d] = pc[d] /\ job'[d] = job[d]
  BY DEF Frame, Goto, redis, TInv, TypeOK
<1>2. Alone'
  BY <1>1 DEF KInv, Alone, Serial
<1>3. \A d \in Conns : Fits(d)'
  BY <1>1 DEF KInv, Fits
<1> QED BY <1>2, <1>3 DEF KInv

LEMMA KInvStep ==
  ASSUME ~Overlap PROVE TInv /\ KInv /\ [Next]_vars => KInv'
<1> SUFFICES ASSUME TInv, KInv, [Next]_vars PROVE KInv'
  OBVIOUS
<1>1. ASSUME \/ UNCHANGED vars
             \/ \E p \in Pods : \/ Stop(p) \/ Restart(p) \/ HeartbeatExpires(p)
                                \/ Heartbeat(p) \/ Router(p)
             \/ \E i \in Clients : Age(i)
             \/ \E c \in Conns : Disconnect(c)
      PROVE  KInv'
  <2>1. UNCHANGED <<row, pc, job>>
    BY <1>1
       DEF vars, Stop, Restart, HeartbeatExpires, Heartbeat, Router, ProcessMessage, Take,
           IsLocal, Deliver, ForceClose, Relook, Lookup, LookupMiss, SourceAlive, Republish,
           RouterAdd, Ack, Age, Disconnect, redis, conn
  <2> QED BY <2>1, ElsewhereKInv
<1>2. ASSUME NEW p \in Pods, NEW i \in Clients, PresenceCleanup(p, i) PROVE KInv'
  <2>1. UNCHANGED <<pc, job>> /\ \A id \in Clients : row'[id] \in {row[id], NoRow}
    BY <1>2 DEF PresenceCleanup, conn, TInv, TypeOK
  <2> QED BY <2>1, ElsewhereKInv
<1>3. ASSUME NEW p \in Pods, Die(p) PROVE KInv'
  <2>1. /\ UNCHANGED row
        /\ \A c \in Conns : \/ pc'[c] = pc[c] /\ job'[c] = job[c]
                            \/ pc'[c] \notin Handling
    BY <1>3 DEF Die, Handling, TInv, TypeOK
  <2> QED BY <2>1, ElsewhereKInv
<1>4. ASSUME NEW c \in Conns, \/ Connect(c) \/ OtherFrame(c) \/ Touch(c) \/ ReadEnd(c)
                              \/ RemoveOwnRow(c)
      PROVE  KInv'
  <2>1. /\ pc'[c] \notin Handling /\ UNCHANGED job
        /\ \A d \in Conns \ {c} : pc'[d] = pc[d]
    BY <1>4 DEF Connect, OtherFrame, Touch, ReadEnd, RemoveOwnRow, Goto, Handling, local,
       TInv, TypeOK
  <2>2. \A id \in Clients : row'[id] \in {row[id], NoRow}
    BY <1>4 DEF Connect, OtherFrame, Touch, ReadEnd, RemoveOwnRow, redis,
       RemoveConnectedClientIf, RowIf, TInv, TypeOK
  <2> QED BY <2>1, <2>2, ElsewhereKInv
<1> QED BY <1>1, <1>2, <1>3, <1>4, StepKInv, FrameKInv DEF Next, Reader

\* A step that gives an id a row of another connection is an AddConnectedClient.
LEMMA RowGiven ==
  ASSUME TInv, [Next]_vars, NEW id \in Clients, row'[id].conn \notin {NoConn, row[id].conn}
  PROVE  \E c \in Conns : AddConnectedClient(c) /\ job[c].id = id
<1>1. row'[id] # row[id] /\ row'[id] # NoRow
  BY DEF NoRow
<1>2. \E c \in Conns : AddConnectedClient(c)
  <2>1. ASSUME NEW c \in Conns, RemoveOwnRow(c) \/ CloseRemove(c) \/ RemoveDeadRow(c)
        PROVE  FALSE
    BY <1>1, <2>1 DEF RemoveOwnRow, CloseRemove, RemoveDeadRow, RemoveConnectedClientIf, RowIf,
       TInv, TypeOK
  <2>2. ASSUME NEW p \in Pods, NEW i \in Clients, PresenceCleanup(p, i) PROVE FALSE
    BY <1>1, <2>2 DEF PresenceCleanup, TInv, TypeOK
  <2>3. ASSUME UNCHANGED row PROVE FALSE
    BY <1>1, <2>3
  <2> QED
    BY <2>1, <2>2, <2>3, ZenonT(40)
       DEF Next, vars, Reader, Handler, Connect, Disconnect, OtherFrame, Frame, Touch, ReadEnd,
           GetConnectedClient, CheckOwnerAlive, ForgetDeadSeen, EvictLocal, EvictLookup,
           EvictPublish, SetupFails, PoolRegister, FinishRegister, HandlerFails, Stop, Die, Restart,
           HeartbeatExpires, Heartbeat, Router, ProcessMessage, Take, IsLocal, Deliver,
           ForceClose, Relook, Lookup, LookupMiss, SourceAlive, Republish, RouterAdd, Ack,
           Age, redis
<1>3. PICK c \in Conns : AddConnectedClient(c)
  BY <1>2
<1>4. job[c].id = id
  BY <1>1, <1>3 DEF AddConnectedClient, TInv, TypeOK
<1> QED BY <1>3, <1>4

\* A registration with another token never takes the row of a live session, or
\* of a dead one that still has its row, when handlers of an id do not overlap
\* (TokenRefused in Register; the check is made calls before the write).
THEOREM TokenSafe ==
  ASSUME ~Overlap
  PROVE  Spec => TokenKept
<1> DEFINE Keeps == \A id \in Clients :
             row'[id].conn \notin {NoConn, row[id].conn}
               => row[id].token \in {NoToken, row'[id].token}
<1>1. Init => KInv
  BY DEF Init, KInv, Alone, Fits, Handling
<1>2. TInv /\ KInv /\ [Next]_vars => [Keeps]_vars
  <2> SUFFICES ASSUME TInv, KInv, [Next]_vars, NEW id \in Clients,
                      row'[id].conn \notin {NoConn, row[id].conn}
               PROVE  row[id].token \in {NoToken, row'[id].token}
    OBVIOUS
  <2>1. PICK c \in Conns : AddConnectedClient(c) /\ job[c].id = id
    BY RowGiven
  <2>2. row'[id].token = job[c].token
    BY <2>1 DEF AddConnectedClient, TInv, TypeOK
  <2>3. job[c].kind = "register" /\ pc[c] = "add"
    BY <2>1 DEF AddConnectedClient, TInv, Busy
  <2>4. row[id] \in {NoRow, job[c].own} /\ job[c].own.token \in {NoToken, job[c].token}
    BY <2>1, <2>3 DEF KInv, Fits
  <2> QED BY <2>2, <2>4 DEF NoRow
<1>3. TInv /\ KInv /\ [Next]_vars => KInv'
  BY KInvStep
<1> QED
  BY InitTInv, TInvStep, <1>1, <1>2, <1>3, PTL DEF Spec, TokenKept
=============================================================================
