--------------------------- MODULE TakeoverProofs ---------------------------
(***************************************************************************)
(* TLAPS proofs that a takeover in Session leaves one session, which its   *)
(* row names, and that Session implements Ownership, for every number of   *)
(* pods, clients and connections.                                          *)
(***************************************************************************)
EXTENDS SessionProofs, FiniteSetTheorems

\* No pod is stopped, killed or without a heartbeat, no Redis call fails, the
\* handlers of an id do not overlap, and a connection keeps its id.
Untroubled ==
  /\ Overlap = FALSE /\ Rebind = FALSE
  /\ MaxFaults = 0 /\ Mortal = {} /\ Flaky = {}

----------------------------------------------------------------------------
(* The inductive invariant.                                                *)

Quiet == \A p \in Pods : up[p] = "up" /\ hb[p]

\* A row names a connection with the pod that accepted it.
Whole(id) == row[id] # NoRow => row[id].pod = PodOf[row[id].conn]

\* A connection in a pool is the one its row names, or is about to be closed.
Matched(p, id) == Clear(p, id) \/ row[id].conn = pool[p][id]

\* What a handler has done about the sessions of its id by now.
Holds(c) ==
  /\ pc[c] \notin {"hdel", "zrem"}
  /\ pc[c] \in {"alive", "evict", "xadd", "remove"} =>
       row[job[c].id] \in {NoRow, job[c].own}
  /\ pc[c] = "xadd" => \A p \in Pods : Clear(p, job[c].id) \/ p = job[c].dst
  /\ pc[c] \in {"add", "remove", "pool"} => \A p \in Pods : Clear(p, job[c].id)
  /\ pc[c] = "pool" => row[job[c].id].conn = c

MInv ==
  /\ Quiet /\ Alone
  /\ \A id \in Clients : Whole(id)
  /\ \A p \in Pods, id \in Clients : Matched(p, id)
  /\ \A c \in Conns : Holds(c)

LEMMA InitMInv == Untroubled /\ Init => MInv
<1> SUFFICES ASSUME Untroubled, Init PROVE MInv
  OBVIOUS
<1>1. Quiet
  BY DEF Init, Untroubled, Quiet
<1>2. Alone /\ \A c \in Conns : Holds(c)
  BY DEF Init, Alone, Holds, Handling
<1>3. \A id \in Clients : Whole(id)
  BY DEF Init, Whole
<1>4. \A p \in Pods, id \in Clients : Matched(p, id)
  BY DEF Init, Matched, Clear
<1> QED BY <1>1, <1>2, <1>3, <1>4 DEF MInv

\* What cannot happen.
LEMMA NoTrouble ==
  ASSUME Untroubled, TInv, MInv
  PROVE  /\ ~RedisFails
         /\ \A p \in Pods : ~Stop(p) /\ ~Die(p) /\ ~Restart(p) /\ ~HeartbeatExpires(p)
         /\ \A p \in Pods, id \in Clients : ~PresenceCleanup(p, id)
         /\ \A c \in Conns : ~HandlerFails(c) /\ ~RemoveDeadRow(c) /\ ~ForgetDeadSeen(c)
<1>1. ~RedisFails
  BY DEF RedisFails, Untroubled, TInv, TypeOK
<1>2. \A p \in Pods : ~Stop(p) /\ ~Die(p) /\ ~Restart(p) /\ ~HeartbeatExpires(p)
  BY DEF Stop, Die, Restart, HeartbeatExpires, Untroubled, MInv, Quiet
<1>3. ASSUME NEW p \in Pods, NEW id \in Clients, PresenceCleanup(p, id) PROVE FALSE
  <2>1. row[id] \in Row /\ row[id] # NoRow /\ ~hb[row[id].pod]
    BY <1>3 DEF PresenceCleanup, TInv, TypeOK
  <2> QED BY <2>1, RowParts DEF MInv, Quiet
<1>4. \A c \in Conns : ~HandlerFails(c) /\ ~RemoveDeadRow(c) /\ ~ForgetDeadSeen(c)
  BY <1>1 DEF HandlerFails, RemoveDeadRow, ForgetDeadSeen, MInv, Holds
<1> QED BY <1>1, <1>2, <1>3, <1>4

----------------------------------------------------------------------------
(* Steps outside the handlers.                                             *)

\* Pools and rows may lose what no handler is about to rely on.
LEMMA ElsewhereMInv ==
  ASSUME TInv, MInv, UNCHANGED <<up, hb>>,
         \A p \in Pods, id \in Clients : /\ pool'[p][id] \in {pool[p][id], NoConn}
                                         /\ Clear(p, id) => Clear(p, id)',
         \A id \in Clients :
           \/ row'[id] = row[id]
           \/ /\ row'[id] = NoRow /\ pc[row[id].conn] \notin Handling
              /\ \A p \in Pods : pool'[p][id] \in {NoConn} \cup (Conns \ {row[id].conn}),
         \A c \in Conns : \/ pc'[c] = pc[c] /\ job'[c] = job[c]
                          \/ pc'[c] \notin Handling
  PROVE  MInv'
<1>1. Quiet' /\ Alone'
  BY DEF MInv, Quiet, Alone
<1>2. \A id \in Clients : Whole(id)'
  BY DEF MInv, Whole
<1>3. \A p \in Pods, id \in Clients : Matched(p, id)'
  BY DEF MInv, Matched, Clear
<1>4. ASSUME NEW c \in Conns PROVE Holds(c)'
  <2>1. CASE pc'[c] \notin Handling
    BY <2>1 DEF Holds, Handling
  <2>2. CASE pc'[c] \in Handling
    <3>1. pc'[c] = pc[c] /\ job'[c] = job[c] /\ job[c].id \in Clients /\ Holds(c)
      BY <2>2, JobParts DEF TInv, Busy, MInv
    <3>2. pc[c] = "pool" => row'[job[c].id] = row[job[c].id]
      BY <2>2, <3>1 DEF Holds
    <3>3. pc[c] \in {"alive", "evict", "xadd", "remove"} => row'[job[c].id] \in {NoRow, job[c].own}
      BY <3>1 DEF Holds
    <3> QED BY <3>1, <3>2, <3>3 DEF Holds
  <2> QED BY <2>1, <2>2
<1> QED BY <1>1, <1>2, <1>3, <1>4 DEF MInv

\* An append loses nothing that is on its way.
LEMMA PutKeeps ==
  ASSUME TypeOK, NEW p \in Pods, wk[p].pc # "idle", NEW q \in Pods \cup {NoPod},
         inbox' = Put(q, p), NEW r \in Pods, NEW id \in Clients,
         \E k \in DOMAIN inbox[r] : inbox[r][k].to = id
  PROVE  \E k \in DOMAIN inbox'[r] : inbox'[r][k].to = id
<1>1. PICK k \in DOMAIN inbox[r] : inbox[r][k].to = id
  OBVIOUS
<1> DEFINE e == [to |-> wk[p].to, target |-> wk[p].target]
<1>2. inbox[r] \in Seq(Entry) /\ e \in Entry
  BY WorkParts DEF TypeOK, Entry
<1>3. inbox'[r] = inbox[r] \/ inbox'[r] = Append(inbox[r], e)
  BY DEF Put, TypeOK
<1>4. k \in DOMAIN Append(inbox[r], e) /\ Append(inbox[r], e)[k] = inbox[r][k]
  BY <1>1, <1>2, AppendProperties
<1> QED BY <1>1, <1>3, <1>4

LEMMA TakeKeeps ==
  ASSUME TInv, MInv, NEW p \in Pods, NEW s \in Pods, Take(p, s),
         NEW q \in Pods, NEW id \in Clients, Clear(q, id)
  PROVE  Clear(q, id)' /\ UNCHANGED <<up, hb, row, pool, pc, job>>
<1>1. s = p /\ UNCHANGED <<up, hb, row, pool, pc, job>>
  BY DEF Take, MInv, Quiet, local, conn
<1>2. CASE q # p
  BY <1>1, <1>2 DEF Take, TInv, TypeOK, Clear, Doomed
<1>3. CASE q = p /\ pool[p][id] # NoConn
  <2>1. wk[p].pc = "idle" /\ inbox[p] # <<>> /\ inbox[p] \in Seq(Entry)
    BY <1>1 DEF Take, TInv, TypeOK
  <2>2. /\ wk'[p].pc = "find" /\ wk'[p].to = Head(inbox[p]).to
        /\ inbox'[p] = Tail(inbox[p])
    BY <1>1 DEF Take, TInv, TypeOK
  <2>3. PICK k \in DOMAIN inbox[p] : inbox[p][k].to = id
    BY <1>3, <2>1 DEF Clear, Doomed
  <2>4. CASE k = 1
    <3>1. wk'[p].to = id
      BY <2>1, <2>2, <2>3, <2>4
    <3>2. Doomed(p, id)'
      BY <2>2, <3>1 DEF Doomed
    <3> QED BY <1>1, <1>3, <3>2 DEF Clear
  <2>5. CASE k # 1
    <3>1. k - 1 \in DOMAIN Tail(inbox[p]) /\ Tail(inbox[p])[k - 1] = inbox[p][k]
      BY <2>1, <2>3, <2>5
    <3>2. Doomed(p, id)'
      BY <2>2, <2>3, <3>1 DEF Doomed
    <3> QED BY <1>1, <1>3, <3>2 DEF Clear
  <2> QED BY <2>4, <2>5
<1>4. CASE q = p /\ pool[p][id] = NoConn
  BY <1>1, <1>4 DEF Clear
<1> QED BY <1>1, <1>2, <1>3, <1>4

\* An entry that finds a connection in the pool closes it; one that finds none
\* may go elsewhere.
LEMMA ProcessKeeps ==
  ASSUME Untroubled, TInv, MInv, NEW p \in Pods, ProcessMessage(p),
         NEW q \in Pods, NEW id \in Clients
  PROVE  /\ UNCHANGED <<up, hb, row, pc, job>>
         /\ pool'[q][id] \in {pool[q][id], NoConn}
         /\ Clear(q, id) => Clear(q, id)'
<1>1. UNCHANGED <<up, hb, row, pc, job>>
  BY DEF ProcessMessage, IsLocal, Deliver, ForceClose, Relook, Lookup, LookupMiss,
     SourceAlive, Republish, RouterAdd, Ack, redis, conn
<1>2. pool'[q][id] \in {pool[q][id], NoConn}
  <2>1. UNCHANGED pool \/ pool' = [pool EXCEPT ![p][wk[p].to] = NoConn]
    BY DEF ProcessMessage, IsLocal, Deliver, ForceClose, Relook, Lookup, LookupMiss,
       SourceAlive, Republish, RouterAdd, Ack, local
  <2>2. pool \in [Pods -> [Clients -> Conns \cup {NoConn}]]
    BY DEF TInv, TypeOK
  <2>3. CASE UNCHANGED pool
    BY <2>3
  <2>4. CASE pool' = [pool EXCEPT ![p][wk[p].to] = NoConn]
    BY <2>2, <2>4
  <2> QED BY <2>1, <2>3, <2>4
<1>3. wk[p].pc # "idle" /\ wk[p].src \in Pods /\ wk[p].to \in Clients /\ wk[p] \in Held
  <2>1. wk[p].pc # "idle"
    BY DEF ProcessMessage, IsLocal, Deliver, ForceClose, Relook, Lookup, LookupMiss,
       SourceAlive, Republish, RouterAdd, Ack
  <2> QED BY <2>1, WorkParts DEF TInv
<1>4. \A r \in Pods \ {p} : wk'[r] = wk[r]
  BY DEF ProcessMessage, IsLocal, Deliver, ForceClose, Relook, Lookup, LookupMiss,
     SourceAlive, Republish, RouterAdd, Ack, Step, KeepPending, TInv, TypeOK
<1>5. UNCHANGED inbox \/ \E r \in Pods \cup {NoPod} : inbox' = Put(r, p)
  <2>1. wk[p].dst \in Pods \cup {NoPod}
    BY <1>3 DEF Held
  <2> QED
    BY <1>3, <2>1
       DEF ProcessMessage, IsLocal, Deliver, ForceClose, Relook, Lookup, LookupMiss,
           SourceAlive, Republish, RouterAdd, Ack, KeepPending, redis
<1> SUFFICES ASSUME Clear(q, id), pool'[q][id] # NoConn PROVE Doomed(q, id)'
  BY <1>1, <1>2 DEF Clear
<1>6. CASE \E k \in DOMAIN inbox[q] : inbox[q][k].to = id
  BY <1>3, <1>5, <1>6, PutKeeps DEF Doomed, TInv
<1>7. CASE wk[q].to = id /\ wk[q].pc \in {"find", "deliver", "race", "close"}
  <2>1. CASE q # p
    BY <1>4, <1>7, <2>1 DEF Doomed
  <2>2. CASE q = p
    <3>1. pool[p][id] # NoConn
      BY <1>2, <2>2
    <3>2. CASE ForceClose(p)
      BY <1>7, <2>2, <3>2 DEF ForceClose, TInv, TypeOK
    <3>3. CASE IsLocal(p) \/ Deliver(p)
      <4>1. /\ wk'[p].to = wk[p].to
            /\ wk'[p].pc \in {"find", "deliver", "race", "close"}
        BY <1>3, <1>7, <2>2, <3>1, <3>3 DEF IsLocal, Deliver, Step, TInv, TypeOK, Held
      <4> QED BY <1>7, <2>2, <4>1 DEF Doomed
    <3> QED
      BY <1>7, <2>2, <3>2, <3>3
         DEF ProcessMessage, Relook, Lookup, LookupMiss, SourceAlive, Republish, RouterAdd, Ack
  <2> QED BY <2>1, <2>2
<1> QED BY <1>2, <1>6, <1>7 DEF Clear, Doomed

----------------------------------------------------------------------------
(* Steps of the handlers.                                                  *)

\* What a step of the handler of c must see to: the rest is about other ids.
LEMMA HandlerMInv ==
  ASSUME TInv, MInv, UNCHANGED <<up, hb>>, NEW c \in Conns, pc[c] \in Handling,
         NEW id \in Clients, id = job[c].id,
         \A d \in Conns \ {c} : pc'[d] = pc[d] /\ job'[d] = job[d],
         pc'[c] \in Handling => job'[c].id = job[c].id,
         \A i \in Clients \ {id} : /\ row'[i] = row[i]
                                   /\ \A p \in Pods : pool'[p][i] = pool[p][i],
         \A p \in Pods, i \in Clients : Doomed(p, i) => Doomed(p, i)',
         Whole(id)', Holds(c)', \A p \in Pods : Matched(p, id)'
  PROVE  MInv'
<1>1. Quiet' /\ Alone'
  BY DEF MInv, Quiet, Alone
<1>2. \A i \in Clients : Whole(i)'
  BY DEF MInv, Whole
<1>3. \A p \in Pods, i \in Clients : Matched(p, i)'
  <2> SUFFICES ASSUME NEW p \in Pods, NEW i \in Clients \ {id} PROVE Matched(p, i)'
    OBVIOUS
  <2> QED BY DEF MInv, Matched, Clear
<1>4. ASSUME NEW d \in Conns \ {c} PROVE Holds(d)'
  <2>1. CASE pc[d] \notin Handling
    BY <2>1 DEF Holds, Handling
  <2>2. CASE pc[d] \in Handling
    <3>1. job[d].id \in Clients \ {id}
      BY <2>2, JobParts DEF MInv, Alone, TInv, Busy
    <3>2. \A p \in Pods : Clear(p, job[d].id) => Clear(p, job[d].id)'
      BY <3>1 DEF Clear
    <3>3. Holds(d)
      BY DEF MInv
    <3> QED BY <3>1, <3>2, <3>3 DEF Holds
  <2> QED BY <2>1, <2>2
<1> QED BY <1>1, <1>2, <1>3, <1>4 DEF MInv

\* What a handler step needs to know.
LEMMA HandlerKnows ==
  ASSUME TInv, PInv, MInv, NEW c \in Conns, pc[c] \in Handling
  PROVE  /\ job[c] \in Job /\ job[c].id \in Clients /\ job[c].own \in Row
         /\ job[c].kind \in {"register", "close"}
         /\ PodOf[c] \in Pods /\ row[job[c].id] \in Row
         /\ Holds(c) /\ Whole(job[c].id)
         /\ \A p \in Pods :
              /\ Matched(p, job[c].id) /\ pool[p][job[c].id] \in Conns \cup {NoConn}
              /\ pool[p][job[c].id] # NoConn => PodOf[pool[p][job[c].id]] = p
<1>1. job[c] \in Job /\ job[c] # NoJob
  BY DEF TInv, TypeOK, Busy
<1>2. /\ job[c].id \in Clients /\ job[c].own \in Row
      /\ job[c].kind \in {"register", "close"}
  BY <1>1, JobParts DEF TInv
<1> QED BY <1>1, <1>2, PodsAssumption DEF TInv, TypeOK, MInv, PInv, PoolHasReader

\* A row, when it is not the one a pool goes by, clears the pool.
LEMMA RowClears ==
  ASSUME TInv, PInv, MInv, NEW p \in Pods, NEW id \in Clients,
         row[id].pod # p
  PROVE  Clear(p, id)
<1>1. /\ pool[p][id] \in Conns \cup {NoConn} /\ row[id] \in Row
      /\ pool[p][id] # NoConn => PodOf[pool[p][id]] = p
      /\ Matched(p, id) /\ Whole(id)
  BY DEF TInv, TypeOK, PInv, PoolHasReader, MInv
<1>2. CASE pool[p][id] # NoConn /\ row[id].conn = pool[p][id]
  <2>1. row[id] # NoRow
    BY <1>1, <1>2, RowParts
  <2> QED BY <1>1, <1>2, <2>1 DEF Whole
<1> QED BY <1>1, <1>2 DEF Matched, Clear

LEMMA GetMInv ==
  ASSUME TInv, PInv, MInv, NEW c \in Conns, NEW id \in Clients,
         id = job[c].id, GetConnectedClient(c)
  PROVE  MInv'
<1>1. pc[c] = "get" /\ pc[c] \in Handling
  BY DEF GetConnectedClient, Handling
<1>2. /\ UNCHANGED <<up, hb, row, pool, inbox, wk>>
      /\ \A d \in Conns \ {c} : pc'[d] = pc[d] /\ job'[d] = job[d]
      /\ pc'[c] \in {"add", "alive", "evict", "touch"}
  BY DEF GetConnectedClient, Goto, Return, redis, local, TInv, TypeOK
<1>3. \A q \in Pods, i \in Clients : Doomed(q, i)' = Doomed(q, i) /\ Clear(q, i)' = Clear(q, i)
  BY <1>2 DEF Doomed, Clear
<1>4. Whole(id)' /\ \A p \in Pods : Matched(p, id)'
  BY <1>1, <1>2, <1>3, HandlerKnows DEF Whole, Matched
<1>5. CASE pc'[c] = "touch"
  <2>1. Holds(c)'
    BY <1>5 DEF Holds
  <2> QED BY <1>1, <1>2, <1>3, <1>4, <1>5, <2>1, HandlerMInv DEF Handling
<1>6. CASE pc'[c] = "add"
  <2>1. row[id] = NoRow /\ UNCHANGED job
    BY <1>6 DEF GetConnectedClient, Goto, Return, TInv, TypeOK
  <2>2. \A p \in Pods : Clear(p, id)
    BY <1>1, <2>1, RowClears, HandlerKnows, PodsAssumption DEF NoRow
  <2>3. Holds(c)'
    BY <1>1, <1>3, <1>6, <2>1, <2>2, HandlerKnows DEF Holds
  <2> QED BY <1>1, <1>2, <1>3, <1>4, <2>1, <2>3, HandlerMInv
<1>7. CASE pc'[c] \in {"alive", "evict"}
  <2>1. job'[c] = [job[c] EXCEPT !.own = row[id]]
    BY <1>7 DEF GetConnectedClient, Goto, Return, TInv, TypeOK
  <2>2. job'[c].id = id /\ job'[c].own = row[id]
    BY <1>1, <2>1, HandlerKnows DEF Job, NoJob
  <2>3. Holds(c)'
    BY <1>2, <1>7, <2>2 DEF Holds
  <2> QED BY <1>1, <1>2, <1>3, <1>4, <2>2, <2>3, HandlerMInv
<1> QED BY <1>2, <1>5, <1>6, <1>7

LEMMA AliveMInv ==
  ASSUME Untroubled, TInv, PInv, MInv, NEW c \in Conns, NEW id \in Clients,
         id = job[c].id, CheckOwnerAlive(c)
  PROVE  MInv'
<1>1. pc[c] = "alive" /\ pc[c] \in Handling
  BY DEF CheckOwnerAlive, Handling
<1>2. hb[job[c].own.pod]
  <2>1. job[c].own \in Row /\ job[c].own # NoRow
    BY <1>1, HandlerKnows DEF TInv, Busy
  <2> QED BY <2>1, RowParts DEF MInv, Quiet
<1>3. /\ UNCHANGED <<up, hb, row, pool, inbox, wk>>
      /\ \A d \in Conns \ {c} : pc'[d] = pc[d] /\ job'[d] = job[d]
      /\ pc'[c] = "touch" \/ (pc'[c] = "evict" /\ UNCHANGED job)
  BY <1>2, NoTrouble DEF CheckOwnerAlive, Goto, Return, redis, local, TInv, TypeOK
<1>4. \A q \in Pods, i \in Clients : Doomed(q, i)' = Doomed(q, i) /\ Clear(q, i)' = Clear(q, i)
  BY <1>3 DEF Doomed, Clear
<1>5. Whole(id)' /\ \A p \in Pods : Matched(p, id)'
  BY <1>1, <1>3, <1>4, HandlerKnows DEF Whole, Matched
<1>6. Holds(c)'
  BY <1>1, <1>3, HandlerKnows DEF Holds
<1>7. pc'[c] \in Handling => job'[c].id = job[c].id
  BY <1>3 DEF Handling
<1> QED BY <1>1, <1>3, <1>4, <1>5, <1>6, <1>7, HandlerMInv

\* Every pool is clear after an eviction.
LEMMA EvictedMInv ==
  ASSUME TInv, PInv, MInv, NEW c \in Conns, pc[c] \in {"evict", "xadd"},
         NEW id \in Clients, id = job[c].id,
         UNCHANGED <<up, hb, row, job>>, Goto(c, AfterEvict(c)),
         \A i \in Clients \ {id}, p \in Pods : pool'[p][i] = pool[p][i],
         \A p \in Pods, i \in Clients : Doomed(p, i) => Doomed(p, i)',
         \A p \in Pods : Clear(p, id)'
  PROVE  MInv'
<1>1. pc[c] \in Handling
  BY DEF Handling
<1>2. /\ pc'[c] \in {"add", "remove"} /\ \A d \in Conns \ {c} : pc'[d] = pc[d]
  BY DEF Goto, AfterEvict, TInv, TypeOK
<1>3. Holds(c)'
  BY <1>1, <1>2, HandlerKnows DEF Holds
<1>4. Whole(id)' /\ \A p \in Pods : Matched(p, id)'
  BY <1>1, HandlerKnows DEF Whole, Matched
<1> QED BY <1>1, <1>2, <1>3, <1>4, HandlerMInv

LEMMA EvictLocalMInv ==
  ASSUME TInv, PInv, MInv, NEW c \in Conns, NEW id \in Clients,
         id = job[c].id, EvictLocal(c)
  PROVE  MInv'
<1> DEFINE p == PodOf[c]
<1>1. pc[c] = "evict" /\ pc[c] \in Handling
  BY DEF EvictLocal, Handling
<1>2. id \in Clients /\ p \in Pods /\ pool \in [Pods -> [Clients -> Conns \cup {NoConn}]]
  BY <1>1, HandlerKnows DEF TInv, TypeOK
<1>3. /\ UNCHANGED <<up, hb, row, job, inbox, wk>> /\ Goto(c, AfterEvict(c))
      /\ job[c].own.pod = p
  BY DEF EvictLocal, redis
<1>4. /\ pool'[p][id] = NoConn
      /\ \A q \in Pods, i \in Clients : q # p \/ i # id => pool'[q][i] = pool[q][i]
  <2>1. CASE pool[p][id] = NoConn
    BY <2>1 DEF EvictLocal, local
  <2>2. CASE pool[p][id] # NoConn
    <3>1. pool' = [pool EXCEPT ![p][id] = NoConn]
      BY <2>2 DEF EvictLocal
    <3> QED BY <1>2, <3>1
  <2> QED BY <2>1, <2>2
<1>5. \A q \in Pods, i \in Clients : Doomed(q, i)' = Doomed(q, i)
  BY <1>3 DEF Doomed
<1>6. ASSUME NEW q \in Pods PROVE Clear(q, id)'
  <2>1. CASE q = p
    BY <1>4, <2>1 DEF Clear
  <2>2. CASE q # p
    <3>1. row[id].pod # q
      BY <1>1, <1>3, <2>2, HandlerKnows, PodsAssumption DEF Holds, NoRow
    <3>2. Clear(q, id)
      BY <1>2, <3>1, RowClears
    <3> QED BY <1>2, <1>4, <1>5, <2>2, <3>2 DEF Clear
  <2> QED BY <2>1, <2>2
<1> QED BY <1>1, <1>2, <1>3, <1>4, <1>5, <1>6, EvictedMInv

LEMMA EvictLookupMInv ==
  ASSUME TInv, PInv, MInv, NEW c \in Conns, NEW id \in Clients,
         id = job[c].id, EvictLookup(c)
  PROVE  MInv'
<1>1. pc[c] = "evict" /\ pc[c] \in Handling
  BY DEF EvictLookup, Handling
<1>2. UNCHANGED <<up, hb, row, pool, inbox, wk>>
  BY DEF EvictLookup, redis, local
<1>3. \A q \in Pods, i \in Clients : Doomed(q, i)' = Doomed(q, i) /\ Clear(q, i)' = Clear(q, i)
  BY <1>2 DEF Doomed, Clear
<1>4. CASE row[id].pod = NoPod
  <2>1. Goto(c, AfterEvict(c)) /\ UNCHANGED job
    BY <1>4 DEF EvictLookup
  <2>2. \A p \in Pods : Clear(p, id)
    BY <1>1, <1>4, RowClears, HandlerKnows, PodsAssumption
  <2> QED BY <1>1, <1>2, <1>3, <2>1, <2>2, HandlerKnows, EvictedMInv
<1>5. CASE row[id].pod # NoPod
  <2>1. /\ pc'[c] = "xadd" /\ job'[c] = [job[c] EXCEPT !.dst = row[id].pod]
        /\ \A d \in Conns \ {c} : pc'[d] = pc[d] /\ job'[d] = job[d]
    BY <1>5 DEF EvictLookup, Goto, TInv, TypeOK
  <2>2. job'[c].id = id /\ job'[c].own = job[c].own /\ job'[c].dst = row[id].pod
    BY <1>1, <2>1, HandlerKnows DEF Job, NoJob
  <2>3. \A p \in Pods : Clear(p, id) \/ p = row[id].pod
    BY <1>1, RowClears, HandlerKnows
  <2>4. row[id] \in {NoRow, job[c].own} /\ id \in Clients
    BY <1>1, HandlerKnows DEF Holds
  <2>5. Holds(c)'
    BY <1>2, <1>3, <2>1, <2>2, <2>3, <2>4 DEF Holds
  <2>6. Whole(id)' /\ \A p \in Pods : Matched(p, id)'
    BY <1>1, <1>2, <1>3, HandlerKnows DEF Whole, Matched
  <2> QED BY <1>1, <1>2, <1>3, <2>1, <2>2, <2>5, <2>6, HandlerMInv
<1> QED BY <1>4, <1>5

LEMMA EvictPublishMInv ==
  ASSUME TInv, PInv, MInv, NEW c \in Conns, NEW id \in Clients,
         id = job[c].id, EvictPublish(c)
  PROVE  MInv'
<1> DEFINE e == [to |-> id, target |-> job[c].own.conn]
           s == job[c].dst
<1>1. pc[c] = "xadd" /\ pc[c] \in Handling
  BY DEF EvictPublish, Handling
<1>2. id \in Clients /\ e \in Entry /\ Holds(c)
  <2>1. job[c].own \in Row /\ job[c].own # NoRow
    BY <1>1, HandlerKnows DEF TInv, Busy
  <2> QED BY <1>1, <2>1, RowParts, HandlerKnows DEF Entry
<1>3. /\ UNCHANGED <<up, hb, row, job, pool, wk>> /\ Goto(c, AfterEvict(c))
      /\ inbox' = [inbox EXCEPT ![s] = Append(@, e)]
  BY DEF EvictPublish, local
<1>4. ASSUME NEW q \in Pods, NEW i \in Clients, Doomed(q, i) PROVE Doomed(q, i)'
  <2>1. CASE wk[q].to = i /\ wk[q].pc \in {"find", "deliver", "race", "close"}
    BY <1>3, <2>1 DEF Doomed
  <2>2. CASE \E k \in DOMAIN inbox[q] : inbox[q][k].to = i
    <3>1. PICK k \in DOMAIN inbox[q] : inbox[q][k].to = i
      BY <2>2
    <3>2. inbox[q] \in Seq(Entry) /\ inbox'[q] \in {inbox[q], Append(inbox[q], e)}
      BY <1>3 DEF TInv, TypeOK
    <3>3. k \in DOMAIN Append(inbox[q], e) /\ Append(inbox[q], e)[k] = inbox[q][k]
      BY <1>2, <3>1, <3>2, AppendProperties
    <3> QED BY <3>1, <3>2, <3>3 DEF Doomed
  <2> QED BY <1>4, <2>1, <2>2 DEF Doomed
<1>5. ASSUME NEW q \in Pods PROVE Clear(q, id)'
  <2>1. CASE Clear(q, id)
    BY <1>2, <1>3, <1>4, <2>1 DEF Clear
  <2>2. CASE q = s
    <3>1. inbox[q] \in Seq(Entry) /\ inbox'[q] = Append(inbox[q], e)
      BY <1>3, <2>2 DEF TInv, TypeOK
    <3>2. LET n == Len(inbox[q]) + 1 IN n \in DOMAIN inbox'[q] /\ inbox'[q][n] = e
      BY <1>2, <3>1, AppendProperties
    <3> QED BY <3>2 DEF Clear, Doomed
  <2> QED BY <1>1, <1>2, <2>1, <2>2 DEF Holds
<1> QED BY <1>1, <1>2, <1>3, <1>4, <1>5, EvictedMInv

\* The new row takes over from the old: no pool goes by it any more.
LEMMA AddMInv ==
  ASSUME TInv, PInv, MInv, NEW c \in Conns, NEW id \in Clients,
         id = job[c].id, AddConnectedClient(c)
  PROVE  MInv'
<1>1. pc[c] = "add" /\ pc[c] \in Handling
  BY DEF AddConnectedClient, Handling
<1>2. /\ UNCHANGED <<up, hb, pool, inbox, wk, job>> /\ pc'[c] = "pool"
      /\ \A d \in Conns \ {c} : pc'[d] = pc[d]
      /\ row' = [row EXCEPT ![id] = [pod |-> PodOf[c], conn |-> c, token |-> job[c].token]]
  BY DEF AddConnectedClient, Goto, local, TInv, TypeOK
<1>3. /\ row'[id].pod = PodOf[c] /\ row'[id].conn = c
      /\ \A i \in Clients \ {id} : row'[i] = row[i]
  BY <1>1, <1>2, HandlerKnows DEF TInv, TypeOK
<1>4. \A q \in Pods, i \in Clients : Doomed(q, i)' = Doomed(q, i) /\ Clear(q, i)' = Clear(q, i)
  BY <1>2 DEF Doomed, Clear
<1>5. Holds(c)' /\ Whole(id)'
  BY <1>1, <1>2, <1>3, <1>4, HandlerKnows DEF Holds, Whole
<1>6. \A p \in Pods : Matched(p, id)'
  BY <1>1, <1>2, <1>4, HandlerKnows DEF Holds, Matched
<1> QED BY <1>1, <1>2, <1>3, <1>4, <1>5, <1>6, HandlerMInv

LEMMA PoolMInv ==
  ASSUME TInv, PInv, MInv, NEW c \in Conns, NEW id \in Clients,
         id = job[c].id, PoolRegister(c)
  PROVE  MInv'
<1>1. pc[c] = "pool" /\ pc[c] \in Handling
  BY DEF PoolRegister, Handling
<1>2. /\ UNCHANGED <<up, hb, row, inbox, wk, job>> /\ pc'[c] = "trigger"
      /\ \A d \in Conns \ {c} : pc'[d] = pc[d]
      /\ pool' = [pool EXCEPT ![PodOf[c]][id] = c]
  BY DEF PoolRegister, Goto, redis, TInv, TypeOK
<1>3. \A q \in Pods, i \in Clients :
        pool'[q][i] = IF q = PodOf[c] /\ i = id THEN c ELSE pool[q][i]
  BY <1>1, <1>2, HandlerKnows DEF TInv, TypeOK
<1>4. \A q \in Pods, i \in Clients : Doomed(q, i)' = Doomed(q, i)
  BY <1>2 DEF Doomed
<1>5. Holds(c)' /\ Whole(id)'
  BY <1>1, <1>2, HandlerKnows DEF Holds, Whole
<1>6. \A p \in Pods : Matched(p, id)'
  BY <1>1, <1>2, <1>3, <1>4, HandlerKnows DEF Holds, Matched, Clear
<1> QED BY <1>1, <1>2, <1>3, <1>4, <1>5, <1>6, HandlerMInv

LEMMA FinishMInv ==
  ASSUME TInv, PInv, MInv, NEW c \in Conns, NEW id \in Clients,
         id = job[c].id, SetupFails(c) \/ FinishRegister(c) \/ CloseRemove(c)
  PROVE  MInv'
<1>1. pc[c] \in {"add", "trigger", "remove"} /\ pc[c] \in Handling
  BY DEF SetupFails, FinishRegister, CloseRemove, Handling
<1>2. /\ UNCHANGED <<up, hb, inbox, wk, pool>> /\ pc'[c] = "touch"
      /\ \A d \in Conns \ {c} : pc'[d] = pc[d] /\ job'[d] = job[d]
  BY DEF SetupFails, FinishRegister, CloseRemove, Return, Goto, redis, local, TInv, TypeOK
<1>3. \A q \in Pods, i \in Clients : Doomed(q, i)' = Doomed(q, i) /\ Clear(q, i)' = Clear(q, i)
  BY <1>2 DEF Doomed, Clear
<1>4. /\ row'[id] = row[id] \/ (row'[id] = NoRow /\ pc[c] = "remove")
      /\ \A i \in Clients \ {id} : row'[i] = row[i]
  BY <1>1, HandlerKnows
     DEF SetupFails, FinishRegister, CloseRemove, RemoveConnectedClientIf, RowIf, redis, TInv,
         TypeOK
<1>5. Holds(c)' /\ Whole(id)'
  BY <1>1, <1>2, <1>4, HandlerKnows DEF Holds, Whole
<1>6. \A p \in Pods : Matched(p, id)'
  BY <1>1, <1>2, <1>3, <1>4, HandlerKnows DEF Holds, Matched
<1>7. pc'[c] \notin Handling
  BY <1>2 DEF Handling
<1> QED BY <1>1, <1>2, <1>3, <1>4, <1>5, <1>6, <1>7, HandlerMInv

----------------------------------------------------------------------------
(* The invariant holds.                                                    *)

LEMMA ReaderMInv ==
  ASSUME Untroubled, TInv, PInv, MInv, NEW c \in Conns,
         Connect(c) \/ Disconnect(c) \/ OtherFrame(c) \/ Touch(c) \/ ReadEnd(c) \/ RemoveOwnRow(c)
  PROVE  MInv'
<1>1. /\ UNCHANGED <<up, hb, inbox, wk, job>>
      /\ pc'[c] = pc[c] \/ pc'[c] \notin Handling
      /\ \A d \in Conns \ {c} : pc'[d] = pc[d]
  BY DEF Connect, Disconnect, OtherFrame, Touch, ReadEnd, RemoveOwnRow, Goto, Handling, redis,
     conn, TInv, TypeOK
<1>2. ASSUME NEW p \in Pods, NEW id \in Clients
      PROVE  /\ pool'[p][id] \in {pool[p][id], NoConn}
             /\ Clear(p, id) => Clear(p, id)'
  <2>1. \/ UNCHANGED pool
        \/ pool' = [pool EXCEPT ![PodOf[c]][cid[c]] = NoConn]
    BY DEF Connect, Disconnect, OtherFrame, Touch, ReadEnd, RemoveOwnRow, local
  <2>2. pool \in [Pods -> [Clients -> Conns \cup {NoConn}]]
    BY DEF TInv, TypeOK
  <2>3. pool'[p][id] \in {pool[p][id], NoConn}
    <3>1. CASE UNCHANGED pool
      BY <3>1
    <3>2. CASE pool' = [pool EXCEPT ![PodOf[c]][cid[c]] = NoConn]
      BY <2>2, <3>2
    <3> QED BY <2>1, <3>1, <3>2
  <2> QED BY <1>1, <2>3 DEF Clear, Doomed
<1>3. ASSUME NEW id \in Clients
      PROVE  \/ row'[id] = row[id]
             \/ /\ row'[id] = NoRow /\ pc[row[id].conn] \notin Handling
                /\ \A p \in Pods : pool'[p][id] \in {NoConn} \cup (Conns \ {row[id].conn})
  <2>1. CASE RemoveOwnRow(c)
    <3>1. UNCHANGED pool /\ pc[c] = "row"
      BY <2>1 DEF RemoveOwnRow
    <3>2. row'[id] = row[id] \/ (row'[id] = NoRow /\ row[id].conn = c)
      BY <2>1 DEF RemoveOwnRow, RemoveConnectedClientIf, RowIf, TInv, TypeOK
    <3>3. \A p \in Pods : pool[p][id] \in {NoConn} \cup (Conns \ {c})
      BY <3>1, PodsAssumption DEF PInv, PoolHasReader, TInv, TypeOK
    <3> QED BY <3>1, <3>2, <3>3 DEF Handling
  <2>2. CASE ~RemoveOwnRow(c)
    BY <2>2 DEF Connect, Disconnect, OtherFrame, Touch, ReadEnd, redis
  <2> QED BY <2>1, <2>2
<1> QED BY <1>1, <1>2, <1>3, ElsewhereMInv

LEMMA FrameMInv ==
  ASSUME Untroubled, TInv, MInv, NEW c \in Conns, NEW kind \in {"register", "close"},
         NEW id \in Clients, NEW token \in Tokens \cup {NoToken}, Frame(c, kind, id, token)
  PROVE  MInv'
<1>1. /\ UNCHANGED <<up, hb, row, pool, inbox, wk>> /\ Serial(c, id)
      /\ pc'[c] = "get" /\ job'[c].id = id
      /\ \A d \in Conns \ {c} : pc'[d] = pc[d] /\ job'[d] = job[d]
  BY DEF Frame, Goto, redis, local, Untroubled, TInv, TypeOK
<1>2. Quiet' /\ \A i \in Clients : Whole(i)'
  BY <1>1 DEF MInv, Quiet, Whole
<1>3. \A q \in Pods, i \in Clients : Clear(q, i)' = Clear(q, i) /\ Matched(q, i)' = Matched(q, i)
  BY <1>1 DEF Doomed, Clear, Matched
<1>4. Alone'
  BY <1>1 DEF MInv, Alone, Serial
<1>5. ASSUME NEW d \in Conns PROVE Holds(d)'
  <2>1. CASE pc'[d] = "get"
    BY <2>1 DEF Holds
  <2>2. CASE pc'[d] # "get" /\ pc[d] \in Handling
    <3>1. pc'[d] = pc[d] /\ job'[d] = job[d] /\ job[d].id \in Clients /\ Holds(d)
      BY <1>1, <2>2, JobParts DEF TInv, Busy, MInv
    <3> QED BY <1>1, <1>3, <3>1 DEF Holds
  <2>3. CASE pc'[d] # "get" /\ pc[d] \notin Handling
    BY <1>1, <2>3 DEF Holds, Handling
  <2> QED BY <2>1, <2>2, <2>3
<1> QED BY <1>2, <1>3, <1>4, <1>5 DEF MInv

LEMMA MInvStep ==
  Untroubled /\ TInv /\ PInv /\ MInv /\ [Next]_vars => MInv'
<1> SUFFICES ASSUME Untroubled, TInv, PInv, MInv, [Next]_vars PROVE MInv'
  OBVIOUS
<1>1. ASSUME UNCHANGED vars \/ (\E p \in Pods : Heartbeat(p)) \/ \E id \in Clients : Age(id)
      PROVE  MInv'
  <2>1. UNCHANGED <<up, row, inbox, pool, wk, pc, job>> /\ \A p \in Pods : ~Heartbeat(p)
    BY <1>1 DEF vars, redis, local, conn, Heartbeat, Age, MInv, Quiet
  <2>2. UNCHANGED hb
    BY <1>1, <2>1 DEF vars, redis, Age
  <2>3. \A p \in Pods, id \in Clients : Clear(p, id)' = Clear(p, id)
    BY <2>1 DEF Clear, Doomed
  <2> QED BY <2>1, <2>2, <2>3, ElsewhereMInv
<1>2. ASSUME NEW p \in Pods, Router(p) PROVE MInv'
  <2>1. CASE ProcessMessage(p)
    <3>1. \A q \in Pods, id \in Clients : /\ pool'[q][id] \in {pool[q][id], NoConn}
                                          /\ Clear(q, id) => Clear(q, id)'
      BY <2>1, ProcessKeeps
    <3>2. UNCHANGED <<up, hb, row, pc, job>>
      BY <2>1 DEF ProcessMessage, IsLocal, Deliver, ForceClose, Relook, Lookup, LookupMiss,
         SourceAlive, Republish, RouterAdd, Ack, redis, conn
    <3> QED BY <3>1, <3>2, ElsewhereMInv
  <2>2. ASSUME NEW s \in Pods, Take(p, s) PROVE MInv'
    <3>1. \A q \in Pods, id \in Clients : Clear(q, id) => Clear(q, id)'
      BY <2>2, TakeKeeps
    <3>2. UNCHANGED <<up, hb, row, pool, pc, job>>
      BY <2>2 DEF Take, local, conn
    <3> QED BY <3>1, <3>2, ElsewhereMInv
  <2> QED BY <1>2, <2>1, <2>2 DEF Router
<1>3. ASSUME NEW c \in Conns, Handler(c) PROVE MInv'
  <2>1. PICK id \in Clients : id = job[c].id
    <3>1. pc[c] \in Handling
      BY <1>3 DEF Handler, GetConnectedClient, CheckOwnerAlive, RemoveDeadRow, ForgetDeadSeen,
         EvictLocal, EvictLookup, EvictPublish, SetupFails, AddConnectedClient,
         PoolRegister, FinishRegister, CloseRemove, HandlerFails, Handling
    <3> QED BY <3>1, HandlerKnows
  <2> QED BY <1>3, <2>1, NoTrouble, GetMInv, AliveMInv, EvictLocalMInv, EvictLookupMInv, EvictPublishMInv,
     AddMInv, PoolMInv, FinishMInv DEF Handler
<1> QED BY <1>1, <1>2, <1>3, NoTrouble, ReaderMInv, FrameMInv DEF Next, Reader

LEMMA MInvHolds ==
  ASSUME Untroubled PROVE Spec => [](TInv /\ PInv /\ MInv)
<1>1. Init => TInv /\ PInv /\ MInv
  BY InitTInv, InitPInv, InitMInv
<1>2. TInv /\ PInv /\ MInv /\ [Next]_vars => (TInv /\ PInv /\ MInv)'
  BY TInvStep, PInvStep, MInvStep DEF Untroubled
<1> QED BY <1>1, <1>2, PTL DEF Spec

LEMMA SettledMatches ==
  ASSUME TInv, MInv, NEW p \in Pods, NEW id \in Clients, Settled(id), pool[p][id] # NoConn
  PROVE  row[id].conn = pool[p][id]
<1>1. ~Doomed(p, id)
  BY DEF Settled, Doomed
<1> QED BY <1>1 DEF MInv, Matched, Clear

\* Once settled, the row of a served id names the connection that serves it, and
\* messages go there, after any number of registrations and ends on any pods.
THEOREM MatchSafe ==
  ASSUME Untroubled
  PROVE  Spec => []RowMatchesPool
<1>1. TInv /\ MInv => RowMatchesPool
  BY SettledMatches DEF RowMatchesPool
<1> QED BY <1>1, MInvHolds, PTL

\* After a takeover one session is left: no two pods serve an id once everything
\* about it has settled.
THEOREM TakeoverSafe ==
  ASSUME Untroubled
  PROVE  Spec => []OneLive
<1>1. TInv /\ PInv /\ MInv => OneLive
  BY SettledMatches DEF OneLive, PInv, PoolHasReader
<1> QED BY <1>1, MInvHolds, PTL

----------------------------------------------------------------------------
(* Session implements Ownership.                                           *)

\* What the variables of Ownership are in a state of Session.
Who    == [id \in Clients |-> row[id].conn]
Key    == [id \in Clients |-> row[id].token]
Enters == [id \in Clients |-> Entering(id)]
Serves == [id \in Clients |-> Serving(id)]
Mapped == <<Who, Key, Enters, Serves>>

\* Only the connection that the row names is served, or about to be.
LEMMA OnlyOwner ==
  ASSUME TInv, PInv, MInv, NEW id \in Clients
  PROVE  /\ Serving(id) \subseteq {row[id].conn}
         /\ (\A p \in Pods : Clear(p, id)) <=> Serving(id) = {}
         /\ \A c \in Serving(id) : c \in Conns /\ pc[c] \notin {"off", "row", "gone"}
         /\ \A c \in Entering(id) : /\ Entering(id) = {c} /\ row[id].conn = c
                                    /\ Serving(id) = {}
<1>1. \A p \in Pods : Clear(p, id) \/ pool[p][id] = row[id].conn
  BY DEF MInv, Matched
<1>2. (\A p \in Pods : Clear(p, id)) <=> Serving(id) = {}
  BY DEF Serving
<1>3. ASSUME NEW c \in Serving(id) PROVE c \in Conns /\ pc[c] \notin {"off", "row", "gone"}
  <2>1. PICK p \in Pods : c = pool[p][id] /\ ~Clear(p, id)
    BY <1>3 DEF Serving
  <2> QED BY <2>1 DEF Clear, PInv, PoolHasReader, TInv, TypeOK
<1>4. ASSUME NEW c \in Entering(id)
      PROVE  Entering(id) = {c} /\ row[id].conn = c /\ Serving(id) = {}
  <2>1. c \in Conns /\ pc[c] = "pool" /\ job[c].id = id
    BY <1>4 DEF Entering
  <2>2. \A d \in Entering(id) : d = c
    BY <2>1 DEF Entering, MInv, Alone, Handling
  <2>3. row[id].conn = c /\ \A p \in Pods : Clear(p, id)
    BY <2>1 DEF MInv, Holds
  <2> QED BY <1>2, <2>2, <2>3
<1> QED BY <1>1, <1>2, <1>3, <1>4 DEF Serving

\* A step is about one id.
LEMMA OneMapped ==
  ASSUME NEW id \in Clients,
         \A i \in Clients \ {id} : /\ row'[i] = row[i]
                                   /\ Entering(i)' = Entering(i) /\ Serving(i)' = Serving(i)
  PROVE  /\ Who' = [Who EXCEPT ![id] = row'[id].conn]
         /\ Key' = [Key EXCEPT ![id] = row'[id].token]
         /\ Enters' = [Enters EXCEPT ![id] = Entering(id)']
         /\ Serves' = [Serves EXCEPT ![id] = Serving(id)']
         /\ row'[id] = row[id] => UNCHANGED <<Who, Key>>
         /\ Entering(id)' = Entering(id) => UNCHANGED Enters
         /\ Serving(id)' = Serving(id) => UNCHANGED Serves
         /\ Who[id] = row[id].conn /\ Key[id] = row[id].token
         /\ Enters[id] = Entering(id) /\ Serves[id] = Serving(id)
<1>1. Who' = [Who EXCEPT ![id] = row'[id].conn] /\ Who[id] = row[id].conn
  BY DEF Who
<1>2. Key' = [Key EXCEPT ![id] = row'[id].token] /\ Key[id] = row[id].token
  BY DEF Key
<1>3. Enters' = [Enters EXCEPT ![id] = Entering(id)'] /\ Enters[id] = Entering(id)
  BY DEF Enters
<1>4. Serves' = [Serves EXCEPT ![id] = Serving(id)'] /\ Serves[id] = Serving(id)
  BY DEF Serves
<1>5. row'[id] = row[id] => UNCHANGED <<Who, Key>>
  BY DEF Who, Key
<1>6. Entering(id)' = Entering(id) => UNCHANGED Enters
  BY DEF Enters
<1>7. Serving(id)' = Serving(id) => UNCHANGED Serves
  BY DEF Serves
<1> QED BY <1>1, <1>2, <1>3, <1>4, <1>5, <1>6, <1>7

\* A step that takes sessions of one id out of the pools, or dooms them.
LEMMA Leaving ==
  ASSUME TInv, PInv, MInv, MInv', PInv', TInv', UNCHANGED row, NEW id \in Clients,
         \A i \in Clients : Entering(i)' = Entering(i),
         \A p \in Pods, i \in Clients : /\ pool'[p][i] \in {pool[p][i], NoConn}
                                        /\ Clear(p, i) => Clear(p, i)',
         \A p \in Pods, i \in Clients \ {id} : Clear(p, i)' => Clear(p, i)
  PROVE  [Owners!Next]_Mapped
<1>1. \A i \in Clients \ {id} : Serving(i)' = Serving(i)
  <2> SUFFICES ASSUME NEW i \in Clients \ {id} PROVE Serving(i)' = Serving(i)
    OBVIOUS
  <2>1. \A p \in Pods : /\ Clear(p, i)' <=> Clear(p, i)
                        /\ ~Clear(p, i)' => pool'[p][i] = pool[p][i]
    BY DEF Clear
  <2> QED BY <2>1 DEF Serving
<1>2. Serving(id)' \subseteq Serving(id)
  <2>1. \A p \in Pods : ~Clear(p, id)' => ~Clear(p, id) /\ pool'[p][id] = pool[p][id]
    BY DEF Clear
  <2> QED BY <2>1 DEF Serving
<1>3. CASE Serving(id)' = Serving(id)
  BY <1>1, <1>3, OneMapped DEF Mapped
<1>4. CASE Serving(id)' # Serving(id)
  <2>1. Serving(id)' = {} /\ Serving(id) # {} /\ Entering(id) = {}
    <3>1. Serving(id) \subseteq {row[id].conn} /\ \A c \in Entering(id) : Serving(id) = {}
      BY OnlyOwner
    <3> HIDE DEF Serving
    <3> QED BY <1>2, <1>4, <3>1
  <2>2. UNCHANGED <<Who, Key>> /\ Enters' = [Enters EXCEPT ![id] = {}]
        /\ Serves' = [Serves EXCEPT ![id] = {}] /\ Serves[id] # {}
    BY <1>1, <2>1, OneMapped
  <2>3. Owners!Leave(id)
    BY <2>2 DEF Owners!Leave, Owners!Nobody, Who, Key, Enters, Serves
  <2> QED BY <2>3 DEF Owners!Next
<1> QED BY <1>3, <1>4

\* A step that removes the row of an id under which nobody is served.
LEMMA Releasing ==
  ASSUME TInv, NEW id \in Clients, Serving(id) = {}, Entering(id) = {},
         row'[id] \in {row[id], NoRow}, \A i \in Clients \ {id} : row'[i] = row[i],
         \A i \in Clients : Entering(i)' = Entering(i) /\ Serving(i)' = Serving(i)
  PROVE  [Owners!Next]_Mapped
<1>1. CASE row'[id] = row[id]
  BY <1>1, OneMapped DEF Mapped
<1>2. CASE row'[id] # row[id]
  <2>1. row'[id] = NoRow /\ row[id].conn # NoConn
    BY <1>2, RowParts DEF TInv, TypeOK
  <2>2. /\ Who' = [Who EXCEPT ![id] = NoConn] /\ Key' = [Key EXCEPT ![id] = NoToken]
        /\ UNCHANGED <<Enters, Serves>> /\ Who[id] # NoConn
        /\ Enters[id] = {} /\ Serves[id] = {}
    BY <2>1, OneMapped DEF NoRow
  <2>3. Owners!Release(id)
    BY <2>2 DEF Owners!Release, Owners!Nobody, Who, Key, Enters, Serves
  <2> QED BY <2>3 DEF Owners!Next
<1> QED BY <1>1, <1>2

\* The row is written once the sessions before it are out of their pools, or as
\* good as: Holds; and the token was compared: Fits.
LEMMA Claiming ==
  ASSUME TInv, PInv, MInv, KInv, NEW c \in Conns, AddConnectedClient(c),
         NEW id, id = job[c].id, NEW t, t = job[c].token
  PROVE  Owners!Next
<1>1. pc[c] = "add" /\ pc[c] \in Handling
  BY DEF AddConnectedClient, Handling
<1>2. id \in Clients /\ t \in Tokens \cup {NoToken} /\ job[c].kind = "register"
  BY <1>1, JobParts, HandlerKnows DEF TInv, TypeOK, Busy, Job
<1>3. /\ UNCHANGED <<pool, inbox, wk, job>> /\ pc' = [pc EXCEPT ![c] = "pool"]
      /\ row' = [row EXCEPT ![id] = [pod |-> PodOf[c], conn |-> c, token |-> t]]
  BY DEF AddConnectedClient, Goto, local
<1>4. row'[id].conn = c /\ row'[id].token = t /\ \A i \in Clients \ {id} : row'[i] = row[i]
  BY <1>2, <1>3 DEF TInv, TypeOK
<1>5. \A i \in Clients : Serving(i)' = Serving(i)
  BY <1>3 DEF Serving, Clear, Doomed
<1>6. Serving(id) = {} /\ Entering(id) = {}
  <2>1. \A p \in Pods : Clear(p, id)
    BY <1>1, HandlerKnows DEF Holds
  <2>2. \A d \in Conns : pc[d] = "pool" => job[d].id # id
    BY <1>1 DEF MInv, Alone, Handling
  <2> QED BY <1>2, <2>1, <2>2, OnlyOwner DEF Entering
<1>7. \A d \in Conns : pc'[d] = IF d = c THEN "pool" ELSE pc[d]
  BY <1>3 DEF TInv, TypeOK
<1>8. Entering(id)' = {c} /\ \A i \in Clients \ {id} : Entering(i)' = Entering(i)
  BY <1>1, <1>3, <1>6, <1>7 DEF Entering
<1>9. row[id].token \in {NoToken, t}
  BY <1>1, <1>2, <1>3 DEF KInv, Fits, NoRow
<1>10. /\ Who' = [Who EXCEPT ![id] = c] /\ Key' = [Key EXCEPT ![id] = t]
       /\ Enters' = [Enters EXCEPT ![id] = {c}] /\ UNCHANGED Serves
       /\ Key[id] \in {NoToken, t} /\ Enters[id] = {} /\ Serves[id] = {}
  BY <1>2, <1>4, <1>5, <1>6, <1>8, <1>9, OneMapped
<1>11. Owners!Claim(c, id, t)
  BY <1>10 DEF Owners!Claim, Owners!Nobody, Who, Key, Enters, Serves
<1> QED BY <1>2, <1>11 DEF Owners!Next

\* The pool takes the connection in; a force_close that is still under way to its
\* pod ends it at once.
LEMMA Entered ==
  ASSUME TInv, PInv, MInv, NEW c \in Conns, PoolRegister(c), NEW id, id = job[c].id
  PROVE  Owners!Next
<1> DEFINE p == PodOf[c]
<1>1. pc[c] = "pool" /\ pc[c] \in Handling
  BY DEF PoolRegister, Handling
<1>2. id \in Clients /\ p \in Pods /\ c # NoConn
  BY <1>1, HandlerKnows, PodsAssumption
<1>3. /\ UNCHANGED <<row, inbox, wk, job>> /\ pc' = [pc EXCEPT ![c] = "trigger"]
      /\ pool' = [pool EXCEPT ![p][id] = c]
  BY DEF PoolRegister, Goto, redis
<1>4. \A q \in Pods, i \in Clients :
        pool'[q][i] = IF q = p /\ i = id THEN c ELSE pool[q][i]
  BY <1>2, <1>3 DEF TInv, TypeOK
<1>5. \A q \in Pods, i \in Clients : Doomed(q, i)' = Doomed(q, i)
  BY <1>3 DEF Doomed
<1>6. Entering(id) = {c} /\ row[id].conn = c /\ \A q \in Pods : Clear(q, id)
  BY <1>1, <1>2, OnlyOwner DEF Entering
<1>7. \A d \in Conns : pc'[d] = IF d = c THEN "trigger" ELSE pc[d]
  BY <1>3 DEF TInv, TypeOK
<1>8. Entering(id)' = {} /\ \A i \in Clients \ {id} : Entering(i)' = Entering(i)
  BY <1>3, <1>6, <1>7 DEF Entering
<1>9. \A i \in Clients \ {id} : Serving(i)' = Serving(i)
  BY <1>4, <1>5 DEF Serving, Clear
<1>10. Serving(id) = {}
  BY <1>2, <1>6, OnlyOwner
<1>11. Serving(id)' = IF Doomed(p, id) THEN {} ELSE {c}
  <2>1. \A q \in Pods : Clear(q, id)' <=> q # p \/ Doomed(p, id)
    BY <1>2, <1>4, <1>5, <1>6 DEF Clear
  <2>2. pool'[p][id] = c
    BY <1>2, <1>4
  <2> QED BY <1>2, <2>1, <2>2 DEF Serving
<1>12. /\ UNCHANGED <<Who, Key>> /\ Enters' = [Enters EXCEPT ![id] = {}]
       /\ Serves' = [Serves EXCEPT ![id] = Serving(id)']
       /\ Who[id] = c /\ Enters[id] = {c} /\ Serves[id] = {}
  BY <1>2, <1>3, <1>6, <1>8, <1>9, <1>10, OneMapped
<1>13. CASE Doomed(p, id)
  <2>1. Owners!Leave(id)
    BY <1>11, <1>12, <1>13 DEF Owners!Leave, Owners!Nobody, Who, Key, Enters, Serves
  <2> QED BY <1>2, <2>1 DEF Owners!Next
<1>14. CASE ~Doomed(p, id)
  <2>1. Owners!Serve(id)
    BY <1>11, <1>12, <1>14 DEF Owners!Serve, Who, Key, Enters, Serves
  <2> QED BY <1>2, <2>1 DEF Owners!Next
<1> QED BY <1>13, <1>14

\* Steps that leave rows, pools and streams alone, and let no handler come to its
\* pool or leave it.
LEMMA Unmoved ==
  ASSUME UNCHANGED <<row, pool, inbox, wk>>,
         \A d \in Conns : /\ pc'[d] = "pool" <=> pc[d] = "pool"
                          /\ pc[d] = "pool" => job'[d] = job[d]
  PROVE  UNCHANGED Mapped
<1>1. \A id \in Clients : Entering(id)' = Entering(id)
  BY DEF Entering
<1>2. \A id \in Clients : Serving(id)' = Serving(id)
  BY DEF Serving, Clear, Doomed
<1> QED BY <1>1, <1>2 DEF Mapped, Who, Key, Enters, Serves

LEMMA IdleMapped ==
  ASSUME Untroubled, TInv, MInv,
         \/ UNCHANGED vars \/ (\E p \in Pods : Heartbeat(p)) \/ (\E id \in Clients : Age(id))
         \/ \E c \in Conns : \/ Connect(c) \/ Disconnect(c) \/ OtherFrame(c) \/ Touch(c)
                             \/ GetConnectedClient(c) \/ CheckOwnerAlive(c)
                             \/ EvictLookup(c) \/ SetupFails(c) \/ FinishRegister(c)
         \/ \E c \in Conns, kind \in {"register", "close"}, id \in Clients,
               token \in Tokens \cup {NoToken} : Frame(c, kind, id, token)
  PROVE  UNCHANGED Mapped
<1>1. UNCHANGED <<row, pool, inbox, wk>>
  BY DEF vars, Heartbeat, Age, Connect, Disconnect, OtherFrame, Touch, GetConnectedClient,
     CheckOwnerAlive, EvictLookup, SetupFails, FinishRegister, Frame, redis, local
<1>2. \A d \in Conns : /\ pc'[d] = "pool" <=> pc[d] = "pool"
                       /\ pc[d] = "pool" => job'[d] = job[d]
  <2>1. CASE UNCHANGED <<pc, job>>
    BY <2>1
  <2>2. ASSUME NEW c \in Conns, NEW kind \in {"register", "close"}, NEW id \in Clients,
               NEW token \in Tokens \cup {NoToken}, Frame(c, kind, id, token)
        PROVE  pc[c] # "pool" /\ pc'[c] # "pool"
               /\ \A d \in Conns \ {c} : pc'[d] = pc[d] /\ job'[d] = job[d]
    BY <2>2 DEF Frame, Goto, TInv, TypeOK
  <2>3. ASSUME NEW c \in Conns,
               \/ Connect(c) \/ OtherFrame(c) \/ Touch(c) \/ GetConnectedClient(c)
               \/ CheckOwnerAlive(c) \/ SetupFails(c) \/ FinishRegister(c)
        PROVE  pc[c] # "pool" /\ pc'[c] # "pool"
               /\ \A d \in Conns \ {c} : pc'[d] = pc[d] /\ job'[d] = job[d]
    BY <2>3 DEF Connect, OtherFrame, Touch, GetConnectedClient, CheckOwnerAlive,
       SetupFails, FinishRegister, Goto, Return, TInv, TypeOK
  <2>4. ASSUME NEW c \in Conns, EvictLookup(c)
        PROVE  pc[c] # "pool" /\ pc'[c] # "pool"
               /\ \A d \in Conns \ {c} : pc'[d] = pc[d] /\ job'[d] = job[d]
    BY <2>4 DEF EvictLookup, AfterEvict, Goto, TInv, TypeOK
  <2>5. CASE \E c \in Conns : pc[c] # "pool" /\ pc'[c] # "pool"
                              /\ \A d \in Conns \ {c} : pc'[d] = pc[d] /\ job'[d] = job[d]
    BY <2>5
  <2> QED BY <2>1, <2>2, <2>3, <2>4, <2>5 DEF vars, conn, Heartbeat, Age, Disconnect
<1> QED BY <1>1, <1>2, Unmoved

\* Steps of an eviction, and the end of a connection.
LEMMA EvictMapped ==
  ASSUME TInv, PInv, MInv, TInv', PInv', MInv', NEW c \in Conns,
         EvictLocal(c) \/ EvictPublish(c)
  PROVE  [Owners!Next]_Mapped
<1>1. PICK id \in Clients : id = job[c].id
  BY HandlerKnows DEF EvictLocal, EvictPublish, Handling
<1>2. /\ UNCHANGED <<row, job, wk>> /\ pc[c] # "pool" /\ pc'[c] # "pool"
      /\ \A d \in Conns \ {c} : pc'[d] = pc[d]
  BY DEF EvictLocal, EvictPublish, AfterEvict, Goto, redis, local, TInv, TypeOK
<1>3. \A i \in Clients : Entering(i)' = Entering(i)
  BY <1>2 DEF Entering
<1>4. CASE EvictLocal(c)
  <2>1. \/ UNCHANGED pool
        \/ pool' = [pool EXCEPT ![PodOf[c]][id] = NoConn]
    BY <1>1, <1>4 DEF EvictLocal, local
  <2>2. ASSUME NEW p \in Pods, NEW i \in Clients
        PROVE  /\ pool'[p][i] \in {pool[p][i], NoConn}
               /\ i # id => pool'[p][i] = pool[p][i]
    <3>1. CASE UNCHANGED pool
      BY <3>1
    <3>2. CASE pool' = [pool EXCEPT ![PodOf[c]][id] = NoConn]
      BY <3>2 DEF TInv, TypeOK
    <3> QED BY <2>1, <3>1, <3>2
  <2>3. UNCHANGED inbox
    BY <1>4 DEF EvictLocal, redis
  <2>4. \A p \in Pods, i \in Clients : Doomed(p, i)' = Doomed(p, i)
    BY <1>2, <2>3 DEF Doomed
  <2> QED BY <1>2, <1>3, <2>2, <2>4, Leaving DEF Clear
<1>5. CASE EvictPublish(c)
  <2> DEFINE e == [to |-> id, target |-> job[c].own.conn]
  <2>1. /\ UNCHANGED pool
        /\ inbox' = [inbox EXCEPT ![job[c].dst] = Append(@, e)]
    BY <1>1, <1>5 DEF EvictPublish, local
  <2>2. e \in Entry /\ e.to = id
    <3>1. job[c].own \in Row /\ job[c].own # NoRow
      BY <1>5, HandlerKnows DEF EvictPublish, Handling, TInv, Busy
    <3> QED BY <3>1, RowParts DEF Entry
  <2>3. ASSUME NEW p \in Pods, NEW i \in Clients
        PROVE  /\ Doomed(p, i) => Doomed(p, i)'
               /\ i # id => (Doomed(p, i)' => Doomed(p, i))
    <3> HIDE DEF e
    <3>1. inbox[p] \in Seq(Entry) /\ inbox'[p] \in {inbox[p], Append(inbox[p], e)}
      BY <2>1 DEF TInv, TypeOK
    <3>2. \A k \in DOMAIN inbox[p] : k \in DOMAIN inbox'[p] /\ inbox'[p][k] = inbox[p][k]
      BY <2>2, <3>1, AppendProperties
    <3>3. \A k \in DOMAIN inbox'[p] : \/ k \in DOMAIN inbox[p] /\ inbox'[p][k] = inbox[p][k]
                                      \/ inbox'[p][k] = e
      <4> SUFFICES ASSUME NEW k \in DOMAIN inbox'[p], inbox'[p] = Append(inbox[p], e)
                   PROVE  \/ k \in DOMAIN inbox[p] /\ inbox'[p][k] = inbox[p][k]
                          \/ inbox'[p][k] = e
        BY <3>1
      <4>1. k \in 1..Len(inbox[p]) \/ k = Len(inbox[p]) + 1
        BY <2>2, <3>1, AppendProperties
      <4> QED BY <2>2, <3>1, <4>1, AppendProperties
    <3> QED BY <1>2, <2>2, <3>2, <3>3 DEF Doomed
  <2> QED BY <1>2, <1>3, <2>1, <2>3, Leaving DEF Clear
<1> QED BY <1>4, <1>5

LEMMA EndMapped ==
  ASSUME TInv, PInv, MInv, TInv', PInv', MInv', NEW c \in Conns, ReadEnd(c)
  PROVE  [Owners!Next]_Mapped
<1>1. /\ UNCHANGED <<row, job, wk, inbox>> /\ pc[c] # "pool" /\ pc'[c] # "pool"
      /\ \A d \in Conns \ {c} : pc'[d] = pc[d]
  BY DEF ReadEnd, Goto, redis, local, TInv, TypeOK
<1>2. CASE ~InPool(c)
  <2>1. UNCHANGED pool
    BY <1>2 DEF ReadEnd
  <2> QED BY <1>1, <2>1, Unmoved
<1>3. CASE InPool(c)
  <2>1. PICK id \in Clients : id = cid[c]
    BY <1>3 DEF InPool, TInv, TypeOK
  <2>2. pool' = [pool EXCEPT ![PodOf[c]][id] = NoConn]
    BY <1>3, <2>1 DEF ReadEnd
  <2>3. \A p \in Pods, i \in Clients : /\ pool'[p][i] \in {pool[p][i], NoConn}
                                       /\ i # id => pool'[p][i] = pool[p][i]
    BY <2>2 DEF TInv, TypeOK
  <2>4. \A i \in Clients : Entering(i)' = Entering(i)
    BY <1>1 DEF Entering
  <2>5. \A p \in Pods, i \in Clients : Doomed(p, i)' = Doomed(p, i)
    BY <1>1 DEF Doomed
  <2> QED BY <1>1, <2>3, <2>4, <2>5, Leaving DEF Clear
<1> QED BY <1>2, <1>3

\* The steps that remove a row.
LEMMA RemoveMapped ==
  ASSUME TInv, PInv, MInv, NEW c \in Conns, RemoveOwnRow(c) \/ CloseRemove(c)
  PROVE  [Owners!Next]_Mapped
<1>1. /\ UNCHANGED <<pool, inbox, wk>> /\ pc[c] # "pool" /\ pc'[c] # "pool"
      /\ \A d \in Conns \ {c} : pc'[d] = pc[d] /\ job'[d] = job[d]
  BY DEF RemoveOwnRow, CloseRemove, Return, Goto, local, TInv, TypeOK
<1>2. \A i \in Clients : Entering(i)' = Entering(i) /\ Serving(i)' = Serving(i)
  <2>1. \A i \in Clients : Entering(i)' = Entering(i)
    BY <1>1 DEF Entering
  <2>2. \A i \in Clients : Serving(i)' = Serving(i)
    BY <1>1 DEF Serving, Clear, Doomed
  <2> QED BY <2>1, <2>2
<1>3. CASE UNCHANGED row
  BY <1>2, <1>3 DEF Mapped, Who, Key, Enters, Serves
<1>4. CASE RemoveOwnRow(c) /\ ~UNCHANGED row
  <2> DEFINE id == cid[c]
  <2>1. /\ pc[c] = "row" /\ row[id].conn = c /\ row' = [row EXCEPT ![id] = NoRow]
    BY <1>4 DEF RemoveOwnRow, RemoveConnectedClientIf, RowIf
  <2>2. row \in [Clients -> Row]
    BY DEF TInv, TypeOK
  <2>3. id \in Clients
    BY <1>4, <2>1, <2>2
  <2>4. row'[id] = NoRow /\ \A i \in Clients \ {id} : row'[i] = row[i]
    BY <2>1, <2>2, <2>3
  <2>5. Serving(id) = {} /\ Entering(id) = {}
    <3>1. \A d \in Serving(id) \cup Entering(id) : d = c
      BY <2>1, <2>3, OnlyOwner
    <3>2. c \notin Serving(id) /\ c \notin Entering(id)
      BY <2>1, <2>3, OnlyOwner DEF Entering
    <3> QED BY <3>1, <3>2
  <2> HIDE DEF id
  <2> QED BY <1>2, <2>3, <2>4, <2>5, Releasing
<1>5. CASE CloseRemove(c) /\ ~UNCHANGED row
  <2>1. pc[c] = "remove" /\ pc[c] \in Handling
    BY <1>5 DEF CloseRemove, Handling
  <2>2. PICK id \in Clients : id = job[c].id
    BY <2>1, HandlerKnows
  <2>3. row' = [row EXCEPT ![id] = NoRow]
    BY <1>5, <2>2 DEF CloseRemove, RemoveConnectedClientIf, RowIf
  <2>4. row'[id] = NoRow /\ \A i \in Clients \ {id} : row'[i] = row[i]
    BY <2>3 DEF TInv, TypeOK
  <2>5. Serving(id) = {}
    BY <2>1, <2>2, OnlyOwner DEF MInv, Holds
  <2>6. Entering(id) = {}
    BY <1>1, <2>1, <2>2 DEF Entering, MInv, Alone, Handling
  <2> QED BY <1>2, <2>4, <2>5, <2>6, Releasing
<1> QED BY <1>3, <1>4, <1>5

\* An entry takes the session of its id out of the pool; it goes from stream to
\* stream, and to no other id.
LEMMA ProcessMapped ==
  ASSUME Untroubled, TInv, PInv, MInv, TInv', PInv', MInv', NEW p \in Pods, ProcessMessage(p)
  PROVE  [Owners!Next]_Mapped
<1>1. wk[p].pc # "idle" /\ wk[p] \in Held /\ wk[p].dst \in Pods \cup {NoPod}
  <2>1. wk[p].pc # "idle"
    BY DEF ProcessMessage, IsLocal, Deliver, ForceClose, Relook, Lookup, LookupMiss,
       SourceAlive, Republish, RouterAdd, Ack
  <2> QED BY <2>1, WorkParts DEF TInv, Held
<1>2. PICK id \in Clients : id = wk[p].to
  BY <1>1 DEF Held
<1>3. /\ UNCHANGED <<row, pc, job>>
      /\ \A q \in Pods, i \in Clients : /\ pool'[q][i] \in {pool[q][i], NoConn}
                                        /\ Clear(q, i) => Clear(q, i)'
  <2>1. UNCHANGED <<row, pc, job>>
    BY DEF ProcessMessage, IsLocal, Deliver, ForceClose, Relook, Lookup, LookupMiss,
       SourceAlive, Republish, RouterAdd, Ack, redis, conn
  <2> QED BY <2>1, ProcessKeeps
<1>4. \A q \in Pods, i \in Clients \ {id} : pool'[q][i] = pool[q][i]
  <2>1. UNCHANGED pool \/ pool' = [pool EXCEPT ![p][id] = NoConn]
    BY <1>2 DEF ProcessMessage, IsLocal, Deliver, ForceClose, Relook, Lookup, LookupMiss,
       SourceAlive, Republish, RouterAdd, Ack, local
  <2>2. CASE UNCHANGED pool
    BY <2>2
  <2>3. CASE pool' = [pool EXCEPT ![p][id] = NoConn]
    BY <2>3 DEF TInv, TypeOK
  <2> QED BY <2>1, <2>2, <2>3
<1>5. /\ wk'[p].to \in {id, NoClient}
      /\ \A q \in Pods \ {p} : wk'[q] = wk[q]
  <2> DEFINE Goes == /\ wk'[p].to \in {id, NoClient}
                     /\ \A q \in Pods \ {p} : wk'[q] = wk[q]
  <2>1. wk \in [Pods -> Work] /\ wk[p] \in Held /\ wk[p].to = id
    BY <1>1, <1>2 DEF TInv, TypeOK
  <2>2. ASSUME NEW where, Step(p, where) PROVE Goes
    BY <2>1, <2>2 DEF Step, Held
  <2>3. CASE KeepPending(p) \/ wk' = [wk EXCEPT ![p] = NoWork]
    BY <2>1, <2>3 DEF KeepPending, NoWork
  <2>4. ASSUME NEW dst, wk' = [wk EXCEPT ![p].pc = "xadd", ![p].dst = dst]
        PROVE  Goes
    BY <2>1, <2>4 DEF Held
  <2>5. ASSUME NEW found, wk' = [wk EXCEPT ![p].pc = "close", ![p].conn = found]
        PROVE  Goes
    BY <2>1, <2>5 DEF Held
  <2>6. CASE Deliver(p) \/ SourceAlive(p) \/ Republish(p)
    BY <2>2, <2>4, <2>5, <2>6 DEF Deliver, SourceAlive, Republish
  <2>7. CASE ~(Deliver(p) \/ SourceAlive(p) \/ Republish(p))
    <3>1. \/ \E where : Step(p, where)
          \/ KeepPending(p) \/ wk' = [wk EXCEPT ![p] = NoWork]
      BY <2>7 DEF ProcessMessage, IsLocal, ForceClose, Relook, Lookup, LookupMiss, RouterAdd,
         Ack
    <3> QED BY <2>2, <2>3, <3>1
  <2> QED BY <2>6, <2>7
<1>6. UNCHANGED inbox \/ \E r \in Pods \cup {NoPod} : inbox' = Put(r, p)
  BY <1>1 DEF ProcessMessage, IsLocal, Deliver, ForceClose, Relook, Lookup, LookupMiss,
     SourceAlive, Republish, RouterAdd, Ack, KeepPending, redis, Held
<1>7. ASSUME NEW q \in Pods, NEW k \in DOMAIN inbox'[q]
      PROVE  inbox'[q][k].to = id \/ (k \in DOMAIN inbox[q] /\ inbox'[q][k] = inbox[q][k])
  <2> DEFINE e == [to |-> wk[p].to, target |-> wk[p].target]
  <2>1. inbox[q] \in Seq(Entry) /\ e \in Entry /\ e.to = id
    BY <1>1, <1>2, WorkParts DEF TInv, TypeOK, Entry, Held
  <2>2. inbox'[q] = inbox[q] \/ inbox'[q] = Append(inbox[q], e)
    BY <1>6 DEF Put, TInv, TypeOK
  <2> HIDE DEF e
  <2>3. CASE inbox'[q] = Append(inbox[q], e)
    <3>1. k \in 1..Len(inbox[q]) \/ k = Len(inbox[q]) + 1
      BY <1>7, <2>1, <2>3, AppendProperties
    <3> QED BY <2>1, <2>3, <3>1, AppendProperties
  <2> QED BY <1>7, <2>2, <2>3
<1>8. \A q \in Pods, i \in Clients \ {id} : Doomed(q, i)' => Doomed(q, i)
  BY <1>5, <1>7, PodsAssumption DEF Doomed
<1>9. \A i \in Clients : Entering(i)' = Entering(i)
  BY <1>3 DEF Entering
<1> QED BY <1>3, <1>4, <1>8, <1>9, Leaving DEF Clear

LEMMA TakeMapped ==
  ASSUME TInv, PInv, MInv, TInv', PInv', MInv', NEW p \in Pods, NEW s \in Pods, Take(p, s)
  PROVE  [Owners!Next]_Mapped
<1>1. /\ s = p /\ UNCHANGED <<row, pool, pc, job>>
      /\ inbox[p] \in Seq(Entry) /\ inbox[p] # <<>>
  BY DEF Take, MInv, Quiet, local, conn, TInv, TypeOK
<1>2. PICK id \in Clients : id = Head(inbox[p]).to
  <2>1. Head(inbox[p]) \in Entry
    BY <1>1
  <2> QED BY <2>1 DEF Entry
<1>3. /\ inbox' = [inbox EXCEPT ![p] = Tail(inbox[p])]
      /\ wk'[p].to = id /\ \A q \in Pods \ {p} : wk'[q] = wk[q]
  BY <1>1, <1>2 DEF Take, TInv, TypeOK
<1>4. \A k \in DOMAIN Tail(inbox[p]) : /\ k + 1 \in DOMAIN inbox[p]
                                       /\ Tail(inbox[p])[k] = inbox[p][k + 1]
  BY <1>1
<1>5. \A q \in Pods, i \in Clients \ {id} : Doomed(q, i)' => Doomed(q, i)
  <2> SUFFICES ASSUME NEW q \in Pods, NEW i \in Clients \ {id}, Doomed(q, i)'
               PROVE  Doomed(q, i)
    OBVIOUS
  <2>1. CASE q = p
    <3>1. PICK k \in DOMAIN Tail(inbox[p]) : Tail(inbox[p])[k].to = i
      BY <1>3, <2>1 DEF Doomed, TInv, TypeOK
    <3> QED BY <1>4, <2>1, <3>1 DEF Doomed
  <2>2. CASE q # p
    BY <1>3, <2>2 DEF Doomed, TInv, TypeOK
  <2> QED BY <2>1, <2>2
<1>6. \A q \in Pods, i \in Clients : Clear(q, i) => Clear(q, i)'
  BY TakeKeeps
<1>7. \A i \in Clients : Entering(i)' = Entering(i)
  BY <1>1 DEF Entering
<1> QED BY <1>1, <1>5, <1>6, <1>7, Leaving DEF Clear

LEMMA OwnersStep ==
  ASSUME Untroubled, TInv, PInv, MInv, KInv, TInv', PInv', MInv', [Next]_vars
  PROVE  [Owners!Next]_Mapped
<1>1. ASSUME NEW p \in Pods, Router(p) PROVE [Owners!Next]_Mapped
  BY <1>1, ProcessMapped, TakeMapped DEF Router
<1>2. ASSUME NEW c \in Conns, Reader(c) PROVE [Owners!Next]_Mapped
  BY <1>2, NoTrouble, IdleMapped, EvictMapped, Claiming, Entered, EndMapped, RemoveMapped
     DEF Reader, Handler
<1> QED BY <1>1, <1>2, NoTrouble, IdleMapped DEF Next

\* Any number of pods together keep the promise of Ownership: at most one session
\* of an id is served and not about to be closed, and it is the one the row names;
\* a registration takes the row, with the token of the one before, when no other
\* session is left; and no row is removed while its session is served.
THEOREM OwnershipSafe ==
  ASSUME Untroubled
  PROVE  Spec => OwnershipRefined
<1>1. Init => Owners!Init /\ KInv
  <2> SUFFICES ASSUME Init PROVE Owners!Init /\ KInv
    OBVIOUS
  <2>1. \A id \in Clients : /\ row[id] = NoRow /\ Entering(id) = {}
                            /\ \A p \in Pods : pool[p][id] = NoConn
    BY DEF Init, Entering
  <2>2. \A id \in Clients : Serving(id) = {}
    BY <2>1 DEF Serving, Clear
  <2>3. KInv
    BY DEF Init, KInv, Alone, Fits, Handling
  <2> QED BY <2>1, <2>2, <2>3 DEF Owners!Init, NoRow
<1>2. TInv /\ KInv /\ [Next]_vars => KInv'
  BY KInvStep DEF Untroubled
<1>3. TInv /\ PInv /\ MInv /\ KInv /\ TInv' /\ PInv' /\ MInv' /\ [Next]_vars
        => [Owners!Next]_Mapped
  BY OwnersStep
<1> QED BY <1>1, <1>2, <1>3, MInvHolds, PTL
        DEF Spec, OwnershipRefined, Owners!Spec, Mapped, Who, Key, Enters, Serves

----------------------------------------------------------------------------
(* One pod.  Nothing is published then, and an eviction is done at once.   *)

OnePod == \A p, q \in Pods : p = q

NoMail == /\ \A p \in Pods : inbox[p] = <<>> /\ wk[p].pc = "idle"
          /\ \A c \in Conns : pc[c] # "xadd"

\* A row is that of the connection in the pool, or somebody is about to remove
\* it or has just written it.
Served(id) ==
  \/ row[id] = NoRow \/ id \in spoilt
  \/ \A p \in Pods : pool[p][id] = row[id].conn
  \/ \E c \in Conns : pc[c] \in {"add", "remove", "pool"} /\ job[c].id = id
  \/ pc[row[id].conn] = "row" /\ cid[row[id].conn] = id

Taken(p) == {id \in Clients : pool[p][id] # NoConn}
At(where) == {c \in Conns : pc[c] = where}

\* A connection is counted late, after the pool has it, and until its row is
\* gone, after the pool has it no more.
Counted(p) ==
  gauge[p] = Cardinality(Taken(p)) + Cardinality(At("row")) - Cardinality(At("trigger"))

Leaves == \A c \in Conns : pc[c] = "row" => cid[c] \in Clients

\* The steps that are left on one pod where nothing fails.
Idles(c) == \/ Connect(c) \/ OtherFrame(c) \/ Touch(c) \/ GetConnectedClient(c) \/ CheckOwnerAlive(c)
            \/ \E kind \in {"register", "close"}, id \in Clients, token \in Tokens \cup {NoToken} :
                 Frame(c, kind, id, token)
Works(c) == \/ EvictLocal(c) \/ SetupFails(c) \/ AddConnectedClient(c) \/ PoolRegister(c)
            \/ FinishRegister(c) \/ CloseRemove(c) \/ ReadEnd(c) \/ RemoveOwnRow(c)
Nothing == UNCHANGED <<row, pool, pc, cid, job, gauge, inbox, wk, spoilt>>

LEMMA OwnerHere ==
  ASSUME OnePod, TInv, NEW c \in Conns, pc[c] = "evict"
  PROVE  job[c].own.pod = PodOf[c]
<1>1. job[c].own \in Row /\ job[c].own # NoRow
  BY JobParts DEF TInv, Busy, Handling
<1> QED BY <1>1, RowParts, PodsAssumption DEF OnePod

LEMMA StepsLeft ==
  ASSUME Untroubled, OnePod, TInv, MInv, NoMail, [Next]_vars
  PROVE  Nothing \/ \E c \in Conns : Idles(c) \/ Works(c)
<1>1. \A c \in Conns : ~EvictLookup(c) /\ ~EvictPublish(c)
  BY OwnerHere DEF EvictLookup, EvictPublish, NoMail
<1>2. \A p \in Pods : ~Router(p)
  BY DEF Router, ProcessMessage, Take, IsLocal, Deliver, ForceClose, Relook, Lookup, LookupMiss,
     SourceAlive, Republish, RouterAdd, Ack, NoMail
<1>3. UNCHANGED vars \/ (\E c \in Conns : Disconnect(c)) \/ (\E p \in Pods : Heartbeat(p))
        \/ (\E id \in Clients : Age(id)) => Nothing
  BY DEF vars, Disconnect, Heartbeat, Age, redis, local, conn, past, Nothing
<1> QED
  BY <1>1, <1>2, <1>3, NoTrouble DEF Next, Reader, Handler, Idles, Works

\* What the other readers do meanwhile: nothing.
LEMMA OneMoves ==
  ASSUME TInv, NEW c \in Conns, Idles(c) \/ Works(c)
  PROVE  /\ \A d \in Conns \ {c} : pc'[d] = pc[d] /\ job'[d] = job[d] /\ cid'[d] = cid[d]
         /\ pc' \in [Conns -> ConnPC] \/ pc' = [pc EXCEPT ![c] = pc'[c]]
         /\ UNCHANGED <<inbox, wk>>
BY DEF Idles, Works, Connect, OtherFrame, Touch, GetConnectedClient, CheckOwnerAlive, Frame,
   EvictLocal, SetupFails, AddConnectedClient, PoolRegister, FinishRegister, CloseRemove,
   ReadEnd, RemoveOwnRow, Goto, Return, redis, local, TInv, TypeOK

LEMMA SpoiltStays ==
  ASSUME NEW c \in Conns, Idles(c) \/ Works(c), NEW i \in spoilt,
         ~(AddConnectedClient(c) /\ job[c].id = i)
  PROVE  i \in spoilt'
BY DEF Idles, Works, Connect, OtherFrame, Touch, GetConnectedClient, CheckOwnerAlive, Frame,
   EvictLocal, SetupFails, AddConnectedClient, PoolRegister, FinishRegister, CloseRemove,
   ReadEnd, RemoveOwnRow, past

LEMMA IdlesMoves ==
  ASSUME Untroubled, TInv, PInv, MInv, NEW c \in Conns, Idles(c)
  PROVE  /\ UNCHANGED <<row, pool, cid, gauge>>
         /\ pc[c] \notin {"add", "remove", "pool", "row", "trigger"}
         /\ pc'[c] \notin {"xadd", "row", "trigger"}
<1>1. UNCHANGED <<row, pool, cid, gauge>>
  BY DEF Idles, Connect, OtherFrame, Touch, GetConnectedClient, CheckOwnerAlive, Frame, redis, local
<1>2. pc[c] \notin {"add", "remove", "pool", "row", "trigger"}
  BY DEF Idles, Connect, OtherFrame, Touch, GetConnectedClient, CheckOwnerAlive, Frame
<1>3. pc'[c] \notin {"xadd", "row", "trigger"}
  BY DEF Idles, Connect, OtherFrame, Touch, GetConnectedClient, CheckOwnerAlive, Frame, Goto,
     Return, TInv, TypeOK
<1> QED BY <1>1, <1>2, <1>3

LEMMA WorksMoves ==
  ASSUME TInv, NEW c \in Conns, Works(c)
  PROVE  pc'[c] # "xadd" /\ (pc'[c] = "row" => cid'[c] \in Clients)
<1>1. CASE ReadEnd(c)
  <2>1. UNCHANGED cid /\ cid[c] \in Clients \cup {NoClient}
        /\ pc'[c] = IF InPool(c) THEN "row" ELSE "gone"
    BY <1>1 DEF ReadEnd, Goto, TInv, TypeOK
  <2> QED BY <2>1 DEF InPool
<1>2. CASE ~ReadEnd(c)
  BY <1>2
     DEF Works, EvictLocal, SetupFails, AddConnectedClient, PoolRegister, FinishRegister,
         CloseRemove, RemoveOwnRow, AfterEvict, Goto, Return, TInv, TypeOK
<1> QED BY <1>1, <1>2

LEMMA NoMailStep ==
  ASSUME Untroubled, OnePod, TInv, PInv, MInv, NoMail, Leaves, [Next]_vars
  PROVE  NoMail' /\ Leaves'
<1>1. CASE Nothing
  BY <1>1 DEF Nothing, NoMail, Leaves
<1>2. ASSUME NEW c \in Conns, Idles(c) \/ Works(c) PROVE NoMail' /\ Leaves'
  <2>1. pc'[c] # "xadd" /\ (pc'[c] = "row" => cid'[c] \in Clients)
    BY <1>2, IdlesMoves, WorksMoves
  <2> QED BY <1>2, <2>1, OneMoves DEF NoMail, Leaves
<1> QED BY <1>1, <1>2, StepsLeft

----------------------------------------------------------------------------
(* NoOrphanRow.                                                            *)

LEMMA ServedStays ==
  ASSUME TInv, NEW c \in Conns, NEW id \in Clients, Served(id),
         UNCHANGED <<inbox, wk>>, row'[id] = row[id],
         \A p \in Pods : pool'[p][id] = pool[p][id],
         \A d \in Conns \ {c} : pc'[d] = pc[d] /\ job'[d] = job[d] /\ cid'[d] = cid[d],
         pc[c] # "row", pc[c] \in {"add", "remove", "pool"} => job[c].id # id,
         id \in spoilt => id \in spoilt'
  PROVE  Served(id)'
<1>1. CASE row[id] = NoRow \/ id \in spoilt
  BY <1>1 DEF Served
<1>2. CASE \A p \in Pods : pool[p][id] = row[id].conn
  BY <1>2 DEF Served
<1>3. CASE \E d \in Conns : pc[d] \in {"add", "remove", "pool"} /\ job[d].id = id
  <2>1. PICK d \in Conns : pc[d] \in {"add", "remove", "pool"} /\ job[d].id = id
    BY <1>3
  <2>2. d # c
    BY <2>1
  <2>3. pc'[d] = pc[d] /\ job'[d] = job[d]
    BY <2>2
  <2> QED BY <2>1, <2>3 DEF Served
<1>4. CASE row[id] # NoRow /\ pc[row[id].conn] = "row" /\ cid[row[id].conn] = id
  <2>1. PICK d \in Conns : d = row[id].conn
    BY <1>4, RowParts DEF TInv, TypeOK
  <2>2. pc[d] = "row" /\ cid[d] = id /\ row'[id].conn = d
    BY <1>4, <2>1
  <2>3. pc'[d] = pc[d] /\ cid'[d] = cid[d]
    BY <2>2
  <2> QED BY <2>2, <2>3 DEF Served
<1> QED BY <1>1, <1>2, <1>3, <1>4 DEF Served

LEMMA ServedWorks ==
  ASSUME Untroubled, OnePod, TInv, PInv, MInv, NEW c \in Conns,
         EvictLocal(c) \/ AddConnectedClient(c) \/ PoolRegister(c) \/ CloseRemove(c),
         NEW i \in Clients, Served(i)
  PROVE  Served(i)'
<1>1. pc[c] \in Handling /\ pc[c] \in {"evict", "add", "pool", "remove"}
  BY DEF EvictLocal, AddConnectedClient, PoolRegister, CloseRemove, Handling
<1>2. PICK id \in Clients : id = job[c].id
  BY <1>1, HandlerKnows
<1>3. /\ UNCHANGED <<inbox, wk>>
      /\ \A d \in Conns \ {c} : pc'[d] = pc[d] /\ job'[d] = job[d] /\ cid'[d] = cid[d]
  BY OneMoves DEF Works
<1>4. CASE i # id
  <2>1. row'[i] = row[i]
    BY <1>2, <1>4 DEF EvictLocal, AddConnectedClient, PoolRegister, CloseRemove,
       RemoveConnectedClientIf, RowIf, redis, TInv, TypeOK
  <2>2. \A p \in Pods : pool'[p][i] = pool[p][i]
    <3>1. \/ UNCHANGED pool
          \/ \E x \in Conns \cup {NoConn} : pool' = [pool EXCEPT ![PodOf[c]][id] = x]
      BY <1>2 DEF EvictLocal, AddConnectedClient, PoolRegister, CloseRemove, local
    <3>2. pool \in [Pods -> [Clients -> Conns \cup {NoConn}]]
      BY DEF TInv, TypeOK
    <3>3. ASSUME NEW x \in Conns \cup {NoConn}, pool' = [pool EXCEPT ![PodOf[c]][id] = x]
          PROVE  \A p \in Pods : pool'[p][i] = pool[p][i]
      BY <1>4, <3>2, <3>3
    <3> QED BY <3>1, <3>3
  <2>3. i \in spoilt => i \in spoilt'
    BY <1>2, <1>4, SpoiltStays DEF Works
  <2> QED BY <1>1, <1>2, <1>3, <1>4, <2>1, <2>2, <2>3, ServedStays
<1>5. CASE i = id /\ (EvictLocal(c) \/ AddConnectedClient(c))
  <2>1. /\ pc'[c] \in {"add", "remove", "pool"} /\ UNCHANGED job
    BY <1>5 DEF EvictLocal, AddConnectedClient, AfterEvict, Goto, TInv, TypeOK
  <2> QED BY <1>2, <1>5, <2>1 DEF Served
<1>6. CASE i = id /\ PoolRegister(c)
  <2>1. pool'[PodOf[c]][id] = c /\ UNCHANGED row /\ row[id].conn = c
    BY <1>1, <1>2, <1>6, HandlerKnows DEF PoolRegister, Holds, redis, TInv, TypeOK
  <2>2. \A p \in Pods : p = PodOf[c]
    BY PodsAssumption DEF OnePod
  <2> QED BY <1>6, <2>1, <2>2 DEF Served
<1>7. CASE i = id /\ CloseRemove(c)
  <2>1. row[id] \in {NoRow, job[c].own}
    BY <1>1, <1>2, <1>7, HandlerKnows DEF Holds, CloseRemove
  <2>2. row'[id] = NoRow
    BY <1>2, <1>7, <2>1
       DEF CloseRemove, RemoveConnectedClientIf, RowIf, TInv, TypeOK
  <2> QED BY <1>7, <2>2 DEF Served
<1> QED BY <1>4, <1>5, <1>6, <1>7

LEMMA ServedEnds ==
  ASSUME Untroubled, OnePod, TInv, PInv, MInv, NEW c \in Conns,
         ReadEnd(c) \/ RemoveOwnRow(c), NEW i \in Clients, Served(i)
  PROVE  Served(i)'
<1>1. /\ UNCHANGED <<inbox, wk, job, cid, spoilt>> /\ pc[c] \in {"read", "row"}
      /\ \A d \in Conns \ {c} : pc'[d] = pc[d]
  BY OneMoves DEF Works, ReadEnd, RemoveOwnRow, conn, past
<1>2. CASE ReadEnd(c) /\ InPool(c) /\ cid[c] = i
  <2>1. pc'[c] = "row" /\ UNCHANGED row
    BY <1>2 DEF ReadEnd, Goto, redis, TInv, TypeOK
  <2>2. pool[PodOf[c]][i] = c /\ PodOf[c] \in Pods
    BY <1>2, PodsAssumption DEF InPool
  <2>3. pc[c] = "read"
    BY <1>2 DEF ReadEnd
  <2>4. \A p \in Pods : p = PodOf[c]
    BY <2>2 DEF OnePod
  <2>5. CASE row[i] = NoRow \/ i \in spoilt
    BY <1>1, <2>1, <2>5 DEF Served
  <2>6. CASE \A p \in Pods : pool[p][i] = row[i].conn
    <3>1. row'[i].conn = c /\ cid'[c] = i
      BY <1>1, <1>2, <2>1, <2>2, <2>6
    <3> QED BY <2>1, <3>1 DEF Served
  <2>7. CASE \E d \in Conns : pc[d] \in {"add", "remove", "pool"} /\ job[d].id = i
    <3>1. PICK d \in Conns : pc[d] \in {"add", "remove", "pool"} /\ job[d].id = i
      BY <2>7
    <3>2. d # c
      BY <2>3, <3>1
    <3>3. pc'[d] = pc[d] /\ job'[d] = job[d]
      BY <1>1, <3>2
    <3> QED BY <3>1, <3>3 DEF Served
  <2>8. CASE row[i] # NoRow /\ pc[row[i].conn] = "row" /\ cid[row[i].conn] = i
    <3>1. PICK d \in Conns : d = row[i].conn
      BY <2>8, RowParts DEF TInv, TypeOK
    <3>2. d # c
      BY <2>3, <2>8, <3>1
    <3>3. pc'[d] = "row" /\ cid'[d] = i /\ row'[i].conn = d
      BY <1>1, <2>1, <2>8, <3>1, <3>2
    <3> QED BY <3>3 DEF Served
  <2> QED BY <2>5, <2>6, <2>7, <2>8 DEF Served
<1>3. CASE ReadEnd(c) /\ ~(InPool(c) /\ cid[c] = i)
  <2>1. UNCHANGED row /\ pc[c] = "read"
    BY <1>3 DEF ReadEnd, redis
  <2>2. \A p \in Pods : pool'[p][i] = pool[p][i]
    BY <1>3 DEF ReadEnd, TInv, TypeOK
  <2> QED BY <1>1, <2>1, <2>2, ServedStays
<1>4. CASE RemoveOwnRow(c)
  <2>1. UNCHANGED pool /\ pc[c] = "row" /\ row'[i] \in {row[i], NoRow}
        /\ (row[i].conn = c /\ cid[c] = i => row'[i] = NoRow)
    BY <1>4, NoTrouble DEF RemoveOwnRow, RemoveConnectedClientIf, RowIf, TInv, TypeOK
  <2>2. CASE row[i] = NoRow \/ row'[i] = NoRow \/ i \in spoilt
    BY <1>1, <2>1, <2>2 DEF Served
  <2>3. CASE row[i] # NoRow /\ row'[i] = row[i] /\ i \notin spoilt
    <3>1. CASE \A p \in Pods : pool[p][i] = row[i].conn
      BY <2>1, <2>3, <3>1 DEF Served
    <3>2. CASE \E d \in Conns : pc[d] \in {"add", "remove", "pool"} /\ job[d].id = i
      <4>1. PICK d \in Conns : pc[d] \in {"add", "remove", "pool"} /\ job[d].id = i
        BY <3>2
      <4>2. d # c
        BY <2>1, <4>1
      <4>3. pc'[d] = pc[d] /\ job'[d] = job[d]
        BY <1>1, <4>2
      <4> QED BY <4>1, <4>3 DEF Served
    <3>3. CASE pc[row[i].conn] = "row" /\ cid[row[i].conn] = i
      <4>1. PICK d \in Conns : d = row[i].conn
        BY <2>3, RowParts DEF TInv, TypeOK
      <4>2. CASE d = c
        BY <2>1, <3>3, <4>1, <4>2 DEF Served
      <4>3. CASE d # c
        <5>1. pc'[d] = "row" /\ cid'[d] = i /\ row'[i].conn = d
          BY <1>1, <2>3, <3>3, <4>1, <4>3
        <5> QED BY <5>1 DEF Served
      <4> QED BY <4>2, <4>3
    <3> QED BY <2>3, <3>1, <3>2, <3>3 DEF Served
  <2> QED BY <2>1, <2>2, <2>3
<1> QED BY <1>2, <1>3, <1>4

\* A registration that fails on its callback has evicted the owner of the row,
\* or there is no row.
LEMMA ServedFails ==
  ASSUME TInv, KInv, MInv, NEW c \in Conns, SetupFails(c), NEW i \in Clients, Served(i)
  PROVE  Served(i)'
<1>1. pc[c] = "add" /\ UNCHANGED <<row, pool>>
  BY DEF SetupFails, redis, local
<1>2. CASE i # job[c].id
  BY <1>1, <1>2, OneMoves, SpoiltStays, ServedStays DEF Works, SetupFails, AddConnectedClient
<1>3. CASE i = job[c].id /\ job[c].own # NoRow
  BY <1>3 DEF SetupFails, Served
<1>4. CASE i = job[c].id /\ job[c].own = NoRow
  <2>1. job[c].kind = "register"
    BY <1>1 DEF TInv, Busy
  <2>2. row[i] = NoRow
    BY <1>1, <1>4, <2>1 DEF KInv, Fits
  <2> QED BY <1>1, <2>2 DEF Served
<1> QED BY <1>2, <1>3, <1>4

LEMMA ServedStep ==
  ASSUME Untroubled, OnePod, TInv, PInv, KInv, MInv, NoMail, [Next]_vars,
         NEW i \in Clients, Served(i)
  PROVE  Served(i)'
<1>1. CASE Nothing
  BY <1>1 DEF Nothing, Served
<1>2. ASSUME NEW c \in Conns, Idles(c) \/ FinishRegister(c) PROVE Served(i)'
  <2>1. /\ UNCHANGED <<row, pool>> /\ pc[c] \notin {"add", "remove", "pool", "row"}
    BY <1>2, IdlesMoves DEF FinishRegister, redis
  <2>2. ~AddConnectedClient(c)
    BY <1>2, <2>1 DEF AddConnectedClient
  <2> QED BY <1>2, <2>1, <2>2, OneMoves, SpoiltStays, ServedStays DEF Works
<1> QED BY <1>1, <1>2, StepsLeft, ServedWorks, ServedEnds, ServedFails DEF Works

\* On one pod a row outlives the reader of its connection only where a
\* registration evicted that connection and then failed on its callback.
THEOREM NoOrphans ==
  ASSUME Untroubled, OnePod
  PROVE  Spec => []NoOrphanRow
<1> DEFINE SInv == NoMail /\ Leaves /\ \A id \in Clients : Served(id)
<1>1. Init => SInv
  BY DEF Init, NoMail, Leaves, Served, NoWork
<1>2. TInv /\ PInv /\ KInv /\ MInv /\ SInv /\ [Next]_vars => SInv'
  BY NoMailStep, ServedStep
<1>3. TInv /\ PInv /\ MInv /\ SInv => NoOrphanRow
  <2> SUFFICES ASSUME TInv, PInv, SInv, NEW id \in Clients, row[id] # NoRow, Settled(id),
                      id \notin spoilt
               PROVE  pc[row[id].conn] # "gone"
    BY DEF NoOrphanRow
  <2>1. row[id].conn \in Conns /\ row[id].pod \in Pods
    BY RowParts DEF TInv, TypeOK
  <2>2. CASE pool[row[id].pod][id] = row[id].conn
    BY <2>1, <2>2, PodsAssumption DEF PInv, PoolHasReader
  <2>3. CASE \E c \in Conns : pc[c] \in {"add", "remove", "pool"} /\ job[c].id = id
    BY <2>3 DEF Settled, Handling
  <2> QED BY <2>1, <2>2, <2>3 DEF Served
<1>4. Init => KInv
  BY DEF Init, KInv, Alone, Fits, Handling
<1>5. TInv /\ KInv /\ [Next]_vars => KInv'
  BY KInvStep DEF Untroubled
<1> QED BY <1>1, <1>2, <1>3, <1>4, <1>5, MInvHolds, PTL DEF Spec

----------------------------------------------------------------------------
(* GaugeCountsPool.                                                        *)

LEMMA SetSizes ==
  ASSUME IsFiniteSet(Clients), IsFiniteSet(Conns), NEW p \in Pods
  PROVE  /\ IsFiniteSet(Taken(p)) /\ Cardinality(Taken(p)) \in Nat
         /\ \A where \in ConnPC : IsFiniteSet(At(where)) /\ Cardinality(At(where)) \in Nat
<1>1. Taken(p) \subseteq Clients /\ \A where \in ConnPC : At(where) \subseteq Conns
  BY DEF Taken, At
<1> QED BY <1>1, FS_Subset, FS_CardinalityType

LEMMA CountStays ==
  ASSUME NEW p \in Pods, Counted(p), gauge'[p] = gauge[p],
         \A i \in Clients : pool'[p][i] = pool[p][i],
         NEW c \in Conns, {pc[c], pc'[c]} \cap {"row", "trigger"} = {},
         \A d \in Conns \ {c} : pc'[d] = pc[d]
  PROVE  Counted(p)'
<1>1. Taken(p)' = Taken(p) /\ At("row")' = At("row") /\ At("trigger")' = At("trigger")
  BY DEF Taken, At
<1> QED BY <1>1 DEF Counted

\* The arithmetic of a step: what the pool, the counted late and the uncounted
\* late gain is what the gauge gains.
LEMMA CountMoves ==
  ASSUME IsFiniteSet(Clients), IsFiniteSet(Conns), NEW p \in Pods, Counted(p),
         NEW t \in Int, NEW r \in Int, NEW g \in Int,
         Cardinality(Taken(p)') = Cardinality(Taken(p)) + t,
         Cardinality(At("row")') = Cardinality(At("row")) + r,
         Cardinality(At("trigger")') = Cardinality(At("trigger")) + g,
         gauge'[p] = gauge[p] + t + r - g
  PROVE  Counted(p)'
<1>1. Cardinality(Taken(p)) \in Int /\ Cardinality(At("row")) \in Int
      /\ Cardinality(At("trigger")) \in Int
  BY SetSizes DEF ConnPC, Handling
<1>2. gauge[p] = Cardinality(Taken(p)) + Cardinality(At("row")) - Cardinality(At("trigger"))
  BY DEF Counted
<1>3. gauge'[p] = Cardinality(Taken(p)') + Cardinality(At("row")') - Cardinality(At("trigger")')
  BY <1>1, <1>2
<1> QED BY <1>3 DEF Counted

LEMMA CountStep ==
  ASSUME Untroubled, OnePod, Triggers = FALSE, IsFiniteSet(Clients), IsFiniteSet(Conns),
         TInv, PInv, MInv, NoMail, Leaves, [Next]_vars, NEW p \in Pods, Counted(p)
  PROVE  Counted(p)'
<1>1. CASE Nothing
  BY <1>1 DEF Nothing, Counted, Taken, At
<1>2. ASSUME NEW c \in Conns, \/ Idles(c) \/ SetupFails(c) \/ AddConnectedClient(c)
                              \/ CloseRemove(c)
      PROVE  Counted(p)'
  <2>1. /\ UNCHANGED <<pool, gauge>> /\ {pc[c], pc'[c]} \cap {"row", "trigger"} = {}
    BY <1>2, IdlesMoves DEF SetupFails, AddConnectedClient, CloseRemove, Goto, Return, local, TInv, TypeOK
  <2> QED BY <1>2, <2>1, OneMoves, CountStays DEF Works
<1>3. ASSUME NEW c \in Conns, Works(c)
      PROVE  /\ PodOf[c] = p /\ \A d \in Conns \ {c} : pc'[d] = pc[d]
             /\ \A w \in ConnPC : At(w)' = IF pc'[c] = w THEN At(w) \cup {c} ELSE At(w) \ {c}
             /\ pool \in [Pods -> [Clients -> Conns \cup {NoConn}]] /\ gauge \in [Pods -> Int]
  BY <1>3, OneMoves, PodsAssumption DEF OnePod, TInv, TypeOK, At
<1>4. ASSUME NEW c \in Conns, EvictLocal(c) PROVE Counted(p)'
  <2>1. pc[c] = "evict" /\ pc'[c] \in {"add", "remove"}
    BY <1>4 DEF EvictLocal, AfterEvict, Goto, TInv, TypeOK
  <2>2. PICK id \in Clients : id = job[c].id
    BY <2>1, HandlerKnows DEF Handling
  <2>3. CASE pool[p][id] = NoConn
    <3>1. UNCHANGED <<pool, gauge>>
      BY <1>3, <1>4, <2>2, <2>3 DEF EvictLocal, Works, local
    <3> QED BY <1>3, <1>4, <2>1, <3>1, CountStays DEF Works
  <2>4. CASE pool[p][id] # NoConn
    <3>1. pool' = [pool EXCEPT ![p][id] = NoConn] /\ gauge'[p] = gauge[p] - 1
      BY <1>3, <1>4, <2>2, <2>4 DEF EvictLocal, Works
    <3>2. Taken(p)' = Taken(p) \ {id} /\ id \in Taken(p)
      BY <1>3, <1>4, <2>4, <3>1 DEF Taken, Works
    <3>3. At("row")' = At("row") /\ At("trigger")' = At("trigger")
      BY <1>3, <1>4, <2>1 DEF Works, At
    <3>4. Cardinality(Taken(p) \ {id}) = Cardinality(Taken(p)) - 1
      BY <3>2, SetSizes, FS_RemoveElement
    <3>5. Cardinality(Taken(p)) \in Int /\ Cardinality(At("row")) \in Int
          /\ Cardinality(At("trigger")) \in Int /\ gauge[p] \in Int
      BY <1>3, <1>4, SetSizes DEF Works, ConnPC, Handling
    <3>6. /\ Cardinality(Taken(p)') = Cardinality(Taken(p)) + (-1)
          /\ Cardinality(At("row")') = Cardinality(At("row")) + 0
          /\ Cardinality(At("trigger")') = Cardinality(At("trigger")) + 0
          /\ gauge'[p] = gauge[p] + (-1) + 0 - 0
      <4>1. Cardinality(Taken(p)') = Cardinality(Taken(p)) + (-1)
        BY <3>1, <3>2, <3>3, <3>4, <3>5
      <4>2. Cardinality(At("row")') = Cardinality(At("row")) + 0
        BY <3>1, <3>2, <3>3, <3>4, <3>5
      <4>3. Cardinality(At("trigger")') = Cardinality(At("trigger")) + 0
        BY <3>1, <3>2, <3>3, <3>4, <3>5
      <4>4. gauge'[p] = gauge[p] + (-1) + 0 - 0
        BY <3>1, <3>2, <3>3, <3>4, <3>5
      <4> QED BY <4>1, <4>2, <4>3, <4>4
    <3> QED BY <3>6, CountMoves
  <2> QED BY <2>3, <2>4
<1>5. ASSUME NEW c \in Conns, PoolRegister(c) PROVE Counted(p)'
  <2>1. pc[c] = "pool" /\ pc'[c] = "trigger" /\ UNCHANGED gauge
    BY <1>5 DEF PoolRegister, Goto, TInv, TypeOK
  <2>2. PICK id \in Clients : id = job[c].id
    BY <2>1, HandlerKnows DEF Handling
  <2>3. pool[p][id] = NoConn
    <3>1. Clear(p, id)
      BY <2>1, <2>2 DEF MInv, Holds
    <3> QED BY <3>1 DEF Clear, Doomed, NoMail
  <2>4. pool' = [pool EXCEPT ![p][id] = c]
    BY <1>3, <1>5, <2>2 DEF PoolRegister, Works
  <2>5. Taken(p)' = Taken(p) \cup {id} /\ id \notin Taken(p)
    BY <1>3, <1>5, <2>3, <2>4, PodsAssumption DEF Taken, Works
  <2>6. At("row")' = At("row") /\ At("trigger")' = At("trigger") \cup {c} /\ c \notin At("trigger")
    BY <1>3, <1>5, <2>1 DEF Works, At, ConnPC, Handling
  <2>7. /\ Cardinality(Taken(p) \cup {id}) = Cardinality(Taken(p)) + 1
        /\ Cardinality(At("trigger") \cup {c}) = Cardinality(At("trigger")) + 1
    BY <2>5, <2>6, SetSizes, FS_AddElement DEF ConnPC, Handling
  <2>8. Cardinality(Taken(p)) \in Int /\ Cardinality(At("row")) \in Int
        /\ Cardinality(At("trigger")) \in Int /\ gauge[p] \in Int
    BY <1>3, <1>5, SetSizes DEF Works, ConnPC, Handling
  <2>9. /\ Cardinality(Taken(p)') = Cardinality(Taken(p)) + 1
        /\ Cardinality(At("row")') = Cardinality(At("row")) + 0
        /\ Cardinality(At("trigger")') = Cardinality(At("trigger")) + 1
        /\ gauge'[p] = gauge[p] + 1 + 0 - 1
    <3>1. Cardinality(Taken(p)') = Cardinality(Taken(p)) + 1
      BY <2>1, <2>5, <2>6, <2>7, <2>8
    <3>2. Cardinality(At("row")') = Cardinality(At("row")) + 0
      BY <2>1, <2>5, <2>6, <2>7, <2>8
    <3>3. Cardinality(At("trigger")') = Cardinality(At("trigger")) + 1
      BY <2>1, <2>5, <2>6, <2>7, <2>8
    <3>4. gauge'[p] = gauge[p] + 1 + 0 - 1
      BY <2>1, <2>5, <2>6, <2>7, <2>8
    <3> QED BY <3>1, <3>2, <3>3, <3>4
  <2> QED BY <2>9, CountMoves
<1>6. ASSUME NEW c \in Conns, FinishRegister(c) PROVE Counted(p)'
  <2>1. pc[c] = "trigger" /\ pc'[c] = "touch" /\ UNCHANGED pool /\ gauge'[p] = gauge[p] + 1
    <3>1. pc[c] = "trigger" /\ UNCHANGED pool /\ gauge' = [gauge EXCEPT ![PodOf[c]] = @ + 1]
      BY <1>6 DEF FinishRegister
    <3>2. pc'[c] = "touch"
      BY <1>6 DEF FinishRegister, Return, Goto, TInv, TypeOK
    <3>3. PodOf[c] = p /\ gauge \in [Pods -> Int]
      BY <1>3, <1>6 DEF Works
    <3> QED BY <3>1, <3>2, <3>3
  <2>2. Taken(p)' = Taken(p)
    BY <2>1 DEF Taken
  <2>3. At("row")' = At("row") /\ At("trigger")' = At("trigger") \ {c} /\ c \in At("trigger")
    BY <1>3, <1>6, <2>1 DEF Works, At, ConnPC, Handling
  <2>4. Cardinality(At("trigger") \ {c}) = Cardinality(At("trigger")) - 1
    BY <2>3, SetSizes, FS_RemoveElement DEF ConnPC, Handling
  <2>5. Cardinality(Taken(p)) \in Int /\ Cardinality(At("row")) \in Int
        /\ Cardinality(At("trigger")) \in Int /\ gauge[p] \in Int
    BY <1>3, <1>6, SetSizes DEF Works, ConnPC, Handling
  <2>6. /\ Cardinality(Taken(p)') = Cardinality(Taken(p)) + 0
        /\ Cardinality(At("row")') = Cardinality(At("row")) + 0
        /\ Cardinality(At("trigger")') = Cardinality(At("trigger")) + (-1)
        /\ gauge'[p] = gauge[p] + 0 + 0 - (-1)
    <3>1. Cardinality(Taken(p)') = Cardinality(Taken(p)) + 0
      BY <2>1, <2>2, <2>3, <2>4, <2>5
    <3>2. Cardinality(At("row")') = Cardinality(At("row")) + 0
      BY <2>1, <2>2, <2>3, <2>4, <2>5
    <3>3. Cardinality(At("trigger")') = Cardinality(At("trigger")) + (-1)
      BY <2>1, <2>2, <2>3, <2>4, <2>5
    <3>4. gauge'[p] = gauge[p] + 0 + 0 - (-1)
      BY <2>1, <2>2, <2>3, <2>4, <2>5
    <3> QED BY <3>1, <3>2, <3>3, <3>4
  <2> QED BY <2>6, CountMoves
<1>7. ASSUME NEW c \in Conns, ReadEnd(c) PROVE Counted(p)'
  <2>1. CASE ~InPool(c)
    <3>1. UNCHANGED <<pool, gauge>> /\ pc[c] = "read" /\ pc'[c] = "gone"
      BY <1>7, <2>1 DEF ReadEnd, Goto, TInv, TypeOK
    <3> QED BY <1>3, <1>7, <3>1, CountStays DEF Works
  <2>2. CASE InPool(c)
    <3>1. PICK id \in Clients : id = cid[c]
      BY <2>2 DEF InPool, TInv, TypeOK
    <3>2. /\ pool' = [pool EXCEPT ![p][id] = NoConn] /\ UNCHANGED gauge
          /\ pc[c] = "read" /\ pc'[c] = "row" /\ pool[p][id] = c
      BY <1>3, <1>7, <2>2, <3>1 DEF ReadEnd, Goto, InPool, Works, TInv, TypeOK
    <3>3. Taken(p)' = Taken(p) \ {id} /\ id \in Taken(p)
      BY <1>3, <1>7, <3>2, PodsAssumption DEF Taken, Works
    <3>4. At("row")' = At("row") \cup {c} /\ c \notin At("row") /\ At("trigger")' = At("trigger")
      BY <1>3, <1>7, <3>2 DEF Works, At, ConnPC, Handling
    <3>5. /\ Cardinality(Taken(p) \ {id}) = Cardinality(Taken(p)) - 1
          /\ Cardinality(At("row") \cup {c}) = Cardinality(At("row")) + 1
      BY <3>3, <3>4, SetSizes, FS_RemoveElement, FS_AddElement DEF ConnPC, Handling
    <3>6. Cardinality(Taken(p)) \in Int /\ Cardinality(At("row")) \in Int
          /\ Cardinality(At("trigger")) \in Int /\ gauge[p] \in Int
      BY <1>3, <1>7, SetSizes DEF Works, ConnPC, Handling
    <3>7. /\ Cardinality(Taken(p)') = Cardinality(Taken(p)) + (-1)
          /\ Cardinality(At("row")') = Cardinality(At("row")) + 1
          /\ Cardinality(At("trigger")') = Cardinality(At("trigger")) + 0
          /\ gauge'[p] = gauge[p] + (-1) + 1 - 0
      <4>1. Cardinality(Taken(p)') = Cardinality(Taken(p)) + (-1)
        BY <3>2, <3>3, <3>4, <3>5, <3>6
      <4>2. Cardinality(At("row")') = Cardinality(At("row")) + 1
        BY <3>2, <3>3, <3>4, <3>5, <3>6
      <4>3. Cardinality(At("trigger")') = Cardinality(At("trigger")) + 0
        BY <3>2, <3>3, <3>4, <3>5, <3>6
      <4>4. gauge'[p] = gauge[p] + (-1) + 1 - 0
        BY <3>2, <3>3, <3>4, <3>5, <3>6
      <4> QED BY <4>1, <4>2, <4>3, <4>4
    <3> QED BY <3>7, CountMoves
  <2> QED BY <2>1, <2>2
<1>8. ASSUME NEW c \in Conns, RemoveOwnRow(c) PROVE Counted(p)'
  <2>1. pc[c] = "row" /\ pc'[c] = "gone" /\ UNCHANGED pool /\ gauge'[p] = gauge[p] - 1
    BY <1>3, <1>8 DEF RemoveOwnRow, Goto, Works, TInv, TypeOK
  <2>2. Taken(p)' = Taken(p)
    BY <2>1 DEF Taken
  <2>3. At("trigger")' = At("trigger") /\ At("row")' = At("row") \ {c} /\ c \in At("row")
    BY <1>3, <1>8, <2>1 DEF Works, At, ConnPC, Handling
  <2>4. Cardinality(At("row") \ {c}) = Cardinality(At("row")) - 1
    BY <2>3, SetSizes, FS_RemoveElement DEF ConnPC, Handling
  <2>5. Cardinality(Taken(p)) \in Int /\ Cardinality(At("row")) \in Int
        /\ Cardinality(At("trigger")) \in Int /\ gauge[p] \in Int
    BY <1>3, <1>8, SetSizes DEF Works, ConnPC, Handling
  <2>6. /\ Cardinality(Taken(p)') = Cardinality(Taken(p)) + 0
        /\ Cardinality(At("row")') = Cardinality(At("row")) + (-1)
        /\ Cardinality(At("trigger")') = Cardinality(At("trigger")) + 0
        /\ gauge'[p] = gauge[p] + 0 + (-1) - 0
    <3>1. Cardinality(Taken(p)') = Cardinality(Taken(p)) + 0
      BY <2>1, <2>2, <2>3, <2>4, <2>5
    <3>2. Cardinality(At("row")') = Cardinality(At("row")) + (-1)
      BY <2>1, <2>2, <2>3, <2>4, <2>5
    <3>3. Cardinality(At("trigger")') = Cardinality(At("trigger")) + 0
      BY <2>1, <2>2, <2>3, <2>4, <2>5
    <3>4. gauge'[p] = gauge[p] + 0 + (-1) - 0
      BY <2>1, <2>2, <2>3, <2>4, <2>5
    <3> QED BY <3>1, <3>2, <3>3, <3>4
  <2> QED BY <2>6, CountMoves
<1> QED BY <1>1, <1>2, <1>4, <1>5, <1>6, <1>7, <1>8, StepsLeft DEF Works

\* On one pod the gauge of open connections is the number of sessions in its
\* pool whenever nothing is in progress, after any takeovers and ends.
THEOREM GaugeSafe ==
  ASSUME Untroubled, OnePod, Triggers = FALSE, IsFiniteSet(Clients), IsFiniteSet(Conns)
  PROVE  Spec => []GaugeCountsPool
<1> DEFINE SInv == NoMail /\ Leaves /\ \A p \in Pods : Counted(p)
<1>1. Init => SInv
  <2> SUFFICES ASSUME Init, NEW p \in Pods PROVE SInv
    BY DEF Init, NoMail, Leaves, NoWork
  <2>1. NoMail /\ Leaves
    BY DEF Init, NoMail, Leaves, NoWork
  <2>2. \A q \in Pods : Taken(q) = {} /\ gauge[q] = 0
    BY DEF Init, Taken
  <2>3. At("row") = {} /\ At("trigger") = {}
    BY DEF Init, At
  <2> QED BY <2>1, <2>2, <2>3, FS_EmptySet DEF Counted
<1>2. TInv /\ PInv /\ MInv /\ SInv /\ [Next]_vars => SInv'
  BY NoMailStep, CountStep
<1>3. TInv /\ SInv => GaugeCountsPool
  <2> SUFFICES ASSUME TInv, SInv, NEW p \in Pods, \A id \in Clients : Settled(id)
               PROVE  gauge[p] = Cardinality(Taken(p))
    BY DEF GaugeCountsPool, Taken
  <2>1. At("row") = {}
    BY DEF At, Settled, Leaves
  <2>2. At("trigger") = {}
    BY JobParts DEF At, Settled, TInv, Busy, Handling
  <2>3. Cardinality(At("row")) = 0 /\ Cardinality(At("trigger")) = 0
    BY <2>1, <2>2, FS_EmptySet
  <2>4. Cardinality(Taken(p)) \in Int
    BY SetSizes
  <2>5. gauge[p] = Cardinality(Taken(p)) + 0 - 0
    BY <2>3 DEF Counted
  <2> QED BY <2>4, <2>5
<1> QED BY <1>1, <1>2, <1>3, MInvHolds, PTL DEF Spec

=============================================================================
