------------------------------ MODULE Session ------------------------------
(***************************************************************************)
(* Ownership of a webchat session across websocket pods.                   *)
(*                                                                         *)
(* A browser connection (Conns) is served by the reader goroutine of the   *)
(* pod that accepted it (PodOf).  "register" binds the connection to a     *)
(* client id: a presence row is written to the Redis hash ws:clients and   *)
(* the connection is put in the pod's ClientPool.  A later registration of *)
(* the same id takes the session over: the old owner is force-closed,      *)
(* through the pool when it is local and through a force_close entry in    *)
(* the owner pod's stream when it is not.  Every Redis call and every      *)
(* pool operation is a step of its own, so that handlers interleave where  *)
(* the code can.  The stream itself (groups, pending lists, claims, trim)  *)
(* is the subject of Router.tla; here a stream is a sequence of            *)
(* force_close entries, and one worker per pod runs processMessage.        *)
(***************************************************************************)
EXTENDS Integers, Sequences, FiniteSets

CONSTANTS
  Pods,        \* websocket pods
  Clients,     \* client ids ("from" of a register payload)
  Conns,       \* websocket connections; a connection stands for its ConnID
  Tokens,      \* non-empty session tokens
  PodOf,       \* the pod that accepted each connection
  NoPod, NoConn, NoClient, NoToken,   \* absent values
  MaxFrames,   \* bound: register and close_session frames per connection
  MaxFaults,   \* bound: Redis calls that fail and processes that are killed
  Mortal,      \* pods that may be told to stop, may die and may come back
  Flaky,       \* pods whose heartbeat key may be missing while they run
  Overlap,     \* whether two handlers of the same client id may overlap
  Rebind,      \* whether a connection may register under a second id
  Triggers     \* whether the trigger callback of a registration may fail

ASSUME PodsAssumption ==
  /\ PodOf \in [Conns -> Pods]
  /\ NoPod \notin Pods /\ NoConn \notin Conns
  /\ NoClient \notin Clients /\ NoToken \notin Tokens
  /\ Mortal \subseteq Pods /\ Flaky \subseteq Pods
  /\ MaxFrames \in Nat /\ MaxFaults \in Nat
  /\ {Overlap, Rebind, Triggers} \subseteq BOOLEAN

VARIABLES
  up,      \* [Pods -> {"up", "stopping", "dead"}]
  hb,      \* [Pods -> BOOLEAN]: the key ws:pod:hb:<pod> exists
  row,     \* [Clients -> Row]: the hash ws:clients
  seen,    \* [Clients -> {"none", "fresh", "old"}]: ws:clients:lastseen
  inbox,   \* [Pods -> Seq(Entry)]: force_close entries of ws:pod:<pod>
  pool,    \* [Pods -> [Clients -> Conns \cup {NoConn}]]: ClientPool.Clients
  gauge,   \* [Pods -> Int]: the open_connections metric
  sock,    \* [Conns -> {"none", "open", "shut"}]
  pc,      \* [Conns -> ConnPC]: where the reader goroutine is
  cid,     \* [Conns -> Clients \cup {NoClient}]: Client.ID
  job,     \* [Conns -> Job]: the frame being handled
  sent,    \* [Conns -> 0..MaxFrames]
  spoilt,  \* SUBSET Clients, for the properties only: ids whose owner was evicted
           \* by a registration that then failed on its callback
  wk,      \* [Pods -> Work]: the router goroutine running processMessage
  faults   \* 0..MaxFaults

redis == <<hb, row, seen, inbox>>
local == <<pool, gauge, sock>>
past  == <<sent, spoilt>>
conn  == <<pc, cid, job, past>>
vars  == <<up, redis, local, conn, wk, faults>>

NoRow == [pod |-> NoPod, conn |-> NoConn, token |-> NoToken]
Row   == {NoRow} \cup
         [pod : Pods, conn : Conns, token : Tokens \cup {NoToken}]
NoJob == [kind |-> "none", id |-> NoClient, token |-> NoToken,
          own |-> NoRow, dst |-> NoPod]
Job   == {NoJob} \cup
         [kind : {"register", "close"}, id : Clients,
          token : Tokens \cup {NoToken}, own : Row, dst : Pods \cup {NoPod}]
Entry == [to : Clients, target : Conns]  \* target: for the properties only
NoWork == [pc |-> "idle", src |-> NoPod, to |-> NoClient, target |-> NoConn,
           conn |-> NoConn, dst |-> NoPod]
Held   == [pc : {"find", "deliver", "race", "close", "relook", "lookup",
                 "source", "repub", "xadd", "ack"},
           src : Pods, to : Clients, target : Conns,
           conn : Conns \cup {NoConn}, dst : Pods \cup {NoPod}]
Work   == {NoWork} \cup Held
Handling == {"get", "alive", "hdel", "zrem", "evict", "xadd", "add", "pool",
             "trigger", "remove"}
ConnPC   == Handling \cup {"off", "read", "touch", "row", "gone"}

Init ==
  /\ up    = [p \in Pods |-> "up"]
  /\ hb    = [p \in Pods |-> p \notin Flaky]
  /\ row   = [i \in Clients |-> NoRow]
  /\ seen  = [i \in Clients |-> "none"]
  /\ inbox = [p \in Pods |-> <<>>]
  /\ pool  = [p \in Pods |-> [i \in Clients |-> NoConn]]
  /\ gauge = [p \in Pods |-> 0]
  /\ sock  = [c \in Conns |-> "none"]
  /\ pc    = [c \in Conns |-> "off"]
  /\ cid   = [c \in Conns |-> NoClient]
  /\ job   = [c \in Conns |-> NoJob]
  /\ sent  = [c \in Conns |-> 0]
  /\ spoilt = {}
  /\ wk    = [p \in Pods |-> NoWork]
  /\ faults = 0

----------------------------------------------------------------------------
(* Small steps shared by the handlers.                                     *)

RedisFails == faults < MaxFaults /\ faults' = faults + 1
RedisWorks == UNCHANGED faults

Goto(c, where) == pc' = [pc EXCEPT ![c] = where]

\* The handler returns, with or without an error: back in Read, which next
\* refreshes the presence TTL.
Return(c) == /\ Goto(c, "touch")
             /\ job' = [job EXCEPT ![c] = NoJob]

\* Mutant: the token is not compared.
TokenIgnored(c) == FALSE

\* A row that carries a token only yields to a payload with that token.
TokenRefused(c) == /\ job[c].own.token # NoToken
                   /\ job[c].own.token # job[c].token

\* The inboxes once the entry worker p holds is in the stream of pod q.
Put(q, p) ==
  [inbox EXCEPT ![q] = Append(@, [to |-> wk[p].to, target |-> wk[p].target])]

\* Mutant: the removal is keyed by the client id alone.
AnyRow(id, c) == [row EXCEPT ![id] = NoRow]

\* Mutant: the removal clears the conn_id and leaves the rest of the row.
RowHusk(id, c) ==
  IF row[id].conn = c THEN [row EXCEPT ![id].conn = NoConn] ELSE row

RowIf(id, c) == IF row[id].conn = c THEN [row EXCEPT ![id] = NoRow] ELSE row
SeenIf(id, c) == IF row[id].conn = c THEN [seen EXCEPT ![id] = "none"] ELSE seen
\* The script of RemoveConnectedClientIf: the row goes, and its last-seen
\* entry with it, only when the stored conn_id is the expected one.
RemoveConnectedClientIf(id, c) == row' = RowIf(id, c) /\ seen' = SeenIf(id, c)

Serial(c, id) == \A d \in Conns \ {c} : pc[d] \in Handling => job[d].id # id

----------------------------------------------------------------------------
(* The environment: sockets, frames, and the life of a pod.                *)

Connect(c) ==
  /\ pc[c] = "off" /\ up[PodOf[c]] # "dead"
  /\ sock' = [sock EXCEPT ![c] = "open"]
  /\ Goto(c, "read")
  /\ UNCHANGED <<up, redis, pool, gauge, cid, job, past, wk, faults>>

Disconnect(c) ==
  /\ sock[c] = "open"
  /\ sock' = [sock EXCEPT ![c] = "shut"]
  /\ UNCHANGED <<up, redis, pool, gauge, conn, wk, faults>>

\* ReadJSON returns a register or close_session frame, and ParsePayload
\* enters its handler.
Frame(c, kind, id, token) ==
  /\ pc[c] = "read" /\ sock[c] = "open"
  /\ sent[c] < MaxFrames
  /\ Overlap \/ Serial(c, id)
  /\ kind = "register" => Rebind \/ cid[c] \in {NoClient, id}
  /\ job' = [job EXCEPT ![c] = [kind |-> kind, id |-> id, token |-> token,
                                own |-> NoRow, dst |-> NoPod]]
  /\ sent' = [sent EXCEPT ![c] = @ + 1]
  /\ Goto(c, "get")
  /\ UNCHANGED <<up, redis, local, cid, spoilt, wk, faults>>

\* Any other frame (ping, message, ...) leaves ownership alone.
OtherFrame(c) ==
  /\ pc[c] = "read" /\ sock[c] = "open"
  /\ Goto(c, "touch")
  /\ UNCHANGED <<up, redis, local, cid, job, past, wk, faults>>

\* SIGTERM: the router loops stop and the heartbeat key is deleted; the HTTP
\* server goes on serving the open connections.
Stop(p) ==
  /\ p \in Mortal /\ up[p] = "up"
  /\ up' = [up EXCEPT ![p] = "stopping"]
  /\ hb' = [hb EXCEPT ![p] = FALSE]
  /\ UNCHANGED <<row, seen, inbox, local, conn, wk, faults>>

\* The process is killed: its memory is lost, what it had read but not
\* acknowledged stays pending in the stream, and the keys it wrote stay.
Die(p) ==
  /\ p \in Mortal /\ up[p] # "dead"
  /\ faults < MaxFaults /\ faults' = faults + 1
  /\ up' = [up EXCEPT ![p] = "dead"]
  /\ pool' = [pool EXCEPT ![p] = [i \in Clients |-> NoConn]]
  /\ gauge' = [gauge EXCEPT ![p] = 0]
  /\ sock' = [c \in Conns |-> IF PodOf[c] = p /\ pc[c] # "off"
                              THEN "shut" ELSE sock[c]]
  /\ pc' = [c \in Conns |-> IF PodOf[c] = p /\ pc[c] # "off"
                            THEN "gone" ELSE pc[c]]
  /\ job' = [c \in Conns |-> IF PodOf[c] = p THEN NoJob ELSE job[c]]
  /\ inbox' = IF wk[p].pc = "idle" THEN inbox ELSE Put(wk[p].src, p)
  /\ wk' = [wk EXCEPT ![p] = NoWork]
  /\ UNCHANGED <<hb, row, seen, cid, past>>

\* The container restarts under the same HOSTNAME, hence the same pod id.
Restart(p) ==
  /\ up[p] = "dead"
  /\ up' = [up EXCEPT ![p] = "up"]
  /\ UNCHANGED <<redis, local, conn, wk, faults>>

\* The heartbeat key expires: its pod is gone, or its refresh came late (the
\* first one is written only half a TTL after the start).
HeartbeatExpires(p) ==
  /\ hb[p] /\ (up[p] # "up" \/ p \in Flaky)
  /\ hb' = [hb EXCEPT ![p] = FALSE]
  /\ UNCHANGED <<up, row, seen, inbox, local, conn, wk, faults>>

Heartbeat(p) ==
  /\ up[p] = "up" /\ ~hb[p]
  /\ hb' = [hb EXCEPT ![p] = TRUE]
  /\ UNCHANGED <<up, row, seen, inbox, local, conn, wk, faults>>

\* More than six heartbeat TTLs pass without a refresh of the client.
Age(id) ==
  /\ seen[id] = "fresh"
  /\ seen' = [seen EXCEPT ![id] = "old"]
  /\ UNCHANGED <<up, hb, row, inbox, local, conn, wk, faults>>

----------------------------------------------------------------------------
(* The register and close_session handlers.                                *)

\* GetConnectedClient.  A free id goes straight to setupClientInfo; a
\* close_session of a free id, or with the wrong token, is refused.
GetConnectedClient(c) ==
  /\ pc[c] = "get"
  /\ RedisWorks
  /\ LET own == row[job[c].id]
         got == [job EXCEPT ![c].own = own]
     IN \/ /\ own = NoRow /\ job[c].kind = "register"
           /\ Goto(c, "add") /\ UNCHANGED job
        \/ /\ own # NoRow /\ job[c].kind = "register"
           /\ Goto(c, "alive") /\ job' = got
        \/ /\ own # NoRow /\ job[c].kind = "close"
           /\ own.token \in {NoToken, job[c].token}
           /\ Goto(c, "evict") /\ job' = got
        \/ /\ job[c].kind = "close"
           /\ own.token \notin {NoToken, job[c].token} \/ own = NoRow
           /\ Return(c)
  /\ UNCHANGED <<up, redis, local, cid, past, wk>>

\* EXISTS of the owner's heartbeat.  Its error is discarded, so a failed call
\* reads as a dead owner.
CheckOwnerAlive(c) ==
  /\ pc[c] = "alive"
  /\ \/ /\ RedisWorks /\ ~hb[job[c].own.pod]
        /\ Goto(c, "hdel") /\ UNCHANGED job
     \/ /\ RedisFails
        /\ Goto(c, "hdel") /\ UNCHANGED job
     \/ /\ RedisWorks /\ hb[job[c].own.pod] /\ ~TokenRefused(c)
        /\ Goto(c, "evict") /\ UNCHANGED job
     \/ /\ RedisWorks /\ hb[job[c].own.pod] /\ TokenRefused(c)
        /\ Return(c)
  /\ UNCHANGED <<up, redis, local, cid, past, wk>>

\* RemoveConnectedClient of a dead owner: HDEL, then ZREM, whatever the row
\* has become since it was read.  The registration is refused either way
\* (ErrorOriginalHandlerDead).
RemoveDeadRow(c) ==
  /\ pc[c] = "hdel"
  /\ RedisWorks
  /\ row' = [row EXCEPT ![job[c].id] = NoRow]
  /\ Goto(c, "zrem")
  /\ UNCHANGED <<up, hb, seen, inbox, local, cid, job, past, wk>>

ForgetDeadSeen(c) ==
  /\ pc[c] = "zrem"
  /\ RedisWorks
  /\ seen' = [seen EXCEPT ![job[c].id] = "none"]
  /\ Return(c)
  /\ UNCHANGED <<up, hb, row, inbox, local, cid, past, wk>>

AfterEvict(c) == IF job[c].kind = "register" THEN "add" ELSE "remove"

\* Mutant: the evicted connection stays in the open_connections gauge.
EvictCounted(c) ==
  /\ pc[c] = "evict" /\ job[c].own.pod = PodOf[c]
  /\ LET found == pool[PodOf[c]][job[c].id]
     IN IF found = NoConn THEN UNCHANGED local
        ELSE /\ pool' = [pool EXCEPT ![PodOf[c]][job[c].id] = NoConn]
             /\ sock' = [sock EXCEPT ![found] = "shut"]
             /\ UNCHANGED gauge
  /\ Goto(c, AfterEvict(c))
  /\ UNCHANGED <<up, redis, cid, job, past, wk, faults>>

\* The owner is on this pod: ClientPool.ForceClose takes whatever connection
\* the pool now has under the id, and that one is closed and uncounted.
EvictLocal(c) ==
  /\ pc[c] = "evict" /\ job[c].own.pod = PodOf[c]
  /\ LET p == PodOf[c]
         found == pool[p][job[c].id]
     IN IF found = NoConn THEN UNCHANGED local
        ELSE /\ pool' = [pool EXCEPT ![p][job[c].id] = NoConn]
             /\ sock' = [sock EXCEPT ![found] = "shut"]
             /\ gauge' = [gauge EXCEPT ![p] = @ - 1]
  /\ Goto(c, AfterEvict(c))
  /\ UNCHANGED <<up, redis, cid, job, past, wk, faults>>

\* Mutant: an owner on another pod is left alone.
EvictSkipped(c) ==
  /\ pc[c] = "evict" /\ job[c].own.pod # PodOf[c]
  /\ Goto(c, AfterEvict(c))
  /\ UNCHANGED <<up, redis, local, cid, job, past, wk, faults>>

\* The owner is on another pod: PublishToClient looks the id up again ...
EvictLookup(c) ==
  /\ pc[c] = "evict" /\ job[c].own.pod # PodOf[c]
  /\ RedisWorks
  /\ LET dst == row[job[c].id].pod
     IN IF dst = NoPod THEN Goto(c, AfterEvict(c)) /\ UNCHANGED job
        ELSE Goto(c, "xadd") /\ job' = [job EXCEPT ![c].dst = dst]
  /\ UNCHANGED <<up, redis, local, cid, past, wk>>

\* ... and appends the force_close to the stream of the pod it found.
EvictPublish(c) ==
  /\ pc[c] = "xadd"
  /\ RedisWorks
  /\ inbox' = [inbox EXCEPT ![job[c].dst] =
                 Append(@, [to |-> job[c].id, target |-> job[c].own.conn])]
  /\ Goto(c, AfterEvict(c))
  /\ UNCHANGED <<up, hb, row, seen, local, cid, job, past, wk>>

\* setupClientInfo sets the ID, and its parse of the callback may fail: the
\* handler then returns, with the owner it took over from evicted and that
\* owner's row in place.
SetupFails(c) ==
  /\ pc[c] = "add"
  /\ cid' = [cid EXCEPT ![c] = job[c].id]
  /\ spoilt' = IF job[c].own = NoRow THEN spoilt ELSE spoilt \cup {job[c].id}
  /\ Return(c)
  /\ UNCHANGED <<up, redis, local, sent, wk, faults>>

\* setupClientInfo and AddConnectedClient: the row now names this ConnID.
AddConnectedClient(c) ==
  /\ pc[c] = "add"
  /\ RedisWorks
  /\ cid' = [cid EXCEPT ![c] = job[c].id]
  /\ spoilt' = spoilt \ {job[c].id}
  /\ row' = [row EXCEPT ![job[c].id] = [pod |-> PodOf[c], conn |-> c,
                                        token |-> job[c].token]]
  /\ Goto(c, "pool")
  /\ UNCHANGED <<up, hb, seen, inbox, local, job, sent, wk>>

PoolRegister(c) ==
  /\ pc[c] = "pool"
  /\ pool' = [pool EXCEPT ![PodOf[c]][job[c].id] = c]
  /\ Goto(c, "trigger")
  /\ UNCHANGED <<up, redis, gauge, sock, cid, job, past, wk, faults>>

\* processTrigger and setupMetrics: a failed trigger leaves the connection
\* registered and uncounted.
FinishRegister(c) ==
  /\ pc[c] = "trigger"
  /\ \/ gauge' = [gauge EXCEPT ![PodOf[c]] = @ + 1]
     \/ Triggers /\ UNCHANGED gauge
  /\ Return(c)
  /\ UNCHANGED <<up, redis, pool, sock, cid, past, wk, faults>>

\* Mutant: close_session evicts the owner and leaves its row.
CloseKeepsRow(c) ==
  /\ pc[c] = "remove"
  /\ Return(c)
  /\ UNCHANGED <<up, redis, local, cid, past, wk, faults>>

\* close_session ends by removing the row it read.
CloseRemove(c) ==
  /\ pc[c] = "remove"
  /\ RedisWorks
  /\ RemoveConnectedClientIf(job[c].id, job[c].own.conn)
  /\ Return(c)
  /\ UNCHANGED <<up, hb, inbox, local, cid, past, wk>>

\* A Redis call of the handler fails and the handler returns.  Its ID is
\* already set when it is AddConnectedClient that failed.  (The failures that
\* need no Redis are SetupFails and a refused frame.)
HandlerFails(c) ==
  /\ \/ pc[c] \in {"get", "hdel", "zrem", "xadd", "add", "remove"}
     \/ pc[c] = "evict" /\ job[c].own.pod # PodOf[c]
  /\ RedisFails
  /\ cid' = IF pc[c] = "add" THEN [cid EXCEPT ![c] = job[c].id] ELSE cid
  /\ Return(c)
  /\ UNCHANGED <<up, redis, local, past, wk>>

\* Read, after each frame: UpdateClientTTL when the connection has an id.
Touch(c) ==
  /\ pc[c] = "touch"
  /\ \/ RedisWorks /\ seen' = IF cid[c] = NoClient THEN seen
                              ELSE [seen EXCEPT ![cid[c]] = "fresh"]
     \/ RedisFails /\ cid[c] # NoClient /\ UNCHANGED seen
  /\ Goto(c, "read")
  /\ UNCHANGED <<up, hb, row, inbox, local, cid, job, past, wk>>

----------------------------------------------------------------------------
(* The end of a connection: the deferred part of Read.                     *)

InPool(c) == cid[c] # NoClient /\ pool[PodOf[c]][cid[c]] = c

\* Mutant: the connection is not taken out of the pool.
KeepInPool(c) ==
  /\ pc[c] = "read" /\ sock[c] = "shut"
  /\ Goto(c, IF InPool(c) THEN "row" ELSE "gone")
  /\ UNCHANGED <<up, redis, local, cid, job, past, wk, faults>>

\* ClientPool.Unregister compares pointers: only a connection still in the
\* pool under its id goes on to remove its row.
ReadEnd(c) ==
  /\ pc[c] = "read" /\ sock[c] = "shut"
  /\ pool' = IF InPool(c) THEN [pool EXCEPT ![PodOf[c]][cid[c]] = NoConn]
             ELSE pool
  /\ Goto(c, IF InPool(c) THEN "row" ELSE "gone")
  /\ UNCHANGED <<up, redis, gauge, sock, cid, job, past, wk, faults>>

\* Mutant: the leaver removes whatever row its id has.
RemoveAnyRow(c) ==
  /\ pc[c] = "row"
  /\ RedisWorks
  /\ row' = AnyRow(cid[c], c)
  /\ gauge' = [gauge EXCEPT ![PodOf[c]] = @ - 1]
  /\ Goto(c, "gone")
  /\ UNCHANGED <<up, hb, seen, inbox, pool, sock, cid, job, past, wk>>

\* RemoveConnectedClientIf (its error is ignored) and DecOpenConnections.
RemoveOwnRow(c) ==
  /\ pc[c] = "row"
  /\ \/ RedisWorks /\ RemoveConnectedClientIf(cid[c], c)
     \/ RedisFails /\ UNCHANGED <<row, seen>>
  /\ gauge' = [gauge EXCEPT ![PodOf[c]] = @ - 1]
  /\ Goto(c, "gone")
  /\ UNCHANGED <<up, hb, inbox, pool, sock, cid, job, past, wk>>

----------------------------------------------------------------------------
(* processMessage and deliverToLocalClient, on force_close entries.        *)

Step(p, where) == wk' = [wk EXCEPT ![p].pc = where]

\* The entry stays pending and a later claim processes it again.
KeepPending(p) == inbox' = Put(wk[p].src, p) /\ wk' = [wk EXCEPT ![p] = NoWork]

\* The loops of a pod that is told to stop have their context cancelled: their
\* Redis calls fail, but for presence lookups, which have their own.
Cancelled(p) == up[p] = "stopping"

\* A pod consumes its own stream, and as janitor the streams of pods that
\* have no heartbeat.
Take(p, s) ==
  /\ up[p] = "up" /\ wk[p].pc = "idle"
  /\ inbox[s] # <<>>
  /\ s = p \/ ~hb[s]
  /\ wk' = [wk EXCEPT ![p] =
              [pc |-> "find", src |-> s, to |-> Head(inbox[s]).to,
               target |-> Head(inbox[s]).target, conn |-> NoConn,
               dst |-> NoPod]]
  /\ inbox' = [inbox EXCEPT ![s] = Tail(@)]
  /\ UNCHANGED <<up, hb, row, seen, local, conn, faults>>

IsLocal(p) ==
  /\ wk[p].pc = "find"
  /\ Step(p, IF pool[p][wk[p].to] # NoConn THEN "deliver" ELSE "lookup")
  /\ UNCHANGED <<up, redis, local, conn, faults>>

\* deliver finds the client anew; ErrClientNotLocal makes the router look the
\* client up again, except after the race-local attempt.
Deliver(p) ==
  /\ wk[p].pc \in {"deliver", "race"}
  /\ LET found == pool[p][wk[p].to]
     IN IF found # NoConn
        THEN wk' = [wk EXCEPT ![p].pc = "close", ![p].conn = found]
        ELSE Step(p, IF wk[p].pc = "deliver" THEN "relook" ELSE "ack")
  /\ UNCHANGED <<up, redis, local, conn, faults>>

\* Mutant: the pool forgets the client and the socket stays open.
ForgetOnly(p) ==
  /\ wk[p].pc = "close"
  /\ pool' = [pool EXCEPT ![p][wk[p].to] = NoConn]
  /\ Step(p, "ack")
  /\ UNCHANGED <<up, redis, gauge, sock, conn, faults>>

\* The pool drops whatever it has under the id, and the connection that was
\* found is closed.  Neither the row nor the gauge is touched.
ForceClose(p) ==
  /\ wk[p].pc = "close"
  /\ pool' = [pool EXCEPT ![p][wk[p].to] = NoConn]
  /\ sock' = [sock EXCEPT ![wk[p].conn] = "shut"]
  /\ Step(p, "ack")
  /\ UNCHANGED <<up, redis, gauge, conn, faults>>

Relook(p) ==
  /\ wk[p].pc = "relook"
  /\ \/ RedisWorks /\ Step(p, IF row[wk[p].to].pod \notin {NoPod, p}
                              THEN "repub" ELSE "ack")
     \/ RedisFails /\ Step(p, "ack")
  /\ UNCHANGED <<up, redis, local, conn>>

\* Not local: the entry follows the row.
Lookup(p) ==
  /\ wk[p].pc = "lookup"
  /\ RedisWorks
  /\ LET dst == row[wk[p].to].pod
     IN /\ dst # NoPod
        /\ Step(p, CASE dst = p         -> "race"
                     [] dst = wk[p].src /\ dst # p -> "source"
                     [] OTHER           -> "repub")
  /\ UNCHANGED <<up, redis, local, conn>>

\* The client is offline, or the lookup failed: the entry stays pending
\* while it is young and is acknowledged unsent when it is not.
LookupMiss(p) ==
  /\ wk[p].pc = "lookup"
  /\ (row[wk[p].to].pod = NoPod /\ RedisWorks) \/ RedisFails
  /\ KeepPending(p) \/ (Step(p, "ack") /\ UNCHANGED inbox)
  /\ UNCHANGED <<up, hb, row, seen, local, conn>>

\* A janitor whose lookup points back at the stream it drains: the entry
\* moves to its own stream, unless the source pod has a heartbeat again.
SourceAlive(p) ==
  /\ wk[p].pc = "source"
  /\ \/ RedisWorks /\ hb[wk[p].src] /\ ~Cancelled(p) /\ Step(p, "ack")
     \/ /\ (RedisWorks /\ (~hb[wk[p].src] \/ Cancelled(p))) \/ RedisFails
        /\ wk' = [wk EXCEPT ![p].pc = "xadd", ![p].dst = p]
  /\ UNCHANGED <<up, redis, local, conn>>

\* PublishToClient looks the client up once more; offline is not an error.
Republish(p) ==
  /\ wk[p].pc = "repub"
  /\ LET dst == row[wk[p].to].pod
     IN \/ /\ RedisWorks /\ dst # NoPod
           /\ wk' = [wk EXCEPT ![p].pc = "xadd", ![p].dst = dst]
        \/ /\ (RedisWorks /\ dst = NoPod) \/ RedisFails
           /\ Step(p, "ack")
  /\ UNCHANGED <<up, redis, local, conn>>

\* A failed append is logged, and the original is acknowledged all the same.
RouterAdd(p) ==
  /\ wk[p].pc = "xadd"
  /\ \/ RedisWorks /\ ~Cancelled(p) /\ inbox' = Put(wk[p].dst, p)
     \/ ((RedisWorks /\ Cancelled(p)) \/ RedisFails) /\ UNCHANGED inbox
  /\ Step(p, "ack")
  /\ UNCHANGED <<up, hb, row, seen, local, conn>>

Ack(p) ==
  /\ wk[p].pc = "ack"
  /\ \/ RedisWorks /\ ~Cancelled(p) /\ wk' = [wk EXCEPT ![p] = NoWork] /\ UNCHANGED inbox
     \/ ((RedisWorks /\ Cancelled(p)) \/ RedisFails) /\ KeepPending(p)
  /\ UNCHANGED <<up, hb, row, seen, local, conn>>

\* Mutant: the script demands a last-seen time no client has.
CleanupNever(p, id) == FALSE /\ UNCHANGED vars

\* The presence-cleanup script: the row's pod has no heartbeat and the client
\* was last seen before the cutoff.
PresenceCleanup(p, id) ==
  /\ up[p] = "up"
  /\ row[id] # NoRow /\ ~hb[row[id].pod] /\ seen[id] = "old"
  /\ row' = [row EXCEPT ![id] = NoRow]
  /\ seen' = [seen EXCEPT ![id] = "none"]
  /\ UNCHANGED <<up, hb, inbox, local, conn, wk, faults>>

----------------------------------------------------------------------------
Handler(c) ==
  \/ GetConnectedClient(c) \/ CheckOwnerAlive(c) \/ RemoveDeadRow(c)
  \/ ForgetDeadSeen(c) \/ EvictLocal(c) \/ EvictLookup(c) \/ EvictPublish(c)
  \/ SetupFails(c) \/ AddConnectedClient(c) \/ PoolRegister(c)
  \/ FinishRegister(c) \/ CloseRemove(c) \/ HandlerFails(c)

Reader(c) == Handler(c) \/ Touch(c) \/ ReadEnd(c) \/ RemoveOwnRow(c)

ProcessMessage(p) ==
  \/ IsLocal(p) \/ Deliver(p) \/ ForceClose(p) \/ Relook(p) \/ Lookup(p)
  \/ LookupMiss(p) \/ SourceAlive(p) \/ Republish(p) \/ RouterAdd(p) \/ Ack(p)

Router(p) == ProcessMessage(p) \/ \E s \in Pods : Take(p, s)

Next ==
  \/ \E c \in Conns : Connect(c) \/ Disconnect(c) \/ OtherFrame(c) \/ Reader(c)
  \/ \E c \in Conns, kind \in {"register", "close"}, id \in Clients,
        token \in Tokens \cup {NoToken} : Frame(c, kind, id, token)
  \/ \E p \in Pods : Stop(p) \/ Die(p) \/ Restart(p) \/ HeartbeatExpires(p)
                     \/ Heartbeat(p) \/ Router(p)
  \/ \E id \in Clients : Age(id)
  \/ \E p \in Pods, id \in Clients : PresenceCleanup(p, id)

Spec == Init /\ [][Next]_vars

\* Goroutines are scheduled: a reader that can step does, a router that has an
\* entry takes it, a running pod refreshes its heartbeat and scans for stale
\* rows.  Keys expire and time passes.
Fairness ==
  /\ \A c \in Conns : WF_vars(Reader(c))
  /\ \A p \in Pods :
       /\ WF_vars(ProcessMessage(p)) /\ WF_vars(Take(p, p))
       /\ WF_vars(Heartbeat(p))
       /\ WF_vars(up[p] # "up" /\ HeartbeatExpires(p))
       /\ \A id \in Clients : WF_vars(PresenceCleanup(p, id))
  /\ \A id \in Clients : WF_vars(Age(id))

FairSpec == Spec /\ Fairness

----------------------------------------------------------------------------
(* Properties.                                                             *)

\* Every variable holds a value of its kind: rows, frames and entries are
\* whole or absent.
TypeOK ==
  /\ up \in [Pods -> {"up", "stopping", "dead"}] /\ hb \in [Pods -> BOOLEAN]
  /\ row \in [Clients -> Row] /\ seen \in [Clients -> {"none", "fresh", "old"}]
  /\ inbox \in [Pods -> Seq(Entry)]
  /\ pool \in [Pods -> [Clients -> Conns \cup {NoConn}]]
  /\ gauge \in [Pods -> Int]
  /\ sock \in [Conns -> {"none", "open", "shut"}]
  /\ pc \in [Conns -> ConnPC] /\ cid \in [Conns -> Clients \cup {NoClient}]
  /\ job \in [Conns -> Job] /\ sent \in [Conns -> 0..MaxFrames]
  /\ spoilt \subseteq Clients /\ wk \in [Pods -> Work] /\ faults \in 0..MaxFaults

\* The pool never leaks: a connection it holds, under whatever interleaving
\* of takeovers, force-closes, failures and restarts, was accepted by this
\* pod under this id and still has a reader that will unregister it.
PoolHasReader ==
  \A p \in Pods, id \in Clients :
    LET c == pool[p][id]
    IN c # NoConn => /\ PodOf[c] = p /\ cid[c] = id
                     /\ pc[c] \notin {"off", "row", "gone"}

\* The end of a connection never takes the row of the connection that
\* replaced it (the purpose of conn_id in RemoveConnectedClientIf).
SuccessorKeepsRow ==
  [][\A c \in Conns, id \in Clients :
       pc[c] = "row" /\ pc'[c] = "gone" /\ row[id].conn # c
         => row'[id] = row[id]]_vars

\* No handler, reader or router is in the middle of something about id.
Settled(id) ==
  /\ \A c \in Conns : /\ pc[c] \in Handling => job[c].id # id
                      /\ pc[c] = "row" => cid[c] # id
  /\ \A p \in Pods : /\ wk[p].to # id
                     /\ \A k \in DOMAIN inbox[p] : inbox[p][k].to # id

\* Takeover leaves one session: once everything about an id has settled, at
\* most one pod still serves it.
OneLive ==
  \A id \in Clients, p, q \in Pods :
    pool[p][id] # NoConn /\ pool[q][id] # NoConn /\ p # q => ~Settled(id)

\* A served session is reachable: once settled, the row that messages are
\* routed by names the very connection the pool serves.
RowMatchesPool ==
  \A p \in Pods, id \in Clients :
    pool[p][id] # NoConn /\ Settled(id) => row[id].conn = pool[p][id]

\* A row that has settled names a connection whose reader is gone only where
\* a registration evicted that connection and failed on its own callback: no
\* other sequence of takeovers, refusals, closings and disconnections leaves
\* one behind.
NoOrphanRow ==
  \A id \in Clients :
    row[id] # NoRow /\ Settled(id) /\ pc[row[id].conn] = "gone"
      => id \in spoilt

\* A registration overwrites another session's row only when that row has no
\* token or the same token: the check is made a Redis call or more earlier.
TokenKept ==
  [][\A id \in Clients :
       row'[id].conn \notin {NoConn, row[id].conn}
         => row[id].token \in {NoToken, row'[id].token}]_vars

\* evictConnectedClient "force-closes a live owner connection": the one a
\* force_close entry closes is the owner it was published against.
ForceCloseHitsOwner ==
  [][\A p \in Pods : wk[p].pc = "close" /\ wk'[p].pc = "ack"
       => wk[p].conn = wk[p].target]_vars

\* "Open Connections count": when nothing is in progress the gauge of a pod
\* is the number of sessions its pool holds.
GaugeCountsPool ==
  \A p \in Pods :
    (\A id \in Clients : Settled(id)) =>
      gauge[p] = Cardinality({id \in Clients : pool[p][id] # NoConn})

\* While no pod is taken for dead, an owner that a force_close was published
\* against is eventually closed.
EvictedCloses ==
  [](\A p \in Pods : up[p] = "up" /\ hb[p]) =>
    \A c \in Conns :
      (\E p \in Pods : \E k \in DOMAIN inbox[p] : inbox[p][k].target = c)
        ~> sock[c] = "shut"

\* A session whose socket has closed does not stay addressable, unless the
\* registration that closed it fails on its callback before it writes a row.
ShutRowGoes ==
  \A c \in Conns, id \in Clients :
    row[id].conn = c /\ sock[c] = "shut"
      ~> row[id].conn # c \/ id \in spoilt

\* The row of a connection lost with its pod goes too, once the client was
\* seen at least once and unless the pod comes back under the same id, or
\* another connection that carries the id stays open: it need not own the row
\* to refresh its last-seen time with every frame.
DeadRowGoes ==
  \A c \in Conns, id \in Clients :
    row[id].conn = c /\ up[PodOf[c]] = "dead"
      ~> \/ row[id].conn # c \/ seen[id] = "none" \/ up[PodOf[c]] # "dead"
         \/ [](\E d \in Conns \ {c} : cid[d] = id /\ sock[d] = "open")

\* A force_close is on its way to whatever the pool of p has under id.
Doomed(p, id) ==
  \/ \E k \in DOMAIN inbox[p] : inbox[p][k].to = id
  \/ wk[p].to = id /\ wk[p].pc \in {"find", "deliver", "race", "close"}
Clear(p, id) == pool[p][id] = NoConn \/ Doomed(p, id)

\* The pods together keep the promise of Ownership ("safe session takeover"):
\* by the time a registration writes its row, the session that it takes over
\* has left its pool, or the force_close that it cannot escape is in the
\* stream; and a row is removed only when nobody is served under its id.
Entering(id) == {c \in Conns : pc[c] = "pool" /\ job[c].id = id}
Serving(id)  == {pool[p][id] : p \in {q \in Pods : ~Clear(q, id)}}
Owners == INSTANCE Ownership WITH
  owner    <- [id \in Clients |-> row[id].conn],
  token    <- [id \in Clients |-> row[id].token],
  entering <- [id \in Clients |-> Entering(id)],
  serving  <- [id \in Clients |-> Serving(id)]
OwnershipRefined == Owners!Spec
=============================================================================
