------------------------------- MODULE Router -------------------------------
(***************************************************************************)
(* The streams router: one Redis stream per pod, read by a consumer group. *)
(*                                                                         *)
(* A message for a client is appended to the stream of the pod the         *)
(* client's presence row names.  Three loops of every pod take entries and *)
(* run processMessage on them: the consumer reads new entries of its own   *)
(* stream, the claimer takes over entries that stayed pending too long,    *)
(* and the janitor drains, force-acknowledges and deletes the streams of   *)
(* pods without a heartbeat.  A loop is interleaved with the others at     *)
(* every Redis call.  Client sessions (presence rows and pools) are        *)
(* modelled as far as the router sees them; Session.tla has them in full.  *)
(***************************************************************************)
EXTENDS Integers, Sequences, FiniteSets

CONSTANTS
  Pods, Clients, Msgs, NoPod,
  To,            \* the client each message is for
  Loops,         \* the loops that run: pairs of a pod and a kind of loop
  ReadCount,     \* StreamsReadCount
  MaxReads,      \* XREADGROUP calls of one drain (10 in the code)
  MaxPending,    \* StreamsMaxPendingMs, in ticks
  DeadRetention, \* DeadPodRetentionMs, in ticks
  Retention,     \* StreamsRetentionMs, in ticks; 0 turns the trim loop off
  MaxTime,       \* bound: ticks
  MaxCopies,     \* bound: entries of one message that exist at once
  Budget,        \* bound: registrations, Redis errors and crashes of a run
  Mortal,        \* pods that may be told to stop and may die
  Revive,        \* pods that come back under the same id
  Flaky,         \* pods that start before their first heartbeat
  Slow,          \* whether an entry in hand may become idle enough to claim
  EarlyDrain,    \* whether a drain may find entries that are not yet idle
  DeleteRace     \* whether an append may fall between a drain's XLEN and DEL

Kinds == {"consumer", "claimer", "janitor"}

ASSUME RouterAssumption ==
  /\ NoPod \notin Pods /\ {"new", "offline", "sent"} \cap Pods = {}
  /\ To \in [Msgs -> Clients] /\ Loops \subseteq Pods \X Kinds
  /\ {ReadCount, MaxReads, MaxPending, DeadRetention, MaxCopies} \subseteq Nat \ {0}
  /\ {Retention, MaxTime} \subseteq Nat
  /\ Budget \in [{"move", "error", "crash"} -> Nat]
  /\ Mortal \subseteq Pods /\ Revive \subseteq Pods /\ Flaky \subseteq Pods
  /\ {Slow, EarlyDrain, DeleteRace} \subseteq BOOLEAN

VARIABLES
  up,      \* [Pods -> {"up", "stopping", "dead"}]
  hb,      \* [Pods -> BOOLEAN]: the key ws:pod:hb:<pod>
  row,     \* [Clients -> Pods \cup {NoPod}]: pod_id of the ws:clients row
  sess,    \* [Clients -> SessState]: where the client's session is
  pool,    \* [Pods -> SUBSET Clients]: ClientPool.Clients
  stream,  \* [Pods -> Stream]: ws:pod:<pod> with its group wsgrp:<pod>
  lock,    \* [Pods -> Pods \cup {NoPod}]: ws:janitor:drain:<pod>
  pub,     \* [Msgs -> {"new", "offline", "sent"} \cup Pods]: the publisher
  wk,      \* [Loops -> Worker]
  trim,    \* [Pods -> Int]: the cutoff trimLoop computed, -1 for none
  now,     \* 0..MaxTime
  got,     \* [Msgs -> 0..2]: how often it was delivered; 2 is "more than once"
  used     \* how much of Budget is spent

session == <<row, sess, pool>>
redis   == <<hb, stream, lock>>
vars    == <<up, session, redis, pub, wk, trim, now, got, used>>

Entry == [m : Msgs, k : 1..MaxCopies, t : 0..MaxTime]  \* k tells copies apart
SessState == {"off", "row", "on", "shut", "end", "lost"}
Stream ==
  [key    : BOOLEAN,          \* the stream exists
   group  : BOOLEAN,          \* its consumer group exists
   unread : Seq(Entry),       \* entries after the last delivered id
   pel    : SUBSET Entry,     \* delivered to a consumer, not acknowledged
   idle   : SUBSET Entry,     \* those pending for StreamsClaimIdleMs or more
   ghost  : SUBSET Entry,     \* those pending whose entry was trimmed
   acked  : -1..MaxTime]      \* newest acknowledged entry still stored
Taking  == {"claim", "read"}  \* where a loop takes its next batch
Phases  == Taking \cup {"idle", "lock", "group", "trim", "pending", "force",
                        "len", "del", "unlock"}
Steps   == {"find", "deliver", "race", "relook", "lookup", "source", "repub",
            "xadd", "ack"}
Worker ==
  [pc : Phases \cup Steps,
   src : Pods \cup {NoPod}, dst : Pods \cup {NoPod},
   batch : Seq(Entry),         \* entries in hand; the first is processed
   back : Taking \cup {"idle"},  \* where the loop goes on after the batch
   ids : SUBSET Entry,         \* what forceAckAllPending listed
   reads : 0..MaxReads,
   \* For the properties: whether the client's session changed while its entry
   \* was in hand, what this drain left pending as offline, and whether it
   \* still has its lease.
   moved : BOOLEAN, kept : SUBSET Msgs, leased : BOOLEAN]

Empty == [key |-> FALSE, group |-> FALSE, unread |-> <<>>, pel |-> {},
          idle |-> {}, ghost |-> {}, acked |-> -1]
Resting == [pc |-> "idle", src |-> NoPod, dst |-> NoPod, batch |-> <<>>,
            back |-> "idle", ids |-> {}, reads |-> 0, moved |-> FALSE,
            kept |-> {}, leased |-> FALSE]

Init ==
  /\ up     = [p \in Pods |-> "up"]
  /\ hb     = [p \in Pods |-> p \notin Flaky]
  /\ row    = [i \in Clients |-> NoPod]
  /\ sess   = [i \in Clients |-> "off"]
  /\ pool   = [p \in Pods |-> {}]
  /\ stream = [p \in Pods |-> Empty]
  /\ lock   = [p \in Pods |-> NoPod]
  /\ pub    = [m \in Msgs |-> "new"]
  /\ wk     = [w \in Loops |-> Resting]
  /\ trim   = [p \in Pods |-> -1]
  /\ now    = 0
  /\ got    = [m \in Msgs |-> 0]
  /\ used   = [k \in DOMAIN Budget |-> 0]

----------------------------------------------------------------------------
(* Helpers.                                                                *)

Pod(w)  == w[1]
Kind(w) == w[2]
InHand(w) == Head(wk[w].batch)
Client(w) == To[InHand(w).m]
Elems(seq) == {seq[n] : n \in DOMAIN seq}
Later(a, b) == IF a > b THEN a ELSE b

Spend(what) == /\ used[what] < Budget[what]
               /\ used' = [used EXCEPT ![what] = @ + 1]
Fails == Spend("error")
Works == UNCHANGED used

\* The context of the loops is cancelled when the pod is told to stop, so the
\* Redis calls that use it fail.  Presence lookups have a context of their own.
Cancelled(w) == up[Pod(w)] = "stopping"

Goto(w, where) == wk' = [wk EXCEPT ![w].pc = where]

\* The first entry of the batch is finished with, acknowledged or not.
NextInBatch(w, left) ==
  LET k == [wk[w] EXCEPT !.batch = Tail(@), !.dst = NoPod, !.moved = FALSE,
                         !.kept = @ \cup left]
  IN wk' = [wk EXCEPT ![w] = IF k.batch # <<>> THEN [k EXCEPT !.pc = "find"]
                             ELSE IF k.back = "idle" THEN Resting
                             ELSE [k EXCEPT !.pc = k.back]]

StartBatch(w, s, batch, back) ==
  wk' = [wk EXCEPT ![w].src = s, ![w].batch = batch, ![w].back = back,
                   ![w].pc = "find"]

\* XADD.  The copy number tells the new entry from those still around.
Around == (UNION {Elems(stream[s].unread) \cup stream[s].pel : s \in Pods})
          \cup (UNION {Elems(wk[w].batch) : w \in Loops})
Fresh(m) == {k \in 1..MaxCopies : ~\E e \in Around : e.m = m /\ e.k = k}
AddTo(s, m) ==
  /\ Fresh(m) # {}
  /\ DeleteRace \/ ~\E w \in Loops : wk[w].pc = "del" /\ wk[w].src = s
  /\ stream' = [stream EXCEPT ![s].key = TRUE, ![s].unread = Append(@,
       [m |-> m, k |-> CHOOSE k \in Fresh(m) : \A j \in Fresh(m) : k <= j,
        t |-> now])]

\* XACK: the entry leaves the pending list and stays in the stream.
Acked(st, e) ==
  IF e \notin st.pel THEN st
  ELSE [st EXCEPT !.pel = @ \ {e}, !.idle = @ \ {e}, !.ghost = @ \ {e},
                  !.acked = IF e \in st.ghost THEN @ ELSE Later(@, e.t)]
AckedAll(st, ids) ==
  LET hit  == ids \cap st.pel
      kept == {e.t : e \in hit \ st.ghost}
  IN [st EXCEPT !.pel = @ \ hit, !.idle = @ \ hit, !.ghost = @ \ hit,
        !.acked = IF kept = {} THEN @
                  ELSE Later(@, CHOOSE t \in kept : \A u \in kept : t >= u)]

\* XTRIM MINID ~ may keep some of the entries it is told to remove.
Cuts(cut) == {t \in 0..MaxTime : t <= cut} \cup {cut}

\* XTRIM: older entries, which come first, leave the stream, pending or not.
Trimmed(st, cut) ==
  LET old == Cardinality({n \in DOMAIN st.unread : st.unread[n].t < cut})
  IN [st EXCEPT !.unread = SubSeq(@, old + 1, Len(@)),
                !.ghost = @ \cup {e \in st.pel : e.t < cut},
                !.acked = IF @ < cut THEN -1 ELSE @]

\* Mutant: the group is created without its stream.
GroupOnly(st) == [st EXCEPT !.group = TRUE]

\* Mutant: the group is created at the end of the stream.
GroupAtEnd(st) == [st EXCEPT !.key = TRUE, !.group = TRUE, !.unread = <<>>]

\* XGROUP CREATE MKSTREAM at id 0-0: a new group has every entry unread, and an
\* existing one is left as it is (BUSYGROUP).
EnsureGroup(st) == [st EXCEPT !.key = TRUE, !.group = TRUE]

\* XLEN is zero.
NoEntries(st) == st.unread = <<>> /\ st.pel = st.ghost /\ st.acked = -1

----------------------------------------------------------------------------
(* Sessions, as the router sees them.                                      *)

\* The loops that have an entry for client i in hand note that it moved.
Stir(i) == wk' = [w \in Loops |->
  [wk[w] EXCEPT !.moved = @ \/ (wk[w].batch # <<>> /\ Client(w) = i)]]

\* The row names the new pod first.  An owner on the same pod is evicted from
\* the pool, an owner on another pod is told later.
AddConnectedClient(i, p) ==
  /\ up[p] # "dead"
  /\ row[i] # NoPod => hb[row[i]] /\ sess[i] # "row"
  /\ Spend("move")
  /\ row' = [row EXCEPT ![i] = p]
  /\ pool' = [pool EXCEPT ![p] = @ \ {i}]
  /\ sess' = [sess EXCEPT ![i] = "row"]
  /\ Stir(i)
  /\ UNCHANGED <<up, redis, pub, trim, now, got>>

PoolRegister(i) ==
  /\ sess[i] = "row"
  /\ pool' = [pool EXCEPT ![row[i]] = @ \cup {i}]
  /\ sess' = [sess EXCEPT ![i] = "on"]
  /\ Stir(i)
  /\ UNCHANGED <<up, row, redis, pub, trim, now, got, used>>

\* The connection breaks, its reader leaves the pool and then removes the row.
Disconnect(i) ==
  /\ sess[i] = "on"
  /\ sess' = [sess EXCEPT ![i] = "shut"]
  /\ Stir(i)
  /\ UNCHANGED <<up, row, pool, redis, pub, trim, now, got, used>>

ReadEnd(i) ==
  /\ sess[i] = "shut"
  /\ pool' = [pool EXCEPT ![row[i]] = @ \ {i}]
  /\ sess' = [sess EXCEPT ![i] = "end"]
  /\ Stir(i)
  /\ UNCHANGED <<up, row, redis, pub, trim, now, got, used>>

RemoveOwnRow(i) ==
  /\ sess[i] = "end"
  /\ row' = [row EXCEPT ![i] = NoPod]
  /\ sess' = [sess EXCEPT ![i] = "off"]
  /\ Stir(i)
  /\ UNCHANGED <<up, pool, redis, pub, trim, now, got, used>>

\* The connection that was taken over from another pod is closed there.
Evicted(i, p) ==
  /\ i \in pool[p] /\ row[i] # p
  /\ pool' = [pool EXCEPT ![p] = @ \ {i}]
  /\ Stir(i)
  /\ UNCHANGED <<up, row, sess, redis, pub, trim, now, got, used>>

\* A registration that meets the row of a dead pod removes it, and so does
\* presence cleanup.
RemoveDeadRow(i) ==
  /\ row[i] # NoPod /\ ~hb[row[i]] /\ sess[i] = "lost"
  /\ row' = [row EXCEPT ![i] = NoPod]
  /\ sess' = [sess EXCEPT ![i] = "off"]
  /\ Stir(i)
  /\ UNCHANGED <<up, pool, redis, pub, trim, now, got, used>>

----------------------------------------------------------------------------
(* Pods and time.                                                          *)

Stop(p) ==
  /\ p \in Mortal /\ up[p] = "up"
  /\ up' = [up EXCEPT ![p] = "stopping"]
  /\ hb' = [hb EXCEPT ![p] = FALSE]
  /\ UNCHANGED <<session, stream, lock, pub, wk, trim, now, got, used>>

\* What the loops had in hand stays pending; locks and rows stay.
Die(p) ==
  /\ p \in Mortal /\ up[p] # "dead"
  /\ Spend("crash")
  /\ up' = [up EXCEPT ![p] = "dead"]
  /\ pool' = [pool EXCEPT ![p] = {}]
  /\ sess' = [i \in Clients |-> IF row[i] = p THEN "lost" ELSE sess[i]]
  /\ wk' = [w \in Loops |-> IF Pod(w) = p THEN Resting ELSE wk[w]]
  /\ trim' = [trim EXCEPT ![p] = -1]
  /\ UNCHANGED <<row, redis, pub, now, got>>

Restart(p) ==
  /\ p \in Revive /\ up[p] = "dead"
  /\ up' = [up EXCEPT ![p] = "up"]
  /\ UNCHANGED <<session, redis, pub, wk, trim, now, got, used>>

HeartbeatExpires(p) ==
  /\ hb[p] /\ up[p] # "up"
  /\ hb' = [hb EXCEPT ![p] = FALSE]
  /\ UNCHANGED <<up, session, stream, lock, pub, wk, trim, now, got, used>>

Heartbeat(p) ==
  /\ up[p] = "up" /\ ~hb[p]
  /\ hb' = [hb EXCEPT ![p] = TRUE]
  /\ UNCHANGED <<up, session, stream, lock, pub, wk, trim, now, got, used>>

Tick ==
  /\ now < MaxTime
  /\ now' = now + 1
  /\ UNCHANGED <<up, session, redis, pub, wk, trim, got, used>>

\* A pending entry has not been touched for StreamsClaimIdleMs.
GrowIdle(s, e) ==
  /\ e \in stream[s].pel \ stream[s].idle
  /\ Slow \/ ~\E w \in Loops : e \in Elems(wk[w].batch)
  /\ stream' = [stream EXCEPT ![s].idle = @ \cup {e}]
  /\ UNCHANGED <<up, session, hb, lock, pub, wk, trim, now, got, used>>

\* The lease of a drain runs out: its pod died, or the drain took too long.
LeaseExpires(s) ==
  /\ lock[s] # NoPod
  /\ Slow \/ ~\E w \in Loops : Pod(w) = lock[s] /\ wk[w].src = s /\ Kind(w) = "janitor"
  /\ lock' = [lock EXCEPT ![s] = NoPod]
  /\ wk' = [w \in Loops |->
              [wk[w] EXCEPT !.leased = @ /\ ~(Pod(w) = lock[s] /\ wk[w].src = s)]]
  /\ UNCHANGED <<up, session, hb, stream, pub, trim, now, got, used>>

----------------------------------------------------------------------------
(* PublishToClient, called by the SendHandler, the gRPC server and others. *)

PublishLookup(m) ==
  /\ pub[m] = "new"
  /\ pub' = [pub EXCEPT ![m] = IF row[To[m]] = NoPod THEN "offline" ELSE row[To[m]]]
  /\ UNCHANGED <<up, session, redis, wk, trim, now, got, used>>

PublishAdd(m) ==
  /\ pub[m] \in Pods
  /\ AddTo(pub[m], m)
  /\ pub' = [pub EXCEPT ![m] = "sent"]
  /\ UNCHANGED <<up, session, hb, lock, wk, trim, now, got, used>>

----------------------------------------------------------------------------
(* consumeLoop and autoClaimLoop.                                          *)

Ready(w, kind) == Kind(w) = kind /\ wk[w].pc = "idle" /\ up[Pod(w)] = "up"

\* At the start, and whenever a read or a claim answers NOGROUP.
CreateGroup(w) ==
  /\ Ready(w, "consumer") \/ Ready(w, "claimer")
  /\ ~stream[Pod(w)].group
  /\ stream' = [stream EXCEPT ![Pod(w)] = EnsureGroup(@)]
  /\ UNCHANGED <<up, session, hb, lock, pub, wk, trim, now, got, used>>

FirstUnread(s) == SubSeq(stream[s].unread, 1,
  IF Len(stream[s].unread) < ReadCount THEN Len(stream[s].unread) ELSE ReadCount)
Delivered(st, batch) ==
  [st EXCEPT !.unread = SubSeq(@, Len(batch) + 1, Len(@)),
             !.pel = @ \cup Elems(batch)]

\* XREADGROUP: a batch of new entries becomes pending.
ReadGroup(w) ==
  /\ Ready(w, "consumer")
  /\ LET p == Pod(w)
         batch == FirstUnread(p)
     IN /\ stream[p].group /\ batch # <<>>
        /\ stream' = [stream EXCEPT ![p] = Delivered(@, batch)]
        /\ StartBatch(w, p, batch, "idle")
  /\ UNCHANGED <<up, session, hb, lock, pub, trim, now, got, used>>

Claimable(s) == stream[s].idle \ stream[s].ghost

\* Mutant: the cursor is past every pending entry.
ClaimNothing(w) == FALSE /\ UNCHANGED vars

\* XAUTOCLAIM, one entry at a time; it does not return what was trimmed.
AutoClaim(w) ==
  /\ Ready(w, "claimer")
  /\ \E e \in Claimable(Pod(w)) :
       /\ stream' = [stream EXCEPT ![Pod(w)].idle = @ \ {e}]
       /\ StartBatch(w, Pod(w), <<e>>, "idle")
  /\ UNCHANGED <<up, session, hb, lock, pub, trim, now, got, used>>
----------------------------------------------------------------------------
(* processMessage, on the first entry of the batch.                        *)

Age(e) == now - e.t
\* A client that is offline keeps its messages pending for half the time.
Window(lookupFailed) == IF lookupFailed THEN MaxPending ELSE MaxPending \div 2

\* Mutant: the age limit is off by one.
FindEarly(w) ==
  /\ wk[w].pc = "find"
  /\ Goto(w, IF Age(InHand(w)) >= MaxPending THEN "ack"
             ELSE IF Client(w) \in pool[Pod(w)] THEN "deliver" ELSE "lookup")
  /\ UNCHANGED <<up, session, redis, pub, trim, now, got, used>>

\* Too old an entry is dropped; a local client gets it; the rest is looked up.
Find(w) ==
  /\ wk[w].pc = "find"
  /\ Goto(w, IF Age(InHand(w)) > MaxPending THEN "ack"
             ELSE IF Client(w) \in pool[Pod(w)] THEN "deliver" ELSE "lookup")
  /\ UNCHANGED <<up, session, redis, pub, trim, now, got, used>>

\* The pool still has the client though its socket is closed.
Broken(i, p) == ~(row[i] = p /\ sess[i] = "on")

\* deliver: the pool is searched anew.  An error sends the entry to a second
\* lookup, except on the race-local attempt, which is the last.
Deliver(w) ==
  /\ wk[w].pc \in {"deliver", "race"}
  /\ LET i == Client(w)
         found == i \in pool[Pod(w)]
     IN \/ /\ found
           /\ got' = [got EXCEPT ![InHand(w).m] = IF @ = 2 THEN 2 ELSE @ + 1]
           /\ Goto(w, "ack")
        \/ /\ ~found \/ Broken(i, Pod(w))
           /\ Goto(w, IF wk[w].pc = "deliver" THEN "relook" ELSE "ack")
           /\ UNCHANGED got
  /\ UNCHANGED <<up, session, redis, pub, trim, now, used>>

Relook(w) ==
  /\ wk[w].pc = "relook"
  /\ \/ Works /\ Goto(w, IF row[Client(w)] \notin {NoPod, Pod(w)}
                        THEN "repub" ELSE "ack")
     \/ Fails /\ Goto(w, "ack")
  /\ UNCHANGED <<up, session, redis, pub, trim, now, got>>

\* Mutant: an entry whose client has moved is dropped.
MovedDropped(w) ==
  /\ wk[w].pc = "lookup"
  /\ Works
  /\ LET dst == row[Client(w)]
     IN dst # NoPod /\ Goto(w, IF dst = Pod(w) THEN "race" ELSE "ack")
  /\ UNCHANGED <<up, session, redis, pub, trim, now, got>>

\* The entry follows the row of its client.
Lookup(w) ==
  /\ wk[w].pc = "lookup"
  /\ Works
  /\ LET dst == row[Client(w)]
     IN /\ dst # NoPod
        /\ Goto(w, CASE dst = Pod(w)   -> "race"
                     [] dst = wk[w].src /\ dst # Pod(w) -> "source"
                     [] OTHER          -> "repub")
  /\ UNCHANGED <<up, session, redis, pub, trim, now, got>>

\* Offline, or the lookup failed: the entry stays pending until it is too old.
LookupMiss(w) ==
  /\ wk[w].pc = "lookup"
  /\ \E failed \in BOOLEAN :
       /\ IF failed THEN Fails ELSE Works /\ row[Client(w)] = NoPod
       /\ IF Age(InHand(w)) > Window(failed) THEN Goto(w, "ack")
          ELSE NextInBatch(w, {InHand(w).m})
  /\ UNCHANGED <<up, session, redis, pub, trim, now, got>>

\* The client's row names the very pod being drained: the entry moves to this
\* pod's stream, unless that pod has a heartbeat after all.
SourceAlive(w) ==
  /\ wk[w].pc = "source"
  /\ \/ /\ Works /\ hb[wk[w].src] /\ ~Cancelled(w)
        /\ Goto(w, "ack")
     \/ /\ (Works /\ (~hb[wk[w].src] \/ Cancelled(w))) \/ Fails
        /\ wk' = [wk EXCEPT ![w].pc = "xadd", ![w].dst = Pod(w)]
  /\ UNCHANGED <<up, session, redis, pub, trim, now, got>>

\* PublishToClient looks the client up once more; offline is not an error.
Republish(w) ==
  /\ wk[w].pc = "repub"
  /\ LET dst == row[Client(w)]
     IN \/ /\ Works /\ dst # NoPod
           /\ wk' = [wk EXCEPT ![w].pc = "xadd", ![w].dst = dst]
        \/ /\ (Works /\ dst = NoPod) \/ Fails
           /\ Goto(w, "ack")
  /\ UNCHANGED <<up, session, redis, pub, trim, now, got>>

\* A failed append is logged, and the original is acknowledged all the same.
Add(w) ==
  /\ wk[w].pc = "xadd"
  /\ \/ Works /\ ~Cancelled(w) /\ AddTo(wk[w].dst, InHand(w).m)
     \/ ((Works /\ Cancelled(w)) \/ Fails) /\ UNCHANGED stream
  /\ Goto(w, "ack")
  /\ UNCHANGED <<up, session, hb, lock, pub, trim, now, got>>

\* Mutant: a delivered entry is left pending.
AckForgotten(w) ==
  /\ wk[w].pc = "ack"
  /\ NextInBatch(w, {})
  /\ UNCHANGED <<up, session, redis, pub, trim, now, got, used>>

Ack(w) ==
  /\ wk[w].pc = "ack"
  /\ \/ /\ Works /\ ~Cancelled(w)
        /\ stream' = [stream EXCEPT ![wk[w].src] = Acked(@, InHand(w))]
     \/ ((Works /\ Cancelled(w)) \/ Fails) /\ UNCHANGED stream
  /\ NextInBatch(w, {})
  /\ UNCHANGED <<up, session, hb, lock, pub, trim, now, got>>

----------------------------------------------------------------------------
(* janitorLoop and drainDeadPod.                                           *)

At(w, phase) == wk[w].pc = phase /\ Kind(w) = "janitor"
SetStream(w, st) == stream' = [stream EXCEPT ![wk[w].src] = st]

\* SCAN finds the stream of another pod and EXISTS finds no heartbeat.
FindDeadPod(w, s) ==
  /\ At(w, "idle") /\ up[Pod(w)] = "up"
  /\ s # Pod(w) /\ stream[s].key /\ ~hb[s]
  /\ EarlyDrain \/ stream[s].pel \subseteq stream[s].idle
  /\ wk' = [wk EXCEPT ![w].pc = "lock", ![w].src = s]
  /\ UNCHANGED <<up, session, redis, pub, trim, now, got, used>>

AcquireLock(w) ==
  /\ At(w, "lock")
  /\ \/ /\ Works /\ ~Cancelled(w) /\ lock[wk[w].src] = NoPod
        /\ lock' = [lock EXCEPT ![wk[w].src] = Pod(w)]
        /\ wk' = [wk EXCEPT ![w].pc = "group", ![w].leased = TRUE]
     \/ /\ (Works /\ lock[wk[w].src] # NoPod) \/ Fails
        /\ wk' = [wk EXCEPT ![w] = Resting]
        /\ UNCHANGED lock
  /\ UNCHANGED <<up, session, hb, stream, pub, trim, now, got>>

DrainGroup(w) ==
  /\ At(w, "group") /\ ~Cancelled(w)
  /\ \/ Works /\ SetStream(w, EnsureGroup(stream[wk[w].src])) /\ Goto(w, "trim")
     \/ Fails /\ Goto(w, "unlock") /\ UNCHANGED stream
  /\ UNCHANGED <<up, session, hb, lock, pub, trim, now, got>>

\* Step 1: XTRIM by the retention of dead pods.
DrainTrim(w) ==
  /\ At(w, "trim") /\ ~Cancelled(w)
  /\ \/ /\ Works
        /\ \E cut \in Cuts(now - DeadRetention) :
             SetStream(w, Trimmed(stream[wk[w].src], cut))
     \/ Fails /\ UNCHANGED stream
  /\ Goto(w, "claim")
  /\ UNCHANGED <<up, session, hb, lock, pub, trim, now, got>>

\* Step 2: claim and process pending entries until no idle one is left.
DrainClaim(w) ==
  /\ At(w, "claim") /\ ~Cancelled(w)
  /\ LET s == wk[w].src
     IN \/ /\ Works
           /\ \E e \in Claimable(s) :
                /\ stream' = [stream EXCEPT ![s].idle = @ \ {e}]
                /\ StartBatch(w, s, <<e>>, "claim")
        \/ /\ (Works /\ Claimable(s) = {}) \/ Fails
           /\ Goto(w, "read") /\ UNCHANGED stream
  /\ UNCHANGED <<up, session, hb, lock, pub, trim, now, got>>

\* Step 3: read and process what nobody has read, a bounded number of times.
DrainRead(w) ==
  /\ At(w, "read") /\ ~Cancelled(w)
  /\ LET s == wk[w].src
         batch == FirstUnread(s)
         more == wk[w].reads < MaxReads /\ batch # <<>> /\ stream[s].group
     IN \/ /\ Works /\ more
           /\ stream' = [stream EXCEPT ![s] = Delivered(@, batch)]
           /\ wk' = [wk EXCEPT ![w].batch = batch, ![w].pc = "find",
                               ![w].back = "read", ![w].reads = @ + 1]
        \/ /\ (Works /\ ~more) \/ Fails
           /\ Goto(w, "pending") /\ UNCHANGED stream
  /\ UNCHANGED <<up, session, hb, lock, pub, trim, now, got>>

\* Step 4, forceAckAllPending: XPENDING lists every id, idle or not ...
ListPending(w) ==
  /\ At(w, "pending") /\ ~Cancelled(w)
  /\ \/ Works /\ wk' = [wk EXCEPT ![w].pc = "force",
                                 ![w].ids = stream[wk[w].src].pel]
     \/ Fails /\ Goto(w, "len")
  /\ UNCHANGED <<up, session, redis, pub, trim, now, got>>

\* ... and XACK drops them.
ForceAck(w) ==
  /\ At(w, "force") /\ ~Cancelled(w)
  /\ \/ Works /\ SetStream(w, AckedAll(stream[wk[w].src], wk[w].ids))
     \/ Fails /\ UNCHANGED stream
  /\ wk' = [wk EXCEPT ![w].pc = "len", ![w].ids = {}]
  /\ UNCHANGED <<up, session, hb, lock, pub, trim, now, got>>

\* Step 5: XLEN and XPENDING.  The answer of a call that failed reads as zero.
CheckEmpty(w) ==
  /\ At(w, "len") /\ ~Cancelled(w)
  /\ LET st == stream[wk[w].src]
     IN \/ Works /\ Goto(w, IF NoEntries(st) /\ st.pel = {} THEN "del" ELSE "unlock")
        \/ Fails /\ Goto(w, IF NoEntries(st) \/ st.pel = {} THEN "del" ELSE "unlock")
  /\ UNCHANGED <<up, session, redis, pub, trim, now, got>>

\* XGROUP DESTROY and DEL.
DeleteStream(w) ==
  /\ At(w, "del") /\ ~Cancelled(w)
  /\ \/ Works /\ SetStream(w, Empty)
     \/ Fails /\ UNCHANGED stream
  /\ Goto(w, "unlock")
  /\ UNCHANGED <<up, session, hb, lock, pub, trim, now, got>>

\* Mutant: the key is deleted without comparing the token.
FreeLock(s, p) == [lock EXCEPT ![s] = NoPod]

\* The script deletes the lock only while it has this drain's token.
FreeOwn(s, p) == IF lock[s] = p THEN [lock EXCEPT ![s] = NoPod] ELSE lock

ReleaseLock(w) ==
  /\ At(w, "unlock") /\ ~Cancelled(w)
  /\ \/ Works /\ lock' = FreeOwn(wk[w].src, Pod(w))
     \/ Fails /\ UNCHANGED lock
  /\ wk' = [wk EXCEPT ![w] = Resting]
  /\ UNCHANGED <<up, session, hb, stream, pub, trim, now, got>>

\* Once the context is cancelled every remaining call of the drain fails.
DrainCancelled(w) ==
  /\ Kind(w) = "janitor" /\ Cancelled(w)
  /\ wk[w].pc \in Phases \ {"idle"}
  /\ wk' = [wk EXCEPT ![w] = Resting]
  /\ UNCHANGED <<up, session, redis, pub, trim, now, got, used>>
----------------------------------------------------------------------------
(* trimLoop, on the pod's own stream.                                      *)

OldestPending(st) == CHOOSE t \in {e.t : e \in st.pel} : \A e \in st.pel : t <= e.t

\* The later of the retention cutoff and the oldest pending entry.
TrimCutoff(p) ==
  /\ Retention > 0 /\ up[p] = "up" /\ trim[p] = -1
  /\ LET cut == Later(0, now - Retention)
     IN trim' = [trim EXCEPT ![p] = IF stream[p].pel = {} THEN cut
                                    ELSE Later(cut, OldestPending(stream[p]))]
  /\ UNCHANGED <<up, session, redis, pub, wk, now, got, used>>

TrimStream(p) ==
  /\ up[p] = "up" /\ trim[p] # -1
  /\ \E cut \in Cuts(trim[p]) : stream' = [stream EXCEPT ![p] = Trimmed(@, cut)]
  /\ trim' = [trim EXCEPT ![p] = -1]
  /\ UNCHANGED <<up, session, hb, lock, pub, wk, now, got, used>>

----------------------------------------------------------------------------
ProcessMessage(w) ==
  \/ Find(w) \/ Deliver(w) \/ Relook(w) \/ Lookup(w) \/ LookupMiss(w)
  \/ SourceAlive(w) \/ Republish(w) \/ Add(w) \/ Ack(w)

DrainDeadPod(w) ==
  \/ AcquireLock(w) \/ DrainGroup(w) \/ DrainTrim(w) \/ DrainClaim(w)
  \/ DrainRead(w) \/ ListPending(w) \/ ForceAck(w) \/ CheckEmpty(w)
  \/ DeleteStream(w) \/ ReleaseLock(w) \/ DrainCancelled(w)

Own(w) == CreateGroup(w) \/ ReadGroup(w) \/ AutoClaim(w)

Loop(w) == \/ ProcessMessage(w) \/ DrainDeadPod(w) \/ Own(w)
           \/ \E s \in Pods : FindDeadPod(w, s)

Session(i) == PoolRegister(i) \/ ReadEnd(i) \/ RemoveOwnRow(i)

Next ==
  \/ \E i \in Clients : Session(i) \/ Disconnect(i) \/ RemoveDeadRow(i)
  \/ \E i \in Clients, p \in Pods : AddConnectedClient(i, p) \/ Evicted(i, p)
  \/ \E p \in Pods : Stop(p) \/ Die(p) \/ Restart(p) \/ HeartbeatExpires(p)
                     \/ Heartbeat(p) \/ LeaseExpires(p) \/ TrimCutoff(p)
                     \/ TrimStream(p)
  \/ \E p \in Pods, e \in Entry : GrowIdle(p, e)
  \/ \E m \in Msgs : PublishLookup(m) \/ PublishAdd(m)
  \/ \E w \in Loops : Loop(w)
  \/ Tick

Spec == Init /\ [][Next]_vars

\* Goroutines are scheduled, their tickers fire, pending entries grow idle,
\* leases and heartbeats of dead pods run out.  Nothing makes a client stay.
Fairness ==
  /\ \A i \in Clients : WF_vars(Session(i)) /\ WF_vars(RemoveDeadRow(i))
  /\ \A i \in Clients, p \in Pods : WF_vars(Evicted(i, p))
  /\ \A p \in Pods : /\ WF_vars(Heartbeat(p)) /\ WF_vars(HeartbeatExpires(p))
                     /\ WF_vars(LeaseExpires(p))
  /\ \A p \in Pods, e \in Entry : WF_vars(GrowIdle(p, e))
  /\ \A w \in Loops : /\ WF_vars(ProcessMessage(w)) /\ WF_vars(DrainDeadPod(w))
                      /\ WF_vars(Own(w))
                      /\ \A s \in Pods : WF_vars(FindDeadPod(w, s))

FairSpec == Spec /\ Fairness

----------------------------------------------------------------------------
(* Properties.                                                             *)

\* Every variable holds a value of its kind, and the idle and the trimmed
\* entries of a group are among its pending ones.
TypeOK ==
  /\ up \in [Pods -> {"up", "stopping", "dead"}] /\ hb \in [Pods -> BOOLEAN]
  /\ row \in [Clients -> Pods \cup {NoPod}] /\ sess \in [Clients -> SessState]
  /\ pool \in [Pods -> SUBSET Clients]
  /\ stream \in [Pods -> Stream]
  /\ \A s \in Pods : /\ stream[s].idle \cup stream[s].ghost \subseteq stream[s].pel
                     /\ stream[s].group => stream[s].key
  /\ lock \in [Pods -> Pods \cup {NoPod}]
  /\ pub \in [Msgs -> {"new", "offline", "sent"} \cup Pods]
  /\ wk \in [Loops -> Worker]
  /\ \A w \in Loops : /\ wk[w].pc \in Steps <=> wk[w].batch # <<>>
                      /\ wk[w].pc = "idle" <=> wk[w].src = NoPod
  /\ trim \in [Pods -> -1..MaxTime] /\ now \in 0..MaxTime
  /\ got \in [Msgs -> 0..2] /\ used \in [DOMAIN Budget -> Nat]

\* An entry is decided when the loop that has it will acknowledge it next.
Decided(e) == \E w \in Loops : wk[w].pc = "ack" /\ ~Cancelled(w) /\ InHand(w) = e
Carriers(m) ==
  {e \in (UNION {Elems(stream[s].unread) \cup (stream[s].pel \ stream[s].ghost) :
                  s \in Pods})
         \cup (UNION {Elems(wk[w].batch) : w \in Loops}) : e.m = m /\ ~Decided(e)}
Carried(m) == Carriers(m) # {}
GivenUp(m) == got'[m] = 0 /\ Carried(m) /\ ~Carried(m)'

Settled(i) == /\ sess[i] = "on" /\ i \in pool[row[i]]
              /\ up[row[i]] = "up" /\ hb[row[i]]

\* "Each pod consumes from its own stream, re-routes messages when a client
\* moves, and drains/deletes streams for dead pods to ensure eventual delivery":
\* a message that was accepted is given up only when it is too old, when its
\* client has no settled session, when that session changed while the entry
\* was in hand, or by a drain that had found the client offline.
CalmNeverLost ==
  [][\A m \in Msgs : Settled(To[m]) /\ GivenUp(m) =>
       \/ \E w \in Loops : wk[w].batch # <<>> /\ InHand(w).m = m /\ wk[w].moved
       \/ \E w \in Loops : At(w, "force") /\ m \in wk[w].kept
       \/ \A e \in Carriers(m) : Age(e) > MaxPending]_vars

\* What a stream still has to give to a loop, but for what is decided; and
\* whether a message is among it anywhere.
Stored(s) == {e \in Elems(stream[s].unread) \cup (stream[s].pel \ stream[s].ghost) : ~Decided(e)}
Awaited(m) == \E s \in Pods : \E e \in Stored(s) : e.m = m

\* Whatever fails, dies, comes back, outlives its lease or hurries, these are the
\* only ways in which the last entry of an undelivered message goes while its
\* client has a settled session: a Redis call fails in this very step; the loop
\* that acts had it in hand while its client's session changed, or finds the
\* drained pod alive; a drain acknowledges what it listed as pending, or deletes
\* the stream after the check that found it empty; or it is too old.
LossesNamed ==
  [][\A m \in Msgs : Settled(To[m]) /\ got'[m] = 0 /\ Awaited(m) /\ ~Awaited(m)' =>
       \/ used'["error"] > used["error"]
       \/ \E w \in Loops :
            /\ wk'[w] # wk[w]
            /\ \/ wk[w].batch # <<>> /\ InHand(w).m = m /\ (wk[w].moved \/ wk[w].pc = "source")
               \/ At(w, "force") /\ \E e \in wk[w].ids : e.m = m
               \/ At(w, "del") /\ \E e \in Stored(wk[w].src) : e.m = m
       \/ \A s \in Pods : \A e \in Stored(s) : e.m = m => Age(e) > MaxPending]_vars

\* Without errors, crashes or slow loops no message reaches a client twice,
\* however it is re-routed: the three loops never process the same entry.
DeliveredOnce == \A m \in Msgs : got[m] < 2

\* At most one drain of a dead pod's stream has a lease that did not run out: a
\* drain that outlived its own neither enters nor ends that of another pod.
OneDrainer ==
  \A v, w \in Loops :
    wk[v].leased /\ wk[w].leased /\ wk[v].src = wk[w].src => v = w

\* A client that stays connected gets what was accepted for it: in the end no
\* message for it is undelivered in a stream.
EventuallyDelivered ==
  \A m \in Msgs :
    <>[]Settled(To[m]) => <>[](got[m] > 0 \/ ~Carried(m))
=============================================================================
