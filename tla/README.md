# weni-webchat-socket: verification

TLA+ models of the websocket proxy `weni-webchat-socket`, the TLC runs that check
them, and theorems about them that TLAPS proves. Paths are relative to the
repository (`src/`). `client.go`, `clientmanager.go`, `pool.go`, `handler.go`,
`helper.go` and `router_factory.go` are in `src/pkg/websocket`, `router.go` is in
`src/pkg/streams`, `server.go` in `src/pkg/grpc`.

## The system

Several identical processes ("pods") accept websocket connections of browsers.
Redis is all they share. A browser registers under a client id; messages for the
id arrive at any pod, over HTTP or gRPC, and must reach the one connection that
owns the id now.

| component | state | operations |
|---|---|---|
| Session ownership (`client.go`, `clientmanager.go`, `pool.go`) | per connection a reader goroutine, `Client.ID`; per pod `ClientPool`; in Redis the hash `ws:clients` (row: pod_id, conn_id, session token) and the set `ws:clients:lastseen`; the gauge `open_connections` | `register` with takeover, `close_session`, the end of `Read`, last-seen refresh, removal of rows of dead pods |
| Streams router (`router.go`, `router_factory.go`) | per pod a Redis stream with a consumer group (new, pending and acknowledged entries), a heartbeat key, a drain lock with a lease | `PublishToClient`, `processMessage`, and the loops consume, auto-claim, heartbeat, janitor (`drainDeadPod`), presence cleanup, trim |
| gRPC message streams (`server.go`) | a seq tracker per stream, and one of the process for unary calls: message id to the number of its last delta | `Setup`, `StreamMessages`, `StreamToServer`, `SendMessage` |
| HTTP send endpoint (`handler.go`) | none | `SendHandler`: save, look up, publish |
| Outgoing messages, history (`client.go`, `helper.go`, `pkg/history`) | stored messages; `RegistrationMoment` of a connection | `Redirect` (stamp, post to the callback, save), pages of the history |
| PDP starters (`client.go`, `pkg/starters`) | per client id a guard (`StartersInFlight`), slots of the process (`StartersSem`), a goroutine per request | `get_pdp_starters`, Lambda call with a time limit, answer to the own connection |
| VTEX cart and UTM (`client.go`, `pkg/vtex`) | the remote order form: its lines and its marketing data | `add_to_cart`, `send_utm`: a goroutine each that reads the form and writes it back |
| Lookups (`pkg/flows`, `pkg/elevenlabs`, `pkg/memcache`) | the domain list in the memory of a pod, the ElevenLabs key in Redis, each with an expiry | read the cache, ask Flows, write the cache; contact time-out, language, custom field |
| gRPC health monitor (`pkg/grpc/health/monitor.go`) | serving status, stop channel | periodic check, start, stop |
| Metrics, configuration, database, JWT, health checks, payloads | none over time but for the gauge | |

**How they interact.** A registration writes its row first and puts the connection
in the pod's pool second. When the row shows another owner, an owner on the same
pod is closed through the pool and an owner on another pod through a `force_close`
entry, which travels like any message: the publisher looks the row up and appends
to the stream of the pod it names. Each pod's router takes entries from its own
stream, delivers them to its pool (a call into `deliverToLocalClient`), re-publishes
those whose client has moved, and leaves those of an offline client pending for the
claim loop. The janitor does the same with the stream of a pod that has no
heartbeat. The HTTP endpoint and the gRPC server publish through the router; they look
the client up first, and the router looks it up again. The reader of a connection
takes one frame at a time: it forwards messages to the callback and stores them, and
starts goroutines for starters and cart, which answer on their own connection and
share guards, slots and the order form with those of other connections. At its end
the reader removes its pool entry and then its row.

**What is hard.** Nothing is held across two remote calls, so every handler acts on
state that may have changed: two registrations, a registration and a disconnect, a
publisher and a move, a drain and the pod that comes back, two requests with one
order form, a lookup and the cache it fills. Calls fail and errors are often ignored.
Pods are told to stop, are killed and return under the same id (`HOSTNAME`) with
their rows and pending entries still in Redis. Entries are delivered late, twice, or
by a pod other than the one they were sent to. A streamed answer breaks off and
starts over under the same message id. Leases and heartbeats expire on a clock that
no other pod can see.

**What makes each component correct.**

* Session: one live session per id after a takeover; the row names the connection
  the pool serves; nobody removes the row or the pool entry of a successor; a pool
  entry always has a reader that will remove it; a row outlives neither its reader
  nor, in the end, its pod; a token is never overridden.
* Router: a message accepted for a client that stays where it is is not given up
  before its time, is delivered in the end, and is delivered once when nothing
  fails; what is lost otherwise is lost in a few known steps; one drain at a time; a
  trim spares what may still be delivered.
* Message streams: no two deltas of an attempt have one number and none is above the
  deltas sent; a tracker entry goes with its message; entries of a turn reach the pod in
  order; a turn is stored once, and what a caller was told is accepted is stored.
* Outgoing messages: the callback gets the messages of a connection in the order they
  were sent; a page of the history changes only within a second while messages come.
* Starters: one request of an id in flight for each guard; a slot of the semaphore
  and a guard are always given back.
* Cart: it holds what the shopper and the requests put there, and no marketing tag or
  coupon is lost, when nobody wrote in between; every request ends.
* Lookups: a cached answer is one that Flows gave, and a stale one goes in the end.
* Health monitor: no status is published after stop; stop returns.

## Modules

Four models share the system out: Session has the registrations and what they keep in
Redis, Router what happens to an entry once it is appended, Inbound how an entry comes
to be appended, and Frames what a registered connection asks for. Frames composes
Starters, Cart and Lookups; Session implements Ownership and Inbound TurnOrder. Each model has what the
others do as choices of its environment: a client comes and goes in Inbound, moves in
Router, and is given an id in Frames.

### Session, Ownership, MCSession

`Session.tla` has pods, connections and client ids. Each Redis call and each pool
operation of a handler is an action, so two handlers interleave where the code can.

| state | code |
|---|---|
| `row`, `seen`, `hb`, `inbox` | `ws:clients`, `ws:clients:lastseen`, `ws:pod:hb:*`, the `force_close` entries in `ws:pod:*` |
| `pool`, `gauge`, `sock` | `ClientPool.Clients`, `open_connections`, the socket |
| `pc`, `cid`, `job` | where the reader goroutine is, `Client.ID`, the local variables of its handler |
| `wk` | the router goroutine's `processMessage` call |
| `up`, `faults` | the life of the process; how many failures a run has had |
| `spoilt` | history, for the properties only: ids whose owner was evicted by a registration that then failed on its callback |

`GetConnectedClient`, `CheckOwnerAlive`, `RemoveDeadRow`, `ForgetDeadSeen`,
`EvictLocal`/`EvictLookup`/`EvictPublish`, `SetupFails` or `AddConnectedClient`,
`PoolRegister` and `FinishRegister` are `Client.Register` call by call; `CloseRemove` ends
`CloseClientSession`; `ReadEnd` and `RemoveOwnRow` are the deferred part of `Read`;
`HandlerFails` is the early return of every failed call, and `SetupFails` that of a
registration whose callback is not a URL, which takes no failure of Redis and may happen
in every run; `Touch` is the refresh after each frame. `Take` to `Ack` are
`processMessage` for a `force_close`. The environment disconnects sockets, stops, kills and restarts pods, and lets
heartbeats and last-seen times age. The stream is a sequence here and a worker
takes its head: what a stream really is, is Router's subject.

`Ownership.tla` is what a session owes its client, with one id as if it were on one
machine: a connection claims an id when no other session of it is left, and with the
token of the owner before; it is served; it leaves; and only then is its row released.
The refinement mapping takes `owner` and `token` from the row, `entering` from the
handler between the row write and the pool write, and `serving` from all the pools,
but for connections that a `force_close` in the pod's stream, or in the hands of its
worker, is about to close (`Doomed`): those have left already. Where `OneLive` and
`RowMatchesPool` speak of settled ids, this holds of every state.

Left out: the last-seen refresh of regular deliveries (it only makes rows younger),
the warning a removal logs when its second call fails, and the contents of frames.

### Router, MCRouter

`Router.tla` has the streams with what Redis keeps of a consumer group.

| state | code |
|---|---|
| `stream[p].unread`, `.pel`, `.idle`, `.ghost`, `.acked` | entries nobody read; pending; pending for `StreamsClaimIdleMs`; pending though trimmed; newest acknowledged entry still stored |
| `.key`, `.group` | whether the stream and the group exist |
| `lock` | `ws:janitor:drain:<pod>` |
| `wk[<<pod, kind>>]` | the local state of one loop: the batch in hand, where it is in `processMessage` or in the drain |
| `pub[m]` | the publisher between its lookup and its append |
| `row`, `sess`, `pool` | sessions, as far as the router sees them |
| `got`, `wk.moved`, `wk.kept`, `wk.leased` | history, for the properties only |

`CreateGroup`, `ReadGroup` and `AutoClaim` start the consumer's and the claimer's
batches; `Find` to `Ack` are `processMessage`, one action per Redis call;
`FindDeadPod` to `ReleaseLock` are `janitorLoop` and `drainDeadPod`, with `DrainTrim`,
`DrainClaim`, `DrainRead`, `ListPending`/`ForceAck` and `CheckEmpty`/`DeleteStream` its
five steps; `TrimCutoff` and `TrimStream` are `trimLoop`. A pod that was told to stop
has the context of its loops cancelled (`src/api/main.go`), so its appends and
acknowledgements fail while its lookups, which have their own context, work.

Abstractions: ids of entries are ticks of a clock (entries of one tick are not
ordered by id); XAUTOCLAIM returns one entry at a time, in any order, where the code
asks for a page; XLEN with XPENDING, and XGROUP DESTROY with DEL, are one step each;
XTRIM with `~` may keep any of the older entries; `StreamsMaxPendingMs` is positive,
as in the default configuration; the MAXLEN of XADD is never reached; the loop that
only logs is left out.

The code loses messages in a few windows. Four constants close them, so that the
other properties say something, and open them in the runs that show them:
`EarlyDrain` (a drain begins while an entry of the dead pod is not yet idle),
`DeleteRace` (an append falls between XLEN and DEL), `Flaky` (a pod serves clients
before its first heartbeat) and `Slow` (a loop takes longer than a lease or the
claim time over what it has in hand).

### Inbound, TurnOrder, MCInbound

`Inbound.tla` has the calls of the gRPC server and of the HTTP endpoint. A message id
comes over one of five ways: a bidirectional stream, a client stream (`upload`), unary
calls one by one or in parallel, or a post over HTTP.

| state | code |
|---|---|
| `tracker` | `seqTracker` of a stream, `unarySeqTracker` of the server under `unarySeqMu` |
| `call[c]` | a handler at work: `SaveIncoming` (`SendHandler` stores first), `LookupClient` (`GetConnectedClient`), `RouteToClient` and `AppendEntry` (`PublishToClient`), `StoreCompleted` (`saveStreamedMessageToHistory`) |
| `call[c].heard` | whether the call's context is alive |
| `said[m]` | the caller: what it has sent, what it was told, whether it must begin again |
| `out`, `stored` | entries appended for the client; copies in the history |

`Count` is what each kind of message does to the tracker, `Type` the default branch by
which a unary control message becomes a delta, `Contact` where the URN is normalised and
where it is not, `Hear` what each way tells its caller. `Break` cancels the calls of a
turn; the caller then sends the setup again under the same id.

`TurnOrder.tla` is what a browser may rely on: an attempt starts once, chunks of an
attempt come in growing order, only an end follows an end, and nothing of an older
attempt comes after something of a newer one. Inbound implements it for the ways that
send one message at a time, with the log of appended entries as the refinement mapping.

Left out: the message that fails its validation, the fields of a payload, a rationale
without text (it is dropped before the tracker), and a caller that goes on after an
error other than by trying again.

### Frames, Starters, Cart, Lookups, MCFrames

`Frames.tla` has the reader of each connection (`ParsePayload` and what it calls) with
one frame at a time, and composes three modules of goroutines and shared state:

| module | state | code |
|---|---|---|
| `Starters` | `guard`, `free`, `req` | `StartersInFlight`, `StartersSem`, a request from `LoadOrStore` to its deferred calls |
| `Cart` | `lines`, `market`, `op` | the order form at VTEX; a request from its check to the order it posts to the callback |
| `Lookups` | `flows`, `cache`, `look` | what Flows would answer; `memcache` and `elevenlabs:` keys; a read, question and write |
| `Frames` | `step`, `stamp`, `clock`, `regAt`, `history` | where the reader is; the timestamps of messages and of registrations; stored messages |

`own`, `mixed` and `crossed` (Cart), `read`, `posts`, `pages` and `late` (Frames) are history, for the
properties only. The shopper, who changes the form in the store, and whoever changes the
settings of a channel in Flows are the environment. The store's side of the VTEX calls is
external: modelled from how the client uses the answers.

Abstractions: the clock has whole seconds, as the code stamps them, and between two stamps
one passes or none; messages of one second come in any order in a page, since MongoDB sorts
by the second only; a product has names (`Names`), any of which an item of a list may use,
as a line of the form is matched by its id, product id and reference; what a starters, language or time-out
question answers is a choice among the outcomes its caller tells apart; the upload of
media and the ack that answers it, and `ping`, keep no state and are left out; the order
that is posted after an `add_to_cart` is its timestamp; the two token requests to
ElevenLabs are one step; new lines of a cart come in any order, before or after the others.

### The modules of proofs

The theorems and their proofs, apart from the models they are about. `SessionProofs` and
`TakeoverProofs`, which extends it, are about Session; `RouterProofs`, `DeliveryProofs` and
`LossesProofs`, each of which extends the one before, about Router; `InboundProofs` about Inbound;
`PartsProofs` about Starters and Cart, which it takes together with what it shows of sums over
finite sets; and `FramesProofs`, which extends it, about the composition.

## Runs

All bounds are constants. Runs say `CHECK_DEADLOCK FALSE` because the frames,
registrations, turns and faults of an instance are used up and a quiet system stops.

| run | instance | shows |
|---|---|---|
| `Session_takeover` | 2 pods, 3 connections of one id (two on one pod, interchangeable), 1 token, 1 frame each, handlers of one id one at a time | `OneLive`, `RowMatchesPool`, `TokenKept`, `TypeOK`: a takeover settles with one session, a row that names it, and no token overridden; `OwnershipRefined`: every step is one of Ownership |
| `Session_chaos` | 2 pods, 1 connection on each, handlers overlap, 1 fault (failed call or kill), one pod mortal and with a flaky heartbeat | `PoolHasReader`, `SuccessorKeepsRow` under everything the environment may do |
| `Session_onepod` | 1 pod, 2 connections, 2 frames each, fair | `NoOrphanRow`, `GaugeCountsPool`, `ShutRowGoes`: on one pod rows and gauge follow the pool, with registrations that fail on their callback |
| `Session_live` | 2 pods, one mortal, 1 fault, fair | `EvictedCloses`, `DeadRowGoes` |
| `Session_stray_close` | as takeover | violation, see below |
| `Router_move` | 2 pods, consumer and claimer each, 2 messages, 3 registrations (1.4 million states) | `CalmNeverLost`, `DeliveredOnce`, `TypeOK` while the client moves back and forth |
| `Router_age` | 1 message, 2 registrations, 3 ticks, age limit and retention 2 | `CalmNeverLost` with age limits and trim |
| `Router_live` | 1 message, 2 registrations; p2 may stop or die, p1 drains it; fair | `CalmNeverLost`, `LossesNamed`, `EventuallyDelivered` |
| `Router_lock` | 2 janitors, one may be told to stop; a third pod stops, returns and has no heartbeat at first; 1 failed call, 1 crash, slow loops, early drains (1.2 million states) | `OneDrainer`; `LossesNamed` under all of this |
| `Router_early` | as `Router_live` with early drains | violation, see below |
| `Inbound_turns` | 1 message id over any of the ways, either form of URN, stored or not; 2 calls at once, 2 setups, 2 deltas, 1 aside, the client comes and goes twice, 2 faults (1.2 million states) | `SeqsDistinct`, `NoGaps`, `TrackerFreed`, `StoredOnce`, `AcceptedIsStored`, `NothingSkipped`, `TurnsInOrder`, `TypeOK` |
| `Frames_mix` | 2 connections, 2 ids, 7 plans of frames, 1 slot, 1 edit by the shopper, 1 failed VTEX call, 1 lost call to Flows, 1 change of settings, 1 passing second, lists with `mug#1` beside `mug` and with an id that is the reference of another product, fair (340 thousand states) | `GuardsMatch`, `SlotsMatch`, `CartAccounts`, `MarketingKept`, `LookupHonest`, `PostedInOrder`, `PagesStable`, `GuardGoes`, `StaleEnds`, `CartAnswered`, `TypeOK` |

**Why the bounds are enough.** The hazards of Session and Router are races for one id, so
one id is enough (ids share nothing but a stream, and the two messages of `Router_move`
share that). Three connections give a leaver, an owner and a newcomer; two pods a local
and a remote owner; one fault is one failure between any two steps, which is what the
code handles. Two registrations move a client and three bring it back to a stream that
may still hold its entries. `MaxCopies = 3` exceeds the copies of a message that these
moves can make. With a read count of 2 both messages come in one batch. The clock of
`Router_age` runs past every limit: age 2, the half window 1, and the trim. `MaxReads` is
1 where the code has 10; one message needs one read. In `Router_lock` a drain outlives
its lease, a second one starts, and the first may release: a third pod adds nothing to
what two janitors do to one lock.

Message ids of Inbound share no state but the tracker map, in which each has its own
entry, so one id is enough; two calls are the concurrent deltas, or a cancelled call that
is still at work beside its successor; two setups are an attempt and its repetition; two
faults are a break and a failure within the repetition. A plan of `Frames_mix` is what can
interfere: starters of two connections that may have one id (the fifth frame finds guard
or slot taken), two `add_to_cart` or two `send_utm` on one form, voice requests and
registrations with the caches they fill, messages beside pages of the history. Plans do not
mix because these parts share no variable but the reader.

**Properties worth explaining.** `CalmNeverLost` speaks of the moment the last carrier
of an undelivered message goes (acknowledged, trimmed or deleted with its stream). It
allows that when the message is older than the limit, when its client has no settled
session (row, pool and heartbeat agree), when the session changed while the entry was
in hand, and when the same drain had found the client offline. It is for runs in which
little goes wrong. `LossesNamed` is for all: while the client has a settled session, an
undelivered message that is not too old leaves the streams only in a step in which a Redis
call fails, by a loop that had it in hand while the session changed or that finds the
drained pod alive, by a drain that acknowledges what it listed as pending, or by one that
deletes the stream it had found empty. Each of these is a window of the code, listed below;
the property says that there are no others. `OneDrainer` counts
only drains whose lease did not run out: a drain that outlived its own must not free
the lock of the next, or a third would join that one. `EvictedCloses` is claimed while
every pod is up and has a heartbeat: an entry drained from a pod that is taken for
dead may be acknowledged unsent. `AcceptedIsStored` is claimed for gRPC while nothing
fails: the save of a completed message comes last and its error is only logged.
`StoredOnce` is claimed for gRPC only: `SendHandler` stores before it publishes, so a
post that is repeated after a failed publish is stored twice. `NothingSkipped` is what
the two lookups of every message must not lose while the client stays. `CartAccounts` and
`MarketingKept` exempt the parts of the form that somebody wrote between a read and a
write (`mixed`), since nothing serialises them, and then hold for everything else: merged
quantities, half-failed requests, repeated tags. `CartAccounts` also exempts the products
that a list could not tell apart (`crossed`): two items that find one line, or an item
that finds the line of another product. `PagesStable` compares pages by the second, since
nothing orders the messages of one: a page that is asked for again shows as many of each
second, a later page shows nothing newer, and only a message that shares its second may be
on two pages (and another of that second on none). It exempts connections after whose
registration a message with an older stamp was stored. `NoOrphanRow` and `ShutRowGoes`
exempt the ids of which a registration evicted the owner and then failed on its own
callback (`spoilt`); `DeadRowGoes` exempts an id that another open connection keeps young.
`NoGaps` is an upper bound: no delta has a number above the deltas its attempt has sent;
with `SeqsDistinct`, and once all of them have come, that leaves no number out.

**Fairness.** Weak fairness of each reader goroutine, of each router loop and of the
tickers (heartbeat, presence cleanup, claims), of heartbeats and leases of pods that
are gone running out, and of time: goroutines are scheduled and none of these steps
waits for a person. In Frames, of the starters (the Lambda call has a time limit), of the
cart's calls to VTEX (30 seconds each) and of the expiry of cache entries, which Redis and
the clock see to. There is none for connecting, disconnecting, sending a frame, moving, a
failure, stopping, killing or restarting, and none for the calls to Flows, to ElevenLabs
and to the callback, which are made without a time limit. Safety runs state no fairness.

## Where code and documentation differ

Shown by a run:

* `Session_stray_close`: a `force_close` carries the client id and no ConnID. When the
  client has come back to the old owner's pod, or the entry was re-routed to its new
  one, it closes the connection that took over (client.go:562, router_factory.go:92-98).
* `Router_early`: a drain claims only entries idle for `StreamsClaimIdleMs` and then
  acknowledges all pending ones, though "any that could be rerouted were handled"
  (router.go:559-561).

Met while modelling and left out of the standing runs; most show when a constant of a
passing run is changed (each is a hazard in PROJECT.json):

* the trim keeps the later of the retention cutoff and the oldest pending id, where the
  comment promises at least the oldest pending one (router.go:861-864);
* with `Overlap`, two registrations of one id on one pod leave the row naming one
  connection and the pool holding the other (`RowMatchesPool`);
* on two pods, a takeover leaves the gauge of the old pod one too high (`GaugeCountsPool`);
* the refresh after a `close_session` frame puts the last-seen entry back (client.go:157);
* with `Flaky` pods, a drain that meets a heartbeat acknowledges the entry it should
  have copied (router.go:329) (`CalmNeverLost`);
* after a restart under the same id, a pending message of a client that has not come
  back takes the race-local branch and is acknowledged at once (router.go:314-319);
* with one failed call allowed, the lookup after a failed delivery reads as offline and
  the message is acknowledged (router.go:270) (`CalmNeverLost`), and the discarded error
  of XLEN reads as an empty stream (router.go:564), which is then deleted with what is in
  it;
* with `DeleteRace`, an append between XLEN and DEL goes with the stream (without its `del`
  disjunct `LossesNamed` is violated then);
* a registration that has evicted the owner and then fails to parse its own callback
  (client.go:686-689, 1001-1004) writes no row, and the evicted reader, which no longer finds
  itself in the pool, does not remove its own: the row of a closed connection stays on a pod
  that is alive, where nothing removes it (`NoOrphanRow`, `ShutRowGoes` without `spoilt`);
* with two janitors of which one dies in the middle of a drain, the other takes over what the
  first had read, which is pending but not idle yet, and acknowledges it unsent
  (`CalmNeverLost`, as in `Router_early` though the drain began in time);
* with `Rebind`, a request for starters ends under the id the connection has by then:
  the guard of another request goes and its own stays (`GuardsMatch`);
* two ids of one product in one `add_to_cart` (`mug#1` and `mug`) both count from the
  quantity that was read, so that one overwrites the other, since `parseCartItems` merges equal
  ids only; an id that is also the reference of another line raises that line
  (`CartAccounts` without `crossed`); two concurrent `add_to_cart` or `send_utm` lose an
  update (`CartAccounts`, `MarketingKept` without the exemption);
* a call to Flows that fails is cached like a channel without a key for as long as one
  (`LookupHonest` allows it);
* messages of one second have no order in the history (repo.go:115), so that two pages may
  both show one of them and neither another (`PagesStable` allows it within a second).

## Proofs

Every theorem is for all values of the constants, from the named assumptions of its
modules (absent values are not members, bounds are numbers, each connection has a pod)
and, where a theorem says so, from a value of one constant.

**Session.**

* `TypeCorrect`: `Spec => []TypeOK`. `TypeOK` is not inductive, since a handler builds a
  row or an entry from `job`, which may be empty. `TInv` adds `Busy`: a connection that
  is inside a handler has a job, of the kind its place in the code requires, and beyond
  the first lookup of an owner it has one. One lemma per action, joined by `TInvStep`.
* `PoolSafe`: `Spec => []PoolHasReader` when `Rebind` is false, that is when no
  connection registers under a second id. `PInv` adds `OneId`: while a registration is
  under way the connection's id is unset or the one registered, so that the reader that
  ends looks for its pool entry under the id it was entered with. With a second id the
  statement is false, as the first id keeps its pool slot.
* `SuccessorSafe`: `Spec => SuccessorKeepsRow`, with no assumption about `Overlap`, faults
  or ids: only the removal by conn_id is open to a reader that ends.
* `TokenSafe`: `Spec => TokenKept` when `Overlap` is false. `Alone` says that one handler of
  an id is at work at a time, and `Fits` that the row of that id is then the one the handler
  read, or gone. With overlapping handlers a registration may write over a row it never read.

* `MatchSafe` and `TakeoverSafe`: `Spec => []RowMatchesPool` and `Spec => []OneLive` when handlers
  of an id do not overlap, no connection takes a second id, and no call, pod or heartbeat fails
  (`Untroubled`). These are the conditions of `Session_takeover`; without `Overlap = FALSE` the
  row and the pool may end with two different connections, and after a failed call or a dead pod
  an eviction may never arrive. `MInv` carries them: all pods are up with a heartbeat (`Quiet`); one
  handler of an id is at work (`Alone`, from `TokenSafe`); a row names the pod of its connection
  (`Whole`); what a pool has under an id is what the row names, or is `Doomed`, that is, a
  `force_close` for it is in the pod's stream or in the hands of its worker (`Matched`); and `Holds`
  says of each place in `Register` which sessions of the id are doomed by then. `OneLive` follows
  since two pools cannot both match one row.
* `OwnershipSafe`: `Spec => OwnershipRefined`, the refinement of Ownership, under the same
  `Untroubled`. `OnlyOwner` reads the mapping off `MInv`: what is served or entering is what
  the row names, and one of the two is empty. A row write is `Claim` (`Holds` says that every
  other session has left, `Fits` that the token was compared with this row), the pool write is
  `Serve`, or `Leave` when a late `force_close` waits for it, both removals are `Release`, and
  each step that evicts, publishes a `force_close`, executes one or ends a reader is `Leave` or
  a stutter, because an entry never lets go of what it dooms (`ProcessKeeps`, `TakeKeeps`).
* `NoOrphans` and `GaugeSafe`: `NoOrphanRow` and `GaugeCountsPool`, when in addition there is one
  pod, and for the gauge no failing trigger and finitely many ids and connections. On one pod
  nothing is published (`NoMail`), so that the row is always the one of the connection in the pool,
  but for one that a handler is about to remove or has just written, or that a failed registration
  left behind (`Served`, which `spoilt` exempts); the gauge is the
  number of pool entries, plus the readers that left the pool and still have their row to
  remove, minus the registrations that are in the pool and not counted yet (`Counted`). On two
  pods the gauge is wrong after a takeover, as said above.

**Router** (no fairness; every loop, pod, crash, restart, error and lease there may be, but for
what a theorem says).

* `RouterTypeCorrect`: `Spec => []TypeOK`. Beyond types it says that idle and trimmed
  entries are pending ones and that a loop is in a step of `processMessage` exactly while it
  has entries in hand; the steps of the worker need `Good` and `Sound`, which say the same of
  one record.
* `DrainsApart`: `Spec => []OneDrainer`. `Leases` adds that a loop with a lease is a janitor
  in the middle of a drain and that the lock of its stream names its pod; a release deletes
  the lock only with its own value, so a drain that outlived its lease cannot free another's.
* `EntriesApart`: `Spec => []Apart` when `Slow` is false: an entry is in one stream, unread or
  pending, and in the hand of one loop at most, which took it from that stream, whatever fails,
  stops, dies or comes back. Everything said of deliveries rests on it.
* `DeliverySafe`: `Spec => []DeliveredOnce` when `Slow` is false, no call fails and no pod is
  `Mortal`. `OneLife` adds that of the entries of a message one at most is still to be processed
  (it waits in a stream, or is in a hand and not about to be acknowledged), and none once the
  message was delivered or before it was published. An acknowledgement that fails or is cancelled
  leaves a delivered entry pending, which is claimed and delivered again, hence the assumptions.
  Pods without a heartbeat, early drains and lost appends are allowed.
* `LossesSafe`: `Spec => LossesNamed` from `OldTrims` alone: streams, those of dead pods too,
  are trimmed no earlier than messages are too old, which the defaults of `config.go` satisfy
  (no trim of live streams, an hour against two minutes for dead ones). Errors, crashes, restarts,
  missing heartbeats, slow loops, early drains and lost appends are all allowed. The invariant
  `Kept` says that a client has a row unless it is off (`Rows`); that streams are in the order of
  time (`InTime`), so that what was trimmed, or is below a cutoff in hand, is too old (`Ghosts`,
  `Trims`); and that what a loop found out of its client holds until the client's session
  changes (`Unmoved`): it is in the pool before a delivery, on this pod before the race-local one.
  From these, one lemma per kind of step: a step of `processMessage` that decides to acknowledge
  an entry has delivered it, has appended it anew, or is one of those that the property names.

**Inbound.**

* `InboundTypeCorrect` (`TInv` adds `Bounded`: no number above the deltas and signs sent, and
  `ChecksEnd`: a question goes no further than its answer), `NumbersSafe` (`NoGaps`, with
  `Past`: nothing is of an attempt still to come), `TrackerSafe` (`TrackerFreed`, with `Freed`:
  only an open turn has an entry).
* `SeqsSafe`: `Spec => []SeqsDistinct`. `Numbered` adds that in an attempt that goes on no
  delta is above the tracker; `Unheard` that nobody waits for the calls of an attempt to be
  made again, which is what lets the tracker start over; `Apart` is the property with the
  calls that are still on their way.
* `TurnsRefined`: `Spec => TurnsInOrder`, the refinement of TurnOrder. `OInv` adds, for the
  ways that send one message at a time, that at most one call of a message is waited for,
  that it is of the present attempt and, if a delta, has the tracker's number, and that
  after an end the turn has ended. Every append is then a start, a delta, an aside or an
  end that TurnOrder allows; every other step leaves the log alone.
* `StoredSafe`: `Spec => []StoredOnce`. `Once` adds that at most one handler completes a
  message and that its caller waits for it, so that what is stored gives no caller a reason
  to begin again.
* `AcceptedSafe`: `Spec => []AcceptedIsStored`. `Backed` adds that a post that is past its save
  is in the history, which its caller does not know yet; `Once` gives the rest.
* `SkipSafe`: `Spec => []NothingSkipped` for finitely many calls. `Smooth` says that while the client
  stays and nothing fails (`Easy`) no caller repeats anything, and that the entries appended for a
  turn and the calls that are on their way with one (`Coming`) are together as many as its caller
  asked for (`Due`).

**Starters, Cart and Frames.**

* `StartersTypeCorrect`, `SlotsSafe` (`SlotsMatch`, with `Registered`: who asked has an id) and,
  without a second id on a connection, `GuardsSafe` (`GuardsMatch`, with `SameKey`: until its
  goroutine runs a request and its connection agree on the id).
* `FramesRefineStarters`: `Spec => StartersSpec` for the composition, each step of which is
  one of Starters or leaves its variables alone; `FramesKeepGuards` and `FramesKeepSlots`
  carry the two invariants over.
* `LooksSafe`: `Spec => []LookupHonest`. `Honest` adds that the cache itself, and the value a
  lookup has in hand between Flows and the cache, is what Flows says.
* `MarketingSafe`: `Spec => []MarketingKept`. `MarketInv` adds that while no two writes got mixed up a
  request that is about to write has read what is in the form, that the coupon is the
  shopper's, and that the source of a request that was answered is there (`Arrived`).
* `PostsSafe`: `Spec => []PostedInOrder`. `TalkInv` says that a reader has one frame at a time
  (`OneAtATime`), and that what it posted are frames it has read, in that order.
* `PagesSafe`: `Spec => []PagesStable` when a connection registers once at most (a second
  registration moves the moment that its pages begin at). `PagesInv` says that pages are shown after
  the registration and are what the history before that moment still is, unless a message
  that was stamped before it was stored later (`late`).

* `CartSafe`: `Spec => []CartAccounts`, with no assumption about lists, names or failures.
  `CartBooks` adds to the types that until a part is `mixed` a request that is about to write still has the lines it read before it
  (`Steady`), and it bounds the cart between two sums over all requests: of what each has put there
  for certain (`Least`: nothing, then what it updated, then all) and of what it may have put there
  (`Most`: after a failure all that was asked). The cart is at least the shopper's own with the first
  (`Low`) and at most with the second (`High`). One step of one request changes one term of each sum,
  and the lines by an amount between the two changes (`BooksStep`); what the store does to the lines of
  a product is counted by `UpdateHeld`, `AddHeld` and `HeldCut`.
* The sums are `SumFunctionOnSet`, a fold that is defined by recursion over finite sets. That it
  adds up follows from one lemma of induction whose predicate is a set of subsets
  (`SubsetInduction`, from the well-foundedness of strict inclusion): there is one function that
  obeys the equations of the fold (`SumExists`, `SumUnique`), so that the fold obeys them (`SumStep`),
  and with them sums of unions, of changed and of renamed terms.
* `FramesTypeCorrect`: `Spec => []TypeOK` of the composition. Starters' types come from
  `StartersTypeCorrect` by the refinement; `CartTypes` says in addition what a request has learnt at each
  place (`Fits`); `LooksInv` that caches hold what their kind does; `TalkTypes` what readers keep, with
  pages that show only what is in the history.

Model-checked only are liveness under fairness (`EvictedCloses`, `DeadRowGoes`, `ShutRowGoes`,
`EventuallyDelivered`, `GuardGoes`, `StaleEnds`, `CartAnswered`), which the prover does not
do, and `CalmNeverLost`: it holds only where so much is ruled out (see the list above) that
its theorem for all constants would say less than `LossesSafe`. Every other safety
property of a run that must pass is a theorem.

## Not modelled

* The gRPC health monitor: a timer copies the outcome of two pings into the gRPC health
  server, and nothing else reads it.
* JWT signing, configuration, database set-up, health pings: no state over time.
* Payload formats beyond what is stamped, refused and stored; metrics other than the gauge
  `open_connections`.
* Of `Register`, when the domain is checked: the code does so only with `RestrictDomains` and
  for callbacks of the Flows host (client.go:629-649), the model always, with an answer that may be
  yes; and the lookup of the voice key at the end of a registration, which only fills a cache.
* Validation errors of the starters frame and most of those of the cart frame: each answers an error
  and changes nothing, like those that are modelled (`ValidItems`, `RefuseFrame`).
* Timestamps of stored messages that the caller of the HTTP post supplies.
* Within the modelled parts: what the sections above list as left out or abstracted.

## Plan

1. Done: `Session` with `Ownership`, `Router`, `Inbound` with `TurnOrder`, `Frames` with
   `Starters`, `Cart` and `Lookups`, their runs, and proofs of every safety property the
   runs check but `CalmNeverLost`.
2. `Delivery`, the abstract specification of a stream: a message is accepted, then
   delivered or given up for a stated reason, implemented by `Router`.
3. `HealthMonitor`: check, status update and stop, two goroutines.
