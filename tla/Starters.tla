------------------------------ MODULE Starters ------------------------------
(***************************************************************************)
(* Conversation starters: get_pdp_starters asks a Lambda function for      *)
(* them, in a goroutine of its own.  A pod lets a client id have one       *)
(* request at a time (StartersInFlight) and all clients together a fixed   *)
(* number (StartersSem).  The reader of the connection takes the guard and *)
(* a slot, the goroutine gives both back.                                  *)
(***************************************************************************)
EXTENDS Integers, FiniteSets

CONSTANTS
  Conns, Ids, NoId,
  Requests,    \* bound: the requests of a run
  Slots,       \* LambdaStartersMaxConcurrent
  Rebind       \* whether a connection may register under a second id

ASSUME StartersAssumption ==
  /\ NoId \notin Ids /\ Slots \in Nat /\ Rebind \in BOOLEAN
  /\ IsFiniteSet(Requests)

VARIABLES
  cid,     \* [Conns -> Ids \cup {NoId}]: Client.ID
  guard,   \* SUBSET Ids: StartersInFlight
  free,    \* slots of StartersSem that are not taken
  req      \* [Requests -> Request]

starters == <<guard, free, req>>
startersVars == <<cid, starters>>

Waiting == [pc |-> "new"]
Request ==
  {Waiting} \cup
  [pc : {"acquire", "spawn", "lambda", "send", "fail", "release", "delete", "done"},
   conn : Conns,
   key : Ids]       \* the id whose guard the request takes, then gives back

StartersInit ==
  /\ cid   \in [Conns -> Ids \cup {NoId}]
  /\ guard = {}
  /\ free  = Slots
  /\ req   = [r \in Requests |-> Waiting]

At(r, where) == req[r].pc = where
Advance(r, where) == req' = [req EXCEPT ![r].pc = where]

\* A registration, as far as it matters here (Session.tla has it in full).
SetClientID(c, i) ==
  /\ Rebind \/ cid[c] \in {NoId, i}
  /\ \A r \in Requests : At(r, "acquire") => req[r].conn # c   \* one frame at a time
  /\ cid' = [cid EXCEPT ![c] = i]
  /\ UNCHANGED starters

\* Mutant: the guard is looked at and not taken.
LoadOnly(i) == guard
LoadOrStore(i) == guard \cup {i}

\* The guard is taken in one step; a request while one of the same id is in
\* flight is dropped without a word.
AskStarters(c, r) ==
  /\ At(r, "new") /\ cid[c] # NoId
  /\ \/ /\ cid[c] \notin guard /\ guard' = LoadOrStore(cid[c])
        /\ req' = [req EXCEPT ![r] = [pc |-> "acquire", conn |-> c, key |-> cid[c]]]
     \/ /\ cid[c] \in guard /\ UNCHANGED guard
        /\ req' = [req EXCEPT ![r] = [pc |-> "done", conn |-> c, key |-> cid[c]]]
  /\ UNCHANGED <<cid, free>>

\* Mutant: a slot is taken whether or not there is one.
AcquireAlways(r) ==
  /\ At(r, "acquire")
  /\ free' = free - 1 /\ Advance(r, "spawn") /\ UNCHANGED guard
  /\ UNCHANGED cid

\* TryAcquire never waits: without a slot the request is refused.
TryAcquire(r) ==
  /\ At(r, "acquire")
  /\ \/ /\ free > 0 /\ free' = free - 1
        /\ Advance(r, "spawn") /\ UNCHANGED guard
     \/ /\ free = 0 /\ guard' = guard \ {req[r].key}
        /\ Advance(r, "done") /\ UNCHANGED free
  /\ UNCHANGED cid

\* The goroutine starts: its deferred calls take their arguments, and with them
\* the id the connection has by then.
StartTask(r) ==
  /\ At(r, "spawn")
  /\ req' = [req EXCEPT ![r].pc = "lambda", ![r].key = cid[req[r].conn]]
  /\ UNCHANGED <<cid, guard, free>>

\* Mutant: a failure returns past the release.
GetOrLeave(r) ==
  /\ At(r, "lambda")
  /\ Advance(r, "send") \/ Advance(r, "delete")
  /\ UNCHANGED <<cid, guard, free>>

\* The function answers, fails, or its time is up.
GetStarters(r) ==
  /\ At(r, "lambda")
  /\ Advance(r, "send") \/ Advance(r, "fail")
  /\ UNCHANGED <<cid, guard, free>>

\* The questions or the error go to the connection that asked; it may be closed.
SendStarters(r) ==
  /\ At(r, "send") \/ At(r, "fail")
  /\ Advance(r, "release")
  /\ UNCHANGED <<cid, guard, free>>

\* Mutant: only the slot is given back.
ReleaseOnly(r) ==
  /\ At(r, "release") /\ Advance(r, "done")
  /\ free' = free + 1
  /\ UNCHANGED <<cid, guard>>

\* The deferred calls, last one first.
Release(r) ==
  /\ At(r, "release") /\ Advance(r, "delete")
  /\ free' = free + 1
  /\ UNCHANGED <<cid, guard>>

DeleteGuard(r) ==
  /\ At(r, "delete") /\ Advance(r, "done")
  /\ guard' = guard \ {req[r].key}
  /\ UNCHANGED <<cid, free>>

\* In the reader goroutine, and in the one it started.
InReader(r) == TryAcquire(r)
InTask(r) == StartTask(r) \/ GetStarters(r) \/ SendStarters(r) \/ Release(r) \/ DeleteGuard(r)

StartersNext ==
  \/ \E c \in Conns, i \in Ids : SetClientID(c, i)
  \/ \E c \in Conns, r \in Requests : AskStarters(c, r)
  \/ \E r \in Requests : InReader(r) \/ InTask(r)

StartersSpec == StartersInit /\ [][StartersNext]_startersVars

----------------------------------------------------------------------------
(* Properties.                                                             *)

InFlight == {r \in Requests : req[r].pc \notin {"new", "done"}}
Holding  == {r \in Requests : req[r].pc \in {"spawn", "lambda", "send", "fail", "release"}}

\* Every variable holds a value of its kind.
StartersTypeOK ==
  /\ cid \in [Conns -> Ids \cup {NoId}] /\ guard \subseteq Ids
  /\ free \in Nat /\ req \in [Requests -> Request]

\* "StartersInFlight tracks per-client in-flight starters requests": one for
\* each guarded id and none without a guard, however requests of connections
\* that share an id overlap, so that no id is locked out for good.
GuardsMatch ==
  /\ \A r \in InFlight : req[r].key \in guard
  /\ \A r, s \in InFlight : req[r].key = req[s].key => r = s
  /\ \A i \in guard : \E r \in InFlight : req[r].key = i

\* No slot is lost or given back twice.
SlotsMatch == free + Cardinality(Holding) = Slots

\* Clients that asked may ask again, in the end.
GuardGoes == guard # {} ~> guard = {}
=============================================================================
