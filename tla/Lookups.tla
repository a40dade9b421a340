------------------------------- MODULE Lookups -------------------------------
(***************************************************************************)
(* What Flows knows of a channel and the server keeps for some minutes: the*)
(* ElevenLabs key, in Redis for all pods, and the allowed domains, in the  *)
(* memory of each pod.  A lookup reads the cache, asks Flows, and writes   *)
(* the cache, with nothing held in between.                                *)
(***************************************************************************)
EXTENDS Integers, FiniteSets

CONSTANTS
  Caches,      \* the caches of one channel: "key", and a pod for its memory
  Lookers,     \* bound: the lookups of a run
  Keys,        \* API keys a channel may be given
  MaxChanges, MaxLosses      \* bounds: changes in Flows, failed calls

ASSUME LookupsAssumption == {MaxChanges, MaxLosses} \subseteq Nat

NoKey == "__none__"          \* elevenLabsKeyNone
NoEntry == "no entry"

\* A domain list as far as it concerns one origin.
Lists == {"empty", "ours", "others"}
Values(e) == IF e = "key" THEN Keys \cup {NoKey} ELSE Lists

VARIABLES
  flows,      \* [Caches -> Values]: what Flows would answer; NoKey for a 404
  cache,      \* [Caches -> Values or NoEntry]
  look,       \* [Lookers -> Look]
  changes, losses

lookVars == <<flows, cache, look, changes, losses>>

Unasked == [pc |-> "new"]
Results(e) == IF e = "key" THEN Keys \cup {""} ELSE BOOLEAN
Looks == {Unasked} \cup
  UNION {[pc : {"fetch", "store", "done"}, of : {e},
          value : Values(e) \cup {NoEntry}] : e \in Caches}

LooksInit ==
  /\ flows \in [Caches -> UNION {Values(e) : e \in Caches}]
  /\ \A e, d \in Caches : /\ flows[e] \in Values(e)
                          /\ "key" \notin {e, d} => flows[e] = flows[d]
  /\ cache = [e \in Caches |-> NoEntry]
  /\ look  = [l \in Lookers |-> Unasked]
  /\ changes = 0
  /\ losses  = 0

Lost  == losses < MaxLosses /\ losses' = losses + 1
Heard == UNCHANGED losses

\* The channel is given another key or other domains, or loses them.
FlowsChanges ==
  /\ changes < MaxChanges /\ changes' = changes + 1
  /\ \/ \E k \in Values("key") : flows' = [flows EXCEPT !["key"] = k]
     \/ \E d \in Lists : flows' = [e \in Caches |-> IF e = "key" THEN flows[e] ELSE d]
  /\ flows' # flows
  /\ UNCHANGED <<cache, look, losses>>

\* Mutant: what is not there is kept for good.
ExpireKeys(e) ==
  /\ cache[e] \notin {NoEntry, NoKey} /\ cache' = [cache EXCEPT ![e] = NoEntry]
  /\ UNCHANGED <<flows, look, changes, losses>>

\* MemCacheTimeout runs out: Redis drops the key, Get drops the item it finds.
Expire(e) ==
  /\ cache[e] # NoEntry /\ cache' = [cache EXCEPT ![e] = NoEntry]
  /\ UNCHANGED <<flows, look, changes, losses>>

\* A failed GET of Redis counts as a miss; the memory does not fail.
ReadCache(l, e) ==
  /\ look[l] = Unasked
  /\ \/ /\ Heard /\ cache[e] # NoEntry
        /\ look' = [look EXCEPT ![l] = [pc |-> "done", of |-> e, value |-> cache[e]]]
     \/ /\ IF cache[e] = NoEntry THEN Heard ELSE e = "key" /\ Lost
        /\ look' = [look EXCEPT ![l] = [pc |-> "fetch", of |-> e, value |-> NoEntry]]
  /\ UNCHANGED <<flows, cache, changes>>

\* The key that Flows has, or none after a failure, goes to the cache; domains
\* that could not be fetched do not, and the origin is refused.
AskFlows(l) ==
  /\ look[l].pc = "fetch"
  /\ LET e == look[l].of
         To(where, v) == look' = [look EXCEPT ![l] = [pc |-> where, of |-> e, value |-> v]]
     IN \/ Heard /\ To("store", flows[e])
        \/ Lost /\ e = "key" /\ To("store", NoKey)
        \/ Lost /\ e # "key" /\ To("done", NoEntry)
  /\ UNCHANGED <<flows, cache, changes>>

\* The error of a failed SET is ignored.
WriteCache(l) ==
  /\ look[l].pc = "store"
  /\ LET e == look[l].of
     IN \/ Heard /\ cache' = [cache EXCEPT ![e] = look[l].value]
        \/ Lost /\ e = "key" /\ UNCHANGED cache
  /\ look' = [look EXCEPT ![l].pc = "done"]
  /\ UNCHANGED <<flows, changes>>

\* Mutant: what the cache holds is taken for a key.
ResultRaw(l) ==
  IF look[l].of = "key" THEN look[l].value ELSE look[l].value \in {"empty", "ours"}

\* What the caller makes of it: the sentinel is no key, an empty list allows all.
Result(l) ==
  IF look[l].of = "key" THEN (IF look[l].value = NoKey THEN "" ELSE look[l].value)
  ELSE look[l].value \in {"empty", "ours"}

----------------------------------------------------------------------------
(* Properties.                                                             *)

\* Every variable holds a value of its kind.
LooksTypeOK ==
  /\ \A e \in Caches : flows[e] \in Values(e) /\ cache[e] \in Values(e) \cup {NoEntry}
  /\ look \in [Lookers -> Looks]
  /\ changes \in 0..MaxChanges /\ losses \in 0..MaxLosses

\* What a lookup answers, from the cache or not, is what Flows says: a key that
\* is the channel's and never the sentinel, an origin that is on the list.  Only
\* a change that lookups have not seen yet, or a failed call, stands between.
LookupHonest ==
  \A l \in Lookers :
    look[l].pc = "done" /\ changes = 0 /\ losses = 0 =>
      LET e == look[l].of
      IN Result(l) = IF e # "key" THEN flows[e] \in {"empty", "ours"}
                     ELSE IF flows[e] = NoKey THEN "" ELSE flows[e]

\* "Both successful responses and failures are cached": what is cached and not,
\* or not any more, what Flows says does not stay for good.
StaleEnds ==
  LET Stale(e) == cache[e] \notin {NoEntry, flows[e]}
  IN (\E e \in Caches : Stale(e)) ~> (\A e \in Caches : ~Stale(e))
=============================================================================
