------------------------------- MODULE Inbound -------------------------------
(***************************************************************************)
(* Messages on their way to a client: the gRPC service that Nexus streams  *)
(* answers to, and the HTTP endpoint that Flows posts messages to.         *)
(*                                                                         *)
(* A streamed answer (a turn) is a message id with a setup, deltas that    *)
(* the server numbers, rationales and control signs in between, and a      *)
(* completed message.  It comes over a bidirectional stream, over a client *)
(* stream (upload), or as unary calls, one after the other or in parallel. *)
(* Every call looks the client up, lets the router look it up again and    *)
(* append to the client's pod, and may store the message; calls of         *)
(* different goroutines interleave at each of these steps.  From the       *)
(* append on, the entry is Router's subject.                               *)
(***************************************************************************)
EXTENDS Integers, Sequences, FiniteSets

CONSTANTS
  Msgs,        \* message ids
  Calls,       \* bound: calls the server handles at once
  Ways,        \* how messages come: the mode, the form of the contact URN, and
               \* whether they are kept (no final output, typing or rationale)
  MaxTurns, MaxDeltas, MaxExtras,   \* bounds: setups, deltas of a turn, asides
  MaxMoves, MaxFaults               \* bounds: comings and goings, failures

Modes == {"stream", "upload", "unary", "parallel", "http"}
URNs  == {"plain", "scheme"}
Kinds == {"check", "setup", "delta", "rationale", "control", "completed", "send"}

ASSUME InboundAssumption ==
  /\ Ways \subseteq Modes \X URNs \X BOOLEAN
  /\ \A w \in Ways : w[1] = "http" => w[2] = "plain"
  /\ {MaxTurns, MaxDeltas, MaxExtras, MaxMoves, MaxFaults} \subseteq Nat

VARIABLES
  way,      \* [Msgs -> Ways]: never changes
  online,   \* whether the client has a presence row
  tracker,  \* [Msgs -> Int]: the seq tracker entry of its stream, or of the
            \* server for unary calls; NoEntry when the map has none
  call,     \* [Calls -> Call]: the handlers at work
  said,     \* [Msgs -> Caller]: what the caller has sent and learnt
  out,      \* [Msgs -> Seq(Item)]: entries appended for the client
  stored,   \* [Msgs -> Nat]: copies in the history
  moves, faults

vars == <<way, online, tracker, call, said, out, stored, moves, faults>>

NoEntry == -1
Results == {"none", "success", "offline", "error"}
Top     == MaxDeltas + MaxExtras     \* asides of a unary caller are numbered too
Item    == [kind : {"start", "delta", "rationale", "control", "end", "message"},
            seq : 0..Top, attempt : 0..MaxTurns]
Caller  == [phase : {"new", "open", "ended"},
            attempt : 0..MaxTurns,         \* setups, or posts, sent
            n : 0..MaxDeltas,              \* deltas sent since
            extra : 0..MaxExtras,
            redo : {"no", "may", "must"},  \* the last step again, or the turn
            told : Results]                \* about the message as a whole
Fresh   == [phase |-> "new", attempt |-> 0, n |-> 0, extra |-> 0,
            redo |-> "no", told |-> "none"]
Idle    == [pc |-> "idle"]
Busy    == [pc : {"save", "lookup", "route", "xadd", "store"},
            m : Msgs, kind : Kinds, seq : 0..Top, attempt : 0..MaxTurns,
            heard : BOOLEAN]               \* the caller waits for the answer

Init ==
  /\ way     \in [Msgs -> Ways]
  /\ online  \in BOOLEAN
  /\ tracker = [m \in Msgs |-> NoEntry]
  /\ call    = [c \in Calls |-> Idle]
  /\ said    = [m \in Msgs |-> Fresh]
  /\ out     = [m \in Msgs |-> <<>>]
  /\ stored  = [m \in Msgs |-> 0]
  /\ moves   = 0
  /\ faults  = 0

----------------------------------------------------------------------------
(* Helpers.                                                                *)

Mode(m) == way[m][1]
Urn(m)  == way[m][2]
Kept(m) == way[m][3]

\* A call that fails may have been carried out all the same.
Fails == faults < MaxFaults /\ faults' = faults + 1
Works == UNCHANGED faults

Active(m) == {c \in Calls : call[c].pc # "idle" /\ call[c].m = m}
Waiting(m) == {c \in Active(m) : call[c].heard}

Goto(c, where) == call' = [call EXCEPT ![c].pc = where] /\ UNCHANGED said

\* What the caller makes of an answer.  A client stream is answered once, at
\* its end, and with success when the last message failed to be processed.
Hear(s, m, kind, result) ==
  IF Mode(m) = "upload"
  THEN [s EXCEPT !.told = IF kind = "completed" THEN "success" ELSE @]
  ELSE [s EXCEPT
         !.redo = IF result # "success" /\ kind \in {"setup", "completed", "send"}
                  THEN "may" ELSE @,
         !.told = IF kind \in {"check", "completed", "send"} THEN result ELSE @]

\* The handler returns and its answer is sent, unless nobody waits for it.
Answers(c, result) ==
  LET k == call[c]
  IN /\ call' = [call EXCEPT ![c] = Idle]
     /\ said' = IF k.heard THEN [said EXCEPT ![k.m] = Hear(@, k.m, k.kind, result)]
                ELSE said

\* The scheme of a contact URN is cut off: browsers register without it.
normalizeContactURN(urn) == "plain"

\* Mutant: the contact is looked up as it came, always.
ContactAsIs(c) == Urn(call[c].m)

\* Setup and the HTTP endpoint look the contact up as it came.
Contact(c) == IF call[c].kind \in {"check", "send"} THEN Urn(call[c].m)
              ELSE normalizeContactURN(Urn(call[c].m))

Connected(c) == online /\ Contact(c) = "plain"

\* What comes after a publish, whether or not the client was there.
AfterPublish(c) ==
  IF call[c].kind = "completed" /\ Kept(call[c].m) THEN Goto(c, "store")
  ELSE Answers(c, "success")

Payload(c) ==
  [kind |-> CASE call[c].kind = "setup"     -> "start"
              [] call[c].kind = "completed" -> "end"
              [] call[c].kind = "send"      -> "message"
              [] OTHER                      -> call[c].kind,
   seq |-> call[c].seq, attempt |-> call[c].attempt]

----------------------------------------------------------------------------
(* The browser, and what Nexus and Flows may send.                         *)

Move ==
  /\ moves < MaxMoves /\ moves' = moves + 1
  /\ online' = ~online
  /\ UNCHANGED <<way, tracker, call, said, out, stored, faults>>

\* A caller waits for its answer, except that a parallel one sends deltas side
\* by side.  (On a client stream it does not wait, but the server takes the
\* next message only when it is done with the last.)
Free(m, kind) ==
  \A c \in Waiting(m) :
    Mode(m) = "parallel" /\ kind = "delta" /\ call[c].kind = "delta"

MaySend(m, kind) ==
  LET s == said[m]
  IN /\ Free(m, kind) /\ ((kind = "send") <=> (Mode(m) = "http"))
     /\ CASE kind = "send"  -> s.attempt < MaxTurns /\ (s.phase = "new" \/ s.redo = "may")
          [] kind = "check" -> s.phase = "new" /\ s.told = "none"
          [] kind = "setup" -> /\ s.attempt < MaxTurns
                               /\ \/ s.phase = "new"
                                  \/ s.phase = "open" /\ s.redo = "must"
                                  \/ s.phase = "open" /\ s.redo = "may" /\ s.n = 0
          [] kind = "completed" -> \/ s.phase = "open" /\ s.redo # "must"
                                   \/ s.phase = "ended" /\ s.redo = "may"
          [] kind = "delta" -> s.phase = "open" /\ s.redo # "must" /\ s.n < MaxDeltas
          [] OTHER -> s.phase = "open" /\ s.redo # "must" /\ s.extra < MaxExtras

Send(s, kind) ==
  LET new == [s EXCEPT !.redo = "no", !.told = "none"]
  IN CASE kind = "setup" -> [new EXCEPT !.phase = "open", !.attempt = @ + 1, !.n = 0]
       [] kind = "send"  -> [new EXCEPT !.phase = "ended", !.attempt = @ + 1]
       [] kind = "completed" -> [new EXCEPT !.phase = "ended"]
       [] kind = "delta" -> [s EXCEPT !.n = @ + 1]
       [] kind = "check" -> s
       [] OTHER          -> [s EXCEPT !.extra = @ + 1]

Following(m) == IF tracker[m] = NoEntry THEN 1 ELSE tracker[m] + 1

\* Mutants: a setup goes on from the last attempt, a completed message leaves
\* its entry behind, concurrent deltas get the number of the first.
CountOn(m, kind) ==
  CASE kind = "completed" -> NoEntry [] kind = "delta" -> Following(m)
    [] OTHER -> tracker[m]
CountKept(m, kind) ==
  CASE kind = "setup" -> 0 [] kind = "delta" -> Following(m) [] OTHER -> tracker[m]
CountOnce(m, kind) ==
  CASE kind = "setup" -> 0 [] kind = "completed" -> NoEntry
    [] kind = "delta" /\ Waiting(m) = {} -> Following(m) [] OTHER -> tracker[m]

\* The tracker entry of the message id, after a message of that kind.
Count(m, kind) ==
  CASE kind = "setup" -> 0 [] kind = "completed" -> NoEntry
    [] kind = "delta" -> Following(m) [] OTHER -> tracker[m]

\* A unary call of a type that SendMessage does not list is a delta.
Type(m, kind) ==
  IF kind = "control" /\ Mode(m) \in {"unary", "parallel"} THEN "delta" ELSE kind

\* A message arrives; its handler first sees to the tracker.
Receive(c, m, kind) ==
  /\ call[c] = Idle /\ MaySend(m, kind)
  /\ said' = [said EXCEPT ![m] = Send(@, kind)]
  /\ tracker' = [tracker EXCEPT ![m] = Count(m, Type(m, kind))]
  /\ call' = [call EXCEPT ![c] =
       [pc |-> IF kind = "send" /\ Kept(m) THEN "save" ELSE "lookup",
        m |-> m, kind |-> Type(m, kind),
        seq |-> IF Type(m, kind) = "delta" THEN tracker'[m] ELSE 0,
        attempt |-> said'[m].attempt, heard |-> TRUE]]
  /\ UNCHANGED <<way, online, out, stored, moves, faults>>

\* A stream breaks, or unary calls are cancelled, before the turn was
\* completed.  The caller starts over; a new stream has a tracker of its own.
Break(m) ==
  /\ said[m].phase = "open" /\ said[m].redo # "must"
  /\ Fails
  /\ said' = [said EXCEPT ![m].redo = "must"]
  /\ call' = [c \in Calls |-> IF c \in Active(m)
                              THEN [call[c] EXCEPT !.heard = FALSE] ELSE call[c]]
  /\ tracker' = [tracker EXCEPT ![m] =
       IF Mode(m) \in {"stream", "upload"} THEN NoEntry ELSE @]
  /\ UNCHANGED <<way, online, out, stored, moves>>

----------------------------------------------------------------------------
(* The handlers.                                                           *)

\* Mutant: a failed save is only logged.
SaveIgnored(c) ==
  /\ call[c].pc = "save" /\ Goto(c, "lookup")
  /\ \/ Works /\ stored' = [stored EXCEPT ![call[c].m] = @ + 1]
     \/ Fails /\ UNCHANGED stored
  /\ UNCHANGED <<way, online, tracker, out, moves>>

\* SendHandler stores what is to be stored before anything else.
SaveIncoming(c) ==
  /\ call[c].pc = "save"
  /\ \/ Works /\ Goto(c, "lookup") /\ stored' = [stored EXCEPT ![call[c].m] = @ + 1]
     \/ Fails /\ Answers(c, "error")
        /\ \E done \in {0, 1} : stored' = [stored EXCEPT ![call[c].m] = @ + done]
  /\ UNCHANGED <<way, online, tracker, out, moves>>

\* GetConnectedClient.  Only a setup fails when the client is not connected;
\* the HTTP endpoint leaves that to the router.
LookupClient(c) ==
  /\ call[c].pc = "lookup"
  /\ \/ Fails /\ Answers(c, "error")
     \/ /\ Works /\ (call[c].kind = "send" \/ Connected(c)) /\ call[c].kind # "check"
        /\ Goto(c, "route")
     \/ Works /\ Connected(c) /\ call[c].kind = "check" /\ Answers(c, "success")
     \/ /\ Works /\ ~Connected(c) /\ call[c].kind \in {"check", "setup"}
        /\ Answers(c, "offline")
     \/ /\ Works /\ ~Connected(c) /\ call[c].kind \notin {"check", "setup", "send"}
        /\ AfterPublish(c)
  /\ UNCHANGED <<way, online, tracker, out, stored, moves>>

\* PublishToClient asks again; a client that has gone is not an error.
RouteToClient(c) ==
  /\ call[c].pc = "route"
  /\ \/ Fails /\ Answers(c, "error")
     \/ Works /\ Connected(c) /\ Goto(c, "xadd")
     \/ Works /\ ~Connected(c) /\ AfterPublish(c)
  /\ UNCHANGED <<way, online, tracker, out, stored, moves>>

Put(c) == out' = [out EXCEPT ![call[c].m] = Append(@, Payload(c))]

\* Mutant: the append of a cancelled call still goes out.
AppendLate(c) ==
  /\ call[c].pc = "xadd"
  /\ Works /\ Put(c) /\ AfterPublish(c)
  /\ UNCHANGED <<way, online, tracker, stored, moves>>

\* XADD, with the context of the call.
AppendEntry(c) ==
  /\ call[c].pc = "xadd"
  /\ \/ Works /\ call[c].heard /\ Put(c) /\ AfterPublish(c)
     \/ Works /\ ~call[c].heard /\ Answers(c, "error") /\ UNCHANGED out
     \/ Fails /\ call[c].heard /\ Answers(c, "error") /\ (Put(c) \/ UNCHANGED out)
  /\ UNCHANGED <<way, online, tracker, stored, moves>>

\* Mutant: the error of the save is answered.
StoreAnswered(c) ==
  /\ call[c].pc = "store"
  /\ \/ Works /\ stored' = [stored EXCEPT ![call[c].m] = @ + 1] /\ Answers(c, "success")
     \/ Fails /\ Answers(c, "error")
        /\ \E done \in {0, 1} : stored' = [stored EXCEPT ![call[c].m] = @ + done]
  /\ UNCHANGED <<way, online, tracker, out, moves>>

\* saveStreamedMessageToHistory; its error is only logged.
StoreCompleted(c) ==
  /\ call[c].pc = "store"
  /\ \/ Works /\ stored' = [stored EXCEPT ![call[c].m] = @ + 1]
     \/ Fails /\ \E done \in {0, 1} : stored' = [stored EXCEPT ![call[c].m] = @ + done]
  /\ Answers(c, "success")
  /\ UNCHANGED <<way, online, tracker, out, moves>>

Handle(c) == \/ SaveIncoming(c) \/ LookupClient(c) \/ RouteToClient(c)
             \/ AppendEntry(c) \/ StoreCompleted(c)

Next ==
  \/ \E c \in Calls : Handle(c)
  \/ \E c \in Calls, m \in Msgs, kind \in Kinds : Receive(c, m, kind)
  \/ \E m \in Msgs : Break(m)
  \/ Move

Spec == Init /\ [][Next]_vars

----------------------------------------------------------------------------
(* Properties.                                                             *)

\* Every variable holds a value of its kind, and an idle tracker has no entry.
TypeOK ==
  /\ way \in [Msgs -> Ways] /\ online \in BOOLEAN
  /\ tracker \in [Msgs -> -1..Top] /\ call \in [Calls -> {Idle} \cup Busy]
  /\ said \in [Msgs -> Caller] /\ out \in [Msgs -> Seq(Item)]
  /\ stored \in [Msgs -> Nat] /\ moves \in 0..MaxMoves /\ faults \in 0..MaxFaults

\* "sequence numbers for unary SendMessage calls ... Protected by unarySeqMu for
\* concurrent access": two deltas of one attempt never carry the same number,
\* on their way or appended, whatever calls overlap, fail or are cancelled.
SeqsDistinct ==
  LET Same(d, e) == /\ d.kind = "delta" /\ e.kind = "delta"
                    /\ d.attempt = e.attempt /\ d.seq = e.seq
      OnTheWay(m) == {c \in Active(m) : call[c].pc \in {"lookup", "route", "xadd"}}
  IN \A m \in Msgs :
       /\ \A j, k \in DOMAIN out[m] : Same(out[m][j], out[m][k]) => j = k
       /\ \A b, c \in OnTheWay(m) : Same(call[b], call[c]) => b = c
       /\ \A b \in OnTheWay(m), k \in DOMAIN out[m] : ~Same(call[b], out[m][k])

\* An attempt that starts over numbers from one again: no delta has a number
\* above the deltas (and unary control signs) sent in its attempt.
NoGaps ==
  \A c \in Calls :
    call[c].pc # "idle" /\ call[c].kind = "delta"
    /\ call[c].attempt = said[call[c].m].attempt
      => call[c].seq <= said[call[c].m].n + said[call[c].m].extra

\* The tracker entry of a message goes with its completion: the server map
\* does not keep an entry for every message id that ever was.
TrackerFreed ==
  \A m \in Msgs : said[m].phase = "ended" => tracker[m] = NoEntry

\* A streamed message is stored at most once, however often its caller tries
\* again what was answered with an error.
StoredOnce == \A m \in Msgs : Mode(m) # "http" => stored[m] <= 1

\* A message that the caller was told is accepted is in the history, by the
\* HTTP endpoint even when calls fail.
AcceptedIsStored ==
  \A m \in Msgs :
    Kept(m) /\ said[m].phase = "ended" /\ said[m].told = "success"
    /\ (Mode(m) = "http" \/ faults = 0) => stored[m] > 0

\* While the client stays connected and nothing fails, every message that was
\* sent is appended for it, once, under whatever form of its URN.
NothingSkipped ==
  \A m \in Msgs :
    LET s == said[m]
        ends == IF s.phase = "ended" /\ Mode(m) # "http" THEN 1 ELSE 0
    IN online /\ moves = 0 /\ faults = 0 /\ Active(m) = {}
         => Len(out[m]) = s.attempt + s.n + s.extra + ends

\* Entries of a turn reach the client's pod in the order TurnOrder promises,
\* unless the caller sends them side by side.
InOrder(m) == Mode(m) \in {"stream", "upload", "unary"}
Turns == INSTANCE TurnOrder WITH
  Entries <- Item, log <- [m \in Msgs |-> IF InOrder(m) THEN out[m] ELSE <<>>]
TurnsInOrder == Turns!Spec
=============================================================================
