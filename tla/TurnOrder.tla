------------------------------ MODULE TurnOrder ------------------------------
(* What a browser may rely on when it puts streamed turns together: the      *)
(* order in which the entries of each message id reach its pod.  A caller    *)
(* whose stream broke sends the turn again; attempt counts how often.        *)
EXTENDS Integers, Sequences

CONSTANTS Msgs, Entries    \* entries are records of kind, seq and attempt
VARIABLE log               \* [Msgs -> Seq(Entries)]

Sent(m)  == {log[m][k] : k \in DOMAIN log[m]}
Ended(m) == \E s \in Sent(m) : s.kind = "end"

\* An attempt starts once, and before the turn has ended.
Start(m, e) == /\ e.kind = "start" /\ ~Ended(m)
               /\ \A s \in Sent(m) : s.attempt < e.attempt

\* Chunks of an attempt come in growing order, and none follows the end.
Delta(m, e) == /\ e.kind = "delta" /\ ~Ended(m)
               /\ \A s \in Sent(m) :
                    s.attempt = e.attempt /\ s.kind = "delta" => s.seq < e.seq

\* Thoughts and typing signs belong to a turn that has not ended.
Aside(m, e) == e.kind \in {"rationale", "control"} /\ ~Ended(m)

\* The end carries the whole text: it may come twice, and without the rest.
End(m, e) == e.kind = "end"

\* Of an attempt nothing comes once there was something of a later one.
Latest(m, e) == \A s \in Sent(m) : s.attempt <= e.attempt

Init == log = [m \in Msgs |-> <<>>]
Next == /\ log' # log
        /\ \E m \in Msgs, e \in Entries :
             /\ Latest(m, e)
             /\ Start(m, e) \/ Delta(m, e) \/ Aside(m, e) \/ End(m, e)
             /\ log' = [log EXCEPT ![m] = Append(@, e)]
Spec == Init /\ [][Next]_log
=============================================================================
