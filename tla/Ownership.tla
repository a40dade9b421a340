------------------------------ MODULE Ownership ------------------------------
(* What a session owes its client, however many pods take part: a client id  *)
(* has one owner at a time, the owner it had is gone before another enters,  *)
(* and only the owner is served.                                             *)

CONSTANTS Clients, Conns, Tokens, NoConn, NoToken

VARIABLES
  owner,      \* [Clients -> Conns \cup {NoConn}]
  token,      \* [Clients -> Tokens \cup {NoToken}]: the owner's
  entering,   \* [Clients -> SUBSET Conns]: named as the owner, not served yet
  serving     \* [Clients -> SUBSET Conns]: what messages are delivered to

Nobody(id) == entering[id] = {} /\ serving[id] = {}

\* A connection becomes the owner of an id when nobody else is left, and with
\* the token of the owner before it, if that had one.
Claim(c, id, t) ==
  /\ Nobody(id)
  /\ token[id] \in {NoToken, t}
  /\ owner' = [owner EXCEPT ![id] = c]
  /\ token' = [token EXCEPT ![id] = t]
  /\ entering' = [entering EXCEPT ![id] = {c}]
  /\ UNCHANGED serving

Serve(id) ==
  /\ entering[id] = {owner[id]} /\ serving[id] = {}
  /\ entering' = [entering EXCEPT ![id] = {}]
  /\ serving' = [serving EXCEPT ![id] = {owner[id]}]
  /\ UNCHANGED <<owner, token>>

\* The session ends, or its end is under way: it is not served again.
Leave(id) ==
  /\ ~Nobody(id)
  /\ entering' = [entering EXCEPT ![id] = {}]
  /\ serving' = [serving EXCEPT ![id] = {}]
  /\ UNCHANGED <<owner, token>>

Release(id) ==
  /\ Nobody(id) /\ owner[id] # NoConn
  /\ owner' = [owner EXCEPT ![id] = NoConn]
  /\ token' = [token EXCEPT ![id] = NoToken]
  /\ UNCHANGED <<entering, serving>>

Init ==
  /\ owner = [id \in Clients |-> NoConn] /\ token = [id \in Clients |-> NoToken]
  /\ entering = [id \in Clients |-> {}] /\ serving = [id \in Clients |-> {}]

Next == \E id \in Clients :
          \/ \E c \in Conns, t \in Tokens \cup {NoToken} : Claim(c, id, t)
          \/ Serve(id) \/ Leave(id) \/ Release(id)
Spec == Init /\ [][Next]_<<owner, token, entering, serving>>
=============================================================================
