------------------------------- MODULE Frames -------------------------------
(***************************************************************************)
(* What a connection asks the server for, besides its session.  The reader *)
(* goroutine of a connection takes one frame at a time: it forwards        *)
(* messages and stores them, reads pages of the history, asks Flows for    *)
(* this and that (Lookups), and starts goroutines for conversation starters*)
(* (Starters) and for the cart (Cart), which go on beside it.              *)
(***************************************************************************)
EXTENDS Starters, Cart, Lookups

CONSTANTS
  Plans,       \* bound: the frames of a run, as pairs of a connection and a kind;
               \* a connection sends its own in this order
  LastSecond   \* bound: of the clock

Frames == Requests
Kinds == {"register", "message", "history", "starters", "cart", "utm", "voice",
          "timeout", "language", "field", "close"}

ASSUME FramesAssumption ==
  /\ Orders = Frames /\ Lookers = Frames
  /\ Frames \subseteq Nat /\ "key" \in Caches
  /\ \A p \in Plans : DOMAIN p \subseteq Frames /\ \A f \in DOMAIN p : p[f] \in Conns \X Kinds

VARIABLES
  plan,      \* member of Plans: never changes
  step,      \* [Frames -> Steps]: where the reader is with a frame
  closed,    \* SUBSET Conns
  stamp,     \* [Frames -> Nat]: timestamp of a message, page of a history
  clock,     \* the last second something was stamped
  regAt,     \* [Conns -> Nat]: Client.RegistrationMoment
  history,   \* Seq(Nat): timestamps of the stored messages, as they were stored
  read,      \* history: messages in the order their frames were read
  posts,     \* history: messages in the order Flows was posted them
  pages,     \* history: per connection, the pages it was shown, each its number
             \* and a set of places in history
  late       \* history: connections that an older stamp was stored after

parts == <<startersVars, cartVars, lookVars>>
talk  == <<stamp, clock, regAt, history, read, posts, pages, late>>
framesVars == <<parts, plan, step, closed, talk>>

Limit == 1        \* messages of a page
Over  == {"started", "answered", "error", "silent"}
Steps == {"new", "look", "tokens", "post", "save", "page", "ask"} \cup Over

By(f)   == plan[f][1]
Kind(f) == plan[f][2]
Planned(kinds) == \E f \in DOMAIN plan : Kind(f) \in kinds
Sends(c, kind) == \E f \in DOMAIN plan : plan[f] = <<c, kind>>

Init ==
  /\ plan \in Plans
  /\ StartersInit /\ CartInit /\ LooksInit
  /\ \A c \in Conns : (cid[c] = NoId) <=> Sends(c, "register")
  /\ Planned({"voice"}) \/ flows = [e \in Caches |-> IF e = "key" THEN NoKey ELSE "ours"]
  /\ step    = [f \in Frames |-> "new"]
  /\ closed  = {}
  /\ stamp   = [f \in Frames |-> 0]
  /\ clock   = 3
  /\ history = <<1, 2>>
  /\ regAt   = [c \in Conns |-> IF cid[c] = NoId THEN 0 ELSE clock]
  /\ read    = <<>>
  /\ posts   = <<>>
  /\ pages   = [c \in Conns |-> {}]
  /\ late    = {}

----------------------------------------------------------------------------
(* The reader.                                                             *)

\* Mutant: every frame has a goroutine of its own.
Open(c) == c \notin closed

\* A reader takes the next frame when it is through with the last.
Ready(c) == /\ c \notin closed
            /\ \A f \in DOMAIN plan : By(f) = c => step[f] \in Over \cup {"new"}

NextFrame(c, f, kind) ==
  /\ step[f] = "new" /\ f \in DOMAIN plan /\ plan[f] = <<c, kind>> /\ Ready(c)
  /\ \A g \in DOMAIN plan : g < f /\ By(g) = c => step[g] # "new"
Takes(c, f, kind) == NextFrame(c, f, kind) /\ cid[c] # NoId
Does(c, f, where) == step[f] = where /\ f \in DOMAIN plan /\ By(f) = c

\* The frame goes on to another step, or is over.
Comes(f, where) == /\ step' = [step EXCEPT ![f] = where]
                   /\ UNCHANGED <<plan, closed>>
Beside == UNCHANGED <<plan, step, closed>>     \* not in a reader

\* ErrorNeedRegistration: the frame of a connection without an id.
RefuseFrame(c, f) ==
  /\ cid[c] = NoId
  /\ \E kind \in Kinds \ {"register", "close"} : NextFrame(c, f, kind)
  /\ Comes(f, "error")
  /\ UNCHANGED <<parts, talk>>

\* The socket closes; goroutines that it started go on.
Close(c, f) ==
  /\ NextFrame(c, f, "close") /\ closed' = closed \cup {c}
  /\ step' = [step EXCEPT ![f] = "silent"]
  /\ UNCHANGED <<parts, plan, talk>>

\* Whole seconds: between two moments that are noted, one passes or none.  Bound:
\* one passes only where somebody asks for the history.
Passes == \/ clock' = clock
          \/ Planned({"history"}) /\ clock < LastSecond /\ clock' = clock + 1

\* Register checks the domain first; all that follows is in Session.
TakeRegister(c, f, pod) ==
  /\ NextFrame(c, f, "register") /\ pod # "key" /\ ReadCache(f, pod)
  /\ Comes(f, "look")
  /\ UNCHANGED <<startersVars, cartVars, talk>>

Register(c, f, i) ==
  /\ Does(c, f, "look") /\ Kind(f) = "register" /\ look[f].pc = "done"
  /\ \/ /\ Result(f) /\ SetClientID(c, i) /\ Comes(f, "answered")
        /\ Passes /\ regAt' = [regAt EXCEPT ![c] = clock']
     \/ /\ ~Result(f) /\ Comes(f, "error")
        /\ UNCHANGED <<startersVars, clock, regAt>>
  /\ UNCHANGED <<cartVars, lookVars, stamp, history, read, posts, pages, late>>

LookUp(f) == /\ AskFlows(f) \/ WriteCache(f)
             /\ Beside /\ UNCHANGED <<startersVars, cartVars, talk>>

\* Two requests side by side, of which both must succeed.
RequestSingleUseTokens == {"answered", "error"}

\* Without a key, or without both tokens, the client is told so.
TakeVoice(c, f) ==
  /\ Takes(c, f, "voice") /\ ReadCache(f, "key")
  /\ Comes(f, "look")
  /\ UNCHANGED <<startersVars, cartVars, talk>>

RequestVoiceTokens(c, f) ==
  /\ \/ /\ Does(c, f, "look") /\ Kind(f) = "voice" /\ look[f].pc = "done"
        /\ Comes(f, IF Result(f) = "" THEN "error" ELSE "tokens")
     \/ Does(c, f, "tokens") /\ \E end \in RequestSingleUseTokens : Comes(f, end)
  /\ UNCHANGED <<parts, talk>>

\* One question to Flows each.  What ends without an answer is meant to.
VerifyContactTimeout == {"answered", "silent", "error"}
GetProjectLanguage   == {"answered"}
SetCustomField       == {"silent", "error"}
Outcomes(kind) == CASE kind = "timeout"  -> VerifyContactTimeout
                    [] kind = "language" -> GetProjectLanguage
                    [] kind = "field"    -> SetCustomField
                    [] OTHER             -> {}
AskContact(c, f) ==
  /\ \/ (\E kind \in {"timeout", "language", "field"} : Takes(c, f, kind))
        /\ Comes(f, "ask")
     \/ Does(c, f, "ask") /\ \E end \in Outcomes(Kind(f)) : Comes(f, end)
  /\ UNCHANGED <<parts, talk>>

----------------------------------------------------------------------------
(* Messages and the history.                                               *)

\* The time goes into the message.
Stamp(f) == Passes /\ stamp' = [stamp EXCEPT ![f] = clock']
Store(f) == /\ history' = Append(history, stamp[f])
            /\ late' = late \cup {d \in Conns : stamp[f] < regAt[d]}

\* Redirect stamps the message, posts it to the callback, then stores it.
TakeMessage(c, f) ==
  /\ Takes(c, f, "message") /\ Comes(f, "post") /\ Stamp(f)
  /\ read' = Append(read, f)
  /\ UNCHANGED <<parts, regAt, history, posts, pages, late>>

\* A location is posted and not stored.
PostMessage(c, f) ==
  /\ Does(c, f, "post")
  /\ \/ posts' = Append(posts, f) /\ \E end \in {"save", "silent", "error"} : Comes(f, end)
     \/ Comes(f, "error") /\ UNCHANGED posts
  /\ UNCHANGED <<parts, stamp, clock, regAt, history, read, pages, late>>

SaveHistory(c, f) ==
  /\ Does(c, f, "save")
  /\ \/ Store(f) /\ \E end \in {"answered", "error"} : Comes(f, end)
     \/ Comes(f, "error") /\ UNCHANGED <<history, late>>
  /\ UNCHANGED <<parts, stamp, clock, regAt, read, posts, pages>>

\* A page is cut out by its number from what is older than a moment, newest
\* first, the messages of one second in any order: of each second a page shows as
\* many as this second has places in it.
Older(before) == {n \in DOMAIN history : history[n] < before}
Newer(n, S)   == {m \in S : history[m] > history[n]}
SameSecond(n, S) == {m \in S : history[m] = history[n]}
Window(page) == (page - 1) * Limit .. page * Limit - 1
Ranks(n, S) == LET first == Cardinality(Newer(n, S))
                IN first .. first + Cardinality(SameSecond(n, S)) - 1
Page(before, page) ==
  LET old == Older(before)
  IN {S \in SUBSET old : \A n \in old :
        Cardinality(SameSecond(n, S)) = Cardinality(Ranks(n, old) \cap Window(page))}

\* Mutant: pages of what is there by now.
BeforeNow(c) == clock + 1
Before(c) == regAt[c]

FetchHistory(c, f) ==
  /\ \/ /\ Takes(c, f, "history") /\ Comes(f, "page")
        /\ \E page \in 1..2 : stamp' = [stamp EXCEPT ![f] = page]
        /\ UNCHANGED pages
     \/ /\ Does(c, f, "page") /\ UNCHANGED stamp
        /\ \/ /\ Comes(f, "answered")
              /\ \E S \in Page(Before(c), stamp[f]) :
                   pages' = [pages EXCEPT ![c] = @ \cup {<<stamp[f], S>>}]
           \/ Comes(f, "error") /\ UNCHANGED pages
  /\ UNCHANGED <<parts, clock, regAt, history, read, posts, late>>

----------------------------------------------------------------------------
(* Starters and the cart.                                                  *)

GetPDPStarters(c, f) ==
  /\ \/ Takes(c, f, "starters") /\ AskStarters(c, f)
     \/ Does(c, f, "ask") /\ TryAcquire(f)
  /\ Comes(f, CASE req'[f].pc = "acquire" -> "ask" [] req'[f].pc = "spawn" -> "started"
                   [] OTHER -> IF step[f] = "ask" THEN "error" ELSE "silent")
  /\ UNCHANGED <<cartVars, lookVars, talk>>

StartersTask(f) == InTask(f) /\ Beside /\ UNCHANGED <<cartVars, lookVars, talk>>

TakeCart(c, f) ==
  /\ Takes(c, f, "cart") /\ \E data \in Wishes : AddToCart(f, data)
  /\ Comes(f, IF OpAt(f, "refused")' THEN "error" ELSE "started")
  /\ UNCHANGED <<startersVars, lookVars, talk>>

TakeUTM(c, f) ==
  /\ \/ /\ Takes(c, f, "utm") /\ \E s \in Sources \cup {NoSource} : SendUTM(f, s)
        /\ Comes(f, IF OpAt(f, "refused")' THEN "error" ELSE "ask")
     \/ Does(c, f, "ask") /\ channelUsesMarketingTags(f) /\ Comes(f, "started")
  /\ UNCHANGED <<startersVars, lookVars, talk>>

\* The order that tells the callback of new items is stamped and stored like a
\* message; what fails there is logged.
CartTask(f) ==
  /\ InOrderTask(f) /\ Beside
  /\ \/ OpAt(f, "order")' /\ Stamp(f) /\ UNCHANGED <<history, late>>
     \/ /\ OpAt(f, "order") /\ UNCHANGED <<stamp, clock>>
        /\ Store(f) \/ (failures' # failures /\ UNCHANGED <<history, late>>)
     \/ ~OpAt(f, "order") /\ ~OpAt(f, "order")' /\ UNCHANGED <<stamp, clock, history, late>>
  /\ UNCHANGED <<startersVars, lookVars, regAt, read, posts, pages>>

\* Bound: others change only what some frame of the run is about.
Shopper == /\ \/ Planned({"cart"}) /\ ShopperShops
              \/ Planned({"utm"}) /\ EnterCoupon
           /\ Beside /\ UNCHANGED <<startersVars, lookVars, talk>>
CacheExpires(e) == Expire(e) /\ Beside /\ UNCHANGED <<startersVars, cartVars, talk>>
Configure == Planned({"voice"}) /\ FlowsChanges /\ Beside /\ UNCHANGED <<startersVars, cartVars, talk>>

Handle(c, f) ==
  \/ Close(c, f) \/ RefuseFrame(c, f) \/ (\E pod \in Caches : TakeRegister(c, f, pod))
  \/ (\E i \in Ids : Register(c, f, i)) \/ TakeVoice(c, f) \/ RequestVoiceTokens(c, f)
  \/ AskContact(c, f) \/ TakeMessage(c, f) \/ PostMessage(c, f) \/ SaveHistory(c, f)
  \/ FetchHistory(c, f) \/ GetPDPStarters(c, f) \/ TakeCart(c, f) \/ TakeUTM(c, f)

Next ==
  \/ \E c \in Conns, f \in Frames : Handle(c, f)
  \/ \E f \in Frames : LookUp(f) \/ StartersTask(f) \/ CartTask(f)
  \/ \E e \in Caches : CacheExpires(e)
  \/ Shopper \/ Configure

Spec == Init /\ [][Next]_framesVars

\* What has a time limit ends: Redis, the Lambda function, VTEX, the lifetime of
\* a cache entry.  Flows, ElevenLabs and the callback are called without one.
StartersMove == \E f \in Frames :
  \/ StartersTask(f)
  \/ \E c \in Conns : Does(c, f, "ask") /\ GetPDPStarters(c, f)
CartMoves == \E f \in Frames : ~OpAt(f, "order") /\ CartTask(f)
CachesExpire == \E e \in Caches : CacheExpires(e)
FairSpec == /\ Spec /\ WF_framesVars(StartersMove) /\ WF_framesVars(CartMoves)
            /\ WF_framesVars(CachesExpire)

----------------------------------------------------------------------------
(* Properties.                                                             *)

\* Every variable holds a value of its kind.
TypeOK ==
  /\ StartersTypeOK /\ CartTypeOK /\ LooksTypeOK
  /\ plan \in Plans /\ step \in [Frames -> Steps] /\ closed \subseteq Conns
  /\ stamp \in [Frames -> Nat] /\ clock \in Nat /\ regAt \in [Conns -> Nat]
  /\ history \in Seq(Nat) /\ late \subseteq Conns
  /\ pages \in [Conns -> SUBSET (Nat \X SUBSET DOMAIN history)]

\* Flows is posted the messages of a connection in the order they were sent.
PostedInOrder ==
  \A j, k \in DOMAIN posts :
    LET Turn(f) == CHOOSE n \in DOMAIN read : read[n] = f
    IN j < k /\ By(posts[j]) = By(posts[k]) => Turn(posts[j]) < Turn(posts[k])

\* While messages come and go, a page of the history that is asked for again
\* shows as many messages of each second as before, a later page shows nothing
\* newer than an earlier one, and a message is on two pages only if another was
\* stamped in its second, because pages end at the registration: unless a message
\* that was stamped before it was stored after it.
PagesStable ==
  \A c \in Conns \ late : \A p, q \in pages[c] :
    /\ p[1] = q[1] => \A n \in p[2] \cup q[2] :
         Cardinality(SameSecond(n, p[2])) = Cardinality(SameSecond(n, q[2]))
    /\ p[1] < q[1] =>
         /\ \A m \in p[2], n \in q[2] : history[m] >= history[n]
         /\ \A n \in p[2] \cap q[2] : SameSecond(n, DOMAIN history) # {n}

\* add_to_cart and send_utm get through with the order form, and are answered
\* unless the order's callback never is.
CartAnswered ==
  LET Underway(f) == op[f].pc \notin CartDone \cup {"new", "flag", "order"}
  IN (\E f \in Frames : Underway(f)) ~> (\A f \in Frames : ~Underway(f))
=============================================================================
