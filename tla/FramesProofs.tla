---------------------------- MODULE FramesProofs ----------------------------
(***************************************************************************)
(* TLAPS proofs about Frames: the readers and what goes on beside them use *)
(* the guards and slots of the starters as Starters says and write the     *)
(* cart as Cart says, so that what is proved there holds of the            *)
(* composition; and what it promises of the lookups, of the order of posts *)
(* and of the pages of the history.                                        *)
(***************************************************************************)
EXTENDS Frames, PartsProofs

LEMMA HandleIsStarters ==
  ASSUME NEW c \in Conns, NEW f \in Frames, Handle(c, f)
  PROVE  StartersNext \/ UNCHANGED startersVars
<1>1. CASE \E i \in Ids : Register(c, f, i)
  BY <1>1 DEF Register, StartersNext
<1>2. CASE GetPDPStarters(c, f)
  BY <1>2 DEF GetPDPStarters, StartersNext, InReader, Frames
<1>3. CASE \/ Close(c, f) \/ RefuseFrame(c, f) \/ TakeVoice(c, f)
           \/ \E pod \in Caches : TakeRegister(c, f, pod)
           \/ RequestVoiceTokens(c, f) \/ AskContact(c, f) \/ TakeMessage(c, f)
           \/ PostMessage(c, f) \/ SaveHistory(c, f) \/ FetchHistory(c, f)
           \/ TakeCart(c, f) \/ TakeUTM(c, f)
  BY <1>3 DEF Close, RefuseFrame, TakeVoice, TakeRegister, RequestVoiceTokens, AskContact,
     TakeMessage, PostMessage, SaveHistory, FetchHistory, TakeCart, TakeUTM, parts
<1> QED
  BY <1>1, <1>2, <1>3 DEF Handle

LEMMA NextIsStarters == [Next]_framesVars => [StartersNext]_startersVars
<1> SUFFICES ASSUME [Next]_framesVars
             PROVE  StartersNext \/ UNCHANGED startersVars
  OBVIOUS
<1>1. CASE UNCHANGED framesVars
  BY <1>1 DEF framesVars, parts
<1>2. CASE \E c \in Conns, f \in Frames : Handle(c, f)
  BY <1>2, HandleIsStarters
<1>3. CASE \E f \in Frames : StartersTask(f)
  BY <1>3 DEF StartersTask, StartersNext, Frames
<1>4. CASE \/ \E f \in Frames : LookUp(f) \/ CartTask(f)
           \/ \E e \in Caches : CacheExpires(e)
           \/ Shopper \/ Configure
  BY <1>4 DEF LookUp, CartTask, CacheExpires, Shopper, Configure
<1> QED
  BY <1>1, <1>2, <1>3, <1>4 DEF Next

\* Whatever the frames are, and whatever else they are about, the starters
\* behave as in Starters.
THEOREM FramesRefineStarters == Spec => StartersSpec
<1>1. Init => StartersInit
  BY DEF Init
<1> QED
  BY <1>1, NextIsStarters, PTL DEF Spec, StartersSpec

\* In the composition, too, an id has one request in flight for its guard.
THEOREM FramesKeepGuards == ~Rebind /\ Spec => []GuardsMatch
BY FramesRefineStarters, GuardsSafe

\* In the composition, too, no slot is lost or given back twice.
THEOREM FramesKeepSlots == Spec => []SlotsMatch
BY FramesRefineStarters, SlotsSafe

----------------------------------------------------------------------------
(* LookupHonest.                                                           *)

\* As long as Flows has not changed and no call has failed, what is cached, and
\* what a lookup has in hand, is what Flows says.
Honest ==
  /\ changes \in Nat /\ losses \in Nat
  /\ cache = [e \in Caches |-> cache[e]] /\ look = [l \in Lookers |-> look[l]]
  /\ \A l \in Lookers :
       \/ look[l] = Unasked
       \/ look[l] = [pc |-> look[l].pc, of |-> look[l].of, value |-> look[l].value]
          /\ look[l].of \in Caches /\ look[l].pc \in {"fetch", "store", "done"}
  /\ changes = 0 /\ losses = 0 =>
       /\ \A e \in Caches : cache[e] \in {NoEntry, flows[e]}
       /\ \A l \in Lookers : look[l].pc \in {"store", "done"} =>
            look[l].value = flows[look[l].of]

LEMMA HonestStays == Honest /\ UNCHANGED lookVars => Honest'
BY DEF Honest, lookVars

LEMMA HonestReads ==
  ASSUME Honest, NEW l \in Lookers, NEW e \in Caches, ReadCache(l, e)
  PROVE  Honest'
<1>1. losses' \in Nat /\ (losses' = 0 => losses = 0)
  BY DEF Honest, ReadCache, Heard, Lost
<1>2. PICK where \in {"fetch", "done"}, v \in {NoEntry, cache[e]} :
        /\ look' = [look EXCEPT ![l] = [pc |-> where, of |-> e, value |-> v]]
        /\ where = "done" => v = cache[e] /\ cache[e] # NoEntry
  BY DEF ReadCache
<1>3. /\ look'[l] = [pc |-> where, of |-> e, value |-> v]
      /\ \A k \in Lookers \ {l} : look'[k] = look[k]
      /\ look' = [k \in Lookers |-> look'[k]]
  BY <1>2 DEF Honest
<1>4. UNCHANGED <<flows, cache, changes>>
  BY DEF ReadCache
<1> QED BY <1>1, <1>2, <1>3, <1>4 DEF Honest

LEMMA HonestLooks ==
  ASSUME Honest, NEW l \in Lookers, AskFlows(l) \/ WriteCache(l)
  PROVE  Honest'
<1>1. losses' \in Nat /\ (losses' = 0 => losses = 0)
  BY DEF Honest, AskFlows, WriteCache, Heard, Lost
<1>2. /\ UNCHANGED <<flows, changes>> /\ look[l].pc \in {"fetch", "store"}
      /\ look[l] = [pc |-> look[l].pc, of |-> look[l].of, value |-> look[l].value]
      /\ look[l].of \in Caches
  BY DEF AskFlows, WriteCache, Honest, Unasked
<1>3. CASE AskFlows(l)
  <2> DEFINE e == look[l].of
  <2>1. PICK where \in {"store", "done"}, v \in {flows[e], NoKey, NoEntry} :
          /\ look' = [look EXCEPT ![l] = [pc |-> where, of |-> e, value |-> v]]
          /\ losses' = 0 => v = flows[e]
    BY <1>3 DEF AskFlows, Honest, Heard, Lost
  <2>2. /\ look'[l] = [pc |-> where, of |-> e, value |-> v]
        /\ \A k \in Lookers \ {l} : look'[k] = look[k]
        /\ look' = [k \in Lookers |-> look'[k]]
    BY <2>1 DEF Honest
  <2>3. UNCHANGED cache
    BY <1>3 DEF AskFlows
  <2> QED BY <1>1, <1>2, <2>1, <2>2, <2>3 DEF Honest
<1>4. CASE WriteCache(l)
  <2>1. look[l].pc = "store" /\ look' = [look EXCEPT ![l].pc = "done"]
    BY <1>4 DEF WriteCache
  <2>2. /\ look'[l] = [pc |-> "done", of |-> look[l].of, value |-> look[l].value]
        /\ \A k \in Lookers \ {l} : look'[k] = look[k]
        /\ look' = [k \in Lookers |-> look'[k]]
    BY <1>2, <2>1 DEF Honest
  <2>3. /\ cache' = [e \in Caches |-> cache'[e]]
        /\ \A e \in Caches : \/ cache'[e] = cache[e]
                             \/ (e = look[l].of /\ cache'[e] = look[l].value)
    <3>1. CASE UNCHANGED cache
      BY <3>1 DEF Honest
    <3>2. CASE cache' = [cache EXCEPT ![look[l].of] = look[l].value]
      BY <1>2, <3>2 DEF Honest
    <3> QED BY <1>4, <3>1, <3>2 DEF WriteCache
  <2> QED BY <1>1, <1>2, <2>1, <2>2, <2>3 DEF Honest
<1> QED BY <1>3, <1>4

LEMMA HonestStep == Honest /\ [Next]_framesVars => Honest'
<1> SUFFICES ASSUME Honest, [Next]_framesVars PROVE Honest'
  OBVIOUS
<1>1. CASE UNCHANGED framesVars
  BY <1>1, HonestStays DEF framesVars, parts
<1>2. ASSUME NEW c \in Conns, NEW f \in Frames, Handle(c, f) PROVE Honest'
  <2>1. CASE TakeVoice(c, f) \/ \E pod \in Caches : TakeRegister(c, f, pod)
    BY <2>1, HonestReads, FramesAssumption DEF TakeVoice, TakeRegister
  <2>2. CASE ~(TakeVoice(c, f) \/ \E pod \in Caches : TakeRegister(c, f, pod))
    BY <1>2, <2>2, HonestStays
       DEF Handle, Close, RefuseFrame, Register, RequestVoiceTokens, AskContact, TakeMessage,
           PostMessage, SaveHistory, FetchHistory, GetPDPStarters, TakeCart, TakeUTM, parts
  <2> QED BY <2>1, <2>2
<1>3. ASSUME NEW f \in Frames, LookUp(f) PROVE Honest'
  BY <1>3, HonestLooks, FramesAssumption DEF LookUp
<1>4. ASSUME NEW f \in Frames, StartersTask(f) \/ CartTask(f) PROVE Honest'
  BY <1>4, HonestStays DEF StartersTask, CartTask
<1>5. ASSUME NEW e \in Caches, CacheExpires(e) PROVE Honest'
  BY <1>5 DEF CacheExpires, Expire, Honest
<1>6. CASE Shopper
  BY <1>6, HonestStays DEF Shopper
<1>7. CASE Configure
  BY <1>7 DEF Configure, FlowsChanges, Honest
<1> QED BY <1>1, <1>2, <1>3, <1>4, <1>5, <1>6, <1>7 DEF Next

\* A key or a domain list that a lookup answers, cached or not, is what Flows
\* says, among any frames: only a change or a failed call can come between.
THEOREM LooksSafe == Spec => []LookupHonest
<1>1. ASSUME Init PROVE Honest
  <2>1. /\ cache = [e \in Caches |-> NoEntry] /\ look = [l \in Lookers |-> Unasked]
        /\ changes = 0 /\ losses = 0
    BY <1>1 DEF Init, LooksInit
  <2>2. /\ \A e \in Caches : cache[e] = NoEntry
        /\ \A l \in Lookers : look[l] = Unasked /\ look[l].pc = "new"
    BY <2>1 DEF Unasked
  <2>3. /\ cache = [e \in Caches |-> cache[e]] /\ look = [l \in Lookers |-> look[l]]
    BY <2>1, Zenon
  <2> QED BY <2>1, <2>2, <2>3 DEF Honest
<1>2. Honest => LookupHonest
  BY DEF Honest, LookupHonest, Result, Unasked
<1> QED BY <1>1, <1>2, HonestStep, PTL DEF Spec

----------------------------------------------------------------------------
(* MarketingKept.                                                          *)

Form == [source : Sources \cup {NoSource}, tags : SUBSET Sources, coupon : Nat]
Sent == {"tell sent", "utm_sent"}

\* A request of send_utm has what its earlier steps learnt.
Sound(o) ==
  /\ o = [x \in DOMAIN o |-> o[x]] /\ "pc" \in DOMAIN o
  /\ o.pc = "flag" => o \in [pc : {"flag"}, source : Sources]
  /\ o.pc = "read marketing" =>
       o \in [pc : {"read marketing"}, source : Sources, tags : BOOLEAN]
  /\ o.pc \in Sent \cup {"write marketing"} =>
       o \in [pc : Sent \cup {"write marketing"}, source : Sources, tags : BOOLEAN, seen : Form]

\* What a request sent is in the form.
Arrived(o) ==
  o.pc \in Sent => IF o.tags THEN o.source \in market.tags ELSE market.source # NoSource

\* As long as no two got mixed up, a request that is about to write has read
\* what is there.
MarketInv ==
  /\ op = [r \in Orders |-> op[r]] /\ market \in Form /\ entered \in Nat
  /\ \A r \in Orders : Sound(op[r])
  /\ "marketing" \notin mixed =>
       /\ market.coupon = entered
       /\ \A r \in Orders : op[r].pc = "write marketing" => op[r].seen = market
       /\ \A r \in Orders : Arrived(op[r])

LEMMA OpMoves ==
  ASSUME MarketInv, NEW r \in Orders, NEW o, op' = [op EXCEPT ![r] = o]
  PROVE  /\ op' = [k \in Orders |-> op'[k]] /\ op'[r] = o
         /\ \A k \in Orders \ {r} : op'[k] = op[k]
BY DEF MarketInv

LEMMA OpGoes ==
  ASSUME MarketInv, NEW r \in Orders, NEW where, OpGoto(r, where)
  PROVE  /\ op' = [k \in Orders |-> op'[k]]
         /\ op'[r] = [op[r] EXCEPT !.pc = where] /\ op'[r].pc = where
         /\ op'[r] = [x \in DOMAIN op'[r] |-> op'[r][x]] /\ "pc" \in DOMAIN op'[r]
         /\ \A k \in Orders \ {r} : op'[k] = op[k]
<1>1. op' = [op EXCEPT ![r] = [op[r] EXCEPT !.pc = where]]
  BY DEF OpGoto
<1>2. op[r] = [x \in DOMAIN op[r] |-> op[r][x]] /\ "pc" \in DOMAIN op[r]
  BY DEF MarketInv, Sound
<1> QED BY <1>1, <1>2, OpMoves, ZenonT(40)

LEMMA SoundMoves ==
  ASSUME MarketInv, NEW r \in Orders, Sound(op'[r]), \A k \in Orders \ {r} : op'[k] = op[k]
  PROVE  (\A k \in Orders : Sound(op[k]))'
<1>1. \A k \in Orders : Sound(op'[k])
  BY DEF MarketInv
<1> QED BY <1>1 DEF Sound

\* A step of a request for items, or one that ends a request.
LEMMA MarketAside ==
  ASSUME MarketInv, NEW r \in Orders,
         UNCHANGED <<market, entered>>, "marketing" \in mixed <=> "marketing" \in mixed',
         op' = [k \in Orders |-> op'[k]], \A k \in Orders \ {r} : op'[k] = op[k],
         op'[r] = [x \in DOMAIN op'[r] |-> op'[r][x]], "pc" \in DOMAIN op'[r],
         op'[r].pc \notin Sent \cup {"flag", "read marketing", "write marketing"}
  PROVE  MarketInv'
<1>1. (\A k \in Orders : Sound(op[k]))'
  BY SoundMoves DEF Sound
<1>2. "marketing" \notin mixed' => \A k \in Orders : Arrived(op[k])' /\
        (op'[k].pc = "write marketing" => op'[k].seen = market')
  BY DEF MarketInv, Arrived
<1> QED BY <1>1, <1>2 DEF MarketInv

Aside == {"order", "add items", "write items", "fail cart", "tell updated", "cart_updated",
          "cart_error", "read items", "refused", "fail utm", "utm_error"}

LEMMA GoesAside ==
  ASSUME MarketInv, NEW r \in Orders, NEW where \in Aside, OpGoto(r, where),
         UNCHANGED <<market, entered>>, "marketing" \in mixed <=> "marketing" \in mixed'
  PROVE  MarketInv'
<1>1. op'[r].pc \notin Sent \cup {"flag", "read marketing", "write marketing"}
  BY OpGoes DEF Aside, Sent
<1> QED BY <1>1, OpGoes, MarketAside

LEMMA SetAside ==
  ASSUME MarketInv, NEW r \in Orders, NEW o, op' = [op EXCEPT ![r] = o],
         o = [x \in DOMAIN o |-> o[x]], "pc" \in DOMAIN o, o.pc \in Aside,
         UNCHANGED <<market, entered>>, "marketing" \in mixed <=> "marketing" \in mixed'
  PROVE  MarketInv'
<1>1. op'[r] = o /\ op' = [k \in Orders |-> op'[k]] /\ \A k \in Orders \ {r} : op'[k] = op[k]
  BY OpMoves
<1>2. o.pc \notin Sent \cup {"flag", "read marketing", "write marketing"}
  BY DEF Aside, Sent
<1> QED BY <1>1, <1>2, MarketAside

LEMMA ItemsAside ==
  ASSUME MarketInv, NEW r \in Orders,
         \/ \E data \in Wishes : AddToCart(r, data)
         \/ ReadItems(r) \/ UpdateItems(r) \/ AddItems(r) \/ PostOrder(r) \/ AnswerCart(r)
  PROVE  MarketInv'
<1>1. UNCHANGED <<market, entered>>
  BY DEF AddToCart, ReadItems, UpdateItems, AddItems, PostOrder, AnswerCart, formVars
<1>2. "marketing" \in mixed <=> "marketing" \in mixed'
  BY DEF AddToCart, ReadItems, UpdateItems, AddItems, PostOrder, AnswerCart, formVars, Writes
<1>3. CASE \E data \in Wishes : AddToCart(r, data)
  <2>1. PICK data \in Wishes : AddToCart(r, data)
    BY <1>3
  <2>2. CASE ValidItems(data)
    <3> DEFINE o == [pc |-> "read items", items |-> parseCartItems(data)]
    <3>1. op' = [op EXCEPT ![r] = o]
      BY <2>1, <2>2 DEF AddToCart
    <3>2. o = [x \in DOMAIN o |-> o[x]] /\ "pc" \in DOMAIN o /\ o.pc \in Aside
      BY DEF Aside
    <3> HIDE DEF o
    <3> QED BY <1>1, <1>2, <3>1, <3>2, SetAside
  <2>3. CASE ~ValidItems(data)
    <3> DEFINE o == [pc |-> "refused"]
    <3>1. op' = [op EXCEPT ![r] = o]
      BY <2>1, <2>3 DEF AddToCart
    <3>2. o = [x \in DOMAIN o |-> o[x]] /\ "pc" \in DOMAIN o /\ o.pc \in Aside
      BY DEF Aside
    <3> HIDE DEF o
    <3> QED BY <1>1, <1>2, <3>1, <3>2, SetAside
  <2> QED BY <2>2, <2>3
<1>4. CASE ReadItems(r)
  <2>1. CASE OpGoto(r, "fail cart")
    BY <1>1, <1>2, <2>1, GoesAside DEF Aside
  <2>2. CASE ~OpGoto(r, "fail cart")
    <3> DEFINE o(where) == [pc |-> where, items |-> op[r].items,
                  updates |-> ToUpdate(lines, op[r].items), adds |-> ToAdd(lines, op[r].items)]
    <3>1. PICK where \in {"add items", "write items"} : op' = [op EXCEPT ![r] = o(where)]
      BY <1>4, <2>2 DEF ReadItems
    <3>2. /\ o(where) = [x \in DOMAIN o(where) |-> o(where)[x]] /\ "pc" \in DOMAIN o(where)
          /\ o(where).pc \in Aside
      BY DEF Aside
    <3> HIDE DEF o
    <3> QED BY <1>1, <1>2, <3>1, <3>2, SetAside
  <2> QED BY <2>1, <2>2
<1>5. CASE UpdateItems(r) \/ AddItems(r) \/ PostOrder(r) \/ AnswerCart(r)
  <2>1. PICK where \in Aside : OpGoto(r, where)
    BY <1>5 DEF UpdateItems, AddItems, PostOrder, AnswerCart, Aside
  <2> QED BY <1>1, <1>2, <2>1, GoesAside
<1> QED BY <1>3, <1>4, <1>5

LEMMA ShopperMarket ==
  ASSUME MarketInv, ShopperShops \/ EnterCoupon
  PROVE  MarketInv'
<1>1. CASE ShopperShops
  <2>1. /\ UNCHANGED <<market, entered, op>> /\ ("marketing" \in mixed <=> "marketing" \in mixed')
    BY <1>1 DEF ShopperShops, Writes
  <2> QED BY <2>1 DEF MarketInv, Sound, Arrived
<1>2. CASE EnterCoupon
  <2>1. /\ market' = [market EXCEPT !.coupon = entered'] /\ entered' = entered + 1
        /\ UNCHANGED op
        /\ "marketing" \notin mixed' =>
             "marketing" \notin mixed /\ \A r \in Orders : op[r].pc # "write marketing"
    BY <1>2 DEF EnterCoupon, Writes, WriteStep
  <2>2. entered' \in Nat /\ market \in Form
    <3>1. entered \in Nat /\ market \in Form
      BY DEF MarketInv
    <3>2. entered' = entered + 1
      BY <2>1
    <3> QED BY <3>1, <3>2
  <2>3. /\ market' \in Form /\ market'.coupon = entered'
        /\ market'.tags = market.tags /\ market'.source = market.source
    BY <2>1, <2>2 DEF Form
  <2> QED BY <2>1, <2>2, <2>3, ZenonT(40) DEF MarketInv, Sound, Arrived
<1> QED BY <1>1, <1>2

\* send_utm up to what it has read.
LEMMA MarketReads ==
  ASSUME MarketInv, NEW r \in Orders, NEW o,
         UNCHANGED <<market, entered, mixed>>, op' = [op EXCEPT ![r] = o],
         Sound(o), o.pc \notin Sent, o.pc = "write marketing" => o.seen = market
  PROVE  MarketInv'
<1>1. (\A k \in Orders : Sound(op[k]))'
  BY OpMoves, SoundMoves
<1>2. "marketing" \notin mixed' => \A k \in Orders : Arrived(op[k])' /\
        (op'[k].pc = "write marketing" => op'[k].seen = market')
  BY OpMoves DEF MarketInv, Arrived
<1> QED BY <1>1, <1>2, OpMoves DEF MarketInv

LEMMA UtmMarket ==
  ASSUME MarketInv, NEW r \in Orders,
         \/ \E s \in Sources \cup {NoSource} : SendUTM(r, s)
         \/ channelUsesMarketingTags(r) \/ ReadMarketing(r) \/ AnswerUTM(r)
  PROVE  MarketInv'
<1>1. UNCHANGED <<market, entered, mixed>>
  BY DEF SendUTM, channelUsesMarketingTags, ReadMarketing, AnswerUTM, formVars
<1>2. CASE \E s \in Sources \cup {NoSource} : SendUTM(r, s)
  <2>1. PICK s \in Sources \cup {NoSource} : SendUTM(r, s)
    BY <1>2
  <2>2. CASE s \in Sources
    <3> DEFINE o == [pc |-> "flag", source |-> s]
    <3>1. op' = [op EXCEPT ![r] = o] /\ Sound(o) /\ o.pc = "flag"
      BY <2>1, <2>2 DEF SendUTM, Sound, Sent
    <3> QED BY <1>1, <3>1, MarketReads DEF Sent
  <2>3. CASE s \notin Sources
    <3> DEFINE o == [pc |-> "refused"]
    <3>1. op' = [op EXCEPT ![r] = o] /\ Sound(o) /\ o.pc = "refused"
      BY <2>1, <2>3 DEF SendUTM, Sound, Sent
    <3> QED BY <1>1, <3>1, MarketReads DEF Sent
  <2> QED BY <2>2, <2>3
<1>3. CASE channelUsesMarketingTags(r)
  <2>1. op[r].pc = "flag" /\ op[r].source \in Sources
    BY <1>3 DEF channelUsesMarketingTags, OpAt, MarketInv, Sound
  <2>2. PICK t \in BOOLEAN :
          op' = [op EXCEPT ![r] = [pc |-> "read marketing", source |-> op[r].source, tags |-> t]]
    BY <1>3 DEF channelUsesMarketingTags
  <2> DEFINE o == [pc |-> "read marketing", source |-> op[r].source, tags |-> t]
  <2>3. Sound(o) /\ o.pc = "read marketing"
    BY <2>1 DEF Sound, Sent
  <2> QED BY <1>1, <2>2, <2>3, MarketReads DEF Sent
<1>4. CASE ReadMarketing(r)
  <2>1. CASE OpGoto(r, "fail utm")
    BY <1>1, <2>1, GoesAside DEF Aside
  <2>2. CASE ~OpGoto(r, "fail utm")
    <3> DEFINE o == [pc |-> "write marketing", source |-> op[r].source, tags |-> op[r].tags,
                     seen |-> market]
    <3>1. op[r].source \in Sources /\ op[r].tags \in BOOLEAN /\ market \in Form
      BY <1>4 DEF ReadMarketing, OpAt, MarketInv, Sound
    <3>2. op' = [op EXCEPT ![r] = o]
      BY <1>4, <2>2 DEF ReadMarketing
    <3>3. Sound(o) /\ o.pc = "write marketing" /\ o.seen = market
      BY <3>1 DEF Sound, Sent
    <3> QED BY <1>1, <3>2, <3>3, MarketReads DEF Sent
  <2> QED BY <2>1, <2>2
<1>5. CASE AnswerUTM(r)
  <2>1. CASE OpGoto(r, "utm_error")
    BY <1>1, <2>1, GoesAside DEF Aside
  <2>2. CASE op[r].pc = "tell sent" /\ OpGoto(r, "utm_sent")
    <3>0. /\ op[r] \in [pc : Sent \cup {"write marketing"}, source : Sources, tags : BOOLEAN,
                         seen : Form]
          /\ op'[r] = [op[r] EXCEPT !.pc = "utm_sent"]
      BY <2>2, OpGoes DEF MarketInv, Sound, Sent
    <3>1. /\ op'[r] \in [pc : {"utm_sent"}, source : Sources, tags : BOOLEAN, seen : Form]
          /\ op'[r].tags = op[r].tags /\ op'[r].source = op[r].source
      BY <3>0
    <3>2. Sound(op'[r])
      BY <2>2, <3>1, OpGoes DEF Sound, Sent
    <3>3. (\A k \in Orders : Sound(op[k]))'
      BY <2>2, <3>2, OpGoes, SoundMoves
    <3>4. "marketing" \notin mixed' => \A k \in Orders : Arrived(op[k])' /\
            (op'[k].pc = "write marketing" => op'[k].seen = market')
      <4>1. \A k \in Orders \ {r} : op'[k] = op[k]
        BY <2>2, OpGoes
      <4>2. "marketing" \notin mixed' =>
              IF op[r].tags THEN op[r].source \in market.tags ELSE market.source # NoSource
        BY <1>1, <2>2 DEF MarketInv, Arrived, Sent
      <4>3. "marketing" \notin mixed' => Arrived(op[r])' /\ op'[r].pc # "write marketing"
        BY <1>1, <3>1, <4>2 DEF Arrived
      <4> QED BY <1>1, <4>1, <4>3 DEF MarketInv, Arrived
    <3> QED BY <1>1, <2>2, <3>3, <3>4, OpGoes DEF MarketInv
  <2> QED BY <1>5, <2>1, <2>2 DEF AnswerUTM, OpAt
<1> QED BY <1>2, <1>3, <1>4, <1>5

LEMMA WriteMarket ==
  ASSUME MarketInv, NEW r \in Orders, WriteMarketing(r)
  PROVE  MarketInv'
<1>1. op[r] \in [pc : Sent \cup {"write marketing"}, source : Sources, tags : BOOLEAN, seen : Form]
      /\ op[r].pc = "write marketing"
  BY DEF WriteMarketing, OpAt, MarketInv, Sound
<1>2. CASE UNCHANGED <<market, mixed>> /\ OpGoto(r, "fail utm")
  BY <1>2, GoesAside DEF WriteMarketing, Aside
<1>3. CASE /\ market' = WithSource(op[r].seen, op[r]) /\ Writes("marketing", Orders \ {r})
           /\ OpGoto(r, "tell sent") \/ OpGoto(r, "fail utm")
  <2>1. UNCHANGED entered /\ entered \in Nat
    BY DEF WriteMarketing, MarketInv
  <2>2. PICK where \in {"tell sent", "fail utm"} : OpGoto(r, where)
    BY <1>3
  <2>3. /\ market' \in Form /\ market'.coupon = op[r].seen.coupon
        /\ op[r].seen.tags \subseteq market'.tags
        /\ op[r].seen.source # NoSource => market'.source # NoSource
        /\ IF op[r].tags THEN op[r].source \in market'.tags ELSE market'.source # NoSource
    BY <1>1, <1>3, CartAssumption DEF WithSource, mergeMarketingTag, Form
  <2>4. /\ op'[r] \in [pc : {where}, source : Sources, tags : BOOLEAN, seen : Form]
        /\ op'[r].tags = op[r].tags /\ op'[r].source = op[r].source /\ op'[r].pc = where
    <3>1. op'[r] = [op[r] EXCEPT !.pc = where]
      BY <2>2, OpGoes
    <3> QED BY <1>1, <3>1
  <2>5. Sound(op'[r])
    BY <2>2, <2>4, OpGoes DEF Sound, Sent
  <2>6. (\A k \in Orders : Sound(op[k]))'
    <3>1. \A k \in Orders \ {r} : op'[k] = op[k]
      BY <2>2, OpGoes
    <3> QED BY <2>5, <3>1, SoundMoves
  <2>7. ASSUME "marketing" \notin mixed'
        PROVE  /\ market'.coupon = entered'
               /\ \A k \in Orders : op'[k].pc = "write marketing" => op'[k].seen = market'
               /\ \A k \in Orders : Arrived(op[k])'
    <3>1. "marketing" \notin mixed /\ \A k \in Orders \ {r} : op[k].pc # "write marketing"
      BY <1>3, <2>7 DEF Writes, WriteStep
    <3>2. op[r].seen = market /\ market.coupon = entered
      BY <1>1, <3>1 DEF MarketInv
    <3>3. \A k \in Orders : op'[k].pc # "write marketing"
      <4>1. \A k \in Orders \ {r} : op'[k] = op[k]
        BY <2>2, OpGoes
      <4> QED BY <2>4, <3>1, <4>1
    <3>4. \A k \in Orders \ {r} : Arrived(op[k])'
      BY <2>2, <2>3, <3>1, <3>2, OpGoes, ZenonT(40) DEF MarketInv, Arrived, Sound
    <3>5. Arrived(op[r])'
      BY <2>3, <2>4 DEF Arrived
    <3> QED BY <2>1, <2>3, <3>2, <3>3, <3>4, <3>5
  <2> QED BY <2>1, <2>2, <2>3, <2>6, <2>7, OpGoes DEF MarketInv
<1> QED BY <1>2, <1>3 DEF WriteMarketing

LEMMA MarketStep == MarketInv /\ [Next]_framesVars => MarketInv'
<1> SUFFICES ASSUME MarketInv, [Next]_framesVars PROVE MarketInv'
  OBVIOUS
<1>1. UNCHANGED cartVars => MarketInv'
  BY DEF cartVars, formVars, MarketInv, Sound, Arrived
<1>2. ASSUME NEW c \in Conns, NEW f \in Frames, Handle(c, f) PROVE MarketInv'
  <2>1. CASE TakeCart(c, f)
    BY <2>1, ItemsAside, FramesAssumption DEF TakeCart
  <2>2. CASE TakeUTM(c, f)
    BY <2>2, UtmMarket, FramesAssumption DEF TakeUTM
  <2>3. CASE ~(TakeCart(c, f) \/ TakeUTM(c, f))
    BY <1>1, <1>2, <2>3
       DEF Handle, Close, RefuseFrame, TakeRegister, Register, TakeVoice, RequestVoiceTokens,
           AskContact, TakeMessage, PostMessage, SaveHistory, FetchHistory, GetPDPStarters, parts
  <2> QED BY <2>1, <2>2, <2>3
<1>3. ASSUME NEW f \in Frames, CartTask(f) PROVE MarketInv'
  BY <1>3, ItemsAside, UtmMarket, WriteMarket, FramesAssumption DEF CartTask, InOrderTask
<1>4. CASE Shopper
  BY <1>4, ShopperMarket DEF Shopper
<1>5. CASE \/ \E f \in Frames : LookUp(f) \/ StartersTask(f)
           \/ \E e \in Caches : CacheExpires(e)
           \/ Configure \/ UNCHANGED framesVars
  BY <1>1, <1>5 DEF LookUp, StartersTask, CacheExpires, Configure, framesVars, parts
<1> QED BY <1>2, <1>3, <1>4, <1>5 DEF Next

\* A source that a shopper was told is sent, and the coupon, stay in the form
\* unless a write fell between the reading and the writing of another, for any
\* number of requests, sources and changes, and whatever call fails.
THEOREM MarketingSafe == Spec => []MarketingKept
<1>1. ASSUME Init PROVE MarketInv
  <2>1. /\ market = [source |-> NoSource, tags |-> {}, coupon |-> 0] /\ entered = 0
        /\ op = [r \in Orders |-> Quiet]
    BY <1>1 DEF Init, CartInit
  <2>2. op = [r \in Orders |-> op[r]] /\ \A r \in Orders : op[r] = Quiet
    BY <2>1
  <2>3. \A r \in Orders : Sound(op[r]) /\ op[r].pc = "new"
    <3>1. Sound(Quiet) /\ Quiet.pc = "new"
      BY DEF Quiet, Sound, Sent
    <3> QED BY <2>2, <3>1
  <2> QED BY <2>1, <2>2, <2>3 DEF MarketInv, Form, Arrived, Sent
<1>2. MarketInv => MarketingKept
  BY DEF MarketInv, MarketingKept, Arrived, Sent, OpAt
<1> QED BY <1>1, <1>2, MarketStep, PTL DEF Spec

----------------------------------------------------------------------------
(* PostedInOrder.                                                          *)

\* A reader takes frames in order, each after it is through with the others.
OneAtATime ==
  \A f, g \in DOMAIN plan :
    By(f) = By(g) /\ g < f /\ step[f] # "new" => step[g] \in Over

TalkInv ==
  /\ plan \in Plans /\ step = [f \in Frames |-> step[f]]
  /\ read \in Seq(Frames) /\ posts \in Seq(Frames)
  /\ OneAtATime
  /\ \A f \in Frames : step[f] = "post" => \E m \in DOMAIN read : read[m] = f
  /\ \A n \in DOMAIN read :
       /\ read[n] \in DOMAIN plan /\ step[read[n]] # "new"
       /\ \A m \in DOMAIN read : m < n /\ By(read[m]) = By(read[n]) => read[m] < read[n]
  /\ \A n \in DOMAIN posts :
       /\ posts[n] \in DOMAIN plan /\ step[posts[n]] \notin {"new", "post"}
       /\ \E m \in DOMAIN read : read[m] = posts[n]
       /\ \A m \in DOMAIN posts :
            m < n /\ By(posts[m]) = By(posts[n]) => posts[m] < posts[n]

\* What a step does to one frame.
Progress(f) ==
  /\ f \in DOMAIN plan /\ f \in Frames /\ UNCHANGED plan
  /\ step' = [step EXCEPT ![f] = step'[f]]
  /\ step[f] \notin Over /\ step'[f] # "new"
  /\ step[f] = "new" => /\ Ready(By(f))
                        /\ \A g \in DOMAIN plan : g < f /\ By(g) = By(f) => step[g] # "new"
  /\ \/ step'[f] # "post" /\ UNCHANGED <<read, posts>>
     \/ step[f] = "new" /\ read' = Append(read, f) /\ UNCHANGED posts
     \/ /\ step[f] = "post" /\ step'[f] # "post" /\ UNCHANGED read
        /\ posts' \in {posts, Append(posts, f)}

LEMMA PlanParts ==
  ASSUME plan \in Plans
  PROVE  /\ DOMAIN plan \subseteq Frames
         /\ \A f \in DOMAIN plan : plan[f] = <<By(f), Kind(f)>> /\ By(f) \in Conns
BY FramesAssumption DEF By, Kind

LEMMA HandleProgress ==
  ASSUME plan \in Plans, step = [f \in Frames |-> step[f]],
         NEW c \in Conns, NEW f \in Frames, Handle(c, f)
  PROVE  By(f) = c /\ Progress(f)
<1> USE DEF Over
<1>1. \A kind : NextFrame(c, f, kind) =>
        /\ f \in DOMAIN plan /\ By(f) = c /\ Kind(f) = kind /\ step[f] = "new" /\ Ready(By(f))
        /\ \A g \in DOMAIN plan : g < f /\ By(g) = By(f) => step[g] # "new"
  BY DEF NextFrame, By, Kind
<1>2. \A where : Comes(f, where) =>
        UNCHANGED plan /\ step' = [step EXCEPT ![f] = step'[f]] /\ step'[f] = where
  BY DEF Comes
<1>3. CASE Close(c, f)
  BY <1>1, <1>3 DEF Close, Progress, talk
<1>4. CASE RefuseFrame(c, f)
  <2>1. PICK kind \in Kinds : NextFrame(c, f, kind)
    BY <1>4 DEF RefuseFrame
  <2> QED BY <1>1, <1>2, <1>4, <2>1 DEF RefuseFrame, Progress, talk
<1>5. CASE \E pod \in Caches : TakeRegister(c, f, pod)
  BY <1>1, <1>2, <1>5 DEF TakeRegister, Progress, talk
<1>6. CASE \E i \in Ids : Register(c, f, i)
  <2>1. step[f] = "look" /\ f \in DOMAIN plan /\ By(f) = c /\ UNCHANGED <<read, posts>>
        /\ (Comes(f, "answered") \/ Comes(f, "error"))
    BY <1>6 DEF Register, Does
  <2> QED BY <1>2, <2>1 DEF Progress
<1>7. CASE TakeVoice(c, f)
  BY <1>1, <1>2, <1>7 DEF TakeVoice, Takes, Progress, talk
<1>8. CASE RequestVoiceTokens(c, f)
  <2>1. step[f] \in {"look", "tokens"} /\ f \in DOMAIN plan /\ By(f) = c
        /\ UNCHANGED <<read, posts>>
        /\ \E where \in {"error", "tokens", "answered"} : Comes(f, where)
    BY <1>8 DEF RequestVoiceTokens, Does, RequestSingleUseTokens, talk
  <2> QED BY <1>2, <2>1 DEF Progress
<1>9. CASE AskContact(c, f)
  <2>1. UNCHANGED <<read, posts>>
    BY <1>9 DEF AskContact, talk
  <2>2. CASE (\E kind \in {"timeout", "language", "field"} : Takes(c, f, kind)) /\ Comes(f, "ask")
    BY <1>1, <1>2, <2>1, <2>2 DEF Takes, Progress
  <2>3. CASE Does(c, f, "ask") /\ \E end \in Outcomes(Kind(f)) : Comes(f, end)
    <3>1. \E where \in {"answered", "silent", "error"} : Comes(f, where)
      BY <2>3 DEF Outcomes, VerifyContactTimeout, GetProjectLanguage, SetCustomField
    <3> QED BY <1>2, <2>1, <2>3, <3>1 DEF Does, Progress
  <2> QED BY <1>9, <2>2, <2>3 DEF AskContact
<1>10. CASE TakeMessage(c, f)
  <2>1. NextFrame(c, f, "message") /\ Comes(f, "post") /\ read' = Append(read, f) /\ UNCHANGED posts
    BY <1>10 DEF TakeMessage, Takes
  <2>2. UNCHANGED plan /\ step' = [step EXCEPT ![f] = step'[f]] /\ step'[f] = "post"
    BY <1>2, <2>1
  <2>3. /\ f \in DOMAIN plan /\ By(f) = c /\ step[f] = "new" /\ Ready(By(f))
        /\ \A g \in DOMAIN plan : g < f /\ By(g) = By(f) => step[g] # "new"
    BY <1>1, <2>1
  <2> QED BY <2>1, <2>2, <2>3 DEF Progress
<1>11. CASE PostMessage(c, f)
  <2>1. step[f] = "post" /\ f \in DOMAIN plan /\ By(f) = c /\ UNCHANGED read
        /\ posts' \in {posts, Append(posts, f)}
        /\ \E where \in {"save", "silent", "error"} : Comes(f, where)
    BY <1>11 DEF PostMessage, Does
  <2> QED BY <1>2, <2>1 DEF Progress
<1>12. CASE SaveHistory(c, f)
  <2>1. step[f] = "save" /\ f \in DOMAIN plan /\ By(f) = c /\ UNCHANGED <<read, posts>>
        /\ \E where \in {"answered", "error"} : Comes(f, where)
    BY <1>12 DEF SaveHistory, Does
  <2> QED BY <1>2, <2>1 DEF Progress
<1>13. CASE FetchHistory(c, f)
  <2>1. UNCHANGED <<read, posts>>
    BY <1>13 DEF FetchHistory
  <2>2. CASE Takes(c, f, "history") /\ Comes(f, "page")
    BY <1>1, <1>2, <2>1, <2>2 DEF Takes, Progress
  <2>3. CASE Does(c, f, "page") /\ \E where \in {"answered", "error"} : Comes(f, where)
    BY <1>2, <2>1, <2>3 DEF Does, Progress
  <2> QED BY <1>13, <2>2, <2>3 DEF FetchHistory
<1>14. CASE GetPDPStarters(c, f)
  <2>1. UNCHANGED <<read, posts>>
    BY <1>14 DEF GetPDPStarters, talk
  <2>2. \E where \in {"ask", "started", "error", "silent"} : Comes(f, where)
    BY <1>14 DEF GetPDPStarters
  <2>3. CASE Takes(c, f, "starters")
    BY <1>1, <1>2, <2>1, <2>2, <2>3 DEF Takes, Progress
  <2>4. CASE Does(c, f, "ask")
    BY <1>2, <2>1, <2>2, <2>4 DEF Does, Progress
  <2> QED BY <1>14, <2>3, <2>4 DEF GetPDPStarters
<1>15. CASE TakeCart(c, f)
  <2>1. UNCHANGED <<read, posts>> /\ \E where \in {"error", "started"} : Comes(f, where)
    BY <1>15 DEF TakeCart, talk
  <2> QED BY <1>1, <1>2, <1>15, <2>1 DEF TakeCart, Takes, Progress
<1>16. CASE TakeUTM(c, f)
  <2>1. UNCHANGED <<read, posts>>
    BY <1>16 DEF TakeUTM, talk
  <2>2. CASE Takes(c, f, "utm") /\ \E where \in {"error", "ask"} : Comes(f, where)
    BY <1>1, <1>2, <2>1, <2>2 DEF Takes, Progress
  <2>3. CASE Does(c, f, "ask") /\ Comes(f, "started")
    BY <1>2, <2>1, <2>3 DEF Does, Progress
  <2> QED BY <1>16, <2>2, <2>3 DEF TakeUTM
<1> QED
  BY <1>3, <1>4, <1>5, <1>6, <1>7, <1>8, <1>9, <1>10, <1>11, <1>12, <1>13, <1>14, <1>15, <1>16
  DEF Handle

LEMMA OrderKept ==
  ASSUME TalkInv, NEW f, Progress(f)
  PROVE  OneAtATime'
<1>1. DOMAIN plan \subseteq Nat
  BY PlanParts, FramesAssumption DEF TalkInv
<1>2. UNCHANGED plan /\ \A g \in Frames \ {f} : step'[g] = step[g]
  BY DEF TalkInv, Progress
<1> SUFFICES ASSUME NEW g \in DOMAIN plan, NEW h \in DOMAIN plan, By(g) = By(h), h < g,
                    step'[g] # "new"
             PROVE  step'[h] \in Over
  BY <1>2 DEF OneAtATime, By
<1>3. CASE h = f
  <2>1. step'[g] = step[g]
    BY <1>1, <1>2, <1>3, PlanParts DEF TalkInv
  <2> QED BY <1>3, <2>1 DEF TalkInv, OneAtATime, Progress
<1>4. CASE h # f
  <2>1. step'[h] = step[h]
    BY <1>2, <1>4, PlanParts DEF TalkInv
  <2>2. CASE g = f /\ step[f] = "new"
    <3>1. step[h] # "new" /\ Ready(By(f))
      BY <2>2 DEF Progress
    <3> QED BY <2>1, <2>2, <3>1 DEF Ready
  <2>3. CASE g # f \/ step[f] # "new"
    <3>1. step[g] # "new"
      BY <1>2, <2>3, PlanParts DEF TalkInv
    <3> QED BY <2>1, <3>1 DEF TalkInv, OneAtATime
  <2> QED BY <2>2, <2>3
<1> QED BY <1>3, <1>4

\* Frames of a connection that came before one that is not over.
LEMMA Earlier ==
  ASSUME TalkInv, NEW f, Progress(f), NEW g \in DOMAIN plan, By(g) = By(f), g # f, step[g] # "new"
  PROVE  g < f
<1>1. f \in Nat /\ g \in Nat /\ f \in DOMAIN plan /\ step[f] \notin Over
  BY PlanParts, FramesAssumption DEF TalkInv, Progress
<1>2. ~(f < g)
  BY <1>1 DEF TalkInv, OneAtATime
<1> QED BY <1>1, <1>2

LEMMA TalkProgress ==
  ASSUME TalkInv, NEW f, Progress(f)
  PROVE  TalkInv'
<1>1. /\ UNCHANGED plan /\ step' = [g \in Frames |-> step'[g]] /\ f \in Frames /\ f \in DOMAIN plan
      /\ \A g \in Frames \ {f} : step'[g] = step[g]
      /\ step'[f] # "new" /\ read \in Seq(Frames) /\ posts \in Seq(Frames)
  BY DEF TalkInv, Progress
<1>2. \A g \in Frames : step[g] # "new" => step'[g] # "new"
  BY <1>1
<1>3. CASE step'[f] # "post" /\ UNCHANGED read
  <2>1. \A g \in Frames : step[g] \notin {"new", "post"} => step'[g] \notin {"new", "post"}
    BY <1>1, <1>3
  <2>2. /\ \A g \in Frames : step'[g] = "post" => \E m \in DOMAIN read : read[m] = g
        /\ \A n \in DOMAIN read : read[n] \in Frames /\ step'[read[n]] # "new"
    <3>1. \A n \in DOMAIN read : read[n] \in Frames /\ step[read[n]] # "new"
      <4>1. \A n \in DOMAIN read : read[n] \in Frames
        BY <1>1
      <4> QED BY <4>1 DEF TalkInv
    <3>2. ASSUME NEW g \in Frames, step'[g] = "post" PROVE \E m \in DOMAIN read : read[m] = g
      <4>1. step[g] = "post"
        BY <1>1, <1>3, <3>2
      <4> QED BY <4>1 DEF TalkInv
    <3> QED BY <1>2, <3>1, <3>2
  <2>3. CASE UNCHANGED posts
    BY <1>1, <1>3, <2>1, <2>2, <2>3, OrderKept DEF TalkInv, By
  <2>4. CASE posts' = Append(posts, f) /\ step[f] = "post"
    <3>1. /\ posts' \in Seq(Frames) /\ DOMAIN posts' = 1..(Len(posts) + 1)
          /\ DOMAIN posts = 1..Len(posts) /\ Len(posts) \in Nat
          /\ posts'[Len(posts) + 1] = f /\ \A n \in DOMAIN posts : posts'[n] = posts[n]
      BY <1>1, <2>4
    <3>2. ASSUME NEW n \in DOMAIN posts'
          PROVE  /\ posts'[n] \in DOMAIN plan /\ step'[posts'[n]] \notin {"new", "post"}
                 /\ \E m \in DOMAIN read : read[m] = posts'[n]
                 /\ \A m \in DOMAIN posts' :
                      m < n /\ By(posts'[m]) = By(posts'[n]) => posts'[m] < posts'[n]
      <4>1. CASE n \in DOMAIN posts
        <5>1. /\ posts'[n] = posts[n] /\ posts[n] \in Frames
              /\ \A m \in DOMAIN posts' : m < n => m \in DOMAIN posts /\ posts'[m] = posts[m]
          BY <1>1, <3>1, <4>1
        <5> QED BY <2>1, <4>1, <5>1 DEF TalkInv
      <4>2. CASE n = Len(posts) + 1
        <5>1. posts'[n] = f /\ \E m \in DOMAIN read : read[m] = f
          BY <1>1, <2>4, <3>1, <4>2 DEF TalkInv
        <5>2. ASSUME NEW m \in DOMAIN posts', m < n, By(posts'[m]) = By(f)
              PROVE  posts'[m] < f
          <6>1. m \in DOMAIN posts /\ posts'[m] = posts[m]
            BY <3>1, <4>2, <5>2
          <6>2. posts[m] \in DOMAIN plan /\ step[posts[m]] \notin {"new", "post"}
            BY <6>1 DEF TalkInv
          <6> QED BY <2>4, <5>2, <6>1, <6>2, Earlier
        <5> QED BY <1>1, <1>3, <5>1, <5>2
      <4> QED BY <3>1, <4>1, <4>2
    <3> QED BY <1>1, <1>3, <2>2, <3>1, <3>2, OrderKept DEF TalkInv, By
  <2> QED BY <1>3, <2>3, <2>4 DEF Progress
<1>4. CASE step[f] = "new" /\ read' = Append(read, f) /\ UNCHANGED posts
  <2>1. /\ read' \in Seq(Frames) /\ DOMAIN read' = 1..(Len(read) + 1)
        /\ DOMAIN read = 1..Len(read) /\ Len(read) \in Nat
        /\ read'[Len(read) + 1] = f /\ \A n \in DOMAIN read : read'[n] = read[n]
    BY <1>1, <1>4
  <2>2. \A g \in Frames : (\E m \in DOMAIN read : read[m] = g) => \E m \in DOMAIN read' : read'[m] = g
    BY <2>1
  <2>3. \E m \in DOMAIN read' : read'[m] = f
    <3>1. Len(read) + 1 \in DOMAIN read'
      BY <2>1
    <3> QED BY <2>1, <3>1
  <2>4. \A g \in Frames : step'[g] = "post" => \E m \in DOMAIN read' : read'[m] = g
    BY <1>1, <2>2, <2>3 DEF TalkInv
  <2>5. ASSUME NEW n \in DOMAIN read'
        PROVE  /\ read'[n] \in DOMAIN plan /\ step'[read'[n]] # "new"
               /\ \A m \in DOMAIN read' : m < n /\ By(read'[m]) = By(read'[n]) => read'[m] < read'[n]
    <3>1. CASE n \in DOMAIN read
      <4>1. /\ read'[n] = read[n] /\ read[n] \in Frames
            /\ \A m \in DOMAIN read' : m < n => m \in DOMAIN read /\ read'[m] = read[m]
        BY <1>1, <2>1, <3>1
      <4> QED BY <1>2, <3>1, <4>1 DEF TalkInv
    <3>2. CASE n = Len(read) + 1
      <4>1. ASSUME NEW m \in DOMAIN read', m < n, By(read'[m]) = By(f)
            PROVE  read'[m] < f
        <5>1. m \in DOMAIN read /\ read'[m] = read[m]
          BY <2>1, <3>2, <4>1
        <5>2. read[m] \in DOMAIN plan /\ step[read[m]] # "new"
          BY <5>1 DEF TalkInv
        <5> QED BY <1>4, <4>1, <5>1, <5>2, Earlier
      <4> QED BY <1>1, <2>1, <3>2, <4>1
    <3> QED BY <2>1, <3>1, <3>2
  <2>6. \A n \in DOMAIN posts : posts[n] \in Frames /\ posts[n] # f
          /\ step'[posts[n]] \notin {"new", "post"} /\ \E m \in DOMAIN read' : read'[m] = posts[n]
    <3> SUFFICES ASSUME NEW n \in DOMAIN posts
                 PROVE  posts[n] \in Frames /\ posts[n] # f /\ step'[posts[n]] \notin {"new", "post"}
                        /\ \E m \in DOMAIN read' : read'[m] = posts[n]
      OBVIOUS
    <3>0. posts[n] \in Frames
      BY <1>1
    <3>1. /\ posts[n] \in Frames /\ step[posts[n]] \notin {"new", "post"}
          /\ \E m \in DOMAIN read : read[m] = posts[n]
      BY <3>0 DEF TalkInv
    <3> QED BY <1>1, <1>4, <2>2, <3>1
  <2> QED BY <1>1, <1>4, <2>1, <2>4, <2>5, <2>6, OrderKept, ZenonT(40) DEF TalkInv, By
<1> QED BY <1>3, <1>4 DEF Progress

LEMMA TalkInit == Init => TalkInv
<1> SUFFICES ASSUME Init PROVE TalkInv
  OBVIOUS
<1>1. /\ plan \in Plans /\ step = [f \in Frames |-> "new"] /\ read = <<>> /\ posts = <<>>
  BY DEF Init
<1>2. step = [f \in Frames |-> step[f]] /\ \A f \in Frames : step[f] = "new"
  BY <1>1, Zenon
<1>3. DOMAIN plan \subseteq Frames
  BY <1>1, PlanParts
<1>4. /\ read \in Seq(Frames) /\ posts \in Seq(Frames) /\ DOMAIN read = {} /\ DOMAIN posts = {}
  BY <1>1
<1> QED BY <1>1, <1>2, <1>3, <1>4 DEF TalkInv, OneAtATime

LEMMA TalkStep == TalkInv /\ [Next]_framesVars => TalkInv'
<1> SUFFICES ASSUME TalkInv, [Next]_framesVars PROVE TalkInv'
  OBVIOUS
<1>1. UNCHANGED <<plan, step, read, posts>> => TalkInv'
  BY DEF TalkInv, OneAtATime, By
<1>2. ASSUME NEW c \in Conns, NEW f \in Frames, Handle(c, f) PROVE TalkInv'
  BY <1>2, HandleProgress, TalkProgress DEF TalkInv
<1>3. CASE \/ \E f \in Frames : LookUp(f) \/ StartersTask(f) \/ CartTask(f)
           \/ \E e \in Caches : CacheExpires(e)
           \/ Shopper \/ Configure \/ UNCHANGED framesVars
  BY <1>1, <1>3
     DEF LookUp, StartersTask, CartTask, CacheExpires, Shopper, Configure, framesVars, talk, Beside
<1> QED BY <1>2, <1>3 DEF Next

\* Flows is posted the messages of a connection in the order of its frames, for
\* any number of connections and frames, whatever else they are about.
THEOREM PostsSafe == Spec => []PostedInOrder
<1>1. Init => TalkInv
  BY TalkInit
<1>2. ASSUME TalkInv PROVE PostedInOrder
  <2> DEFINE Turn(f) == CHOOSE n \in DOMAIN read : read[n] = f
  <2> SUFFICES ASSUME NEW j \in DOMAIN posts, NEW k \in DOMAIN posts, j < k,
                      By(posts[j]) = By(posts[k])
               PROVE  Turn(posts[j]) < Turn(posts[k])
    BY DEF PostedInOrder
  <2>1. posts[j] < posts[k]
    BY <1>2 DEF TalkInv
  <2>2. /\ Turn(posts[j]) \in DOMAIN read /\ read[Turn(posts[j])] = posts[j]
        /\ Turn(posts[k]) \in DOMAIN read /\ read[Turn(posts[k])] = posts[k]
    BY <1>2 DEF TalkInv
  <2>3. DOMAIN read \subseteq Nat /\ posts[j] \in Nat /\ posts[k] \in Nat
    BY <1>2, FramesAssumption DEF TalkInv
  <2> HIDE DEF Turn
  <2>4. Turn(posts[k]) < Turn(posts[j]) => posts[k] < posts[j]
    BY <1>2, <2>2 DEF TalkInv
  <2> QED BY <2>1, <2>2, <2>3, <2>4
<1> QED BY <1>1, <1>2, TalkStep, PTL DEF Spec


----------------------------------------------------------------------------
(* PagesStable.                                                            *)

\* A connection registers once.
OneRegister ==
  \A p \in Plans : \A f, g \in DOMAIN p :
    p[f][1] = p[g][1] /\ p[f][2] = "register" /\ p[g][2] = "register" => f = g

\* What a connection was shown is still a page of the history before its
\* registration.
Shows(c, p) == \E n \in Nat : \E S \in Page(regAt[c], n) : p = <<n, S>>

\* Pages are shown after the registration, and are what the history before it
\* still is, but for late messages.
PagesInv ==
  /\ stamp \in [Frames -> Nat] /\ clock \in Nat /\ history \in Seq(Nat)
  /\ cid = [c \in Conns |-> cid[c]] /\ pages = [c \in Conns |-> pages[c]]
  /\ regAt = [c \in Conns |-> regAt[c]]
  /\ \A f \in DOMAIN plan :
       /\ Kind(f) = "register" /\ step[f] \in {"new", "look"} => cid[By(f)] = NoId
       /\ step[f] = "page" => cid[By(f)] # NoId
  /\ \A c \in Conns : pages[c] # {} => cid[c] # NoId
  /\ \A c \in Conns \ late : \A p \in pages[c] : Shows(c, p)

\* The page with a number is cut out of what is older, whatever else is stored.
LEMMA PageKept ==
  ASSUME NEW c \in Conns, NEW page \in Nat, UNCHANGED regAt, Older(regAt[c])' = Older(regAt[c]),
         \A n \in Older(regAt[c]) : history'[n] = history[n]
  PROVE  Page(regAt[c], page)' = Page(regAt[c], page)
<1> DEFINE O == Older(regAt[c])
<1>1. ASSUME NEW S \in SUBSET O, NEW n \in O
      PROVE  SameSecond(n, S)' = SameSecond(n, S) /\ Newer(n, S)' = Newer(n, S)
  <2>1. \A m \in S : history'[m] = history[m]
    OBVIOUS
  <2> QED BY <2>1 DEF SameSecond, Newer
<1>2. ASSUME NEW n \in O PROVE Ranks(n, O)' = Ranks(n, O)
  <2>1. Cardinality(Newer(n, O)') = Cardinality(Newer(n, O))
        /\ Cardinality(SameSecond(n, O)') = Cardinality(SameSecond(n, O))
    BY <1>1
  <2>2. O' = O
    OBVIOUS
  <2> QED BY <2>1, <2>2 DEF Ranks
<1> QED BY <1>1, <1>2 DEF Page, Window

\* Between pages: neither their beginning nor the connections' ids move.
LEMMA PagesStay ==
  ASSUME TalkInv, PagesInv, UNCHANGED <<plan, cid, regAt, pages>>,
         stamp' \in [Frames -> Nat], clock' \in Nat, history' \in Seq(Nat), late \subseteq late',
         \A c \in Conns \ late' : \A n \in Nat : Page(regAt[c], n)' = Page(regAt[c], n),
         \A f \in DOMAIN plan : \/ step'[f] = step[f]
                                \/ step'[f] \notin {"new", "look", "page"}
                                \/ step'[f] = "look" /\ step[f] = "new"
                                \/ step'[f] = "page" /\ cid[By(f)] # NoId
  PROVE  PagesInv'
<1>1. ASSUME NEW f \in DOMAIN plan
      PROVE  /\ Kind(f) = "register" /\ step'[f] \in {"new", "look"} => cid[By(f)] = NoId
             /\ step'[f] = "page" => cid[By(f)] # NoId
  BY DEF PagesInv
<1>2. ASSUME NEW c \in Conns \ late', NEW p \in pages[c]
      PROVE  Shows(c, p)'
  <2>1. PICK n \in Nat : \E S \in Page(regAt[c], n) : p = <<n, S>>
    BY <1>2 DEF PagesInv, Shows
  <2>2. Page(regAt[c], n)' = Page(regAt[c], n)
    BY <1>2
  <2> QED BY <2>1, <2>2 DEF Shows
<1>3. (\A c \in Conns \ late : \A p \in pages[c] : Shows(c, p))'
  BY <1>2
<1> QED BY <1>1, <1>3 DEF PagesInv, By, Kind

\* A message is stored behind the others; it is not older, unless it is late.
LEMMA StoreKeeps ==
  ASSUME PagesInv, NEW f \in Frames, Store(f), UNCHANGED regAt
  PROVE  /\ late \subseteq late' /\ history' \in Seq(Nat)
         /\ \A c \in Conns \ late' : \A n \in Nat : Page(regAt[c], n)' = Page(regAt[c], n)
<1>1. /\ history \in Seq(Nat) /\ stamp[f] \in Nat /\ history' = Append(history, stamp[f])
      /\ late' = late \cup {d \in Conns : stamp[f] < regAt[d]}
  BY DEF PagesInv, Store
<1>2. /\ history' \in Seq(Nat) /\ DOMAIN history = 1..Len(history)
      /\ DOMAIN history' = 1..Len(history) + 1 /\ history'[Len(history) + 1] = stamp[f]
      /\ \A n \in DOMAIN history : history'[n] = history[n]
  BY <1>1, AppendProperties
<1>3. ASSUME NEW c \in Conns \ late', NEW n \in Nat
      PROVE  Page(regAt[c], n)' = Page(regAt[c], n)
  <2>1. ~(stamp[f] < regAt[c]) /\ Len(history) \in Nat
    BY <1>1
  <2>2. DOMAIN history' = DOMAIN history \cup {Len(history) + 1}
    BY <1>2, <2>1
  <2>3. Older(regAt[c])' = Older(regAt[c])
    BY <1>2, <2>1, <2>2 DEF Older
  <2> QED BY <1>2, <2>3, PageKept DEF Older
<1> QED BY <1>1, <1>2, <1>3

LEMMA PassesOk == clock \in Nat /\ Passes => clock' \in Nat
BY DEF Passes

LEMMA StampKeeps ==
  ASSUME PagesInv, NEW f \in Frames, Stamp(f)
  PROVE  stamp' \in [Frames -> Nat] /\ clock' \in Nat
<1>1. clock' \in Nat
  BY PassesOk DEF Stamp, PagesInv
<1> QED BY <1>1 DEF Stamp, PagesInv

LEMMA PagesUnmoved ==
  ASSUME PagesInv, UNCHANGED <<regAt, history, late>>
  PROVE  /\ late \subseteq late' /\ history' \in Seq(Nat)
         /\ \A c \in Conns \ late' : \A n \in Nat : Page(regAt[c], n)' = Page(regAt[c], n)
<1>1. \A c \in Conns : Older(regAt[c])' = Older(regAt[c])
  BY DEF Older
<1> QED BY <1>1, PageKept DEF PagesInv

LEMMA PagesRegister ==
  ASSUME OneRegister, TalkInv, PagesInv, NEW c \in Conns, NEW f \in Frames, NEW i \in Ids,
         Register(c, f, i)
  PROVE  PagesInv'
<1>1. /\ step[f] = "look" /\ f \in DOMAIN plan /\ By(f) = c /\ Kind(f) = "register"
      /\ UNCHANGED <<plan, stamp, history, pages, late>>
      /\ \A g \in Frames \ {f} : step'[g] = step[g]
  BY DEF Register, Does, Comes, TalkInv
<1>2. CASE SetClientID(c, i) /\ Comes(f, "answered")
  <2>1. /\ cid' = [cid EXCEPT ![c] = i] /\ i # NoId /\ step'[f] = "answered"
        /\ Passes /\ regAt' = [regAt EXCEPT ![c] = clock']
    BY <1>1, <1>2, StartersAssumption DEF SetClientID, Comes, Register, TalkInv
  <2>2. cid[c] = NoId /\ pages[c] = {} /\ clock \in Nat
    BY <1>1 DEF PagesInv
  <2>3. /\ cid' = [d \in Conns |-> cid'[d]] /\ cid'[c] = i /\ regAt' = [d \in Conns |-> regAt'[d]]
        /\ \A d \in Conns \ {c} : cid'[d] = cid[d] /\ regAt'[d] = regAt[d]
    BY <2>1 DEF PagesInv
  <2>4. clock' \in Nat
    BY <2>1, <2>2, PassesOk
  <2>5. ASSUME NEW g \in DOMAIN plan
        PROVE  /\ Kind(g) = "register" /\ step'[g] \in {"new", "look"} => cid'[By(g)] = NoId
               /\ step'[g] = "page" => cid'[By(g)] # NoId
    <3>1. CASE g = f
      BY <2>1, <3>1
    <3>2. CASE g # f
      <4>1. step'[g] = step[g] /\ By(g) \in Conns
        BY <1>1, <3>2, PlanParts DEF TalkInv
      <4>2. Kind(g) = "register" => By(g) # c
        BY <1>1, <3>2 DEF OneRegister, By, Kind, TalkInv
      <4> QED BY <2>1, <2>3, <4>1, <4>2 DEF PagesInv
    <3> QED BY <3>1, <3>2
  <2>6. \A d \in Conns : pages[d] # {} => cid'[d] # NoId
    BY <2>2, <2>3 DEF PagesInv
  <2>7. ASSUME NEW d \in Conns \ late, NEW p \in pages[d]
        PROVE  Shows(d, p)'
    <3>1. d # c /\ regAt'[d] = regAt[d]
      BY <2>2, <2>3
    <3>2. PICK n \in Nat : \E S \in Page(regAt[d], n) : p = <<n, S>>
      BY DEF PagesInv, Shows
    <3>3. Page(regAt[d], n)' = Page(regAt[d], n)
      BY <1>1, <3>1 DEF Page, Older, SameSecond, Newer, Ranks, Window
    <3> QED BY <3>2, <3>3 DEF Shows
  <2>8. (\A d \in Conns \ late : \A p \in pages[d] : Shows(d, p))'
    BY <1>1, <2>7
  <2>9. stamp' \in [Frames -> Nat] /\ history' \in Seq(Nat) /\ pages' = [d \in Conns |-> pages'[d]]
    BY <1>1 DEF PagesInv
  <2> QED BY <1>1, <2>3, <2>4, <2>5, <2>6, <2>8, <2>9 DEF PagesInv, By, Kind
<1>3. CASE Comes(f, "error") /\ UNCHANGED <<startersVars, clock, regAt>>
  <2>1. UNCHANGED <<plan, cid, regAt, pages, stamp, clock, late, history>> /\ step'[f] = "error"
    BY <1>1, <1>3 DEF Comes, startersVars, TalkInv
  <2>2. stamp' \in [Frames -> Nat] /\ clock' \in Nat
    BY <2>1 DEF PagesInv
  <2>3. \A g \in DOMAIN plan : step'[g] = step[g] \/ step'[g] = "error"
    BY <1>1, <2>1, PlanParts DEF TalkInv
  <2> QED BY <2>1, <2>2, <2>3, PagesUnmoved, PagesStay
<1> QED BY <1>2, <1>3 DEF Register

LEMMA PagesFetch ==
  ASSUME TalkInv, PagesInv, NEW c \in Conns, NEW f \in Frames, FetchHistory(c, f)
  PROVE  PagesInv'
<1>1. /\ UNCHANGED <<cid, clock, regAt, history, late, plan>>
      /\ f \in DOMAIN plan /\ By(f) = c
      /\ \A g \in Frames \ {f} : step'[g] = step[g]
  BY DEF FetchHistory, parts, startersVars, Comes, Takes, NextFrame, Does, By, TalkInv
<1>2. CASE Takes(c, f, "history")
  <2>1. cid[c] # NoId /\ step'[f] = "page" /\ UNCHANGED pages
        /\ \E page \in 1..2 : stamp' = [stamp EXCEPT ![f] = page]
    BY <1>2 DEF FetchHistory, Takes, NextFrame, Does, Comes, TalkInv
  <2>2. stamp' \in [Frames -> Nat] /\ clock' \in Nat
    BY <1>1, <2>1 DEF PagesInv
  <2>3. \A g \in DOMAIN plan : step'[g] = step[g] \/ (step'[g] = "page" /\ cid[By(g)] # NoId)
    BY <1>1, <2>1, PlanParts DEF TalkInv
  <2> QED BY <1>1, <2>1, <2>2, <2>3, PagesUnmoved, PagesStay
<1>3. CASE Does(c, f, "page") /\ Comes(f, "error") /\ UNCHANGED <<pages, stamp>>
  <2>1. step'[f] = "error"
    BY <1>3 DEF Comes, TalkInv
  <2>2. stamp' \in [Frames -> Nat] /\ clock' \in Nat
    BY <1>1, <1>3 DEF PagesInv
  <2>3. \A g \in DOMAIN plan : step'[g] = step[g] \/ step'[g] = "error"
    BY <1>1, <2>1, PlanParts DEF TalkInv
  <2> QED BY <1>1, <1>3, <2>2, <2>3, PagesUnmoved, PagesStay
<1>4. CASE /\ Does(c, f, "page") /\ Comes(f, "answered") /\ UNCHANGED stamp
           /\ \E S \in Page(Before(c), stamp[f]) :
                pages' = [pages EXCEPT ![c] = @ \cup {<<stamp[f], S>>}]
  <2>0. PICK S \in Page(regAt[c], stamp[f]) : pages' = [pages EXCEPT ![c] = @ \cup {<<stamp[f], S>>}]
    BY <1>4 DEF Before
  <2>1. step[f] = "page" /\ step'[f] = "answered" /\ stamp[f] \in Nat /\ cid[c] # NoId
    BY <1>1, <1>4 DEF Comes, Does, TalkInv, PagesInv
  <2>2. /\ pages' = [d \in Conns |-> pages'[d]]
        /\ pages'[c] = pages[c] \cup {<<stamp[f], S>>}
        /\ \A d \in Conns \ {c} : pages'[d] = pages[d]
    BY <2>0 DEF PagesInv
  <2>3. ASSUME NEW d \in Conns \ late, NEW p \in pages'[d]
        PROVE  Shows(d, p)
    BY <2>0, <2>1, <2>2 DEF PagesInv, Shows
  <2>4. ASSUME NEW d \in Conns \ late, NEW p \in pages'[d]
        PROVE  Shows(d, p)'
    <3>1. PICK n \in Nat : \E T \in Page(regAt[d], n) : p = <<n, T>>
      BY <2>3, <2>4 DEF Shows
    <3>2. Page(regAt[d], n)' = Page(regAt[d], n)
      BY <1>1, PagesUnmoved
    <3> QED BY <3>1, <3>2 DEF Shows
  <2>5. (\A d \in Conns \ late : \A p \in pages[d] : Shows(d, p))'
    BY <1>1, <2>4
  <2>6. \A g \in DOMAIN plan : step'[g] = step[g] \/ step'[g] = "answered"
    BY <1>1, <2>1, PlanParts DEF TalkInv
  <2>7. \A g \in DOMAIN plan :
          /\ Kind(g) = "register" /\ step'[g] \in {"new", "look"} => cid[By(g)] = NoId
          /\ step'[g] = "page" => cid[By(g)] # NoId
    BY <2>6 DEF PagesInv
  <2>8. \A d \in Conns : pages'[d] # {} => cid[d] # NoId
    BY <2>1, <2>2 DEF PagesInv
  <2>9. /\ stamp' \in [Frames -> Nat] /\ clock' \in Nat /\ history' \in Seq(Nat)
        /\ cid' = [d \in Conns |-> cid'[d]] /\ regAt' = [d \in Conns |-> regAt'[d]]
    BY <1>1, <1>4 DEF PagesInv
  <2> QED BY <1>1, <2>2, <2>5, <2>7, <2>8, <2>9 DEF PagesInv, By, Kind
<1> QED BY <1>2, <1>3, <1>4 DEF FetchHistory

LEMMA PagesHandle ==
  ASSUME OneRegister, TalkInv, PagesInv, NEW c \in Conns, NEW f \in Frames, Handle(c, f)
  PROVE  PagesInv'
<1>1. /\ f \in DOMAIN plan /\ By(f) = c /\ UNCHANGED plan
      /\ \A g \in Frames \ {f} : step'[g] = step[g]
  BY HandleProgress DEF TalkInv, Progress
<1>2. CASE (\E i \in Ids : Register(c, f, i)) \/ FetchHistory(c, f)
  BY <1>2, PagesRegister, PagesFetch
<1>3. CASE ~((\E i \in Ids : Register(c, f, i)) \/ FetchHistory(c, f))
  <2>1. /\ UNCHANGED <<cid, regAt, pages>>
    BY <1>3 DEF Handle, Close, RefuseFrame, TakeRegister, TakeVoice, RequestVoiceTokens,
       AskContact, TakeMessage, PostMessage, SaveHistory, GetPDPStarters, AskStarters, TryAcquire,
       TakeCart, TakeUTM, parts, talk, startersVars
  <2>2. step'[f] \notin {"new", "page"} /\ (step'[f] = "look" => step[f] = "new")
    BY <1>3 DEF Handle, Close, RefuseFrame, TakeRegister, TakeVoice, RequestVoiceTokens,
       AskContact, TakeMessage, PostMessage, SaveHistory, GetPDPStarters,
       TakeCart, TakeUTM, Comes, Takes, NextFrame, TalkInv, RequestSingleUseTokens, Outcomes,
       VerifyContactTimeout, GetProjectLanguage, SetCustomField
  <2>3. stamp' \in [Frames -> Nat] /\ clock' \in Nat
    <3>1. CASE TakeMessage(c, f)
      BY <3>1, StampKeeps DEF TakeMessage
    <3>2. CASE ~TakeMessage(c, f)
      <4>1. UNCHANGED <<stamp, clock>>
        BY <1>3, <3>2
           DEF Handle, Close, RefuseFrame, TakeRegister, TakeVoice, RequestVoiceTokens,
               AskContact, PostMessage, SaveHistory, GetPDPStarters, TakeCart, TakeUTM, talk
      <4> QED BY <4>1 DEF PagesInv
    <3> QED BY <3>1, <3>2
  <2>4. UNCHANGED <<history, late>> \/ Store(f)
    BY <1>3 DEF Handle, Close, RefuseFrame, TakeRegister, TakeVoice, RequestVoiceTokens,
       AskContact, TakeMessage, PostMessage, SaveHistory, GetPDPStarters,
       TakeCart, TakeUTM, talk
  <2>5. \A g \in DOMAIN plan : \/ step'[g] = step[g] \/ step'[g] \notin {"new", "look", "page"}
                               \/ (step'[g] = "look" /\ step[g] = "new")
    BY <1>1, <2>2, PlanParts DEF TalkInv
  <2>6. /\ late \subseteq late' /\ history' \in Seq(Nat)
        /\ \A d \in Conns \ late' : \A n \in Nat : Page(regAt[d], n)' = Page(regAt[d], n)
    BY <2>1, <2>4, StoreKeeps, PagesUnmoved
  <2> QED BY <1>1, <2>1, <2>3, <2>5, <2>6, PagesStay
<1> QED BY <1>2, <1>3

LEMMA PagesStep ==
  ASSUME OneRegister, TalkInv, PagesInv, [Next]_framesVars
  PROVE  PagesInv'
<1>1. ASSUME UNCHANGED <<plan, step, cid, regAt, pages>>,
             stamp' \in [Frames -> Nat], clock' \in Nat,
             UNCHANGED <<history, late>> \/ \E f \in Frames : Store(f)
      PROVE  PagesInv'
  <2>1. /\ late \subseteq late' /\ history' \in Seq(Nat)
        /\ \A c \in Conns \ late' : \A n \in Nat : Page(regAt[c], n)' = Page(regAt[c], n)
    BY <1>1, StoreKeeps, PagesUnmoved
  <2> QED BY <1>1, <2>1, PagesStay
<1>2. ASSUME NEW f \in Frames, CartTask(f) PROVE PagesInv'
  <2>1. UNCHANGED <<plan, step, cid, regAt, pages>>
    BY <1>2 DEF CartTask, Beside, startersVars
  <2>2. stamp' \in [Frames -> Nat] /\ clock' \in Nat
    <3>1. Stamp(f) \/ UNCHANGED <<stamp, clock>>
      BY <1>2 DEF CartTask
    <3> QED BY <3>1, StampKeeps DEF PagesInv
  <2>3. UNCHANGED <<history, late>> \/ Store(f)
    BY <1>2 DEF CartTask
  <2> QED BY <1>1, <2>1, <2>2, <2>3
<1>3. CASE \/ \E f \in Frames : LookUp(f) \/ StartersTask(f)
           \/ \E e \in Caches : CacheExpires(e)
           \/ Shopper \/ Configure \/ UNCHANGED framesVars
  <2>1. UNCHANGED <<plan, step, cid, regAt, pages, stamp, clock, history, late>>
    BY <1>3
       DEF LookUp, StartersTask, InTask, StartTask, GetStarters, SendStarters, Release, DeleteGuard,
           CacheExpires, Shopper, Configure, framesVars, parts, talk, Beside, startersVars
  <2>2. stamp' \in [Frames -> Nat] /\ clock' \in Nat
    BY <2>1 DEF PagesInv
  <2> QED BY <1>1, <2>1, <2>2
<1> QED BY <1>2, <1>3, PagesHandle DEF Next

\* What two pages of the same history show.
LEMMA PagesShow ==
  ASSUME history \in Seq(Nat), NEW b, NEW i \in Nat, NEW j \in Nat,
         NEW S \in Page(b, i), NEW R \in Page(b, j)
  PROVE  /\ i = j => \A n \in S \cup R :
              Cardinality(SameSecond(n, S)) = Cardinality(SameSecond(n, R))
         /\ i < j => /\ \A m \in S, n \in R : history[m] >= history[n]
                     /\ \A n \in S \cap R : SameSecond(n, DOMAIN history) # {n}
<1> DEFINE O == Older(b)
<1>1. /\ S \subseteq O /\ R \subseteq O /\ O \subseteq DOMAIN history /\ IsFiniteSet(O)
      /\ \A n \in O : history[n] \in Nat
  <2>1. DOMAIN history = 1..Len(history) /\ Len(history) \in Nat
    OBVIOUS
  <2>2. IsFiniteSet(DOMAIN history)
    BY <2>1, FS_Interval
  <2>3. O \subseteq DOMAIN history /\ S \subseteq O /\ R \subseteq O
    BY DEF Older, Page
  <2> QED BY <2>2, <2>3, FS_Subset
<1>2. ASSUME NEW n \in O
      PROVE  /\ Cardinality(SameSecond(n, S)) = Cardinality(Ranks(n, O) \cap Window(i))
             /\ Cardinality(SameSecond(n, R)) = Cardinality(Ranks(n, O) \cap Window(j))
  BY DEF Page
<1>3. i = j => \A n \in S \cup R : Cardinality(SameSecond(n, S)) = Cardinality(SameSecond(n, R))
  BY <1>1, <1>2
<1> DEFINE first(n) == Cardinality(Newer(n, O))
           many(n) == Cardinality(SameSecond(n, O))
<1>4. ASSUME NEW n \in O
      PROVE  first(n) \in Nat /\ many(n) \in Nat /\ IsFiniteSet(Newer(n, O)) /\ IsFiniteSet(SameSecond(n, O))
  BY <1>1, FS_Subset, FS_CardinalityType DEF Newer, SameSecond
<1>5. \A n \in S : first(n) <= i - 1 /\ i - 1 <= first(n) + many(n) - 1
  <2> SUFFICES ASSUME NEW n \in S PROVE first(n) <= i - 1 /\ i - 1 <= first(n) + many(n) - 1
    OBVIOUS
  <2>1. n \in SameSecond(n, S) /\ IsFiniteSet(SameSecond(n, S))
    BY <1>1, FS_Subset DEF SameSecond
  <2>2. Cardinality(SameSecond(n, S)) # 0
    BY <2>1, FS_EmptySet
  <2>3. Ranks(n, O) \cap Window(i) # {}
    <3>1. n \in O
      BY <1>1
    <3>2. Cardinality(SameSecond(n, S)) = Cardinality(Ranks(n, O) \cap Window(i))
      BY <1>2, <3>1
    <3>3. Cardinality({}) = 0
      BY FS_EmptySet
    <3> HIDE DEF O
    <3> QED BY <2>2, <3>2, <3>3
  <2> QED BY <1>1, <1>4, <2>3 DEF Ranks, Window, Limit
<1>6. \A n \in R : first(n) <= j - 1 /\ j - 1 <= first(n) + many(n) - 1
  <2> SUFFICES ASSUME NEW n \in R PROVE first(n) <= j - 1 /\ j - 1 <= first(n) + many(n) - 1
    OBVIOUS
  <2>1. n \in SameSecond(n, R) /\ IsFiniteSet(SameSecond(n, R))
    BY <1>1, FS_Subset DEF SameSecond
  <2>2. Cardinality(SameSecond(n, R)) # 0
    BY <2>1, FS_EmptySet
  <2>3. Ranks(n, O) \cap Window(j) # {}
    <3>1. n \in O
      BY <1>1
    <3>2. Cardinality(SameSecond(n, R)) = Cardinality(Ranks(n, O) \cap Window(j))
      BY <1>2, <3>1
    <3>3. Cardinality({}) = 0
      BY FS_EmptySet
    <3> HIDE DEF O
    <3> QED BY <2>2, <3>2, <3>3
  <2> QED BY <1>1, <1>4, <2>3 DEF Ranks, Window, Limit
<1>7. ASSUME i < j, NEW m \in S, NEW n \in R, history[n] > history[m]
      PROVE  FALSE
  <2>1. m \in O /\ n \in O
    BY <1>1
  <2>2. /\ Newer(n, O) \cup SameSecond(n, O) \subseteq Newer(m, O)
        /\ Newer(n, O) \cap SameSecond(n, O) = {}
    BY <1>1, <1>7, <2>1 DEF Newer, SameSecond
  <2>3. /\ Cardinality(Newer(n, O) \cup SameSecond(n, O)) = first(n) + many(n) - 0
        /\ Cardinality(Newer(n, O) \cup SameSecond(n, O)) <= first(m)
    BY <1>4, <2>1, <2>2, FS_Union, FS_Subset, FS_EmptySet
  <2> HIDE DEF first, many, O
  <2> QED BY <1>4, <1>5, <1>6, <1>7, <2>1, <2>3
<1>8. ASSUME i < j, NEW n \in S \cap R, SameSecond(n, DOMAIN history) = {n}
      PROVE  FALSE
  <2>1. n \in O /\ SameSecond(n, O) = {n}
    BY <1>1, <1>8 DEF SameSecond
  <2>2. many(n) = 1
    BY <2>1, FS_Singleton
  <2> HIDE DEF first, many, O
  <2> QED BY <1>4, <1>5, <1>6, <1>8, <2>1, <2>2
<1>9. ASSUME i < j PROVE \A m \in S, n \in R : history[m] >= history[n]
  BY <1>1, <1>7, <1>9
<1> QED BY <1>3, <1>8, <1>9

\* While messages come and go, a page of the history shows as many messages of a
\* second as it did, a later page nothing newer than an earlier one, and both the
\* same message only if another is of its second, for any number of connections
\* that register once: all that can change them is a message stored after the
\* registration that was stamped before it.
THEOREM PagesSafe ==
  ASSUME OneRegister
  PROVE  Spec => []PagesStable
<1>1. ASSUME Init PROVE PagesInv
  <2>1. /\ stamp = [f \in Frames |-> 0] /\ clock = 3 /\ pages = [c \in Conns |-> {}]
        /\ history = <<1, 2>>
        /\ step = [f \in Frames |-> "new"] /\ cid \in [Conns -> Ids \cup {NoId}]
        /\ \A c \in Conns : (cid[c] = NoId) <=> Sends(c, "register")
        /\ regAt = [c \in Conns |-> IF cid[c] = NoId THEN 0 ELSE clock] /\ plan \in Plans
    BY <1>1 DEF Init, StartersInit
  <2>2. /\ stamp \in [Frames -> Nat] /\ clock \in Nat /\ history \in Seq(Nat)
        /\ \A c \in Conns : pages[c] = {}
        /\ \A f \in Frames : step[f] = "new"
    BY <2>1
  <2>3. /\ cid = [c \in Conns |-> cid[c]] /\ pages = [c \in Conns |-> pages[c]]
        /\ regAt = [c \in Conns |-> regAt[c]]
    <3>1. pages = [c \in Conns |-> pages[c]]
      BY <2>1, Zenon
    <3>2. regAt = [c \in Conns |-> regAt[c]]
      BY <2>1, Zenon
    <3> QED BY <2>1, <3>1, <3>2
  <2>4. ASSUME NEW f \in DOMAIN plan, Kind(f) = "register" PROVE cid[By(f)] = NoId
    BY <2>1, <2>4, PlanParts DEF Sends
  <2>5. \A f \in DOMAIN plan : step[f] # "page"
    BY <2>1, <2>2, PlanParts
  <2> QED BY <2>2, <2>3, <2>4, <2>5 DEF PagesInv
<1>2. ASSUME Init PROVE TalkInv
  BY <1>2, TalkInit
<1>3. ASSUME PagesInv PROVE PagesStable
  <2> SUFFICES ASSUME NEW c \in Conns \ late, NEW p \in pages[c], NEW q \in pages[c]
               PROVE  /\ p[1] = q[1] => \A n \in p[2] \cup q[2] :
                           Cardinality(SameSecond(n, p[2])) = Cardinality(SameSecond(n, q[2]))
                      /\ p[1] < q[1] =>
                           /\ \A m \in p[2], n \in q[2] : history[m] >= history[n]
                           /\ \A n \in p[2] \cap q[2] : SameSecond(n, DOMAIN history) # {n}
    BY DEF PagesStable
  <2>1. PICK n \in Nat : \E S \in Page(regAt[c], n) : p = <<n, S>>
    BY <1>3 DEF PagesInv, Shows
  <2>2. PICK m \in Nat : \E S \in Page(regAt[c], m) : q = <<m, S>>
    BY <1>3 DEF PagesInv, Shows
  <2>3. p[1] = n /\ p[2] \in Page(regAt[c], n) /\ q[1] = m /\ q[2] \in Page(regAt[c], m)
    BY <2>1, <2>2
  <2>4. history \in Seq(Nat)
    BY <1>3 DEF PagesInv
  <2> QED BY <2>3, <2>4, PagesShow
<1> QED BY <1>1, <1>2, <1>3, TalkStep, PagesStep, PTL DEF Spec

----------------------------------------------------------------------------
(* CartAccounts.                                                           *)

\* What the order form and its requests do, whatever goes on around them.
CartNext ==
  \/ \E r \in Orders :
       \/ \E data \in Wishes : AddToCart(r, data)
       \/ \E s \in Sources \cup {NoSource} : SendUTM(r, s)
       \/ channelUsesMarketingTags(r) \/ InOrderTask(r)
  \/ ShopperShops \/ EnterCoupon

LEMMA NextIsCart == [Next]_framesVars => [CartNext]_cartVars
<1> SUFFICES ASSUME [Next]_framesVars
             PROVE  CartNext \/ UNCHANGED cartVars
  OBVIOUS
<1>1. ASSUME NEW c \in Conns, NEW f \in Frames, Handle(c, f)
      PROVE  CartNext \/ UNCHANGED cartVars
  <2>1. CASE TakeCart(c, f) \/ TakeUTM(c, f)
    BY <2>1, FramesAssumption DEF TakeCart, TakeUTM, CartNext
  <2>2. CASE ~(TakeCart(c, f) \/ TakeUTM(c, f))
    BY <1>1, <2>2
       DEF Handle, Close, RefuseFrame, TakeRegister, Register, TakeVoice, RequestVoiceTokens,
           AskContact, TakeMessage, PostMessage, SaveHistory, FetchHistory, GetPDPStarters, parts
  <2> QED BY <2>1, <2>2
<1>2. CASE (\E f \in Frames : CartTask(f)) \/ Shopper
  BY <1>2, FramesAssumption DEF CartTask, Shopper, CartNext
<1>3. CASE \/ \E f \in Frames : LookUp(f) \/ StartersTask(f)
           \/ \E e \in Caches : CacheExpires(e)
           \/ Configure \/ UNCHANGED framesVars
  BY <1>3 DEF LookUp, StartersTask, CacheExpires, Configure, framesVars, parts
<1> QED BY <1>1, <1>2, <1>3 DEF Next

LEMMA CartTypesStep == CartTypes /\ [CartNext]_cartVars => CartTypes'
<1> SUFFICES ASSUME CartTypes, [CartNext]_cartVars PROVE CartTypes'
  OBVIOUS
<1>1. CASE UNCHANGED cartVars
  BY <1>1 DEF CartTypes, CartTypeOK, Fits, cartVars, formVars
<1>2. ASSUME NEW r \in Orders, NEW data \in Wishes, AddToCart(r, data) PROVE CartTypes'
  BY <1>2, AskTypes
<1>3. ASSUME NEW r \in Orders, InOrderTask(r) PROVE CartTypes'
  BY <1>3, ReadTypes, WriteTypes, UtmTypes DEF InOrderTask
<1>4. ASSUME NEW r \in Orders,
             \/ \E s \in Sources \cup {NoSource} : SendUTM(r, s)
             \/ channelUsesMarketingTags(r)
      PROVE  CartTypes'
  BY <1>4, UtmTypes
<1>5. CASE ShopperShops \/ EnterCoupon
  BY <1>5, ShopperTypes
<1> QED BY <1>1, <1>2, <1>3, <1>4, <1>5 DEF CartNext

LEMMA CartBooksStep ==
  ASSUME IsFiniteSet(Orders), CartBooks, [CartNext]_cartVars
  PROVE  CartBooks'
<1>1. CASE UNCHANGED cartVars
  <2>1. /\ UNCHANGED <<lines, own, op, mixed, crossed>> /\ CartTypes'
    BY <1>1, CartTypesStep DEF CartBooks, cartVars, formVars
  <2> QED BY <2>1 DEF CartBooks, InCart, Low, High, Steady
<1>2. ASSUME NEW r \in Orders, NEW data \in Wishes, AddToCart(r, data) PROVE CartBooks'
  BY <1>2, AskBooks
<1>3. ASSUME NEW r \in Orders, InOrderTask(r) PROVE CartBooks'
  BY <1>3, ReadBooks, UpdateBooks, AddBooks, StillBooks, UtmBooks DEF InOrderTask
<1>4. ASSUME NEW r \in Orders,
             \/ \E s \in Sources \cup {NoSource} : SendUTM(r, s)
             \/ channelUsesMarketingTags(r)
      PROVE  CartBooks'
  BY <1>4, UtmBooks
<1>5. CASE ShopperShops \/ EnterCoupon
  BY <1>5, ShopBooks
<1> QED BY <1>1, <1>2, <1>3, <1>4, <1>5 DEF CartNext

\* What requests that were answered with cart_updated asked for is in the cart, on
\* top of the shopper's own, and nothing that nobody asked for, for any products,
\* lists, stock and number of requests, and whatever call fails: but for products
\* that a list could not tell apart, and as long as nobody wrote the cart between
\* a request's reading and its update.
THEOREM CartSafe == Spec => []CartAccounts
<1>1. IsFiniteSet(Orders)
  BY StartersAssumption, FramesAssumption DEF Frames
<1>2. Init => CartBooks
  BY <1>1, StartBooks DEF Init
<1>3. CartBooks /\ [Next]_framesVars => CartBooks'
  BY <1>1, NextIsCart, CartBooksStep
<1>4. CartBooks => CartAccounts
  BY <1>1, BooksSay
<1> QED BY <1>2, <1>3, <1>4, PTL DEF Spec

----------------------------------------------------------------------------
(* TypeOK.                                                                 *)

\* Lookups and caches hold what their kind of cache does.
LooksInv ==
  /\ LooksTypeOK
  /\ flows = [e \in Caches |-> flows[e]] /\ cache = [e \in Caches |-> cache[e]]

LEMMA LooksAre ==
  ASSUME NEW e \in Caches, NEW where \in {"fetch", "store", "done"},
         NEW v \in Values(e) \cup {NoEntry}
  PROVE  [pc |-> where, of |-> e, value |-> v] \in Looks
<1> DEFINE S(d) == [pc : {"fetch", "store", "done"}, of : {d}, value : Values(d) \cup {NoEntry}]
           o == [pc |-> where, of |-> e, value |-> v]
<1>1. o \in S(e)
  OBVIOUS
<1> HIDE DEF o
<1>2. o \in UNION {S(d) : d \in Caches}
  BY <1>1
<1> QED BY <1>2 DEF Looks, o

LEMMA LookIs ==
  ASSUME NEW o \in Looks, o.pc # "new"
  PROVE  /\ o.of \in Caches /\ o.value \in Values(o.of) \cup {NoEntry}
         /\ o.pc \in {"fetch", "store", "done"}
         /\ o = [pc |-> o.pc, of |-> o.of, value |-> o.value]
<1>1. o # Unasked
  BY DEF Unasked
<1>2. PICK e \in Caches :
        o \in [pc : {"fetch", "store", "done"}, of : {e}, value : Values(e) \cup {NoEntry}]
  BY <1>1 DEF Looks
<1> QED BY <1>2

LEMMA CountsOk ==
  ASSUME LooksInv
  PROVE  /\ Heard \/ Lost => losses' \in 0..MaxLosses
         /\ changes < MaxChanges /\ changes' = changes + 1 => changes' \in 0..MaxChanges
<1>1. /\ changes \in 0..MaxChanges /\ losses \in 0..MaxLosses
      /\ MaxChanges \in Nat /\ MaxLosses \in Nat
  BY LookupsAssumption DEF LooksInv, LooksTypeOK
<1> QED BY <1>1 DEF Heard, Lost

\* A lookup moves on.
LEMMA LooksMove ==
  ASSUME LooksInv, NEW l \in Lookers, NEW o \in Looks, look' = [look EXCEPT ![l] = o],
         Heard \/ Lost, UNCHANGED <<flows, cache, changes>>
  PROVE  LooksInv'
<1>1. look' \in [Lookers -> Looks]
  BY DEF LooksInv, LooksTypeOK
<1>2. losses' \in 0..MaxLosses
  BY CountsOk
<1> QED BY <1>1, <1>2 DEF LooksInv, LooksTypeOK

LEMMA LooksRead ==
  ASSUME LooksInv, NEW l \in Lookers, NEW e \in Caches, ReadCache(l, e)
  PROVE  LooksInv'
<1>1. PICK where \in {"fetch", "done"}, v \in {NoEntry, cache[e]} :
        look' = [look EXCEPT ![l] = [pc |-> where, of |-> e, value |-> v]]
  BY DEF ReadCache
<1>2. v \in Values(e) \cup {NoEntry}
  BY DEF LooksInv, LooksTypeOK
<1>3. [pc |-> where, of |-> e, value |-> v] \in Looks
  BY <1>2, LooksAre
<1>4. (Heard \/ Lost) /\ UNCHANGED <<flows, cache, changes>>
  BY DEF ReadCache
<1> QED BY <1>1, <1>3, <1>4, LooksMove

LEMMA LooksAsk ==
  ASSUME LooksInv, NEW l \in Lookers, AskFlows(l)
  PROVE  LooksInv'
<1> DEFINE e == look[l].of
<1>1. look[l] \in Looks /\ look[l].pc = "fetch"
  BY DEF LooksInv, LooksTypeOK, AskFlows
<1>2. e \in Caches
  BY <1>1, LookIs
<1>3. PICK where \in {"store", "done"}, v \in {flows[e], NoKey, NoEntry} :
        /\ look' = [look EXCEPT ![l] = [pc |-> where, of |-> e, value |-> v]]
        /\ v = NoKey => e = "key" \/ v = flows[e]
  <2>1. \/ look' = [look EXCEPT ![l] = [pc |-> "store", of |-> e, value |-> flows[e]]]
        \/ e = "key" /\ look' = [look EXCEPT ![l] = [pc |-> "store", of |-> e, value |-> NoKey]]
        \/ look' = [look EXCEPT ![l] = [pc |-> "done", of |-> e, value |-> NoEntry]]
    BY DEF AskFlows
  <2>2. NoEntry # NoKey
    BY DEF NoEntry, NoKey
  <2> HIDE DEF e
  <2> QED BY <2>1, <2>2
<1>4. v \in Values(e) \cup {NoEntry}
  BY <1>2, <1>3 DEF LooksInv, LooksTypeOK, Values
<1>5. [pc |-> where, of |-> e, value |-> v] \in Looks
  BY <1>2, <1>4, LooksAre
<1>6. (Heard \/ Lost) /\ UNCHANGED <<flows, cache, changes>>
  BY DEF AskFlows
<1> QED BY <1>3, <1>5, <1>6, LooksMove

LEMMA LooksWrite ==
  ASSUME LooksInv, NEW l \in Lookers, WriteCache(l)
  PROVE  LooksInv'
<1> DEFINE e == look[l].of
           v == look[l].value
<1>1. look[l] \in Looks /\ look[l].pc = "store" /\ look' = [look EXCEPT ![l].pc = "done"]
  BY DEF LooksInv, LooksTypeOK, WriteCache
<1>2. e \in Caches /\ v \in Values(e) \cup {NoEntry} /\ look[l] = [pc |-> "store", of |-> e, value |-> v]
  BY <1>1, LookIs
<1>3. look' = [look EXCEPT ![l] = [pc |-> "done", of |-> e, value |-> v]]
  <2>1. look' = [look EXCEPT ![l] = [look[l] EXCEPT !.pc = "done"]]
    BY <1>1
  <2>2. [look[l] EXCEPT !.pc = "done"] = [pc |-> "done", of |-> e, value |-> v]
    BY <1>2
  <2> QED BY <2>1, <2>2
<1>4. [pc |-> "done", of |-> e, value |-> v] \in Looks
  BY <1>2, LooksAre
<1>5. look' \in [Lookers -> Looks]
  BY <1>3, <1>4 DEF LooksInv, LooksTypeOK
<1>6. losses' \in 0..MaxLosses /\ UNCHANGED <<flows, changes>>
  BY CountsOk DEF WriteCache
<1>7. /\ cache' = [d \in Caches |-> cache'[d]]
      /\ \A d \in Caches : cache'[d] \in Values(d) \cup {NoEntry}
  <2>1. UNCHANGED cache \/ cache' = [cache EXCEPT ![e] = v]
    BY DEF WriteCache
  <2> QED BY <1>2, <2>1 DEF LooksInv, LooksTypeOK
<1> QED BY <1>5, <1>6, <1>7 DEF LooksInv, LooksTypeOK

LEMMA LooksExpire ==
  ASSUME LooksInv, NEW e \in Caches, Expire(e)
  PROVE  LooksInv'
BY DEF LooksInv, LooksTypeOK, Expire

LEMMA LooksChange ==
  ASSUME LooksInv, FlowsChanges
  PROVE  LooksInv'
<1>1. changes' \in 0..MaxChanges /\ UNCHANGED <<cache, look, losses>>
  BY CountsOk DEF FlowsChanges
<1>2. CASE \E k \in Values("key") : flows' = [flows EXCEPT !["key"] = k]
  BY <1>1, <1>2 DEF LooksInv, LooksTypeOK
<1>3. CASE \E d \in Lists : flows' = [e \in Caches |-> IF e = "key" THEN flows[e] ELSE d]
  <2>1. PICK d \in Lists : flows' = [e \in Caches |-> IF e = "key" THEN flows[e] ELSE d]
    BY <1>3
  <2>2. /\ flows' = [e \in Caches |-> flows'[e]]
        /\ \A e \in Caches : flows'[e] \in Values(e)
    BY <2>1 DEF LooksInv, LooksTypeOK, Values
  <2> QED BY <1>1, <2>2 DEF LooksInv, LooksTypeOK
<1> QED BY <1>2, <1>3 DEF FlowsChanges

LEMMA LooksStep == LooksInv /\ [Next]_framesVars => LooksInv'
<1> SUFFICES ASSUME LooksInv, [Next]_framesVars PROVE LooksInv'
  OBVIOUS
<1>0. UNCHANGED lookVars => LooksInv'
  BY DEF LooksInv, LooksTypeOK, lookVars
<1>1. ASSUME NEW c \in Conns, NEW f \in Frames, Handle(c, f) PROVE LooksInv'
  <2>1. CASE TakeVoice(c, f) \/ \E pod \in Caches : TakeRegister(c, f, pod)
    BY <2>1, LooksRead, FramesAssumption DEF TakeVoice, TakeRegister
  <2>2. CASE ~(TakeVoice(c, f) \/ \E pod \in Caches : TakeRegister(c, f, pod))
    BY <1>0, <1>1, <2>2
       DEF Handle, Close, RefuseFrame, Register, RequestVoiceTokens, AskContact, TakeMessage,
           PostMessage, SaveHistory, FetchHistory, GetPDPStarters, TakeCart, TakeUTM, parts
  <2> QED BY <2>1, <2>2
<1>2. ASSUME NEW f \in Frames, LookUp(f) PROVE LooksInv'
  BY <1>2, LooksAsk, LooksWrite, FramesAssumption DEF LookUp
<1>3. CASE \/ \E f \in Frames : StartersTask(f) \/ CartTask(f)
           \/ Shopper \/ UNCHANGED framesVars
  BY <1>0, <1>3 DEF StartersTask, CartTask, Shopper, framesVars, parts
<1>4. CASE (\E e \in Caches : CacheExpires(e)) \/ Configure
  BY <1>4, LooksExpire, LooksChange DEF CacheExpires, Configure
<1> QED BY <1>1, <1>2, <1>3, <1>4 DEF Next

\* What the readers keep.
ReaderTypes == plan \in Plans /\ step \in [Frames -> Steps] /\ closed \subseteq Conns
PagesTypes  == pages \in [Conns -> SUBSET (Nat \X SUBSET DOMAIN history)]
TalkTypes ==
  /\ ReaderTypes /\ PagesTypes
  /\ stamp \in [Frames -> Nat] /\ clock \in Nat /\ regAt \in [Conns -> Nat]
  /\ history \in Seq(Nat) /\ late \subseteq Conns

\* A step of a reader moves a frame on, and stamps and stores what it is about.
LEMMA FrameMoves ==
  ASSUME TalkTypes, NEW f \in Frames, NEW where \in Steps, Comes(f, where)
  PROVE  ReaderTypes'
BY DEF TalkTypes, ReaderTypes, Comes

LEMMA Stamps ==
  ASSUME TalkTypes, NEW f \in Frames
  PROVE  /\ Passes => clock' \in Nat
         /\ Stamp(f) => clock' \in Nat /\ stamp' \in [Frames -> Nat]
         /\ Store(f) => /\ history' \in Seq(Nat) /\ late' \subseteq Conns
                        /\ DOMAIN history \subseteq DOMAIN history'
<1>1. Passes => clock' \in Nat
  BY PassesOk DEF TalkTypes
<1>2. stamp[f] \in Nat /\ history \in Seq(Nat)
  BY DEF TalkTypes
<1>3. Append(history, stamp[f]) \in Seq(Nat) /\ DOMAIN history \subseteq DOMAIN Append(history, stamp[f])
  BY <1>2, AppendProperties
<1>4. Stamp(f) => clock' \in Nat /\ stamp' \in [Frames -> Nat]
  BY <1>1 DEF Stamp, TalkTypes
<1> QED BY <1>1, <1>3, <1>4 DEF Store, TalkTypes

LEMMA PagesGrow ==
  ASSUME TalkTypes, DOMAIN history \subseteq DOMAIN history', UNCHANGED pages
  PROVE  PagesTypes'
<1> DEFINE P == Nat \X SUBSET DOMAIN history
           Q == Nat \X SUBSET DOMAIN history'
<1>1. P \subseteq Q
  OBVIOUS
<1>2. P \subseteq Q /\ pages \in [Conns -> SUBSET P]
  BY <1>1 DEF TalkTypes, PagesTypes
<1> HIDE DEF P, Q
<1>3. pages \in [Conns -> SUBSET Q]
  BY <1>2
<1> QED BY <1>3 DEF PagesTypes, Q

LEMMA HandleTypes ==
  ASSUME TalkTypes, NEW c \in Conns, NEW f \in Frames, Handle(c, f)
  PROVE  TalkTypes'
<1>1. ASSUME NEW where \in Steps, Comes(f, where), UNCHANGED talk PROVE TalkTypes'
  BY <1>1, FrameMoves, PagesGrow DEF TalkTypes, talk
<1>2. CASE Close(c, f)
  <2>1. ReaderTypes' /\ UNCHANGED talk
    BY <1>2 DEF Close, TalkTypes, ReaderTypes, Steps, Over
  <2> QED BY <2>1, PagesGrow DEF TalkTypes, talk
<1>3. CASE \/ RefuseFrame(c, f) \/ TakeVoice(c, f) \/ TakeCart(c, f) \/ TakeUTM(c, f)
           \/ \E pod \in Caches : TakeRegister(c, f, pod)
  <2>1. UNCHANGED talk /\ \E where \in {"error", "look", "started", "ask"} : Comes(f, where)
    BY <1>3 DEF RefuseFrame, TakeVoice, TakeCart, TakeUTM, TakeRegister
  <2> QED BY <1>1, <2>1 DEF Steps, Over
<1>4. CASE RequestVoiceTokens(c, f) \/ AskContact(c, f) \/ GetPDPStarters(c, f)
  <2>1. UNCHANGED talk
        /\ \E where \in {"error", "tokens", "answered", "ask", "silent", "started"} : Comes(f, where)
    BY <1>4 DEF RequestVoiceTokens, AskContact, GetPDPStarters, RequestSingleUseTokens, Outcomes,
       VerifyContactTimeout, GetProjectLanguage, SetCustomField
  <2> QED BY <1>1, <2>1 DEF Steps, Over
<1>5. CASE \E i \in Ids : Register(c, f, i)
  <2>1. /\ \E where \in {"answered", "error"} : Comes(f, where)
        /\ UNCHANGED <<stamp, history, pages, late>>
        /\ \/ Passes /\ regAt' = [regAt EXCEPT ![c] = clock']
           \/ UNCHANGED <<clock, regAt>>
    BY <1>5 DEF Register
  <2>2. clock' \in Nat /\ regAt' \in [Conns -> Nat]
    BY <2>1, Stamps DEF TalkTypes
  <2>3. ReaderTypes'
    BY <2>1, FrameMoves DEF Steps, Over
  <2> QED BY <2>1, <2>2, <2>3, PagesGrow DEF TalkTypes
<1>6. CASE TakeMessage(c, f)
  <2>1. ReaderTypes'
    BY <1>6, FrameMoves DEF TakeMessage, Steps
  <2> QED BY <1>6, <2>1, Stamps, PagesGrow DEF TakeMessage, TalkTypes
<1>7. CASE PostMessage(c, f)
  <2>1. /\ \E where \in {"save", "silent", "error"} : Comes(f, where)
        /\ UNCHANGED <<stamp, clock, regAt, history, pages, late>>
    BY <1>7 DEF PostMessage
  <2>2. ReaderTypes'
    BY <2>1, FrameMoves DEF Steps, Over
  <2> QED BY <2>1, <2>2, PagesGrow DEF TalkTypes
<1>8. CASE SaveHistory(c, f)
  <2>1. /\ \E where \in {"answered", "error"} : Comes(f, where)
        /\ UNCHANGED <<stamp, clock, regAt, pages>>
        /\ Store(f) \/ UNCHANGED <<history, late>>
    BY <1>8 DEF SaveHistory
  <2>2. DOMAIN history \subseteq DOMAIN history' /\ history' \in Seq(Nat) /\ late' \subseteq Conns
    BY <2>1, Stamps DEF TalkTypes
  <2>3. ReaderTypes'
    BY <2>1, FrameMoves DEF Steps, Over
  <2> QED BY <2>1, <2>2, <2>3, PagesGrow DEF TalkTypes
<1>9. CASE FetchHistory(c, f)
  <2>1. /\ \E where \in {"page", "answered", "error"} : Comes(f, where)
        /\ UNCHANGED <<clock, regAt, history, late>>
    BY <1>9 DEF FetchHistory
  <2>2. stamp' \in [Frames -> Nat]
    BY <1>9 DEF FetchHistory, TalkTypes
  <2>3. \A before, page : Page(before, page) \subseteq SUBSET DOMAIN history
    BY DEF Page, Older
  <2>4. pages' \in [Conns -> SUBSET (Nat \X SUBSET DOMAIN history)]
    <3>1. CASE UNCHANGED pages
      BY <3>1 DEF TalkTypes, PagesTypes
    <3>2. CASE \E S \in Page(Before(c), stamp[f]) :
                 pages' = [pages EXCEPT ![c] = @ \cup {<<stamp[f], S>>}]
      <4>1. PICK S \in Page(Before(c), stamp[f]) :
               pages' = [pages EXCEPT ![c] = @ \cup {<<stamp[f], S>>}]
        BY <3>2
      <4>2. <<stamp[f], S>> \in Nat \X SUBSET DOMAIN history
        BY <2>3 DEF TalkTypes
      <4>3. pages[c] \cup {<<stamp[f], S>>} \in SUBSET (Nat \X SUBSET DOMAIN history)
        BY <4>2 DEF TalkTypes, PagesTypes
      <4> QED BY <4>1, <4>3 DEF TalkTypes, PagesTypes
    <3> QED BY <1>9, <3>1, <3>2 DEF FetchHistory
  <2>5. ReaderTypes'
    BY <2>1, FrameMoves DEF Steps, Over
  <2>6. PagesTypes'
    BY <2>1, <2>4 DEF PagesTypes
  <2> QED BY <2>1, <2>2, <2>5, <2>6 DEF TalkTypes
<1> QED BY <1>2, <1>3, <1>4, <1>5, <1>6, <1>7, <1>8, <1>9 DEF Handle

LEMMA TalkTypesStep == TalkTypes /\ [Next]_framesVars => TalkTypes'
<1> SUFFICES ASSUME TalkTypes, [Next]_framesVars PROVE TalkTypes'
  OBVIOUS
<1>1. ASSUME NEW f \in Frames, CartTask(f) PROVE TalkTypes'
  <2>1. /\ UNCHANGED <<plan, step, closed, regAt, pages>>
        /\ Stamp(f) \/ UNCHANGED <<stamp, clock>>
        /\ Store(f) \/ UNCHANGED <<history, late>>
    BY <1>1 DEF CartTask, Beside
  <2>2. /\ clock' \in Nat /\ stamp' \in [Frames -> Nat]
        /\ DOMAIN history \subseteq DOMAIN history' /\ history' \in Seq(Nat) /\ late' \subseteq Conns
    BY <2>1, Stamps DEF TalkTypes
  <2>3. ReaderTypes'
    BY <2>1 DEF TalkTypes, ReaderTypes
  <2> QED BY <2>1, <2>2, <2>3, PagesGrow DEF TalkTypes
<1>2. CASE \/ \E f \in Frames : LookUp(f) \/ StartersTask(f)
           \/ \E e \in Caches : CacheExpires(e)
           \/ Shopper \/ Configure \/ UNCHANGED framesVars
  <2>1. UNCHANGED <<plan, step, closed, talk>>
    BY <1>2 DEF LookUp, StartersTask, CacheExpires, Shopper, Configure, framesVars, Beside
  <2> QED BY <2>1, PagesGrow DEF TalkTypes, ReaderTypes, talk
<1> QED BY <1>1, <1>2, HandleTypes DEF Next

\* Every reachable state of the composition is well typed, and no page shows
\* what the history does not hold, for any frames of any number of connections.
THEOREM FramesTypeCorrect == Spec => []TypeOK
<1>1. Init => CartTypes
  BY StartTypes DEF Init
<1>2. CartTypes /\ [Next]_framesVars => CartTypes'
  BY NextIsCart, CartTypesStep
<1>3. ASSUME Init PROVE LooksInv
  <2>1. /\ flows \in [Caches -> UNION {Values(e) : e \in Caches}]
        /\ \A e \in Caches : flows[e] \in Values(e)
        /\ cache = [e \in Caches |-> NoEntry] /\ look = [l \in Lookers |-> Unasked]
        /\ changes = 0 /\ losses = 0
    BY <1>3 DEF Init, LooksInit
  <2>2. flows = [e \in Caches |-> flows[e]]
    <3> DEFINE V == UNION {Values(e) : e \in Caches}
    <3> HIDE DEF V
    <3> QED BY <2>1
  <2>3. /\ cache = [e \in Caches |-> cache[e]] /\ \A e \in Caches : cache[e] = NoEntry
    BY <2>1, Zenon
  <2>4. look \in [Lookers -> Looks]
    BY <2>1 DEF Looks
  <2>5. changes \in 0..MaxChanges /\ losses \in 0..MaxLosses
    BY <2>1, LookupsAssumption
  <2> QED BY <2>1, <2>2, <2>3, <2>4, <2>5 DEF LooksInv, LooksTypeOK
<1>4. ASSUME Init PROVE TalkTypes
  <2>1. /\ plan \in Plans /\ step = [f \in Frames |-> "new"] /\ closed = {}
        /\ stamp = [f \in Frames |-> 0] /\ clock = 3 /\ history = <<1, 2>>
        /\ regAt = [c \in Conns |-> IF cid[c] = NoId THEN 0 ELSE clock]
        /\ pages = [c \in Conns |-> {}] /\ late = {}
    BY <1>4 DEF Init
  <2> QED BY <2>1 DEF TalkTypes, ReaderTypes, PagesTypes, Steps
<1>5. CartTypes /\ LooksInv /\ TalkTypes /\ StartersTypeOK => TypeOK
  BY DEF CartTypes, LooksInv, TalkTypes, ReaderTypes, PagesTypes, TypeOK
<1>6. Spec => []StartersTypeOK
  BY FramesRefineStarters, StartersTypeCorrect
<1> QED BY <1>1, <1>2, <1>3, <1>4, <1>5, <1>6, LooksStep, TalkTypesStep, PTL DEF Spec

=============================================================================
