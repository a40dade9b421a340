-------------------------------- MODULE Cart --------------------------------
(***************************************************************************)
(* The VTEX order form of a shopper, changed from two sides: by add_to_cart*)
(* and send_utm, each a goroutine that reads the form over HTTP, computes, *)
(* and writes back, and by the shopper in the store.  Nothing serialises   *)
(* the goroutines, so what one read may be stale when it writes.  The      *)
(* store's side of each call is modelled from how the client uses it.      *)
(***************************************************************************)
EXTENDS Integers, Sequences, SequencesExt, FiniteSetsExt, Functions

CONSTANTS
  Orders,      \* bound: the add_to_cart and send_utm requests of a run
  Products,
  Names,       \* per product, what its lines answer to: the ID, product ID and
               \* reference of a line, each up to its "#"
  Wishes,      \* the item lists that are asked for: sequences of [id, qty], an
               \* id being a product with or without a "#" part
  Sources,     \* validUTMSources
  Stock,       \* what the cart holds at first: a sequence of [product, qty]
  MaxEdits, MaxFailures      \* bounds: the shopper's own changes, failed calls

NoSource == "no source"
Lines == Seq([product : Products, qty : Nat])

ASSUME CartAssumption ==
  /\ Names \in [Products -> SUBSET Products] /\ \A p \in Products : p \in Names[p]
  /\ NoSource \notin Sources /\ Stock \in Lines /\ {MaxEdits, MaxFailures} \subseteq Nat
  /\ \A data \in Wishes : data \in Seq([id : Products \X BOOLEAN, qty : Int])

VARIABLES
  lines,     \* Seq([product, qty]): the items of the order form
  market,    \* its marketing data: source, tags, and the shopper's coupon
  op,        \* [Orders -> Op]: the requests
  edits, failures,
  own,       \* history: what of each product the shopper put there
  entered,   \* history: the coupon that was entered last
  mixed,     \* history: which parts of the form were written on a stale read
  crossed    \* history: the products that some list could not tell apart

formVars == <<lines, market, own, entered, mixed, crossed>>
cartVars == <<formVars, op, edits, failures>>

Quiet  == [pc |-> "new"]
Market == [source : Sources \cup {NoSource}, tags : SUBSET Sources, coupon : 0..MaxEdits]

\* The pieces that some of the lines, or items, of a list are together.
Pieces(list, some) == SumFunctionOnSet([k \in some |-> list[k].qty], some)
InCart(p) == Pieces(lines, {k \in DOMAIN lines : lines[k].product = p})

CartInit ==
  /\ lines  = Stock
  /\ market = [source |-> NoSource, tags |-> {}, coupon |-> 0]
  /\ op     = [r \in Orders |-> Quiet]
  /\ edits  = 0
  /\ failures = 0
  /\ own    = [p \in Products |-> InCart(p)]
  /\ entered = 0
  /\ mixed  = {}
  /\ crossed = {}

----------------------------------------------------------------------------
(* Helpers.                                                                *)

OpAt(r, where) == op[r].pc = where
OpGoto(r, where) == op' = [op EXCEPT ![r].pc = where]

\* A call that fails, or runs out of its 30 seconds, may have been carried out.
CallFails == failures < MaxFailures /\ failures' = failures + 1
CallWorks == UNCHANGED failures

\* Where a request is that has read a part and is about to write it.
WriteStep == [items |-> "write items", marketing |-> "write marketing"]

\* Somebody writes a part of the form that others have read and not written.
Writes(part, others) ==
  mixed' = IF \E r \in others : op[r].pc = WriteStep[part]
           THEN mixed \cup {part} ELSE mixed

\* What follows "#" in an item id is cut off before ids are compared; ids that
\* begin with "#", which are not cut, are products of their own.
normalizeCartItemID(id) == id[1]

\* Quantities of one id are added up, in the place where it comes first; an empty
\* list or a quantity below one is refused.
ValidItems(data) == data # <<>> /\ \A k \in DOMAIN data : data[k].qty > 0
parseCartItems(data) ==
  LET Same(k) == {j \in DOMAIN data : data[j].id = data[k].id}
      First   == {k \in DOMAIN data : \A j \in Same(k) : k <= j}
  IN [k \in First |-> [id |-> data[k].id, qty |-> Pieces(data, Same(k))]]

\* The first line of the form that answers to this id, 0 when there is none.
findOrderFormItem(form, id) ==
  LET hits == {k \in DOMAIN form : normalizeCartItemID(id) \in Names[form[k].product]}
  IN IF hits = {} THEN 0 ELSE Min(hits)

\* Mutant: a known item is set to what was asked for.
NewQuantitySet(line, item) == item.qty
NewQuantity(line, item) == line.qty + item.qty

Known(form, items) == {k \in DOMAIN items : findOrderFormItem(form, items[k].id) # 0}
ToUpdate(form, items) ==
  [k \in Known(form, items) |->
    LET n == findOrderFormItem(form, items[k].id)
    IN [index |-> n, qty |-> NewQuantity(form[n], items[k])]]
ToAdd(form, items) == Restrict(items, DOMAIN items \ Known(form, items))

\* The products that an update for these items gets wrong: an item finds the line
\* of another product, or two find one line, of which the last sets the quantity.
Strays(form, items) ==
  LET At(k)     == findOrderFormItem(form, items[k].id)
      Parts(k)  == {normalizeCartItemID(items[k].id), form[At(k)].product}
      Shared(k) == \E j \in Known(form, items) \ {k} : At(j) = At(k)
  IN UNION {Parts(k) : k \in {k \in Known(form, items) :
              Shared(k) \/ normalizeCartItemID(items[k].id) # form[At(k)].product}}

\* Mutant: the tag takes the place of the others.
TagAlone(existing, tag) == {tag}
mergeMarketingTag(existing, tag) == existing \cup {tag}

----------------------------------------------------------------------------
(* The store.                                                              *)

\* Lines are updated by index, in order; an index that is not there is an error.
Applicable(updates) == \A k \in DOMAIN updates : updates[k].index \in DOMAIN lines
Updated(updates) ==
  LET For(n) == {k \in DOMAIN updates : updates[k].index = n}
  IN [n \in DOMAIN lines |->
       IF For(n) = {} THEN lines[n] ELSE [lines[n] EXCEPT !.qty = updates[Max(For(n))].qty]]

\* New lines, in some order, go before or after the ones that are there.
Orderings(S) == Bijection(1..Cardinality(S), S)
Added(items, order, atEnd) ==
  LET new == [n \in DOMAIN order |->
               [product |-> normalizeCartItemID(items[order[n]].id), qty |-> items[order[n]].qty]]
  IN IF atEnd THEN lines \o new ELSE new \o lines

\* The shopper takes a line out or buys one more of it, or enters a coupon.
ShopperShops ==
  /\ edits < MaxEdits /\ edits' = edits + 1
  /\ \E k \in DOMAIN lines :
       LET product == lines[k].product
       IN \/ /\ lines' = RemoveAt(lines, k)
             /\ own' = [own EXCEPT ![product] = @ - lines[k].qty]
          \/ /\ lines' = [lines EXCEPT ![k].qty = @ + 1]
             /\ own' = [own EXCEPT ![product] = @ + 1]
  /\ Writes("items", Orders)
  /\ UNCHANGED <<market, entered, crossed, op, failures>>

EnterCoupon ==
  /\ edits < MaxEdits /\ edits' = edits + 1
  /\ entered' = entered + 1
  /\ market' = [market EXCEPT !.coupon = entered']
  /\ Writes("marketing", Orders)
  /\ UNCHANGED <<lines, own, crossed, op, failures>>

----------------------------------------------------------------------------
(* add_to_cart.                                                            *)

\* A list that is refused is answered with an error, another starts a goroutine.
AddToCart(r, data) ==
  /\ OpAt(r, "new")
  /\ op' = [op EXCEPT ![r] =
       IF ValidItems(data) THEN [pc |-> "read items", items |-> parseCartItems(data)]
       ELSE [pc |-> "refused"]]
  /\ UNCHANGED <<formVars, edits, failures>>

\* AddOrUpdateCartItems reads the form and sorts the items by whether it has
\* them.  A request that would carry no items is not made.
ReadItems(r) ==
  /\ OpAt(r, "read items")
  /\ \/ CallFails /\ OpGoto(r, "fail cart") /\ UNCHANGED crossed
     \/ /\ CallWorks
        /\ op' = [op EXCEPT ![r] =
             [pc |-> IF Known(lines, @.items) = {} THEN "add items" ELSE "write items",
              items |-> @.items, updates |-> ToUpdate(lines, @.items),
              adds |-> ToAdd(lines, @.items)]]
        /\ crossed' = crossed \cup Strays(lines, op[r].items)
  /\ UNCHANGED <<lines, market, own, entered, mixed, edits>>

UpdateItems(r) ==
  /\ OpAt(r, "write items")
  /\ LET fits == Applicable(op[r].updates)
         next == IF DOMAIN op[r].adds = {} THEN "order" ELSE "add items"
     IN \/ CallWorks /\ fits /\ OpGoto(r, next)
           /\ lines' = Updated(op[r].updates) /\ Writes("items", Orders \ {r})
        \/ CallWorks /\ ~fits /\ OpGoto(r, "fail cart") /\ UNCHANGED <<lines, mixed>>
        \/ CallFails /\ OpGoto(r, "fail cart")
           /\ \/ fits /\ lines' = Updated(op[r].updates) /\ Writes("items", Orders \ {r})
              \/ UNCHANGED <<lines, mixed>>
  /\ UNCHANGED <<market, own, entered, crossed, edits>>

AddItems(r) ==
  /\ OpAt(r, "add items")
  /\ \/ \E order \in Orderings(DOMAIN op[r].adds), atEnd \in BOOLEAN :
          /\ lines' = Added(op[r].adds, order, atEnd) /\ Writes("items", Orders \ {r})
          /\ \/ CallWorks /\ OpGoto(r, "order")
             \/ CallFails /\ OpGoto(r, "fail cart")
     \/ CallFails /\ OpGoto(r, "fail cart") /\ UNCHANGED <<lines, mixed>>
  /\ UNCHANGED <<market, own, entered, crossed, edits>>

\* sendCartOrderCallback (its stamp and what it stores are in Frames); whatever
\* fails there is logged.
PostOrder(r) ==
  /\ OpAt(r, "order") /\ OpGoto(r, "tell updated")
  /\ CallWorks \/ CallFails
  /\ UNCHANGED <<formVars, edits>>

\* Mutant: a failure is logged and not answered.
AnswerGood(r) ==
  /\ OpAt(r, "tell updated") /\ OpGoto(r, "cart_updated")
  /\ UNCHANGED <<formVars, edits, failures>>

AnswerCart(r) ==
  /\ \/ OpAt(r, "tell updated") /\ OpGoto(r, "cart_updated")
     \/ OpAt(r, "fail cart") /\ OpGoto(r, "cart_error")
  /\ UNCHANGED <<formVars, edits, failures>>

----------------------------------------------------------------------------
(* send_utm.                                                               *)

SendUTM(r, source) ==
  /\ OpAt(r, "new")
  /\ op' = [op EXCEPT ![r] =
       IF source \in Sources THEN [pc |-> "flag", source |-> source]
       ELSE [pc |-> "refused"]]
  /\ UNCHANGED <<formVars, edits, failures>>

\* Still in the reader: Flows is asked whether the channel uses tags; a failure
\* means that it does not.
channelUsesMarketingTags(r) ==
  /\ OpAt(r, "flag")
  /\ \E tags \in BOOLEAN :
       /\ CallWorks \/ (CallFails /\ ~tags)
       /\ op' = [op EXCEPT ![r] =
            [pc |-> "read marketing", source |-> @.source, tags |-> tags]]
  /\ UNCHANGED <<formVars, edits>>

\* UpdateMarketingData reads the marketing data and posts all of it back.
ReadMarketing(r) ==
  /\ OpAt(r, "read marketing")
  /\ \/ CallFails /\ OpGoto(r, "fail utm")
     \/ /\ CallWorks
        /\ op' = [op EXCEPT ![r] =
             [pc |-> "write marketing", source |-> @.source, tags |-> @.tags,
              seen |-> market]]
  /\ UNCHANGED <<formVars, edits>>

WithSource(data, o) ==
  IF o.tags THEN [data EXCEPT !.tags = mergeMarketingTag(@, o.source)]
  ELSE [data EXCEPT !.source = o.source]

WriteMarketing(r) ==
  /\ OpAt(r, "write marketing")
  /\ \/ /\ market' = WithSource(op[r].seen, op[r]) /\ Writes("marketing", Orders \ {r})
        /\ \/ CallWorks /\ OpGoto(r, "tell sent")
           \/ CallFails /\ OpGoto(r, "fail utm")
     \/ CallFails /\ OpGoto(r, "fail utm") /\ UNCHANGED <<market, mixed>>
  /\ UNCHANGED <<lines, own, entered, crossed, edits>>

AnswerUTM(r) ==
  /\ \/ OpAt(r, "tell sent") /\ OpGoto(r, "utm_sent")
     \/ OpAt(r, "fail utm") /\ OpGoto(r, "utm_error")
  /\ UNCHANGED <<formVars, edits, failures>>

InOrderTask(r) ==
  \/ ReadItems(r) \/ UpdateItems(r) \/ AddItems(r) \/ PostOrder(r) \/ AnswerCart(r)
  \/ ReadMarketing(r) \/ WriteMarketing(r) \/ AnswerUTM(r)

----------------------------------------------------------------------------
(* Properties.                                                             *)

CartDone == {"refused", "cart_updated", "cart_error", "utm_sent", "utm_error"}
CartSteps == CartDone \cup
  {"new", "read items", "write items", "add items", "order", "tell updated",
   "fail cart", "flag", "read marketing", "write marketing", "tell sent", "fail utm"}

\* Every variable holds a value of its kind.
CartTypeOK ==
  /\ lines \in Lines /\ market \in Market
  /\ own \in [Products -> Int] /\ entered \in 0..MaxEdits /\ mixed \subseteq {"items", "marketing"}
  /\ \A r \in Orders : op[r].pc \in CartSteps
  /\ crossed \subseteq Products /\ edits \in 0..MaxEdits /\ failures \in 0..MaxFailures

Of(p, items) == {k \in DOMAIN items : normalizeCartItemID(items[k].id) = p}
Asked(r, p) == IF "items" \in DOMAIN op[r] THEN Pieces(op[r].items, Of(p, op[r].items)) ELSE 0
AskedBy(rs, p) == SumFunctionOnSet([r \in rs |-> Asked(r, p)], rs)

\* "adds new items or increments quantities for items that already exist": all
\* that requests answered with cart_updated asked for is in the cart, on top of
\* the shopper's own, and nothing that no request asked for; whatever fails.
\* Provided that nobody wrote the cart between a request's reading and its update,
\* and but for products that a list could not tell apart: two of its ids found
\* one line (of "mug#1" and "mug" the last is counted), or one found the line of
\* another product.
CartAccounts ==
  "items" \notin mixed =>
    \A p \in Products \ crossed :
      /\ InCart(p) >= own[p] + AskedBy({r \in Orders : OpAt(r, "cart_updated")}, p)
      /\ InCart(p) <= own[p] + AskedBy(Orders, p)

\* "preserving existing fields", "without removing other data": as long as
\* nobody wrote the marketing data in between, a source that was reported as
\* sent is still there, and so is the shopper's coupon, whatever fails.
MarketingKept ==
  "marketing" \notin mixed =>
    /\ market.coupon = entered
    /\ \A r \in Orders : OpAt(r, "utm_sent") =>
         IF op[r].tags THEN op[r].source \in market.tags ELSE market.source # NoSource
=============================================================================
